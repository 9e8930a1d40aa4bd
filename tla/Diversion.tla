------------------------------ MODULE Diversion ------------------------------
(***************************************************************************)
(* The diversion (struct output, liba2ps/output.c): the document is kept   *)
(* in memory until it is complete, with holes for what is known only then. *)
(* A hole is a NUL in the text of a chunk, and the next of its derivations *)
(* tells what to put there.                                                *)
(*                                                                         *)
(* The document is written as prolog.c, dsc.c and the pages do: its header *)
(* lists the resources (dsc.c) that the pages will ask for.                *)
(***************************************************************************)
EXTENDS Integers, Sequences, FiniteSets, SequencesExt, FiniteSetsExt, Functions, TLC

CONSTANTS
  Names,      (* of the resources, sorted                                  *)
  Known,      (* the fonts of the printer                                  *)
  MinContent, (* MIN_CONTENT, the size of a new chunk                      *)
  Margin,     (* DS_MARGIN: no text is that long                           *)
  MaxLines,   (* bound: the lines of the prologue                          *)
  MaxEvents   (* bound: what happens while the pages are written           *)

DiversionAssumption ==
  /\ Names \in Seq(ToSet(Names)) /\ IsInjective(Names)
  /\ MinContent \in Nat /\ Margin \in 1 .. MinContent /\ MaxLines \in Nat /\ MaxEvents \in Nat

VARIABLES
  outs,       (* job->divertion, job->status->setup, job->ps_encodings     *)
  resources,  (* needed_resources and supplied_resources                   *)
  labels,     (* the strings that the page labels point to                 *)
  sheets,     (* job->sheets                                               *)
  phase, steps,
  stream,     (* what was sent to the destination                          *)
  written     (* history: what was written in the diversion, holes too     *)

vars == <<outs, resources, labels, sheets, phase, steps, stream, written>>

Text(a, b, c) == [type |-> "text", arg |-> <<a, b, c>>]
Line(a) == Text(a, "", "")
Delayed(type, arg) == [type |-> type, arg |-> arg]
Routine(name) == Delayed("routine", name)
Nul == <<"NUL", "", "">>
-----------------------------------------------------------------------------
(* output_new, with the dynamic string of its text.                        *)
NewOutput ==
  [content |-> << >>, len |-> 0, size |-> MinContent, derivations |-> << >>, to_void |-> FALSE]

(* ds_grow, once: the size is doubled.                                     *)
Room(size, full) == IF full THEN 2 * size ELSE size

(* The longest text of output: ds_unsafe_cat_vsprintf does not look at its *)
(* length, but keeps DS_MARGIN free.                                       *)
Output(out, text) ==
  IF out.to_void THEN out
  ELSE [out EXCEPT !.content = Append(@, text), !.len = @ + Margin - 1,
                   !.size = Room(@, @ < out.len + Margin)]

(* ds_strccat                                                              *)
OutputChar(out, c) ==
  IF out.to_void THEN out
  ELSE [out EXCEPT !.content = Append(@, c), !.len = @ + 1, !.size = Room(@, out.len + 2 >= @)]

(* Mutant: only the NUL is lost in the void.                               *)
OutputDelayedAnyway(out, derivation) ==
  [OutputChar(out, Nul) EXCEPT !.derivations = Append(@, derivation)]

(* output_delayed_routine, output_delayed_size_t, output_delayed_string    *)
OutputDelayed(out, derivation) ==
  IF out.to_void THEN out
  ELSE [OutputChar(out, Nul) EXCEPT !.derivations = Append(@, derivation)]

Put(out, item) ==
  IF item.type = "text" THEN Output(out, item.arg) ELSE OutputDelayed(out, item)

(* What a piece of code writes in the diversion.                           *)
Puts(out, items) == FoldLeft(LAMBDA o, item : Put(o, item), out, items)
Divert(items) ==
  /\ outs' = [outs EXCEPT !.divertion = Puts(@, items)]
  /\ written' = IF outs.divertion.to_void THEN written ELSE written \o items
-----------------------------------------------------------------------------
(* multivalued_entry_get_sub_item, exist_resource                          *)
Values(table, type) == IF type \in DOMAIN table THEN table[type] ELSE {}

(* multivalued_entry_add_couple: the entry of a type is made with its      *)
(* first value.                                                            *)
Couple(table, type, value) ==
  [t \in DOMAIN table \cup {type} |-> Values(table, t) \cup IF t = type THEN {value} ELSE {}]

Needing(type, value) == [resources EXCEPT !.needed = Couple(@, type, value)]
Supplying(type, value) == [resources EXCEPT !.supplied = Couple(@, type, value)]

(* What a sequence has of a set, in its order.                             *)
Take(S, t, x) == IF x \in S THEN Append(t, x) ELSE t
Among(s, S) == FoldLeft(LAMBDA t, x : Take(S, t, x), << >>, s)

(* string_htable_dump_sorted                                               *)
Sorted(values) == Among(Names, values)

(* multivalued_entry_dump of the entries of these types, one after another.*)
(* The first line names the comment, the others continue it.               *)
EntriesDump(comment, table, types) ==
  LET lines == FlattenSeq([i \in DOMAIN types |->
        LET values == Sorted(table[types[i]])
        IN [k \in DOMAIN values |-> <<types[i], values[k]>>]])
  IN [i \in DOMAIN lines |-> <<IF i = 1 THEN comment ELSE "%%+", lines[i][1], lines[i][2]>>]

(* Mutant: the index of the entry tells which is the first, as for the     *)
(* supplied resources.                                                     *)
DumpNeededByIndex(table, order) ==
  LET types == Among(order, DOMAIN table)
  IN FlattenSeq([i \in DOMAIN types |->
       IF types[i] \in {"color", "file"} THEN << >>
       ELSE EntriesDump(IF i = 1 THEN "needed" ELSE "%%+", table, <<types[i]>>)])

(* dump_needed_resources: "_BUT_ the colors", and the files.               *)
DumpNeeded(table, order) ==
  EntriesDump("needed", table, Among(order, DOMAIN table \ {"color", "file"}))

(* dump_process_color                                                      *)
DumpColors ==
  LET colors == Sorted(Values(resources.needed, "color"))
  IN [k \in DOMAIN colors |-> <<"colors", "color", colors[k]>>]

(* dump_prolog_comments; hash_dump gives the entries in any order.         *)
DumpComments(order) ==
  <<<<"magic", "", "">>, <<"Pages", ToString(sheets), "">>>>
    \o DumpNeeded(resources.needed, order)
    \o DumpColors
    \o EntriesDump("supplied", resources.supplied, Among(order, DOMAIN resources.supplied))
    \o <<<<"EndComments", "", "">>>>

(* dump_fonts: the definitions of the supplied fonts.                      *)
DumpFonts ==
  LET fonts == Sorted(Values(resources.supplied, "font"))
  IN [k \in DOMAIN fonts |-> <<"BeginResource", "font", fonts[k]>>]

(* The string at a place of the text, and the NUL that ends it: that of    *)
(* the next hole, or the one at the end.                                   *)
End(out, from) ==
  IF from > Len(out.content) + 1 THEN from
  ELSE Min({i \in from .. Len(out.content) + 1 : i = Len(out.content) + 1 \/ out.content[i] = Nul})
Piece(out, from) ==
  IF from > Len(out.content) + 1 THEN <<<<"beyond the end", "", "">>>>
  ELSE SubSeq(out.content, from, End(out, from) - 1)

(* underivation.  The chunks that wait for the dump have no holes.         *)
Underivation(d, order) ==
  CASE d.type = "size_t" -> <<<<"number", ToString(sheets), "">>>>
    [] d.type = "string" -> <<<<"label", labels[d.arg], "">>>>
    [] d.type = "routine" ->
         CASE d.arg = "prolog comments" -> DumpComments(order)
           [] d.arg = "encodings" -> outs.encodings.content
           [] d.arg = "setup" -> outs.setup.content
           [] d.arg = "fonts" -> DumpFonts
           [] OTHER -> <<<<d.arg, "", "">>>>

(* output_dump                                                             *)
Dump(out, order, acc, d) ==
  [text  |-> acc.text \o Underivation(d, order) \o Piece(out, acc.piece + 1),
   piece |-> End(out, acc.piece + 1)]
OutputDump(out, order) ==
  FoldLeft(LAMBDA acc, d : Dump(out, order, acc, d),
           [text |-> Piece(out, 1), piece |-> End(out, 1)], out.derivations).text
-----------------------------------------------------------------------------
Init ==
  /\ outs = [o \in {"divertion", "setup", "encodings"} |-> NewOutput]
  /\ resources = [needed |-> << >>, supplied |-> << >>]
  /\ labels = << >> /\ sheets = 0
  /\ phase = "begin" /\ steps = 0 /\ stream = << >> /\ written = << >>

(* output_prolog, until the file of the prologue is read.                  *)
OutputProlog ==
  /\ phase = "begin" /\ phase' = "prologue"
  /\ Divert(<<Routine("prolog comments"), Line("a2psdict"), Line("BeginProlog")>>)
  /\ UNCHANGED <<resources, labels, sheets, steps, stream>>

Step(bound) == steps < bound /\ steps' = steps + 1

(* A line of the prologue (output_file); Library tells how it is reached.  *)
PrologueLine ==
  /\ phase = "prologue" /\ Step(MaxLines)
  /\ \/ Divert(<<Line("text")>>) /\ UNCHANGED resources
     \/ /\ outs' = [outs EXCEPT !.setup = Output(@, <<"setup text", "", "">>)]
        /\ UNCHANGED <<resources, written>>
     \/ /\ Divert(<<Text("BeginResource", "procset", "a2ps")>>)
        /\ resources' = Supplying("procset", "a2ps")
     \/ \E type \in {"file", "color"} : resources' = Needing(type, "base") /\ UNCHANGED <<outs, written>>
     \/ /\ Divert(<<Text("IncludeResource", "procset", "base")>>)
        /\ resources' = Needing("procset", "base")
  /\ UNCHANGED <<labels, sheets, phase, stream>>

(* The end of output_prolog, and output_document_setup.                    *)
DocumentSetup ==
  /\ phase = "prologue" /\ phase' = "pages" /\ steps' = 0
  /\ Divert(<<Line("EndProlog"), Line("BeginSetup"), Routine("encodings"), Routine("fonts"),
              Line("page description"), Routine("encodings setup"), Routine("setup"),
              Routine("special fonts"), Line("EndSetup")>>)
  /\ UNCHANGED <<resources, labels, sheets, stream>>

Event == phase = "pages" /\ Step(MaxEvents)
PageOpen == labels # << >> /\ Last(labels) = ""

(* virtual_begin and page_begin: a page that is not selected is written in *)
(* the void.                                                               *)
SkipPage ==
  /\ Event /\ outs' = [outs EXCEPT !.divertion.to_void = TRUE]
  /\ UNCHANGED <<resources, labels, sheets, phase, stream, written>>
BeginPage ==
  /\ Event /\ ~PageOpen
  /\ sheets' = sheets + 1 /\ labels' = Append(labels, "")
  /\ LET items == <<Line("Page"), Delayed("string", Len(labels')), Text("number", ToString(sheets'), "")>>
         open == [outs EXCEPT !.divertion.to_void = FALSE]
     IN /\ outs' = [open EXCEPT !.divertion = Puts(@, items)]
        /\ written' = written \o items
  /\ UNCHANGED <<resources, phase, stream>>

(* page_end: the label goes where the hole points, void or not.            *)
Labelled == IF PageOpen THEN Append(Front(labels), "page " \o ToString(sheets)) ELSE labels
EndPage ==
  /\ Event /\ PageOpen
  /\ labels' = Labelled
  /\ Divert(<<Line("showpage")>>)
  /\ UNCHANGED <<resources, sheets, phase, stream>>

(* output_marker: the total number of sheets, in a title.                  *)
Total ==
  /\ Event /\ Divert(<<Delayed("size_t", "sheets")>>)
  /\ UNCHANGED <<resources, labels, sheets, phase, stream>>

(* add_required_font                                                       *)
RequireFont ==
  /\ Event
  /\ \E font \in ToSet(Names) :
       IF font \notin Known THEN resources' = Supplying("font", font) /\ UNCHANGED <<outs, written>>
       ELSE IF font \in Values(resources.needed, "font") THEN UNCHANGED <<resources, outs, written>>
       ELSE resources' = Needing("font", font) /\ Divert(<<Text("IncludeResource", "font", font)>>)
  /\ UNCHANGED <<labels, sheets, phase, stream>>

(* encoding_setup: a new encoding is met.                                  *)
EncodingSetup ==
  /\ Event
  /\ resources' = Supplying("encoding", "base")
  /\ outs' = [outs EXCEPT !.encodings = Output(@, <<"vector", "", "">>)]
  /\ UNCHANGED <<labels, sheets, phase, stream, written>>

(* The end of subcontract: "this one must not be cut by the page           *)
(* selection", and the resources it needs are needed.                      *)
Subcontract ==
  /\ Event
  /\ \E type \in {"font", "file"} : resources' = Needing(type, "base")
  /\ LET items == <<Line("BeginInclude"), Line("BeginDocument"), Routine("stream_dump"), Routine("unlink2"),
                    Line("EndDocument"), Line("EndInclude")>>
         open == [outs.divertion EXCEPT !.to_void = FALSE]
     IN /\ outs' = [outs EXCEPT !.divertion = [Puts(open, items) EXCEPT !.to_void = outs.divertion.to_void]]
        /\ written' = written \o items
  /\ UNCHANGED <<labels, sheets, phase, stream>>

(* ps_end: "the trailer must be dumped"; the last page is flushed.         *)
EndDocument ==
  /\ phase = "pages" /\ phase' = "ended"
  /\ labels' = Labelled
  /\ LET items == (IF PageOpen THEN <<Line("showpage")>> ELSE << >>) \o <<Line("Trailer"), Line("EOF")>>
         open == [outs EXCEPT !.divertion.to_void = FALSE]
     IN /\ outs' = [open EXCEPT !.divertion = Puts(@, items)]
        /\ written' = written \o items
  /\ UNCHANGED <<resources, sheets, steps, stream>>

Types == DOMAIN resources.needed \cup DOMAIN resources.supplied
Undivert ==
  /\ phase = "ended" /\ phase' = "dumped"
  /\ \E order \in SetToSeqs(Types) : stream' = OutputDump(outs.divertion, order)
  /\ UNCHANGED <<outs, resources, labels, sheets, steps, written>>

Next ==
  \/ OutputProlog \/ PrologueLine \/ DocumentSetup
  \/ SkipPage \/ BeginPage \/ EndPage \/ Total \/ RequireFont \/ EncodingSetup \/ Subcontract
  \/ EndDocument \/ Undivert
  \/ phase = "dumped" /\ UNCHANGED vars

Spec == Init /\ [][Next]_vars
-----------------------------------------------------------------------------
TypeOK ==
  /\ phase \in {"begin", "prologue", "pages", "ended", "dumped"}
  /\ steps \in 0 .. MaxLines + MaxEvents /\ sheets = Len(labels)
  /\ \A o \in DOMAIN outs : outs[o].len \in Nat /\ outs[o].to_void \in BOOLEAN

(* A chunk always has room for its text and the NUL that ends it, though   *)
(* it is doubled once at most before a text whose length nobody looks at.  *)
ChunksHold == \A o \in DOMAIN outs : outs[o].len < outs[o].size

(* A document as its reader sees it: what was written where the diversion  *)
(* was not the void, in the order it was written, the labels and numbers   *)
(* being those of the end, and the header before everything.               *)
HeaderOf(document) ==
  SubSeq(document, 1, Min({i \in DOMAIN document : document[i][1] = "EndComments"}))
Header == HeaderOf(stream)
Shown(item) ==
  CASE item.type = "text" -> <<item.arg>>
    [] item.type = "size_t" -> <<<<"number", ToString(Cardinality({i \in DOMAIN written : written[i].type = "string"})), "">>>>
    [] item.type = "string" -> <<<<"label", "page " \o ToString(item.arg), "">>>>
    [] item.type = "routine" ->
         CASE item.arg = "prolog comments" -> Header
           [] item.arg = "fonts" ->
                [k \in 1 .. Cardinality(Values(resources.supplied, "font")) |->
                   <<"BeginResource", "font", Sorted(Values(resources.supplied, "font"))[k]>>]
           [] item.arg = "encodings" -> outs.encodings.content
           [] item.arg = "setup" -> outs.setup.content
           [] OTHER -> <<<<item.arg, "", "">>>>
DumpOrdered ==
  phase = "dumped" => stream = FlattenSeq([i \in DOMAIN written |-> Shown(written[i])])

(* The comments of a header as DSC reads them: a line %%+ continues the    *)
(* comment before it.                                                      *)
Comment(i) == Header[Max({k \in 1 .. i : Header[k][1] # "%%+"})][1]
Told(comment) ==
  {<<Header[i][2], Header[i][3]>> : i \in {k \in DOMAIN Header : Comment(k) = comment}}
Pairs(table, types) == {p \in types \X ToSet(Names) : p[1] \in DOMAIN table /\ p[2] \in table[p[1]]}

(* The header names each resource once, under the comment that is its own, *)
(* although the document is still to be written when its place is kept.    *)
HeaderTells ==
  phase = "dumped" =>
    /\ Told("needed") = Pairs(resources.needed, Types \ {"color", "file"})
    /\ Told("supplied") = Pairs(resources.supplied, Types)
    /\ Told("colors") = Pairs(resources.needed, {"color"})
    /\ Len(Header) = 3 + Cardinality(Told("needed")) + Cardinality(Told("supplied")) + Cardinality(Told("colors"))
    /\ Header[2] = <<"Pages", ToString(Cardinality({i \in DOMAIN stream : stream[i][1] = "Page"})), "">>

(* What another a2ps that is given the document takes for needed (the loop *)
(* of subcontract, which never forgets which comment it continues).  Not   *)
(* checked: supplied resources that are continued are taken for needed,    *)
(* see the README.                                                         *)
NeededReadBack ==
  phase = "dumped" =>
    Told("needed") =
      {<<Header[i][2], Header[i][3]>> : i \in {k \in DOMAIN Header :
         \/ Header[k][1] = "needed"
         \/ Header[k][1] = "%%+" /\ \E j \in 1 .. k : Header[j][1] = "needed"}}
=============================================================================
