------------------------------ MODULE Options ------------------------------
(***************************************************************************)
(* The job that the options and the configuration fill: what each option   *)
(* does to it (liba2ps/options.c, handle_a2ps_option in src/main.c), and   *)
(* what the tables behind them hold (printers.c, media.c, pathwalk.c,      *)
(* useropt.c, psstat.c).  An option is a record of its letter or code and  *)
(* of its argument; arguments are atoms whose meaning is given by the      *)
(* tables of constants.                                                    *)
(***************************************************************************)
EXTENDS Integers, Sequences, SequencesExt

CONSTANTS
  NULL,
  Number,      (* the integers that some arguments spell                   *)
  Definition,  (* arguments of -D, -S and --statusdict: <<key, colons, value>> *)
  PathOf,      (* the entries of a library path, "" for an empty one       *)
  Forbidden,   (* keys that macro_meta_sequence_add refuses                *)
  Papers       (* the media that libpaper knows, with their sizes          *)

NoMap == [k \in {} |-> NULL]
Put(map, k, v) == [x \in DOMAIN map \cup {k} |-> IF x = k THEN v ELSE map[x]]
Drop(map, k) == [x \in DOMAIN map \ {k} |-> map[x]]
Lookup(map, k) == IF k \in DOMAIN map THEN map[k] ELSE NULL

(* A table of the program, from its rows.                                  *)
Table(rows) == [k \in {r[1] : r \in rows} |-> (CHOOSE r \in rows : r[1] = k)[2]]

Printer(ppdkey, command) == [ppdkey |-> ppdkey, command |-> command]

(* The default margin, which is not taken from media smaller than it.      *)
Margin == 24
WithMargin(w, h) ==
  [w |-> w, h |-> h, llx |-> Margin, lly |-> Margin,
   urx |-> IF w > Margin THEN w - Margin ELSE w,
   ury |-> IF h > Margin THEN h - Margin ELSE h]

DefaultTitle == "a2ps output"
NewJob(env) ==
  [orientation |-> "portrait", duplex |-> "simplex", columns |-> 1, rows |-> 1, madir |-> "rows", copies |-> 1,
   margin |-> 0, page_prefeed |-> FALSE, stdin_filename |-> "stdin", folding |-> TRUE, numbering |-> 0,
   unprintable_format |-> "caret", interpret |-> TRUE, print_binaries |-> FALSE, file_align |-> "page",
   border |-> TRUE, debug |-> FALSE, prolog |-> "bw", medium_request |-> "libpaper", tabsize |-> 8,
   lines_requested |-> 0, columns_requested |-> 0, fontsize |-> 0, requested_encoding_name |-> NULL,
   title |-> DefaultTitle, header |-> NULL, center_title |-> NULL, left_title |-> NULL, right_title |-> NULL,
   left_footer |-> NULL, footer |-> NULL, right_footer |-> NULL, water |-> NULL, file_command |-> NULL,
   backup_type |-> "none", simple_backup_suffix |-> "~", msg_verbosity |-> "default", page_range |-> << >>,
   style_request |-> NULL, highlight_level |-> 1, strip_level |-> 0, toc |-> NULL, end_of_line |-> "auto",
   delegate_p |-> TRUE, behavior |-> "ps", magic_number |-> "%!PS-Adobe-3.0", page_label_format |-> "#!s",
   flag_output_is_printer |-> TRUE, flag_output_name |-> NULL, request_ppdkey |-> NULL, default_ppdkey |-> "level1",
   printers |-> NoMap, default_printer |-> Printer(NULL, NULL), unknown_printer |-> Printer(NULL, NULL),
   media |-> [p \in DOMAIN Papers |-> WithMargin(Papers[p][1], Papers[p][2])],
   path |-> << >>, user_options |-> NoMap, macro_meta_sequences |-> NoMap, delegations |-> << >>,
   pagedevice |-> NoMap, statusdict |-> NoMap, env |-> env, failed |-> FALSE]

Failed(job) == [job EXCEPT !.failed = TRUE]
Overlay(job, fields) == [f \in DOMAIN job |-> IF f \in DOMAIN fields THEN fields[f] ELSE job[f]]

(* Options whose argument is stored as it is.                              *)
TextRows ==
  {<<"b", "header">>, <<"t", "title">>, <<"u", "water">>, <<"M", "medium_request">>, <<"X", "requested_encoding_name">>,
   <<"134", "prolog">>, <<"140", "left_title">>, <<"141", "right_title">>, <<"149", "center_title">>,
   <<"142", "left_footer">>, <<"143", "footer">>, <<"144", "right_footer">>, <<"166", "stdin_filename">>,
   <<"163", "request_ppdkey">>, <<"159", "simple_backup_suffix">>, <<"E", "style_request">>}
Texts == Table(TextRows)

(* Options without argument, and what they set.                            *)
Sets(field, value) == [f \in {field} |-> value]
On(field) == [f \in {field} |-> TRUE]
Off(field) == [f \in {field} |-> FALSE]
Behaves(b) == Sets("behavior", b)
Nup(columns, rows, orientation) ==
  [columns |-> columns, rows |-> rows, orientation |-> orientation,
   columns_requested |-> 80, lines_requested |-> 0, madir |-> "rows"]
Headings == {"header", "left_footer", "footer", "right_footer", "left_title", "center_title", "right_title", "water"}
NoHeading == [h \in Headings |-> NULL]
Mail == [lines_requested |-> 66, columns_requested |-> 0]
NupRows ==
  {<<"1", Nup(1, 1, "portrait")>>, <<"2", Nup(2, 1, "landscape")>>, <<"3", Nup(3, 1, "landscape")>>,
   <<"4", Nup(2, 2, "portrait")>>, <<"5", Nup(5, 1, "landscape")>>, <<"6", Nup(3, 2, "landscape")>>,
   <<"7", Nup(7, 1, "landscape")>>, <<"8", Nup(4, 2, "landscape")>>, <<"9", Nup(3, 3, "portrait")>>}
NupOptions == Table(NupRows)
FixedRows ==
  {<<"B", NoHeading>>, <<"c", Off("folding")>>, <<"C", Sets("numbering", 5)>>,
   <<"i", On("interpret")>>, <<"j", On("border")>>, <<"k", On("page_prefeed")>>,
   <<"K", Off("page_prefeed")>>, <<"m", Mail>>,
   <<"r", Sets("orientation", "landscape")>>, <<"R", Sets("orientation", "portrait")>>, <<"146", On("debug")>>,
   <<"g", Sets("highlight_level", 2)>>, <<"Z", On("delegate_p")>>,
   <<"h", Behaves("help")>>, <<"V", Behaves("version")>>, <<"138", Behaves("guess")>>, <<"137", Behaves("which")>>,
   <<"150", Behaves("glob")>>, <<"139", Behaves("list_options")>>, <<"161", Behaves("list_media")>>,
   <<"162", Behaves("list_sheets")>>}
Fixed == Table(FixedRows)

(* Options whose argument is one of a few words.                           *)
Choice(field, words) == [field |-> field, words |-> words]
Yes == {"yes", "on", "1"}
No == {"no", "off", "0"}
Bool == [w \in Yes \cup No |-> w \in Yes]
Negated == [w \in Yes \cup No |-> w \in No]
Itself(words) == [w \in words |-> w]
Levels ==
  [w \in {"none", "off", "0", "normal", "light", "1", "heavy", "symbols", "2"} |->
     CASE w \in {"none", "off", "0"} -> 0 [] w \in {"normal", "light", "1"} -> 1 [] w \in {"heavy", "symbols", "2"} -> 2]
Unprintables ==
  [w \in {"space", "white", "blank", "octal", "hexa", "emacs", "questionmark", "caret"} |->
     IF w \in {"white", "blank"} THEN "space" ELSE w]
SidesWords ==
  [w \in {"simplex", "1", "none", "duplex", "2", "tumble"} |->
     CASE w \in {"simplex", "1", "none"} -> "simplex" [] w \in {"duplex", "2"} -> "duplex" [] w = "tumble" -> "tumble"]
Listed == {"media", "printers", "encodings", "variables", "options"}
Behaviors == [w \in Listed \cup {"version", "help", "expand"} |-> IF w \in Listed THEN "list_" \o w ELSE w]
ChoiceRows ==
  {<<"151", Choice("folding", Negated)>>, <<"155", Choice("interpret", Bool)>>,
   <<"156", Choice("border", Bool)>>, <<"136", Choice("print_binaries", Bool)>>,
   <<"160", Choice("delegate_p", Bool)>>, <<"154", Choice("highlight_level", [w \in Yes \cup No |-> IF w \in Yes THEN 1 ELSE 0])>>,
   <<"173", Choice("highlight_level", Levels)>>, <<"135", Choice("unprintable_format", Unprintables)>>,
   <<"s", Choice("duplex", SidesWords)>>, <<"157", Choice("madir", Itself({"rows", "columns"}))>>,
   <<"158", Choice("backup_type", Itself({"none", "simple", "existing", "numbered"}))>>,
   <<"169", Choice("end_of_line", Itself({"r", "n", "nr", "rn", "auto"}))>>, <<"145", Choice("behavior", Behaviors)>>}
WordChoices == Table(ChoiceRows)

(* Options whose argument is an integer with a minimum; the last field     *)
(* lists what they set besides.                                            *)
Integer(field, min, besides) == [field |-> field, min |-> min, besides |-> besides]
None == [f \in {} |-> 0]
IntegerRows ==
  {<<"132", Integer("columns", 1, None)>>, <<"133", Integer("rows", 1, None)>>, <<"n", Integer("copies", 1, None)>>,
   <<"T", Integer("tabsize", 1, None)>>, <<"148", Integer("strip_level", 0, None)>>,
   <<"152", Integer("numbering", 0, None)>>, <<"147", Integer("margin", 0, None)>>,
   <<"l", Integer("columns_requested", 1, [lines_requested |-> 0])>>,
   <<"L", Integer("lines_requested", 1, [columns_requested |-> 0])>>,
   <<"f", Integer("fontsize", 1, [columns_requested |-> 0, lines_requested |-> 0])>>}
Integers == Table(IntegerRows)
MaxStrip == 3
ByDefault == Table({<<"152", Sets("numbering", 1)>>, <<"147", Sets("margin", 12)>>})

GetIntegerAny(job, o) ==
  LET i == Integers[o.name]
  IN IF o.arg \in DOMAIN Number THEN Overlay(job, Put(i.besides, i.field, Number[o.arg])) ELSE Failed(job)

GetInteger(job, o) ==
  LET i == Integers[o.name]
      ok == o.arg \in DOMAIN Number /\ Number[o.arg] >= i.min /\ (o.name = "148" => Number[o.arg] <= MaxStrip)
  IN IF ok THEN Overlay(job, Put(i.besides, i.field, Number[o.arg])) ELSE Failed(job)

GetChoice(job, o) ==
  LET c == WordChoices[o.name]
  IN IF o.arg \in DOMAIN c.words THEN Overlay(job, Sets(c.field, c.words[o.arg])) ELSE Failed(job)

(* --file-align: one of the words, else an integer.                        *)
Aligns ==
  [w \in {"no", "fill", "yes", "sheet", "page", "rank", "virtual"} |->
     CASE w = "no" -> "page" [] w \in {"fill", "yes"} -> "virtual" [] OTHER -> w]
FileAlign(job, arg) ==
  IF arg \in DOMAIN Aligns THEN [job EXCEPT !.file_align = Aligns[arg]]
  ELSE IF arg \in DOMAIN Number /\ Number[arg] >= 1 THEN [job EXCEPT !.file_align = arg]
  ELSE Failed(job)

(* -s: the sides, and the requests to the page device that go with them.   *)
SidesStale(job, arg) ==
  LET set == GetChoice(job, [name |-> "s", arg |-> arg])
  IN IF set.failed \/ set.duplex = "simplex" THEN set
     ELSE [set EXCEPT !.pagedevice = Put(Put(set.pagedevice, "Duplex", "true"),
                                         "Tumble", IF set.duplex = "tumble" THEN "true" ELSE "false")]

Sides(job, arg) ==
  LET set == GetChoice(job, [name |-> "s", arg |-> arg])
      device == IF set.duplex = "simplex" THEN Drop(set.pagedevice, "Duplex")
                ELSE Put(Put(set.pagedevice, "Duplex", "true"), "Tumble", IF set.duplex = "tumble" THEN "true" ELSE "false")
  IN IF set.failed THEN set ELSE [set EXCEPT !.pagedevice = device]

(* -S, --statusdict, -D: a key alone removes it; an empty value removes it *)
(* from the page device only; `key::value' is a definition.                *)
SetPageDevice(job, d) ==
  [job EXCEPT !.pagedevice = IF d[3] \in {NULL, ""} THEN Drop(job.pagedevice, d[1]) ELSE Put(job.pagedevice, d[1], d[3])]
SetStatusDict(job, d) ==
  [job EXCEPT !.statusdict = IF d[2] = 0 THEN Drop(job.statusdict, d[1])
                             ELSE Put(job.statusdict, d[1], <<d[3], d[2] = 2>>)]
Define(job, key, value) ==
  IF key \in Forbidden THEN Failed(job)
  ELSE [job EXCEPT !.macro_meta_sequences = Put(job.macro_meta_sequences, key, value)]
SetVariable(job, d) ==
  IF d[2] = 0 THEN [job EXCEPT !.macro_meta_sequences = Drop(job.macro_meta_sequences, d[1])]
  ELSE Define(job, d[1], d[3])

(* -o, -P and -d: the destination that the user asks for.                  *)
FlagOutput(job, name, is_printer) ==
  [job EXCEPT !.flag_output_is_printer = is_printer,
              !.flag_output_name = IF ~is_printer /\ name = "-" THEN NULL ELSE name]

(* -q and -v, unless the environment says it.                              *)
Verbosity(job, level) == IF "A2PS_VERBOSITY" \in job.env THEN job ELSE [job EXCEPT !.msg_verbosity = level]

Special ==
  {"A", "s", "S", "164", "D", "o", "P", "d", "q", "v", "a", "167"}
ApplySpecial(job, o) ==
  CASE o.name = "A"   -> FileAlign(job, o.arg)
    [] o.name = "s"   -> Sides(job, o.arg)
    [] o.name = "S"   -> SetPageDevice(job, Definition[o.arg])
    [] o.name = "164" -> SetStatusDict(job, Definition[o.arg])
    [] o.name = "D"   -> SetVariable(job, Definition[o.arg])
    [] o.name = "o"   -> FlagOutput(job, o.arg, FALSE)
    [] o.name = "P"   -> FlagOutput(job, o.arg, TRUE)
    [] o.name = "d"   -> FlagOutput(job, NULL, TRUE)
    [] o.name = "q"   -> Verbosity(job, "nothing")
    [] o.name = "v"   -> Verbosity(job, IF o.arg = NULL THEN "report" ELSE o.arg)
    [] o.name = "a"   -> [job EXCEPT !.page_range = Append(@, o.arg)]
    [] o.name = "167" -> [job EXCEPT !.toc = IF o.arg = NULL THEN "#{toc}" ELSE o.arg]

(* What an option does, the user options (-=) excepted.                    *)
Apply(job, o) ==
  CASE o.name \in Special -> ApplySpecial(job, o)
    [] o.name \in DOMAIN Texts -> [job EXCEPT ![Texts[o.name]] = o.arg]
    [] o.name \in DOMAIN NupOptions -> Overlay(job, NupOptions[o.name])
    [] o.name \in DOMAIN Fixed -> Overlay(job, Fixed[o.name])
    [] o.name \in DOMAIN WordChoices \ Special -> GetChoice(job, o)
    [] o.name \in DOMAIN Integers ->
         IF o.arg = NULL /\ o.name \in DOMAIN ByDefault THEN Overlay(job, ByDefault[o.name]) ELSE GetInteger(job, o)

-----------------------------------------------------------------------------
(* The printers.  A definition is a PPD key, a command, or both; declaring *)
(* a printer again replaces both.                                          *)
IsCommand(word) == word \in DOMAIN Definition /\ Definition[word][1] \in {"|", ">"}
SplitDefinition(words) ==
  IF IsCommand(words[1]) THEN Printer(NULL, words[1])
  ELSE Printer(words[1], IF Len(words) = 1 THEN NULL ELSE words[2])

DefaultPrinter == "Default Printer"
UnknownPrinter == "Unknown Printer"
PrintersAdd(job, key, words) ==
  LET p == SplitDefinition(words)
  IN CASE key = DefaultPrinter -> [job EXCEPT !.default_printer = p]
       [] key = UnknownPrinter -> [job EXCEPT !.unknown_printer = p]
       [] OTHER -> [job EXCEPT !.printers = Put(job.printers, key, p)]

Found(job, field) ==
  LET key == job.flag_output_name
      printer == IF key \in DOMAIN job.printers THEN job.printers[key] ELSE Printer(NULL, NULL)
  IN CASE key = NULL -> job.default_printer[field]
       [] key # NULL /\ printer[field] # NULL -> printer[field]
       [] OTHER -> job.unknown_printer[field]

PPDKey(job) ==
  LET found == IF job.flag_output_is_printer THEN Found(job, "ppdkey") ELSE NULL
  IN CASE job.request_ppdkey # NULL -> job.request_ppdkey
       [] job.request_ppdkey = NULL /\ found # NULL -> found
       [] OTHER -> job.default_ppdkey

(* NULL when the output is a file of the user, or when there is no command *)
(* for the printer, which ends the run.                                    *)
CommandOf(job) == IF job.flag_output_is_printer THEN Found(job, "command") ELSE NULL

-----------------------------------------------------------------------------
(* The library path.  After an empty entry the loop is one character too   *)
(* far, so the entry that follows it is lost too.                          *)
StringToPath(parts) ==
  LET Entry(acc, part) ==
        CASE acc.skip -> [acc EXCEPT !.skip = FALSE]
          [] ~acc.skip /\ part = "" -> [acc EXCEPT !.skip = TRUE]
          [] OTHER -> [acc EXCEPT !.path = Append(acc.path, part)]
  IN FoldLeft(Entry, [path |-> << >>, skip |-> FALSE], parts).path

PathAppend(path, parts) == path \o StringToPath(parts)

PathPrepend(path, parts) == StringToPath(parts) \o path

FindFile(path, file, library) ==
  LET found == {i \in DOMAIN path : <<path[i], file>> \in library}
  IN IF found = {} THEN NULL ELSE path[CHOOSE i \in found : \A j \in found : i <= j]

-----------------------------------------------------------------------------
(* Media: a declaration replaces the medium of that name.  libpaper names  *)
(* the one that "libpaper" stands for.                                     *)
AddMedium(job, name, dimensions) ==
  CASE Len(dimensions) = 2 -> [job EXCEPT !.media = Put(job.media, name, WithMargin(dimensions[1], dimensions[2]))]
    [] Len(dimensions) = 6 ->
         [job EXCEPT !.media = Put(job.media, name,
           [w |-> dimensions[1], h |-> dimensions[2], llx |-> dimensions[3], lly |-> dimensions[4],
            urx |-> dimensions[5], ury |-> dimensions[6]])]
    [] OTHER -> Failed(job)
GetMedium(job, systempaper) ==
  Lookup(job.media, IF job.medium_request = "libpaper" THEN systempaper ELSE job.medium_request)
=============================================================================
