----------------------------- MODULE Resources -----------------------------
(***************************************************************************)
(* The fonts and the encodings of a document: liba2ps/encoding.c, fonts.l, *)
(* dsc.c and the lines of the prologue that ask for them (output.c).       *)
(*                                                                         *)
(* An encoding is loaded the first time it is asked for: the requested one *)
(* before the faces have fonts, the others while a file is printed.  The   *)
(* document names its fonts three times: in its header, in the comments    *)
(* %%IncludeResource, and in the dictionary of each encoding.              *)
(***************************************************************************)
EXTENDS Integers, Sequences, FiniteSets, SequencesExt

CONSTANTS
  Encodings, Requested,  (* job->requested_encoding                        *)
  Fonts,                 (* their names, in the order of strcmp            *)
  Existing,              (* the fonts that have an .afm file               *)
  Known,                 (* the fonts of the printer                       *)
  Faces,
  Substitutes,           (* triples: encoding, font, font that replaces it *)
  Default,               (* the default font of the encodings              *)
  Slanted,               (* the encodings that have slanted fonts          *)
  Skips, MidLine, Delegates  (* what the files have: pages not printed,    *)
                             (* encodings named in a line, delegations     *)

FontNames == ToSet(Fonts)
NoFont    == "no font"
Special   == {"Symbol"}  (* font_is_to_reencode says no                    *)

ResourcesAssumption ==
  /\ Requested \in Encodings /\ Slanted \subseteq Encodings
  /\ Known \subseteq FontNames /\ Existing \subseteq FontNames
  /\ Default \in FontNames /\ NoFont \notin FontNames
  /\ {Skips, MidLine, Delegates} \subseteq BOOLEAN
  /\ Fonts \in Seq(FontNames) /\ Substitutes \subseteq Encodings \X FontNames \X FontNames
  /\ Default \notin Special /\ \A t \in Substitutes : t[3] \notin Special

VARIABLES phase, job

vars == <<phase, job>>

Phases == {"options", "prologue", "body", "dumped"}

Job ==
  [ faceFont : [Faces -> FontNames \cup {NoFont}],  \* face_eo_font
    loaded   : SUBSET Encodings,                    \* job->encodings
    names    : [Encodings -> SUBSET FontNames],     \* font_names_used
    wx       : SUBSET Encodings,                    \* faces_wx is known
    slanted  : SUBSET Encodings,                    \* slantfont[0] is known
    slants   : BOOLEAN,                             \* num > 0, a static
    encoding : Encodings,
    infos    : SUBSET FontNames,                    \* job->font_infos
    asked    : SUBSET FontNames,                    \* %Font: of the prologue
    needed   : SUBSET FontNames,                    \* DocumentNeededResources
    supplied : SUBSET FontNames,                    \* DocumentSuppliedResources
    page     : {"void", "outside", "string"},       \* the diversion
    includes : [FontNames -> 0 .. 1] ]              \* read as such in it

-----------------------------------------------------------------------------
(* encoding_resolve_font_substitute                                        *)
Resolve(e, n) ==
  LET S == {m \in FontNames : <<e, n, m>> \in Substitutes}
  IN IF S # {} THEN CHOOSE m \in S : TRUE
     ELSE IF n \in Existing THEN n ELSE Default

(* add_required_font, of the fonts S.  The comment is written where the    *)
(* diversion is: it is one only outside of the strings.                    *)
Require(j, S) ==
  LET new == (S \cap Known) \ j.needed
  IN [j EXCEPT !.needed = @ \cup new, !.supplied = @ \cup (S \ Known),
        !.includes = [n \in FontNames |->
          @[n] + IF n \in new /\ j.page = "outside" THEN 1 ELSE 0]]

(* encoding_build_faces_wx, and font_info_add for the fonts it asks for.   *)
BuildFacesWx(j, e) ==
  LET names == {j.faceFont[f] : f \in Faces}
      real  == {Resolve(e, n) : n \in names}
  IN [Require(j, real \ j.infos) EXCEPT
        !.infos = @ \cup real, !.names[e] = @ \cup names, !.wx = @ \cup {e}]

FacesSet(j) == NoFont \notin {j.faceFont[f] : f \in Faces}

(* load_encoding_description_file: its slanted fonts go where those of the *)
(* encodings before stopped.                                               *)
Described(j, e) ==
  [j EXCEPT !.loaded = @ \cup {e},
     !.slanted = IF e \in Slanted /\ ~j.slants THEN @ \cup {e} ELSE @,
     !.slants = @ \/ e \in Slanted]

(* Mutant: the one who asks has to build the widths.                       *)
GetEncodingUnbuilt(j, e) == IF e \in j.loaded THEN j ELSE Described(j, e)

(* encoding_get, encoding_add                                              *)
GetEncoding(j, e) ==
  IF e \in j.loaded THEN j
  ELSE IF FacesSet(j) THEN BuildFacesWx(Described(j, e), e) ELSE Described(j, e)
-----------------------------------------------------------------------------
Init ==
  /\ phase = "options"
  /\ job = [ faceFont |-> [f \in Faces |-> NoFont], loaded |-> {},
             names |-> [e \in Encodings |-> {}], wx |-> {}, slanted |-> {},
             slants |-> FALSE, encoding |-> Requested, infos |-> {}, asked |-> {},
             needed |-> {}, supplied |-> {}, page |-> "outside",
             includes |-> [n \in FontNames |-> 0] ]

(* a2ps_job_finalize                                                       *)
FinalizeJob ==
  /\ phase = "options" /\ phase' = "prologue"
  /\ job' = GetEncoding(job, Requested)

(* %Face: f n                                                              *)
ReadFace(f, n) ==
  /\ phase = "prologue"
  /\ job' = [job EXCEPT !.faceFont[f] = n]
  /\ UNCHANGED phase

FontRead(n) == Require(job, {Resolve(Requested, n)})

(* %Font: n                                                                *)
ReadFont(n) ==
  /\ phase = "prologue"
  /\ job' = [FontRead(n) EXCEPT !.names[Requested] = @ \cup {n},
                                !.asked = @ \cup {n}]
  /\ UNCHANGED phase

(* check_face_eo_font, output_document_setup                               *)
DocumentSetup ==
  /\ phase = "prologue" /\ FacesSet(job) /\ phase' = "body"
  /\ job' = BuildFacesWx(job, Requested)

(* The diversion, as TextEngine and PageEngine leave it.                   *)
PrintText(page) ==
  /\ phase = "body" /\ page # job.page
  /\ page = "void" => Skips
  /\ page = "string" => MidLine
  /\ job' = [job EXCEPT !.page = page]
  /\ UNCHANGED phase

(* ssh_print_postscript: the encoding is looked for before the string of   *)
(* the line is closed by ps_switch_encoding.                               *)
SwitchEncoding(e) ==
  /\ phase = "body"
  /\ job' = [GetEncoding(job, e) EXCEPT !.encoding = e]
  /\ UNCHANGED phase

(* subcontract: the delegated document needs the font n.                   *)
Subcontract(n) ==
  /\ phase = "body" /\ Delegates
  /\ job' = [job EXCEPT !.needed = @ \cup {n}]
  /\ UNCHANGED phase

(* undivert                                                                *)
Undivert == phase = "body" /\ phase' = "dumped" /\ UNCHANGED job

Dumped == phase = "dumped" /\ UNCHANGED vars

Next ==
  \/ FinalizeJob \/ DocumentSetup \/ Undivert \/ Dumped
  \/ \E n \in FontNames : ReadFont(n) \/ Subcontract(n) \/ \E f \in Faces : ReadFace(f, n)
  \/ \E p \in {"void", "outside", "string"} : PrintText(p)
  \/ \E e \in Encodings : SwitchEncoding(e)

Spec == Init /\ [][Next]_vars
-----------------------------------------------------------------------------
(* The document.                                                           *)

(* dump_encoding_setup: da_remove_at moves the next name where the loop    *)
(* just was.                                                               *)
Reencode(e, acc, n) ==
  IF n \notin job.names[e] THEN acc
  ELSE IF acc.passed \/ Resolve(e, n) \notin Special
       THEN [kept |-> acc.kept \cup {n}, passed |-> FALSE]
  ELSE [kept |-> acc.kept, passed |-> TRUE]

Reencoded(e) ==
  FoldLeft(LAMBDA acc, n : Reencode(e, acc, n), [kept |-> {}, passed |-> FALSE], Fonts).kept

(* The names that are defined when the dictionary of e is open: its own,   *)
(* and those of font_info_table_dump_special_font_setup.                   *)
DefinedIn(e) == Reencoded(e) \cup (job.infos \cap Special)

Required == {Resolve(Requested, n) : n \in job.asked} \cup job.infos
-----------------------------------------------------------------------------
TypeOK == phase \in Phases /\ job \in Job

(* The dictionaries define no font that is not in the header, needed or    *)
(* supplied with the document, whenever and for whomever it was loaded.    *)
FontsProvided ==
  phase = "dumped" =>
    \A e \in job.loaded : {Resolve(e, n) : n \in job.names[e]} \subseteq job.needed \cup job.supplied

(* While a file is printed, the faces have widths in the current encoding, *)
(* and fonts that its dictionary will define.                              *)
FacesDefined ==
  phase \in {"body", "dumped"} =>
    /\ job.encoding \in job.wx
    /\ {job.faceFont[f] : f \in Faces} \subseteq DefinedIn(job.encoding)

(* "`Needed' it, and `Include" it.  We do it only if not yet done to avoid *)
(* multiple %%Include" (add_required_font): each font of the printer that  *)
(* a2ps uses has one comment %%IncludeResource in the document.            *)
(* Not checked: it does not hold, see the README.                          *)
IncludedOnce ==
  phase \in {"body", "dumped"} => \A n \in Required \cap Known : job.includes[n] = 1

(* The same of the fonts that are known when the pages begin: those that   *)
(* the prologue asks for and those of the faces, in whatever order and     *)
(* under whatever names it gives them.                                     *)
Initial == {Resolve(Requested, n) : n \in job.asked \cup {job.faceFont[f] : f \in Faces}}

InitialIncludedOnce ==
  phase \in {"body", "dumped"} => \A n \in Initial \cap Known : job.includes[n] = 1

(* "We do not want to reencode the fonts that should not be reencoded"     *)
(* (dump_encoding_setup).  Not checked: it does not hold, see the README.  *)
SpecialKept == \A e \in job.loaded : \A n \in Reencoded(e) : Resolve(e, n) \notin Special

(* Every encoding has its slanted fonts (encoding_add_slant_font).  Not    *)
(* checked: it does not hold, see the README.                              *)
SlantsDefined == job.loaded \cap Slanted \subseteq job.slanted
=============================================================================
