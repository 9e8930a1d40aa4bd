----------------------------- MODULE TextEngine -----------------------------
(***************************************************************************)
(* The text of the virtual pages: ps_print_char and what it calls          *)
(* (liba2ps/psgen.c).  Characters come one at a time with the face they    *)
(* must be printed in; the engine keeps a PostScript string open for the   *)
(* line being printed, declares a font only when it has to, and folds or   *)
(* cuts the lines that are too long.                                       *)
(*                                                                         *)
(* As in PageEngine, the output is observed through the printer that would *)
(* read it; here inside one virtual page.                                  *)
(***************************************************************************)
EXTENDS Integers, FiniteSetsExt

CONSTANTS
  Faces,         (* enum face_e                                            *)
  Encodings,     (* the encodings the style sheet may switch to            *)
  Composite,     (* those with composite fonts: two high chars, one glyph  *)
  LinesPerPage,  (* status->linesperpage                                   *)
  COURIER_WX,    (* the width of a column                                  *)
  Jobs,          (* the options, and the pages that are not printed        *)
  MaxPages,      (* bound of the model: virtual pages in all               *)
  MaxWx          (* bound of the model: the width counted on a line, which *)
                 (* grows on when form feeds are printed beyond a cut      *)

(* "ctrl" is not printable and shown as ^X; "high", above 127, is half a   *)
(* glyph in a composite encoding.                                          *)
Glyphs == {"narrow", "wide", "ctrl", "high"}
Characters == Glyphs \cup {"tab", "ff", "nl"}

Options ==
  [ folding : BOOLEAN, numbering : BOOLEAN, interpret : BOOLEAN,
    tabsize : Nat \ {0}, wxperline : Nat, skipped : SUBSET (1 .. MaxPages) ]

TextAssumption ==
  /\ Faces # {} /\ Composite \subseteq Encodings
  /\ {LinesPerPage, COURIER_WX} \subseteq Nat \ {0} /\ {MaxPages, MaxWx} \subseteq Nat
  /\ Jobs \subseteq Options
  /\ \A j \in Jobs : j.wxperline >= 2 * COURIER_WX  \* any glyph fits in a line

VARIABLES
  s,     (* the ps_status of the job, mb_flag, and the printer             *)
  job,   (* the options, which nothing changes                             *)
  phase  (* "body" in a file, "between" two files, "aborted"               *)

vars == <<s, job, phase>>

Folding   == job.folding
Numbering == job.numbering    \* every line starts with a tab
Interpret == job.interpret
TabSize   == job.tabsize
WxPerLine == job.wxperline
Skipped   == job.skipped

NoFont == "no font"

TextFaults == {"string", "face", "margin", "rows", "tab", "composite"}

Status ==
  [ startPage : BOOLEAN, startLine : BOOLEAN, inCut : BOOLEAN,
    face : Faces, declared : BOOLEAN, nonprinting : BOOLEAN,
    line : 0 .. LinesPerPage - 1, column : Nat, wx : Nat,
    half   : {"none", "held", "cut"},  \* mb_flag; cut: of a glyph that was
    enc    : Encodings,                   \* job->encoding
    pages  : Nat,                         \* job->pages
    void   : BOOLEAN,                     \* the page is skipped
    open   : BOOLEAN,                     \* printer: inside a string
    font   : Faces \cup {NoFont},         \* printer: the current font
    shows  : SUBSET Faces,                \* faces of the glyphs in the string
    x      : Nat, row : Nat,              \* printer: where the string ends
    faults : SUBSET TextFaults ]

(* Units are such that columns are COURIER_WX wide.                        *)
Width(c) ==
  CASE c = "narrow" -> COURIER_WX \div 2
    [] c = "wide"   -> COURIER_WX + COURIER_WX \div 2
    [] c = "high"   -> COURIER_WX
    [] OTHER        -> 2 * COURIER_WX
Printable == {"narrow", "wide", "high"}
Columns(c) == IF c \in Printable THEN 1 ELSE 2

FaultIf(cond, name) == IF cond THEN {name} ELSE {}
-----------------------------------------------------------------------------
(* What is written to the diversion, as the printer reads it; nothing when *)
(* the page goes to the void.                                              *)

OpenString(t) ==
  IF t.void THEN t
  ELSE [t EXCEPT !.open = TRUE, !.faults = @ \cup FaultIf(t.open, "string")]

(* ") <face>" or ") S": the string is shown in the font f.                 *)
ShowIn(t, f) ==
  IF t.void THEN t
  ELSE [t EXCEPT !.open = FALSE, !.font = f, !.shows = {},
          !.faults = @ \cup FaultIf(~t.open, "string")
                        \cup FaultIf(\E g \in t.shows : g # f, "face")]

CloseString(t) == ShowIn(t, IF t.declared THEN t.font ELSE t.face)

(* n, N: the next line.                                                    *)
NextRow(t) == IF t.void THEN t ELSE [t EXCEPT !.row = @ + 1, !.x = 0]

(* T: to a column of the current line.                                     *)
MoveTo(t, column) ==
  IF t.void THEN t
  ELSE [t EXCEPT !.x = column * COURIER_WX,
          !.faults = @ \cup FaultIf(column * COURIER_WX < t.x, "tab")]

(* A glyph in the open string, which should be shown in the face f.        *)
PutGlyph(t, f, width) ==
  IF t.void THEN t
  ELSE [t EXCEPT !.x = @ + width, !.shows = @ \cup {f},
          !.faults = @ \cup FaultIf(~t.open, "string")
                        \cup FaultIf(t.x + width > WxPerLine, "margin")
                        \cup FaultIf(t.row >= LinesPerPage, "rows")]
-----------------------------------------------------------------------------
(* virtual_begin and virtual_end; what they do to the pages is PageEngine. *)
VirtualBegin(t) ==
  LET void == t.pages + 1 \in Skipped
  IN [t EXCEPT !.pages = @ + 1, !.void = void,
        !.font = IF void THEN @ ELSE NoFont,
        !.x = IF void THEN @ ELSE 0, !.row = IF void THEN @ ELSE 0]

VirtualEnd(t) ==
  [t EXCEPT !.line = 0, !.faults = @ \cup FaultIf(t.open, "string")]

EndOfLine(t) ==
  [NextRow(CloseString(t)) EXCEPT
     !.declared = TRUE, !.line = @ + 1, !.column = 0, !.wx = 0]

PageFull(t) == t.line >= LinesPerPage

LineFull(t) == t.wx > WxPerLine

(* The string of a line that is not the first of its page.                 *)
NewString(t, f) ==
  IF Numbering THEN OpenString(MoveTo(t, 0))
  ELSE [OpenString(t) EXCEPT !.declared = @ /\ t.face = f, !.face = f]

(* Mutant: the new page is not told that no font is declared.              *)
FoldLineKeepsDeclared(t, f) ==
  LET e == EndOfLine(t)
  IN NewString(IF PageFull(e) THEN VirtualBegin(VirtualEnd(e)) ELSE e, f)

(* fold_line                                                               *)
FoldLine(t, f) ==
  LET e == EndOfLine(t)
  IN NewString(IF PageFull(e)
               THEN [VirtualBegin(VirtualEnd(e)) EXCEPT !.declared = FALSE]
               ELSE e, f)

(* ps_print_char: "Start a new line?"                                      *)
StartLine(t, f) ==
  IF ~t.startLine THEN t
  ELSE IF t.startPage
  THEN LET b == [VirtualBegin(t) EXCEPT !.startPage = FALSE, !.startLine = FALSE,
                                        !.face = f, !.declared = FALSE]
       IN OpenString(IF Numbering THEN MoveTo(b, 0) ELSE b)
  ELSE NewString([t EXCEPT !.startLine = FALSE], f)

(* ps_print_char: "Is this a new font?"                                    *)
NewFace(t, f) ==
  IF t.face = f THEN t
  ELSE [OpenString(CloseString(t)) EXCEPT !.face = f, !.declared = FALSE]

FormFeed(t) ==
  LET e == IF t.startLine THEN t ELSE [EndOfLine(t) EXCEPT !.startLine = TRUE]
      b == IF e.startPage THEN VirtualBegin(e) ELSE e
  IN [VirtualEnd(b) EXCEPT !.startPage = TRUE]

NewLine(t) ==
  LET e == EndOfLine([t EXCEPT !.startLine = TRUE])
  IN IF PageFull(e) THEN [VirtualEnd(e) EXCEPT !.startPage = TRUE] ELSE e

(* "Go to the same column as if the font were Courier."                    *)
NextTab(t) == (Max({t.wx \div COURIER_WX, t.column}) \div TabSize + 1) * TabSize

Folds(t) == Folding

PrintTab(t, f) ==
  LET n == NewFace(t, f)
      c == [n EXCEPT !.column = NextTab(n), !.wx = NextTab(n) * COURIER_WX]
      l == IF LineFull(c) THEN FoldLine(c, f) ELSE c
  IN IF LineFull(c) /\ ~Folds(c)
     THEN [c EXCEPT !.inCut = TRUE]
     ELSE OpenString(MoveTo([CloseString(l) EXCEPT !.declared = TRUE], l.column))

(* The end of the default case: columns and width are those of the glyph,  *)
(* folded those of the line it starts when the line is folded.             *)
PrintGlyph(t, f, columns, folded, width) ==
  LET c == [t EXCEPT !.column = @ + columns, !.wx = @ + width]
      l == [FoldLine(c, f) EXCEPT !.column = folded, !.wx = width]
  IN IF ~LineFull(c) THEN PutGlyph(c, f, width)
     ELSE IF Folds(c) THEN PutGlyph(l, f, width)
     ELSE [c EXCEPT !.inCut = TRUE]

Pairs(t, c, f) == c = "high" /\ t.enc \in Composite /\ f # "Symbol"

(* The default case: in a composite encoding a high char waits in mb_flag, *)
(* a static variable, for the next one, wherever it comes.  The flag is    *)
(* not cleared when the line is cut.                                       *)
PrintDefault(t, c, f) ==
  LET n    == NewFace(t, f)
      pair == PrintGlyph([n EXCEPT !.faults = @ \cup FaultIf(n.half = "cut", "composite")],
                         f, 2, 4, 2 * COURIER_WX)
  IN IF ~Pairs(n, c, f)
     THEN PrintGlyph([n EXCEPT !.nonprinting = @ \/ c \notin Printable],
                     f, Columns(c), Columns(c), Width(c))
     ELSE IF n.half = "none" THEN [n EXCEPT !.half = "held"]
     ELSE [pair EXCEPT !.half = IF pair.inCut THEN "cut" ELSE "none"]

(* ps_print_char                                                           *)
Printed(t, c, f) ==
  LET b == StartLine([t EXCEPT !.inCut = FALSE], f)
  IN IF t.inCut /\ c \notin {"ff", "nl"} THEN t
     ELSE CASE c = "nl"                -> NewLine(b)
            [] c = "ff" /\ Interpret   -> FormFeed(b)
            [] c = "tab" /\ Interpret  -> PrintTab(b, f)
            [] OTHER                   -> PrintDefault(b, c, f)
-----------------------------------------------------------------------------
(* initialize_ps_status                                                    *)
Initialized(t) ==
  [t EXCEPT !.startPage = TRUE, !.startLine = TRUE, !.inCut = FALSE,
            !.face = CHOOSE f \in Faces : TRUE, !.declared = FALSE,
            !.nonprinting = FALSE, !.line = 0, !.column = 0, !.wx = 0]

Init ==
  /\ \E e \in Encodings :
       s = [ startPage |-> TRUE, startLine |-> TRUE, inCut |-> FALSE,
             face |-> CHOOSE f \in Faces : TRUE, declared |-> FALSE,
             nonprinting |-> FALSE, line |-> 0, column |-> 0, wx |-> 0,
             half |-> "none", enc |-> e, pages |-> 0, void |-> FALSE,
             open |-> FALSE, font |-> NoFont, shows |-> {}, x |-> 0, row |-> 0,
             faults |-> {} ]
  /\ job \in Jobs
  /\ phase = "between"

(* ps_begin_file, for the text.                                            *)
BeginFile ==
  /\ phase = "between"
  /\ s' = Initialized(s)
  /\ phase' = "body"
  /\ UNCHANGED job

PrintChar(c, f) ==
  /\ phase = "body"
  /\ s' = Printed(s, c, f)
  /\ s'.pages <= MaxPages /\ s'.wx <= MaxWx
  /\ UNCHANGED <<job, phase>>

(* ps_switch_encoding: the fonts are those of another dictionary.          *)
Switched(t, e) ==
  LET c == [IF t.startLine THEN t ELSE CloseString(t) EXCEPT
              !.declared = FALSE, !.enc = e, !.font = NoFont]
  IN IF t.startLine THEN c ELSE OpenString(c)

SwitchEncoding(e) ==
  /\ phase = "body" /\ e # s.enc
  /\ s' = Switched(s, e)
  /\ UNCHANGED <<job, phase>>

(* ps_end_file; check_binary_file may end the program.                     *)
EndFile ==
  /\ phase = "body"
  /\ LET c == IF s.startLine THEN s ELSE CloseString(s)
     IN s' = IF s.startPage THEN c ELSE VirtualEnd(c)
  /\ \/ phase' = "between"
     \/ s.nonprinting /\ phase' = "aborted"
  /\ UNCHANGED job

Aborted == phase = "aborted" /\ UNCHANGED vars

Next ==
  \/ BeginFile
  \/ \E c \in Characters, f \in Faces : PrintChar(c, f)
  \/ \E e \in Encodings : SwitchEncoding(e)
  \/ EndFile
  \/ Aborted

Spec == Init /\ [][Next]_vars
-----------------------------------------------------------------------------
(* Properties.                                                             *)

TypeOK == s \in Status /\ job \in Jobs /\ phase \in {"body", "between", "aborted"}

(* The strings of the PostScript are closed before others are opened and   *)
(* before a page ends, and a line that is started has one: ps_print_char,  *)
(* ps_switch_encoding and ps_end_file, which all open and close them, agree*)
(* with status->start_line.                                                *)
StringsBalanced ==
  /\ "string" \notin s.faults
  /\ phase = "body" /\ ~s.void => (s.open <=> ~s.startLine)

(* Every glyph is shown in the face it was given with, although the font   *)
(* is declared only when face_declared says so.                            *)
FacesShown == "face" \notin s.faults

(* No glyph is printed beyond the right margin or below the last line of a *)
(* virtual page; a2ps and the printer agree on the line and the place, and *)
(* when lines are folded no character of them is thrown away.              *)
InsideFrame ==
  /\ s.faults \cap {"margin", "rows"} = {}
  /\ phase = "body" /\ ~s.void /\ ~s.startPage =>
       s.row = s.line /\ (Folding \/ ~s.inCut => s.x = s.wx)

(* A tab never moves back over the text, whatever the widths of the font.  *)
TabsForward == "tab" \notin s.faults

(* No glyph is made of two characters that belong to different ones: what  *)
(* mb_flag keeps of a glyph is not used after that glyph was cut           *)
(* ("Composite fonts support", NEWS). Not checked: it does not hold, see   *)
(* the README.                                                             *)
CompositesWhole == "composite" \notin s.faults
=============================================================================
