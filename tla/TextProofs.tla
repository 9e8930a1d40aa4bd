----------------------------- MODULE TextProofs -----------------------------
(***************************************************************************)
(* The text engine, for any options and sizes of the page; its input, for  *)
(* any text; the lexer and its printer, for every style sheet.             *)
(***************************************************************************)
EXTENDS MCText, SequenceTheorems, NaturalsInduction, WellFoundedInduction, TLAPS

(* ps_status, while a line may just have been counted.                     *)
Shape ==
  [ startPage : BOOLEAN, startLine : BOOLEAN, inCut : BOOLEAN,
    face : EngineFaces, declared : BOOLEAN, nonprinting : BOOLEAN,
    line : Nat, column : Nat, wx : Nat,
    half   : {"none", "held", "cut"},
    enc    : EngineEncodings, pages  : Nat, void   : BOOLEAN, open   : BOOLEAN,
    font   : EngineFaces \cup {E!NoFont}, shows  : SUBSET EngineFaces,
    x      : Nat, row : Nat, faults : SUBSET E!TextFaults ]

(* What the string shows is in the current face, which is the printer's    *)
(* font once it is declared.                                               *)
FontsAgree(t) ==
  /\ t.shows \subseteq {t.face}
  /\ ~t.open => t.shows = {}
  /\ t.declared /\ ~t.void => t.font = t.face
  /\ t.faults \subseteq {"composite"}

RowsAgree(t) == ~t.void => t.row = t.line

PensAgree(t) == ~t.void => t.x = t.wx

(* A line is being printed, in a string.                                   *)
Lined(t) ==
  /\ t \in Shape /\ FontsAgree(t) /\ RowsAgree(t) /\ t.line < LinesPerPage
  /\ t.open <=> ~t.void

Begun(t) == Lined(t) /\ ~t.startPage /\ ~t.startLine /\ ~t.inCut

Writing(t) == Begun(t) /\ PensAgree(t)

(* So it is, or the line is full and will not be folded.                   *)
Reaches(t) == PensAgree(t) \/ (~E!Folding /\ t.wx > E!WxPerLine)

(* Between two characters of a file.                                       *)
Body(t) ==
  /\ t \in Shape /\ FontsAgree(t) /\ t.line < LinesPerPage
  /\ t.startPage => t.startLine /\ t.line = 0
  /\ t.startLine => t.wx = 0 /\ ~t.inCut
  /\ t.inCut => ~E!Folding /\ t.wx > E!WxPerLine
  /\ t.open <=> ~t.startLine /\ ~t.void
  /\ ~t.startPage => RowsAgree(t)
  /\ ~t.startPage /\ ~t.inCut => PensAgree(t)

-----------------------------------------------------------------------------
(* Widths and columns.                                                     *)

Opts(j) ==
  /\ j.folding \in BOOLEAN /\ j.numbering \in BOOLEAN /\ j.interpret \in BOOLEAN
  /\ j.tabsize \in Nat /\ j.tabsize > 0 /\ j.wxperline \in Nat
  /\ j.wxperline >= 2 * COURIER_WX

LEMMA Constants ==
  ASSUME E!TextAssumption
  PROVE  /\ COURIER_WX \in Nat /\ COURIER_WX > 0
         /\ LinesPerPage \in Nat /\ LinesPerPage > 0
         /\ \A j \in Jobs : Opts(j)
         /\ (CHOOSE f \in EngineFaces : TRUE) \in EngineFaces
BY DEF E!TextAssumption, E!Options, Opts

LEMMA Widths ==
  ASSUME E!TextAssumption, NEW c
  PROVE  E!Width(c) \in Nat /\ E!Width(c) <= 2 * COURIER_WX /\ E!Columns(c) \in Nat
<1>1. COURIER_WX \div 2 \in Nat /\ COURIER_WX \div 2 <= COURIER_WX
  BY Constants
<1>2. QED
  BY <1>1, Constants DEF E!Width, E!Columns

LEMMA MaxOfTwo ==
  ASSUME NEW a \in Nat, NEW b \in Nat
  PROVE  E!Max({a, b}) \in Nat /\ E!Max({a, b}) >= a
<1>1. \E m \in {a, b} : \A y \in {a, b} : m >= y
  <2>1. CASE a >= b
    BY <2>1
  <2>2. CASE ~(a >= b)
    BY <2>2
  <2>3. QED
    BY <2>1, <2>2
<1>2. QED
  BY <1>1 DEF E!Max

(* A tab goes beyond the column reached.                                   *)
LEMMA Quotients ==
  ASSUME NEW n \in Nat, NEW d \in Nat, d > 0
  PROVE  /\ n \div d \in Nat /\ n < (n \div d + 1) * d
         /\ \A k \in Nat : k >= n \div d + 1 => k * d \in Nat /\ k * d >= n
<1>1. n \div d \in Nat /\ n < (n \div d + 1) * d
  OBVIOUS
<1>2. ASSUME NEW k \in Nat, k >= n \div d + 1
      PROVE  k * d \in Nat /\ k * d >= (n \div d + 1) * d
  BY <1>1, <1>2
<1>3. QED
  BY <1>1, <1>2

LEMMA TabBeyond ==
  ASSUME E!TextAssumption, job \in Jobs, NEW t, t.wx \in Nat, t.column \in Nat
  PROVE  /\ E!NextTab(t) \in Nat /\ E!NextTab(t) * COURIER_WX \in Nat
         /\ E!NextTab(t) * COURIER_WX >= t.wx
<1> DEFINE c == t.wx \div COURIER_WX
           m == E!Max({c, t.column})
           k == E!NextTab(t)
<1>1. c \in Nat /\ E!TabSize \in Nat /\ E!TabSize > 0
  BY Constants, Quotients DEF Opts, E!TabSize
<1>2. m \in Nat /\ m >= c
  BY <1>1, MaxOfTwo
<1>3. k = (m \div E!TabSize + 1) * E!TabSize
  BY DEF E!NextTab
<1>4. \A n, d \in Nat : d > 0 => n \div d \in Nat /\ n < (n \div d + 1) * d /\ (n \div d + 1) * d \in Nat
  OBVIOUS
<1>5. k \in Nat /\ k >= c + 1
  <2> HIDE DEF m, k, c
  <2>1. m < k /\ k \in Nat
    BY <1>1, <1>2, <1>3, <1>4
  <2>2. QED
    BY <2>1, <1>1, <1>2
<1>6. QED
  <2> HIDE DEF k, m
  <2>1. k * COURIER_WX \in Nat /\ k * COURIER_WX >= t.wx
    BY <1>5, Quotients, Constants
  <2>2. QED
    BY <2>1, <1>5 DEF k
-----------------------------------------------------------------------------
(* What is written to the printer.                                         *)

(* What a function that writes to the printer leaves alone.                *)
SameMarks(e, t) ==
  e.startPage = t.startPage /\ e.startLine = t.startLine /\ e.inCut = t.inCut

Ended(e, t) ==
  /\ e \in Shape /\ FontsAgree(e) /\ ~e.open
  /\ e.line = t.line + 1 /\ e.column = 0 /\ e.wx = 0
  /\ ~e.void => e.x = 0 /\ e.row = t.row + 1
  /\ e.face = t.face /\ e.void = t.void
  /\ SameMarks(e, t)

(* Setting the counters of the line leaves the printer alone, and so on.   *)
LEMMA LineSet ==
  ASSUME NEW t \in Shape, NEW n \in Nat
  PROVE  LET e == [t EXCEPT !.declared = TRUE, !.line = n, !.column = 0, !.wx = 0]
         IN /\ e \in Shape /\ SameMarks(e, t)
            /\ e.line = n /\ e.column = 0 /\ e.wx = 0 /\ e.declared
            /\ e.open = t.open /\ e.shows = t.shows /\ e.face = t.face /\ e.font = t.font
            /\ e.faults = t.faults /\ e.void = t.void /\ e.x = t.x /\ e.row = t.row
BY DEF Shape, SameMarks

LEMMA RowSet ==
  ASSUME NEW t \in Shape, NEW n \in Nat
  PROVE  LET e == [t EXCEPT !.row = n, !.x = 0]
         IN /\ e \in Shape /\ SameMarks(e, t)
            /\ e.open = t.open /\ e.shows = t.shows /\ e.face = t.face /\ e.font = t.font
            /\ e.faults = t.faults /\ e.void = t.void /\ e.x = 0 /\ e.row = n
            /\ e.line = t.line /\ e.column = t.column /\ e.wx = t.wx /\ e.declared = t.declared
BY DEF Shape, SameMarks

LEMMA StringShown ==
  ASSUME NEW t \in Shape
  PROVE  LET e == [t EXCEPT !.open = FALSE, !.font = t.face, !.shows = {}]
         IN /\ e \in Shape /\ SameMarks(e, t)
            /\ ~e.open /\ e.shows = {} /\ e.font = e.face /\ e.face = t.face
            /\ e.faults = t.faults /\ e.void = t.void /\ e.x = t.x /\ e.row = t.row
            /\ e.line = t.line /\ e.column = t.column /\ e.wx = t.wx /\ e.declared = t.declared
BY DEF Shape, SameMarks

LEMMA CloseFacts ==
  ASSUME NEW t \in Shape, FontsAgree(t), t.open, ~t.void
  PROVE  E!CloseString(t) = [t EXCEPT !.open = FALSE, !.font = t.face, !.shows = {}]
<1> DEFINE f == IF t.declared THEN t.font ELSE t.face
           sh == E!CloseString(t)
<1>1. f = t.face
  BY DEF FontsAgree
<1>2. E!FaultIf(~t.open, "string") = {} /\ E!FaultIf(\E g \in t.shows : g # t.face, "face") = {}
  BY DEF FontsAgree, E!FaultIf
<1>3. sh = [t EXCEPT !.open = FALSE, !.font = t.face, !.shows = {},
                     !.faults = @ \cup E!FaultIf(~t.open, "string")
                        \cup E!FaultIf(\E g \in t.shows : g # t.face, "face")]
  BY <1>1 DEF E!CloseString, E!ShowIn
<1> HIDE DEF sh
<1>4. sh = [t EXCEPT !.open = FALSE, !.font = t.face, !.shows = {}]
  BY <1>2, <1>3 DEF Shape
<1>5. QED
  BY <1>4 DEF sh

LEMMA EndFacts ==
  ASSUME NEW t \in Shape, FontsAgree(t), t.open <=> ~t.void
  PROVE  Ended(E!EndOfLine(t), t)
<1> DEFINE sh == E!CloseString(t)
           r == E!NextRow(sh)
           e == E!EndOfLine(t)
<1>1. CASE t.void
  <2> DEFINE n == t.line + 1
  <2>1. e = [t EXCEPT !.declared = TRUE, !.line = n, !.column = 0, !.wx = 0]
    BY <1>1 DEF E!EndOfLine, E!CloseString, E!ShowIn, E!NextRow
  <2>2. n \in Nat
    BY DEF Shape
  <2> HIDE DEF e, n
  <2>3. /\ e \in Shape /\ SameMarks(e, t)
        /\ e.line = n /\ e.column = 0 /\ e.wx = 0 /\ e.declared
        /\ e.open = t.open /\ e.shows = t.shows /\ e.face = t.face /\ e.font = t.font
        /\ e.faults = t.faults /\ e.void = t.void
    BY <2>1, <2>2, LineSet
  <2>4. QED
    BY <2>3, <1>1 DEF FontsAgree, Ended, e, n
<1>2. CASE ~t.void
  <2> DEFINE n == r.line + 1
  <2>1. e = [r EXCEPT !.declared = TRUE, !.line = n, !.column = 0, !.wx = 0]
    BY DEF E!EndOfLine
  <2>2. sh = [t EXCEPT !.open = FALSE, !.font = t.face, !.shows = {}]
    BY <1>2, CloseFacts
  <2> HIDE DEF e, r, sh, n
  <2>3. /\ sh \in Shape /\ SameMarks(sh, t) /\ ~sh.open /\ sh.shows = {}
        /\ sh.font = sh.face /\ sh.face = t.face /\ sh.faults = t.faults
        /\ sh.void = t.void /\ sh.row = t.row /\ sh.line = t.line
    BY <2>2, StringShown
  <2>4. r = [sh EXCEPT !.row = sh.row + 1, !.x = 0] /\ sh.row + 1 \in Nat
    BY <2>3, <1>2 DEF r, E!NextRow, Shape
  <2>5. /\ r \in Shape /\ SameMarks(r, sh) /\ ~r.open /\ r.shows = {}
        /\ r.font = r.face /\ r.face = t.face /\ r.faults = t.faults
        /\ r.void = t.void /\ r.row = sh.row + 1 /\ r.x = 0 /\ r.line = t.line
    BY <2>3, <2>4, RowSet
  <2>6. n \in Nat
    BY <2>5 DEF Shape, n
  <2>7. /\ e \in Shape /\ SameMarks(e, r)
        /\ e.line = n /\ e.column = 0 /\ e.wx = 0 /\ e.declared
        /\ e.open = r.open /\ e.shows = r.shows /\ e.face = r.face /\ e.font = r.font
        /\ e.faults = r.faults /\ e.void = r.void /\ e.x = r.x /\ e.row = r.row
    <3>1. r \in Shape
      BY <2>5
    <3>2. QED
      BY <3>1, <2>6, <2>1, LineSet
  <2>8. SameMarks(e, t)
    BY <2>3, <2>5, <2>7 DEF SameMarks
  <2>9. /\ e.row = t.row + 1 /\ e.line = t.line + 1 /\ e.x = 0
        /\ e.face = t.face /\ e.void = t.void /\ ~e.open
    BY <2>3, <2>5, <2>7 DEF n
  <2>10. FontsAgree(e)
    BY <2>5, <2>7 DEF FontsAgree
  <2>11. QED
    BY <2>7, <2>8, <2>9, <2>10 DEF Ended, e
<1>3. QED
  BY <1>1, <1>2

LEMMA FaceSet ==
  ASSUME NEW t \in Shape, NEW f \in EngineFaces
  PROVE  LET e == [t EXCEPT !.declared = FALSE, !.face = f]
         IN /\ e \in Shape /\ SameMarks(e, t)
            /\ e.open = t.open /\ e.shows = t.shows /\ e.face = f /\ e.font = t.font
            /\ e.faults = t.faults /\ e.void = t.void /\ e.x = t.x /\ e.row = t.row
            /\ e.line = t.line /\ e.column = t.column /\ e.wx = t.wx /\ ~e.declared
BY DEF Shape, SameMarks

(* The counters and the place are kept.                                    *)
SamePlace(e, t) ==
  /\ SameMarks(e, t)
  /\ e.line = t.line /\ e.column = t.column /\ e.wx = t.wx
  /\ e.void = t.void /\ e.row = t.row /\ e.x = t.x

LEMMA OpenFacts ==
  ASSUME NEW t \in Shape, ~t.open
  PROVE  LET e == E!OpenString(t)
         IN /\ e \in Shape /\ SamePlace(e, t)
            /\ e.open <=> ~e.void
            /\ e.shows = t.shows /\ e.face = t.face /\ e.font = t.font
            /\ e.faults = t.faults /\ (e.declared <=> t.declared)
<1> DEFINE e == E!OpenString(t)
<1>1. CASE t.void
  BY <1>1 DEF E!OpenString, SamePlace, SameMarks
<1>2. CASE ~t.void
  <2>1. E!FaultIf(t.open, "string") = {}
    BY DEF E!FaultIf
  <2>2. e = [t EXCEPT !.open = TRUE, !.faults = @ \cup E!FaultIf(t.open, "string")]
    BY <1>2 DEF E!OpenString
  <2>3. e = [t EXCEPT !.open = TRUE]
    <3> HIDE DEF e
    <3>1. QED
      BY <2>1, <2>2 DEF Shape
  <2> HIDE DEF e
  <2>4. e \in Shape /\ SameMarks(e, t)
    BY <2>3 DEF Shape, SameMarks
  <2>5. /\ e.line = t.line /\ e.column = t.column /\ e.wx = t.wx
        /\ e.void = t.void /\ e.row = t.row /\ e.x = t.x
    BY <2>3 DEF Shape
  <2>6. /\ e.open = TRUE
        /\ e.shows = t.shows /\ e.face = t.face /\ e.font = t.font
        /\ e.faults = t.faults /\ e.declared = t.declared
    BY <2>3 DEF Shape
  <2>7. QED
    BY <2>4, <2>5, <2>6, <1>2 DEF SamePlace, e
<1>3. QED
  BY <1>1, <1>2

(* A string where nothing is shown yet, in the face f unless a tab comes   *)
(* first.                                                                  *)
Opened(e, t, f) ==
  /\ e \in Shape /\ SamePlace(e, t) /\ FontsAgree(e)
  /\ e.open <=> ~e.void
  /\ IF E!Numbering THEN e.face = t.face ELSE e.face = f

LEMMA MoveFacts ==
  ASSUME E!TextAssumption, NEW t \in Shape, ~t.void => t.x = 0
  PROVE  E!MoveTo(t, 0) = t
<1>1. CASE t.void
  BY <1>1 DEF E!MoveTo
<1>2. CASE ~t.void
  <2>1. 0 * COURIER_WX = 0 /\ t.x = 0
    BY <1>2, Constants
  <2>2. E!FaultIf(0 * COURIER_WX < t.x, "tab") = {}
    BY <2>1 DEF E!FaultIf
  <2>3. E!MoveTo(t, 0) = [t EXCEPT !.x = 0, !.faults = @ \cup {}]
    BY <2>1, <2>2, <1>2 DEF E!MoveTo
  <2>4. [t EXCEPT !.x = 0, !.faults = @ \cup {}] = t
    BY <2>1 DEF Shape
  <2>5. QED
    BY <2>3, <2>4
<1>3. QED
  BY <1>1, <1>2

LEMMA StringFacts ==
  ASSUME E!TextAssumption, NEW t \in Shape, NEW f \in EngineFaces,
         FontsAgree(t), ~t.open, ~t.void => t.x = 0
  PROVE  Opened(E!NewString(t, f), t, f)
<1> DEFINE o == E!OpenString(t)
           e == E!NewString(t, f)
<1>1. /\ o \in Shape /\ SamePlace(o, t)
      /\ o.open <=> ~o.void
      /\ o.shows = t.shows /\ o.face = t.face /\ o.font = t.font
      /\ o.faults = t.faults /\ (o.declared <=> t.declared)
  BY OpenFacts
<1>2. o.void <=> t.void
  BY <1>1 DEF SamePlace
<1>3. t.shows = {} /\ t.faults \subseteq {"composite"}
  BY DEF FontsAgree
<1>4. FontsAgree(o)
  <2> HIDE DEF o
  <2>1. QED
    BY <1>1, <1>2 DEF FontsAgree
<1>5. CASE E!Numbering
  <2>1. e = o
    BY <1>5, MoveFacts DEF E!NewString
  <2> HIDE DEF e, o
  <2>2. QED
    BY <2>1, <1>1, <1>4, <1>5 DEF Opened, e
<1>6. CASE ~E!Numbering /\ t.face = f
  <2>1. e = [o EXCEPT !.declared = @ /\ t.face = f, !.face = f]
    BY <1>6 DEF E!NewString
  <2> HIDE DEF e, o
  <2>2. o.face = f /\ o.declared \in BOOLEAN /\ o \in Shape
    BY <1>1, <1>6 DEF Shape
  <2>3. e = o
    BY <2>1, <2>2, <1>6 DEF Shape
  <2>4. QED
    BY <2>3, <1>1, <1>4, <1>6 DEF Opened, e
<1>7. CASE ~E!Numbering /\ t.face # f
  <2>1. e = [o EXCEPT !.declared = FALSE, !.face = f]
    BY <1>7 DEF E!NewString
  <2>2. o \in Shape
    BY <1>1
  <2> HIDE DEF e, o
  <2>3. /\ e \in Shape /\ SameMarks(e, o)
        /\ e.open = o.open /\ e.shows = o.shows /\ e.face = f /\ e.font = o.font
        /\ e.faults = o.faults /\ e.void = o.void /\ e.x = o.x /\ e.row = o.row
        /\ e.line = o.line /\ e.column = o.column /\ e.wx = o.wx /\ ~e.declared
    BY <2>1, <2>2, FaceSet
  <2>4. SamePlace(e, t)
    BY <1>1, <2>3 DEF SamePlace, SameMarks
  <2>5. FontsAgree(e)
    BY <2>3, <1>1, <1>3 DEF FontsAgree
  <2>6. QED
    BY <2>3, <1>1, <2>4, <2>5, <1>7 DEF Opened, e
<1>8. QED
  BY <1>5, <1>6, <1>7
-----------------------------------------------------------------------------
(* The pages and the lines.                                                *)

(* The printer's strings, and the current face.                            *)
SameStrings(e, t) ==
  /\ e.open = t.open /\ e.shows = t.shows /\ e.face = t.face
  /\ e.faults = t.faults

LEMMA PageEnds ==
  ASSUME NEW t \in Shape, ~t.open
  PROVE  LET e == E!VirtualEnd(t)
         IN /\ e \in Shape /\ SameMarks(e, t) /\ SameStrings(e, t)
            /\ e.font = t.font /\ e.declared = t.declared /\ e.void = t.void
            /\ e.line = 0 /\ e.column = t.column /\ e.wx = t.wx
<1> DEFINE e == E!VirtualEnd(t)
<1>1. E!FaultIf(t.open, "string") = {}
  BY DEF E!FaultIf
<1>2. e = [t EXCEPT !.line = 0]
  <2>1. e = [t EXCEPT !.line = 0, !.faults = @ \cup E!FaultIf(t.open, "string")]
    BY DEF E!VirtualEnd
  <2> HIDE DEF e
  <2>2. QED
    BY <1>1, <2>1 DEF Shape
<1> HIDE DEF e
<1>3. e \in Shape /\ SameMarks(e, t) /\ SameStrings(e, t)
  BY <1>2 DEF Shape, SameMarks, SameStrings
<1>4. /\ e.font = t.font /\ e.declared = t.declared /\ e.void = t.void
      /\ e.line = 0 /\ e.column = t.column /\ e.wx = t.wx
  BY <1>2 DEF Shape
<1>5. QED
  BY <1>3, <1>4 DEF e

LEMMA PageBegins ==
  ASSUME NEW t \in Shape
  PROVE  LET e == E!VirtualBegin(t)
         IN /\ e \in Shape /\ SameMarks(e, t) /\ SameStrings(e, t)
            /\ e.declared = t.declared /\ e.line = t.line /\ e.column = t.column /\ e.wx = t.wx
            /\ ~e.void => e.x = 0 /\ e.row = 0
<1> DEFINE n == t.pages + 1
           e == E!VirtualBegin(t)
<1>1. n \in Nat /\ n = t.pages + 1
  BY DEF Shape
<1>2. CASE n \in E!Skipped
  <2>1. e = [t EXCEPT !.pages = n, !.void = TRUE, !.font = @, !.x = @, !.row = @]
    BY <1>2 DEF E!VirtualBegin
  <2>2. e = [t EXCEPT !.pages = n, !.void = TRUE]
    <3> HIDE DEF e, n
    <3>1. QED
      BY <2>1, <1>1 DEF Shape
  <2> HIDE DEF e, n
  <2>3. e \in Shape /\ SameMarks(e, t)
    BY <2>2, <1>1 DEF Shape, SameMarks
  <2>4. /\ SameStrings(e, t) /\ e.void = TRUE /\ e.declared = t.declared
        /\ e.line = t.line /\ e.column = t.column /\ e.wx = t.wx
    BY <2>2, <1>1 DEF Shape, SameStrings
  <2>5. QED
    BY <2>3, <2>4 DEF e
<1>3. CASE n \notin E!Skipped
  <2> DEFINE skips == n \in E!Skipped
  <2>7. skips = FALSE
    BY <1>3
  <2>6. e = [t EXCEPT !.pages = n, !.void = skips,
               !.font = IF skips THEN @ ELSE E!NoFont,
               !.x = IF skips THEN @ ELSE 0, !.row = IF skips THEN @ ELSE 0]
    BY DEF E!VirtualBegin
  <2>1. e = [t EXCEPT !.pages = n, !.void = FALSE, !.font = E!NoFont, !.x = 0, !.row = 0]
    <3> HIDE DEF e, n, skips
    <3>1. QED
      BY <2>7, <2>6 DEF Shape
  <2> HIDE DEF e, n
  <2>2. e \in Shape /\ SameMarks(e, t)
    BY <2>1, <1>1 DEF Shape, SameMarks
  <2>3. /\ SameStrings(e, t) /\ e.declared = t.declared /\ e.x = 0 /\ e.row = 0
        /\ e.line = t.line /\ e.column = t.column /\ e.wx = t.wx
    BY <2>1, <1>1 DEF Shape, SameStrings
  <2>4. QED
    BY <2>2, <2>3 DEF e
<1>4. QED
  BY <1>2, <1>3

LEMMA Undeclared ==
  ASSUME NEW t \in Shape
  PROVE  LET e == [t EXCEPT !.declared = FALSE]
         IN /\ e \in Shape /\ SamePlace(e, t) /\ SameStrings(e, t) /\ ~e.declared /\ e.font = t.font
<1> DEFINE e == [t EXCEPT !.declared = FALSE]
<1>1. e \in Shape /\ SameMarks(e, t)
  BY DEF Shape, SameMarks
<1>2. /\ e.line = t.line /\ e.column = t.column /\ e.wx = t.wx
      /\ e.void = t.void /\ e.row = t.row /\ e.x = t.x
  BY DEF Shape
<1>3. SameStrings(e, t) /\ e.declared = FALSE /\ e.font = t.font
  BY DEF Shape, SameStrings
<1>4. QED
  BY <1>1, <1>2, <1>3 DEF SamePlace

(* The rest of a line goes on under it, or on the next page, in a new      *)
(* string.                                                                 *)
LEMMA FoldFacts ==
  ASSUME E!TextAssumption, NEW f \in EngineFaces, NEW t, Lined(t), t.face = f
  PROVE  LET r == E!FoldLine(t, f)
         IN /\ Lined(r) /\ PensAgree(r) /\ SameMarks(r, t)
            /\ r.face = f /\ r.wx = 0 /\ r.column = 0
<1> DEFINE e == E!EndOfLine(t)
           v == E!VirtualEnd(e)
           b == E!VirtualBegin(v)
           k == [b EXCEPT !.declared = FALSE]
           u == IF E!PageFull(e) THEN k ELSE e
           r == E!FoldLine(t, f)
<1>1. r = E!NewString(u, f)
  BY DEF E!FoldLine
<1>2. Ended(e, t)
  BY EndFacts DEF Lined
<1>3. LinesPerPage \in Nat /\ LinesPerPage > 0 /\ t.line \in Nat /\ t.line < LinesPerPage
  BY Constants DEF Lined, Shape
<1>4. /\ u \in Shape /\ FontsAgree(u) /\ ~u.open /\ u.line < LinesPerPage
      /\ RowsAgree(u) /\ (~u.void => u.x = 0) /\ SameMarks(u, t)
      /\ u.face = f /\ u.wx = 0 /\ u.column = 0
  <2>1. CASE ~E!PageFull(e)
    <3>1. u = e /\ e.line < LinesPerPage
      BY <2>1, <1>2, <1>3 DEF E!PageFull, Ended
    <3>2. RowsAgree(e)
      BY <1>2 DEF Ended, RowsAgree, Lined
    <3> HIDE DEF u, e
    <3>3. QED
      BY <3>1, <3>2, <1>2 DEF Ended
  <2>2. CASE E!PageFull(e)
    <3>1. u = k
      BY <2>2
    <3> HIDE DEF u, e
    <3>2. /\ v \in Shape /\ SameMarks(v, e) /\ SameStrings(v, e)
          /\ v.line = 0 /\ v.column = e.column /\ v.wx = e.wx
      BY <1>2, PageEnds DEF Ended
    <3>3. v \in Shape
      BY <3>2
    <3> HIDE DEF v
    <3>4. /\ b \in Shape /\ SameMarks(b, v) /\ SameStrings(b, v)
          /\ b.line = v.line /\ b.column = v.column /\ b.wx = v.wx
          /\ ~b.void => b.x = 0 /\ b.row = 0
      BY <3>3, PageBegins
    <3>5. b \in Shape
      BY <3>4
    <3> HIDE DEF b
    <3>6. k \in Shape /\ SamePlace(k, b) /\ SameStrings(k, b) /\ ~k.declared
      BY <3>5, Undeclared
    <3> HIDE DEF k
    <3>7. SameMarks(k, t)
      BY <3>2, <3>4, <3>6, <1>2 DEF SamePlace, SameMarks, Ended
    <3>8. ~k.open /\ k.shows = e.shows /\ k.face = t.face /\ k.faults = e.faults
      BY <3>2, <3>4, <3>6, <1>2 DEF SameStrings, Ended
    <3>9. /\ k.line = 0 /\ k.wx = 0 /\ k.column = 0
          /\ ~k.void => k.x = 0 /\ k.row = 0
      BY <3>2, <3>4, <3>6, <1>2 DEF SamePlace, Ended
    <3>10. FontsAgree(k)
      BY <3>6, <3>8, <1>2 DEF FontsAgree, Ended
    <3>11. QED
      BY <3>1, <3>6, <3>7, <3>8, <3>9, <3>10, <1>3 DEF RowsAgree
  <2>3. QED
    BY <2>1, <2>2
<1>5. Opened(r, u, f)
  <2>1. u \in Shape /\ FontsAgree(u) /\ ~u.open /\ (~u.void => u.x = 0)
    BY <1>4
  <2> HIDE DEF u, r
  <2>2. QED
    BY <1>1, <2>1, StringFacts
<1> HIDE DEF u, r
<1>6. SameMarks(r, t) /\ r.face = f
  BY <1>4, <1>5 DEF Opened, SamePlace, SameMarks
<1>7. Lined(r) /\ PensAgree(r)
  BY <1>4, <1>5 DEF Opened, SamePlace, Lined, RowsAgree, PensAgree
<1>8. r.wx = 0 /\ r.column = 0
  BY <1>4, <1>5 DEF Opened, SamePlace
<1>9. QED
  BY <1>6, <1>7, <1>8 DEF r

(* Marking where one is in the text writes nothing.                        *)
SameLine(e, t) ==
  /\ e \in Shape /\ SameStrings(e, t) /\ e.declared = t.declared /\ e.font = t.font
  /\ e.line = t.line /\ e.column = t.column /\ e.wx = t.wx
  /\ e.void = t.void /\ e.row = t.row /\ e.x = t.x

LEMMA Cut ==
  ASSUME NEW t \in Shape
  PROVE  /\ LET e == [t EXCEPT !.inCut = FALSE]
            IN SameLine(e, t) /\ e.startPage = t.startPage /\ e.startLine = t.startLine /\ ~e.inCut
         /\ LET e == [t EXCEPT !.inCut = TRUE]
            IN SameLine(e, t) /\ e.startPage = t.startPage /\ e.startLine = t.startLine /\ e.inCut
<1>1. LET e == [t EXCEPT !.inCut = FALSE]
      IN SameLine(e, t) /\ e.startPage = t.startPage /\ e.startLine = t.startLine /\ ~e.inCut
  BY DEF Shape, SameLine, SameStrings
<1>2. LET e == [t EXCEPT !.inCut = TRUE]
      IN SameLine(e, t) /\ e.startPage = t.startPage /\ e.startLine = t.startLine /\ e.inCut
  BY DEF Shape, SameLine, SameStrings
<1>3. QED
  BY <1>1, <1>2

LEMMA LineMarks ==
  ASSUME NEW t \in Shape
  PROVE  /\ LET e == [t EXCEPT !.startLine = FALSE]
            IN SameLine(e, t) /\ e.startPage = t.startPage /\ ~e.startLine /\ e.inCut = t.inCut
         /\ LET e == [t EXCEPT !.startLine = TRUE]
            IN SameLine(e, t) /\ e.startPage = t.startPage /\ e.startLine /\ e.inCut = t.inCut
         /\ LET e == [t EXCEPT !.startPage = TRUE]
            IN SameLine(e, t) /\ e.startPage /\ e.startLine = t.startLine /\ e.inCut = t.inCut
<1>1. LET e == [t EXCEPT !.startLine = FALSE]
      IN SameLine(e, t) /\ e.startPage = t.startPage /\ ~e.startLine /\ e.inCut = t.inCut
  BY DEF Shape, SameLine, SameStrings
<1>2. LET e == [t EXCEPT !.startLine = TRUE]
      IN SameLine(e, t) /\ e.startPage = t.startPage /\ e.startLine /\ e.inCut = t.inCut
  BY DEF Shape, SameLine, SameStrings
<1>3. LET e == [t EXCEPT !.startPage = TRUE]
      IN SameLine(e, t) /\ e.startPage /\ e.startLine = t.startLine /\ e.inCut = t.inCut
  BY DEF Shape, SameLine, SameStrings
<1>4. QED
  BY <1>1, <1>2, <1>3

LEMMA PageStarted ==
  ASSUME NEW t \in Shape, NEW f \in EngineFaces
  PROVE  LET e == [t EXCEPT !.startPage = FALSE, !.startLine = FALSE, !.face = f, !.declared = FALSE]
         IN /\ e \in Shape /\ ~e.startPage /\ ~e.startLine /\ e.inCut = t.inCut
            /\ e.open = t.open /\ e.shows = t.shows /\ e.face = f /\ e.faults = t.faults
            /\ e.line = t.line /\ e.column = t.column /\ e.wx = t.wx /\ ~e.declared
            /\ e.void = t.void /\ e.row = t.row /\ e.x = t.x
BY DEF Shape

(* "Start a new line?": then it is started.                                *)
LEMMA StartFacts ==
  ASSUME E!TextAssumption, NEW f \in EngineFaces, NEW t, Body(t)
  PROVE  LET b == E!StartLine([t EXCEPT !.inCut = FALSE], f)
         IN /\ Lined(b) /\ ~b.startPage /\ ~b.startLine /\ ~b.inCut
            /\ ~t.inCut => PensAgree(b)
            /\ Reaches(b)
<1> DEFINE u == [t EXCEPT !.inCut = FALSE]
           b == E!StartLine(u, f)
<1>1. t \in Shape
  BY DEF Body
<1>2. /\ SameLine(u, t) /\ u \in Shape
      /\ u.startPage = t.startPage /\ u.startLine = t.startLine /\ ~u.inCut
  BY <1>1, Cut DEF SameLine
<1> HIDE DEF u
<1>3. FontsAgree(u)
  BY <1>2 DEF SameLine, SameStrings, FontsAgree, Body
<1>4. CASE ~u.startLine
  <2>1. b = u
    BY <1>4 DEF E!StartLine
  <2>2. /\ RowsAgree(u) /\ u.line < LinesPerPage /\ (u.open <=> ~u.void)
        /\ ~t.inCut => PensAgree(u)
    BY <1>2, <1>4 DEF SameLine, SameStrings, Body, RowsAgree, PensAgree
  <2>r. Reaches(u)
    BY <2>2, <1>2 DEF SameLine, Body, Reaches
  <2>3. ~u.startPage
    BY <1>2, <1>4 DEF Body
  <2> HIDE DEF b
  <2>4. QED
    BY <2>1, <2>2, <2>r, <2>3, <1>2, <1>3, <1>4 DEF Lined, b, u
<1>5. CASE u.startLine /\ ~u.startPage
  <2> DEFINE v == [u EXCEPT !.startLine = FALSE]
  <2>1. b = E!NewString(v, f)
    BY <1>5 DEF E!StartLine
  <2>2. SameLine(v, u) /\ v \in Shape /\ v.startPage = u.startPage /\ ~v.startLine /\ ~v.inCut
    BY <1>2, LineMarks DEF SameLine
  <2> HIDE DEF b, v
  <2>3. /\ RowsAgree(v) /\ v.line < LinesPerPage /\ ~v.open
        /\ PensAgree(v) /\ (~v.void => v.x = 0)
    BY <1>2, <1>5, <2>2 DEF SameLine, SameStrings, Body, RowsAgree, PensAgree
  <2>4. FontsAgree(v)
    BY <1>3, <2>2 DEF SameLine, SameStrings, FontsAgree
  <2>5. Opened(b, v, f)
    BY <2>1, <2>2, <2>3, <2>4, StringFacts
  <2>6. Lined(b) /\ PensAgree(b) /\ ~b.startPage /\ ~b.startLine /\ ~b.inCut
    BY <2>2, <2>3, <2>5, <1>5
    DEF Opened, SamePlace, SameMarks, Lined, RowsAgree, PensAgree
  <2>7. QED
    BY <2>6 DEF b, u, Reaches
<1>6. CASE u.startLine /\ u.startPage
  <2> DEFINE g == E!VirtualBegin(u)
             v == [g EXCEPT !.startPage = FALSE, !.startLine = FALSE, !.face = f, !.declared = FALSE]
  <2>1. b = E!OpenString(IF E!Numbering THEN E!MoveTo(v, 0) ELSE v)
    BY <1>6 DEF E!StartLine
  <2>2. /\ g \in Shape /\ SameMarks(g, u) /\ SameStrings(g, u)
        /\ g.line = u.line /\ g.column = u.column /\ g.wx = u.wx
        /\ ~g.void => g.x = 0 /\ g.row = 0
    BY <1>2, PageBegins
  <2>3. g \in Shape
    BY <2>2
  <2> HIDE DEF b, g
  <2>4. /\ v \in Shape /\ ~v.startPage /\ ~v.startLine /\ v.inCut = g.inCut
        /\ v.open = g.open /\ v.shows = g.shows /\ v.face = f /\ v.faults = g.faults
        /\ v.line = g.line /\ v.column = g.column /\ v.wx = g.wx /\ ~v.declared
        /\ v.void = g.void /\ v.row = g.row /\ v.x = g.x
    BY <2>3, PageStarted
  <2> HIDE DEF v
  <2>5. v.line = 0 /\ v.wx = 0 /\ ~v.open /\ ~v.inCut
    BY <2>2, <2>4, <1>2, <1>6 DEF SameLine, SameStrings, SameMarks, Body
  <2>6. ~v.void => v.x = 0 /\ v.row = 0
    BY <2>2, <2>4
  <2>7. v.shows = {} /\ v.faults \subseteq {"composite"}
    BY <2>2, <2>4, <1>2, <1>3, <1>6, <2>5 DEF SameStrings, FontsAgree
  <2>8. FontsAgree(v)
    BY <2>4, <2>7 DEF FontsAgree
  <2>9. b = E!OpenString(v)
    BY <2>1, <2>4, <2>6, MoveFacts
  <2>10. /\ b \in Shape /\ SamePlace(b, v)
         /\ b.open <=> ~b.void
         /\ b.shows = v.shows /\ b.face = v.face /\ b.font = v.font
         /\ b.faults = v.faults /\ (b.declared <=> v.declared)
    BY <2>4, <2>5, <2>9, OpenFacts
  <2>11. FontsAgree(b)
    BY <2>10, <2>4, <2>7 DEF FontsAgree
  <2>12. Lined(b) /\ PensAgree(b) /\ ~b.startPage /\ ~b.startLine /\ ~b.inCut
    BY <2>4, <2>5, <2>6, <2>10, <2>11, Constants
    DEF SamePlace, SameMarks, Lined, RowsAgree, PensAgree
  <2>13. QED
    BY <2>12 DEF b, u, Reaches
<1>7. QED
  BY <1>4, <1>5, <1>6

(* The string of the line is shown in its face.                            *)
LEMMA ShownFacts ==
  ASSUME NEW t, Lined(t)
  PROVE  LET e == E!CloseString(t)
         IN /\ e \in Shape /\ SamePlace(e, t) /\ ~e.open /\ e.shows = {}
            /\ e.face = t.face /\ e.faults = t.faults
            /\ ~e.void => e.font = e.face
<1> DEFINE e == E!CloseString(t)
<1>1. t \in Shape /\ FontsAgree(t) /\ (t.open <=> ~t.void)
  BY DEF Lined
<1>2. CASE t.void
  <2>1. e = t
    BY <1>2 DEF E!CloseString, E!ShowIn
  <2>2. ~t.open /\ t.shows = {}
    BY <1>1, <1>2 DEF FontsAgree
  <2> HIDE DEF e
  <2>3. QED
    BY <2>1, <2>2, <1>1, <1>2 DEF SamePlace, SameMarks, e
<1>3. CASE ~t.void
  <2>1. e = [t EXCEPT !.open = FALSE, !.font = t.face, !.shows = {}]
    BY <1>1, <1>3, CloseFacts
  <2>2. t \in Shape
    BY <1>1
  <2> HIDE DEF e
  <2>3. /\ e \in Shape /\ SameMarks(e, t)
        /\ ~e.open /\ e.shows = {} /\ e.font = e.face /\ e.face = t.face
        /\ e.faults = t.faults /\ e.void = t.void /\ e.x = t.x /\ e.row = t.row
        /\ e.line = t.line /\ e.column = t.column /\ e.wx = t.wx /\ e.declared = t.declared
    BY <2>1, <2>2, StringShown
  <2>4. QED
    BY <2>3 DEF SamePlace, e
<1>4. QED
  BY <1>2, <1>3

(* "Is this a new font?": then the next glyphs are in another string.      *)
LEMMA FaceFacts ==
  ASSUME NEW f \in EngineFaces, NEW t, Begun(t)
  PROVE  LET n == E!NewFace(t, f)
         IN /\ Begun(n) /\ n.face = f /\ n.wx = t.wx /\ n.column = t.column
            /\ PensAgree(t) => PensAgree(n)
<1> DEFINE c == E!CloseString(t)
           o == E!OpenString(c)
           e == E!NewFace(t, f)
<1>1. CASE t.face = f
  BY <1>1 DEF E!NewFace
<1>2. CASE t.face # f
  <2>1. Lined(t)
    BY DEF Begun
  <2>2. /\ c \in Shape /\ SamePlace(c, t) /\ ~c.open /\ c.shows = {} /\ c.faults = t.faults
    BY <2>1, ShownFacts
  <2>3. e = [o EXCEPT !.face = f, !.declared = FALSE]
    BY <1>2 DEF E!NewFace
  <2>4. c \in Shape /\ ~c.open
    BY <2>2
  <2> HIDE DEF e, c
  <2>5. /\ o \in Shape /\ SamePlace(o, c)
        /\ o.open <=> ~o.void
        /\ o.shows = c.shows /\ o.faults = c.faults
    BY <2>4, OpenFacts
  <2>6. o \in Shape
    BY <2>5
  <2> HIDE DEF o
  <2>7. e = [o EXCEPT !.declared = FALSE, !.face = f]
    BY <2>3, <2>6 DEF Shape
  <2>8. /\ e \in Shape /\ SameMarks(e, o)
        /\ e.open = o.open /\ e.shows = o.shows /\ e.face = f /\ e.font = o.font
        /\ e.faults = o.faults /\ e.void = o.void /\ e.x = o.x /\ e.row = o.row
        /\ e.line = o.line /\ e.column = o.column /\ e.wx = o.wx /\ ~e.declared
    BY <2>6, <2>7, FaceSet
  <2>9. FontsAgree(e)
    BY <2>1, <2>2, <2>5, <2>8 DEF FontsAgree, Lined
  <2>10. SamePlace(e, t)
    BY <2>2, <2>5, <2>8 DEF SamePlace, SameMarks
  <2>11. e.open <=> ~e.void
    BY <2>5, <2>8
  <2>12. /\ Begun(e) /\ e.wx = t.wx /\ e.column = t.column
         /\ PensAgree(t) => PensAgree(e)
    BY <2>8, <2>9, <2>10, <2>11
    DEF Begun, Lined, RowsAgree, PensAgree, SamePlace, SameMarks
  <2>13. QED
    BY <2>8, <2>12 DEF e
<1>3. QED
  BY <1>1, <1>2

LEMMA WritingIsBody ==
  ASSUME NEW t, Writing(t)
  PROVE  Body(t)
BY DEF Writing, Begun, Lined, Body

(* A line has just been counted: the page goes on, or it is ended.         *)
LEMMA LineEnded ==
  ASSUME E!TextAssumption, NEW e, e \in Shape, FontsAgree(e), ~e.open, e.startLine, ~e.inCut,
         e.wx = 0
  PROVE  /\ ~e.startPage /\ e.line < LinesPerPage /\ RowsAgree(e) /\ (~e.void => e.x = 0) => Body(e)
         /\ Body([E!VirtualEnd(e) EXCEPT !.startPage = TRUE])
<1>1. ASSUME ~e.startPage, e.line < LinesPerPage, RowsAgree(e), ~e.void => e.x = 0
      PROVE  Body(e)
  BY <1>1 DEF Body, PensAgree
<1>2. Body([E!VirtualEnd(e) EXCEPT !.startPage = TRUE])
  <2> DEFINE v == E!VirtualEnd(e)
             p == [v EXCEPT !.startPage = TRUE]
  <2>1. /\ v \in Shape /\ SameMarks(v, e) /\ SameStrings(v, e)
        /\ v.font = e.font /\ v.declared = e.declared /\ v.void = e.void
        /\ v.line = 0 /\ v.column = e.column /\ v.wx = e.wx
    BY PageEnds
  <2>2. v \in Shape
    BY <2>1
  <2> HIDE DEF v
  <2>3. SameLine(p, v) /\ p.startPage /\ p.startLine = v.startLine /\ p.inCut = v.inCut
    BY <2>2, LineMarks
  <2> HIDE DEF p
  <2>4. FontsAgree(p)
    BY <2>1, <2>3 DEF SameLine, SameStrings, FontsAgree
  <2>5. p \in Shape /\ p.line = 0 /\ p.wx = 0 /\ ~p.open /\ p.startLine /\ p.startPage /\ ~p.inCut
    BY <2>1, <2>3 DEF SameLine, SameStrings, SameMarks
  <2>6. Body(p)
    BY <2>4, <2>5, Constants DEF Body
  <2>7. QED
    BY <2>6 DEF p, v
<1>3. QED
  BY <1>1, <1>2

LEMMA NewLineFacts ==
  ASSUME E!TextAssumption, NEW t, Begun(t)
  PROVE  Body(E!NewLine(t))
<1> DEFINE u == [t EXCEPT !.startLine = TRUE]
           e == E!EndOfLine(u)
<1>1. t \in Shape
  BY DEF Begun, Lined
<1>2. /\ SameLine(u, t) /\ u \in Shape /\ u.startPage = t.startPage
      /\ u.startLine /\ u.inCut = t.inCut
  BY <1>1, LineMarks DEF SameLine
<1>3. E!NewLine(t) = IF E!PageFull(e) THEN [E!VirtualEnd(e) EXCEPT !.startPage = TRUE] ELSE e
  BY DEF E!NewLine
<1> HIDE DEF u
<1>4. FontsAgree(u) /\ (u.open <=> ~u.void)
  BY <1>2 DEF SameLine, SameStrings, FontsAgree, Begun, Lined
<1>5. Ended(e, u)
  BY <1>2, <1>4, EndFacts
<1> HIDE DEF e
<1>6. /\ e \in Shape /\ FontsAgree(e) /\ ~e.open /\ e.startLine /\ ~e.inCut /\ e.wx = 0
      /\ ~e.startPage /\ RowsAgree(e) /\ (~e.void => e.x = 0)
  BY <1>2, <1>5 DEF Ended, SameMarks, SameLine, Begun, Lined, RowsAgree
<1>7. ~E!PageFull(e) => e.line < LinesPerPage
  BY <1>6, Constants DEF E!PageFull, Shape
<1>8. QED
  BY <1>3, <1>6, <1>7, LineEnded

LEMMA FormFeedFacts ==
  ASSUME E!TextAssumption, NEW t, Begun(t)
  PROVE  Body(E!FormFeed(t))
<1> DEFINE n == E!EndOfLine(t)
           e == [n EXCEPT !.startLine = TRUE]
<1>1. t \in Shape /\ FontsAgree(t) /\ (t.open <=> ~t.void) /\ ~t.startLine /\ ~t.startPage /\ ~t.inCut
  BY DEF Begun, Lined
<1>2. Ended(n, t)
  BY <1>1, EndFacts
<1>3. n \in Shape
  BY <1>2 DEF Ended
<1>4. SameLine(e, n) /\ e.startPage = n.startPage /\ e.startLine /\ e.inCut = n.inCut
  <2> HIDE DEF n
  <2>1. QED
    BY <1>3, LineMarks
<1>5. ~e.startPage
  <2> HIDE DEF e, n
  <2>1. QED
    BY <1>1, <1>2, <1>4 DEF Ended, SameMarks
<1>6. E!FormFeed(t) = [E!VirtualEnd(e) EXCEPT !.startPage = TRUE]
  <2>1. E!FormFeed(t) = [E!VirtualEnd(IF e.startPage THEN E!VirtualBegin(e) ELSE e) EXCEPT !.startPage = TRUE]
    BY <1>1 DEF E!FormFeed
  <2> HIDE DEF e
  <2>2. QED
    BY <2>1, <1>5
<1> HIDE DEF e, n
<1>7. /\ e \in Shape /\ FontsAgree(e) /\ ~e.open /\ e.startLine /\ ~e.inCut /\ e.wx = 0
  BY <1>1, <1>2, <1>4 DEF Ended, SameMarks, SameLine, SameStrings, FontsAgree
<1>8. QED
  BY <1>6, <1>7, LineEnded
-----------------------------------------------------------------------------
(* Glyphs and tabs.                                                        *)

AtColumn(t, c, w) == [t EXCEPT !.column = c, !.wx = w]

WithGlyph(t, f, x) == [t EXCEPT !.x = x, !.shows = @ \cup {f}]

LEMMA ColumnSet ==
  ASSUME NEW t \in Shape, NEW c \in Nat, NEW w \in Nat
  PROVE  LET e == AtColumn(t, c, w)
         IN /\ e \in Shape /\ SameMarks(e, t) /\ SameStrings(e, t)
            /\ e.declared = t.declared /\ e.font = t.font
            /\ e.line = t.line /\ e.column = c /\ e.wx = w
            /\ e.void = t.void /\ e.row = t.row /\ e.x = t.x
BY DEF Shape, SameMarks, SameStrings, AtColumn

LEMMA GlyphSet ==
  ASSUME NEW t \in Shape, NEW f \in EngineFaces, NEW x \in Nat
  PROVE  LET e == WithGlyph(t, f, x)
         IN /\ e \in Shape /\ SameMarks(e, t)
            /\ e.open = t.open /\ e.shows = t.shows \cup {f} /\ e.face = t.face
            /\ e.faults = t.faults /\ e.declared = t.declared /\ e.font = t.font
            /\ e.line = t.line /\ e.column = t.column /\ e.wx = t.wx
            /\ e.void = t.void /\ e.row = t.row /\ e.x = x
BY DEF Shape, SameMarks, WithGlyph

(* A glyph in the frame, in the face of the string, is printed.            *)
LEMMA GlyphFacts ==
  ASSUME E!TextAssumption, job \in Jobs, NEW f \in EngineFaces, NEW w \in Nat,
         NEW t, Begun(t), t.face = f, ~t.void => t.x + w = t.wx, t.wx <= E!WxPerLine
  PROVE  Writing(E!PutGlyph(t, f, w))
<1> DEFINE e == E!PutGlyph(t, f, w)
<1>1. CASE t.void
  BY <1>1 DEF E!PutGlyph, Writing, PensAgree
<1>2. CASE ~t.void
  <2> DEFINE n == t.x + w
  <2>1. t \in Shape /\ n \in Nat /\ t.open
    BY <1>2 DEF Begun, Lined, Shape
  <2>2. t.x + w <= E!WxPerLine /\ n = t.wx
    BY <1>2
  <2>3. t.row < LinesPerPage /\ t.row \in Nat
    BY <1>2 DEF Begun, Lined, RowsAgree, Shape
  <2>4. ~(t.row >= LinesPerPage)
    BY <2>3, Constants
  <2>5. ~(t.x + w > E!WxPerLine)
    <3>1. E!WxPerLine \in Nat
      BY Constants DEF Opts, E!WxPerLine
    <3> HIDE DEF n
    <3>2. n <= E!WxPerLine /\ n \in Nat
      BY <2>1, <2>2
    <3>3. ~(n > E!WxPerLine)
      BY <3>1, <3>2
    <3>4. QED
      BY <3>3 DEF n
  <2>6. /\ E!FaultIf(~t.open, "string") = {} /\ E!FaultIf(t.row >= LinesPerPage, "rows") = {}
        /\ E!FaultIf(t.x + w > E!WxPerLine, "margin") = {}
    BY <2>1, <2>4, <2>5 DEF E!FaultIf
  <2>7. e = [t EXCEPT !.x = @ + w, !.shows = @ \cup {f},
               !.faults = @ \cup E!FaultIf(~t.open, "string")
                             \cup E!FaultIf(t.x + w > E!WxPerLine, "margin")
                             \cup E!FaultIf(t.row >= LinesPerPage, "rows")]
    BY <1>2 DEF E!PutGlyph
  <2>8. e = WithGlyph(t, f, n)
    <3> HIDE DEF e
    <3>1. QED
      BY <2>1, <2>6, <2>7 DEF Shape, WithGlyph
  <2>9. n = t.wx /\ n \in Nat /\ t \in Shape
    BY <2>1, <2>2
  <2> HIDE DEF e, n
  <2>10. /\ e \in Shape /\ SameMarks(e, t)
         /\ e.open = t.open /\ e.shows = t.shows \cup {f} /\ e.face = t.face
         /\ e.faults = t.faults /\ e.declared = t.declared /\ e.font = t.font
         /\ e.line = t.line /\ e.column = t.column /\ e.wx = t.wx
         /\ e.void = t.void /\ e.row = t.row /\ e.x = n
    BY <2>8, <2>9, GlyphSet
  <2>11. FontsAgree(e)
    BY <2>10, <2>1 DEF FontsAgree, Begun, Lined
  <2>12. Writing(e)
    BY <2>10, <2>11, <2>9 DEF Writing, Begun, Lined, RowsAgree, PensAgree, SameMarks
  <2>13. QED
    BY <2>12 DEF e
<1>3. QED
  BY <1>1, <1>2

(* Counting columns moves no pen.                                          *)
LEMMA ColumnFacts ==
  \A t, column, wx, e : Begun(t) /\ column \in Nat /\ wx \in Nat /\ e = AtColumn(t, column, wx)
    => Begun(e) /\ e.face = t.face /\ e.wx = wx /\ e.column = column /\ e.x = t.x /\ e.void = t.void
<1> SUFFICES ASSUME NEW t, Begun(t), NEW column, column \in Nat, NEW wx, wx \in Nat,
                    NEW e, e = AtColumn(t, column, wx)
             PROVE  Begun(e) /\ e.face = t.face /\ e.wx = wx /\ e.column = column /\ e.x = t.x /\ e.void = t.void
  OBVIOUS
<1>1. t \in Shape
  BY DEF Begun, Lined
<1>2. /\ e \in Shape /\ SameMarks(e, t) /\ SameStrings(e, t)
      /\ e.declared = t.declared /\ e.font = t.font
      /\ e.line = t.line /\ e.column = column /\ e.wx = wx
      /\ e.void = t.void /\ e.row = t.row /\ e.x = t.x
  BY <1>1, ColumnSet
<1>3. FontsAgree(e)
  BY <1>2 DEF FontsAgree, SameStrings, Begun, Lined
<1>4. Begun(e)
  BY <1>2, <1>3 DEF Begun, Lined, RowsAgree, SameStrings, SameMarks
<1>5. QED
  BY <1>2, <1>4 DEF SameStrings

(* What is too long for the line is not printed.                           *)
LEMMA CutFacts ==
  ASSUME NEW t, Begun(t), ~E!Folding, t.wx > E!WxPerLine
  PROVE  Body([t EXCEPT !.inCut = TRUE])
<1> DEFINE e == [t EXCEPT !.inCut = TRUE]
<1>1. t \in Shape
  BY DEF Begun, Lined
<1>2. SameLine(e, t) /\ e.startPage = t.startPage /\ e.startLine = t.startLine /\ e.inCut
  BY <1>1, Cut
<1> HIDE DEF e
<1>3. FontsAgree(e)
  BY <1>2 DEF FontsAgree, SameLine, SameStrings, Begun, Lined
<1>4. Body(e)
  BY <1>2, <1>3 DEF Body, Begun, Lined, RowsAgree, SameLine, SameStrings
<1>5. QED
  BY <1>4 DEF e

(* Any glyph fits in a line.                                               *)
Fits(width) == width <= 2 * COURIER_WX

LEMMA PrintGlyphFacts ==
  ASSUME E!TextAssumption, job \in Jobs, NEW f \in EngineFaces, NEW t, Begun(t), Reaches(t), t.face = f,
         NEW columns, columns \in Nat, NEW folded, folded \in Nat,
         NEW width, width \in Nat, Fits(width)
  PROVE  Body(E!PrintGlyph(t, f, columns, folded, width))
<1> DEFINE nc == t.column + columns
           nw == t.wx + width
           c == AtColumn(t, nc, nw)
           r == E!FoldLine(c, f)
           l == AtColumn(r, folded, width)
<1>1. nc \in Nat /\ nw \in Nat /\ t.wx \in Nat /\ t \in Shape
  BY DEF Begun, Lined, Shape
<1>2. E!PrintGlyph(t, f, columns, folded, width) =
        IF ~E!LineFull(c) THEN E!PutGlyph(c, f, width)
        ELSE IF E!Folds(c) THEN E!PutGlyph(l, f, width)
        ELSE [c EXCEPT !.inCut = TRUE]
  BY DEF E!PrintGlyph, AtColumn
<1>3. nw <= E!WxPerLine \/ E!Folding => (~t.void => t.x + width = nw)
  <2>1. E!WxPerLine \in Nat
    BY Constants DEF Opts, E!WxPerLine
  <2>2. nw <= E!WxPerLine => ~(t.wx > E!WxPerLine)
    BY <1>1, <2>1
  <2>3. nw <= E!WxPerLine \/ E!Folding => PensAgree(t)
    BY <2>2 DEF Reaches
  <2>4. QED
    BY <2>3 DEF PensAgree
<1> HIDE DEF nc, nw
<1>4. Begun(c) /\ c.face = f /\ c.wx = nw /\ c.x = t.x /\ c.void = t.void
  <2>1. nc \in Nat /\ nw \in Nat
    BY <1>1
  <2>2. c = AtColumn(t, nc, nw)
    OBVIOUS
  <2> HIDE DEF c
  <2>3. Begun(c) /\ c.face = t.face /\ c.wx = nw /\ c.column = nc /\ c.x = t.x /\ c.void = t.void
    BY <2>1, <2>2, ColumnFacts
  <2>4. QED
    BY <2>3 DEF c
<1> HIDE DEF c
<1>6. CASE ~E!LineFull(c)
  <2>1. c.wx <= E!WxPerLine
    BY <1>6, <1>4, <1>1, Constants DEF E!LineFull, Opts, E!WxPerLine
  <2>2. ~c.void => c.x + width = c.wx
    BY <1>3, <1>4, <2>1
  <2>3. QED
    BY <2>1, <2>2, <1>2, <1>4, <1>6, GlyphFacts, WritingIsBody
<1>7. CASE E!LineFull(c) /\ E!Folds(c)
  <2>1. Lined(c)
    BY <1>4 DEF Begun
  <2>2. /\ Lined(r) /\ PensAgree(r) /\ SameMarks(r, c)
        /\ r.face = f /\ r.wx = 0 /\ r.column = 0
    BY <2>1, <1>4, FoldFacts
  <2>3. Begun(r)
    BY <2>2, <1>4 DEF Begun, SameMarks
  <2> HIDE DEF r
  <2>4. l = AtColumn(r, folded, width)
    OBVIOUS
  <2> HIDE DEF l
  <2>5. Begun(l) /\ l.face = r.face /\ l.wx = width /\ l.column = folded /\ l.x = r.x /\ l.void = r.void
    BY <2>3, <2>4, ColumnFacts
  <2>6. Begun(l) /\ l.face = f /\ l.wx = width /\ l.x = r.x /\ l.void = r.void
    BY <2>2, <2>5
  <2>7. ~l.void => l.x + width = l.wx
    BY <2>2, <2>6 DEF PensAgree
  <2>8. l.wx <= E!WxPerLine
    BY <2>6, Constants DEF Opts, E!WxPerLine, Fits
  <2>9. QED
    BY <2>6, <2>7, <2>8, <1>2, <1>7, GlyphFacts, WritingIsBody
<1>8. CASE E!LineFull(c) /\ ~E!Folds(c)
  BY <1>2, <1>4, <1>8, CutFacts DEF E!Folds, E!LineFull
<1>9. QED
  BY <1>6, <1>7, <1>8

(* A tab only moves forward, in the string after the one that it ends.     *)
LEMMA TabMoves ==
  ASSUME E!TextAssumption, NEW t, t \in Shape, ~t.open, NEW w, w \in Nat,
         w = t.column * COURIER_WX, t.wx = w, ~t.void => t.x <= w
  PROVE  LET e == E!MoveTo([t EXCEPT !.declared = TRUE], t.column)
         IN /\ e \in Shape /\ SameMarks(e, t) /\ SameStrings(e, t) /\ e.declared /\ e.font = t.font
            /\ e.line = t.line /\ e.column = t.column /\ e.wx = t.wx
            /\ e.void = t.void /\ e.row = t.row /\ PensAgree(e)
<1> DEFINE d == [t EXCEPT !.declared = TRUE]
           e == E!MoveTo(d, t.column)
<1>1. /\ d \in Shape /\ SameMarks(d, t) /\ SameStrings(d, t) /\ d.declared /\ d.font = t.font
      /\ d.line = t.line /\ d.column = t.column /\ d.wx = t.wx
      /\ d.void = t.void /\ d.row = t.row /\ d.x = t.x
  BY DEF Shape, SameMarks, SameStrings
<1> HIDE DEF d
<1>2. CASE d.void
  <2>1. e = d
    BY <1>2 DEF E!MoveTo
  <2> HIDE DEF e
  <2>2. QED
    BY <1>1, <1>2, <2>1 DEF PensAgree, e, d
<1>3. CASE ~d.void
  <2>1. E!FaultIf(t.column * COURIER_WX < d.x, "tab") = {}
    <3>1. d.x <= w /\ d.x \in Nat
      BY <1>1, <1>3 DEF Shape
    <3>2. ~(w < d.x)
      BY <3>1
    <3>3. QED
      BY <3>2 DEF E!FaultIf
  <2>2. e = [d EXCEPT !.x = w, !.faults = @ \cup E!FaultIf(t.column * COURIER_WX < d.x, "tab")]
    BY <1>3 DEF E!MoveTo
  <2>3. e = [d EXCEPT !.x = w]
    <3> HIDE DEF e
    <3>1. QED
      BY <2>1, <2>2, <1>1 DEF Shape
  <2>4. d \in Shape
    BY <1>1
  <2> HIDE DEF e
  <2>5. /\ e \in Shape /\ SameMarks(e, d) /\ SameStrings(e, d) /\ e.declared = d.declared /\ e.font = d.font
        /\ e.line = d.line /\ e.column = d.column /\ e.wx = d.wx
        /\ e.void = d.void /\ e.row = d.row /\ e.x = w
    BY <2>3, <2>4 DEF Shape, SameMarks, SameStrings
  <2>6. SameMarks(e, t) /\ SameStrings(e, t)
    BY <2>5, <1>1 DEF SameMarks, SameStrings
  <2>7. PensAgree(e)
    BY <2>5, <1>1 DEF PensAgree
  <2>8. QED
    BY <2>5, <2>6, <2>7, <1>1 DEF e, d
<1>4. QED
  BY <1>2, <1>3

LEMMA TabFacts ==
  ASSUME E!TextAssumption, job \in Jobs, NEW f \in EngineFaces, NEW t, Writing(t)
  PROVE  Body(E!PrintTab(t, f))
<1> DEFINE n == E!NewFace(t, f)
           k == E!NextTab(n)
           w == k * COURIER_WX
           c == AtColumn(n, k, w)
           r == E!FoldLine(c, f)
           l == IF E!LineFull(c) THEN r ELSE c
           sh == E!CloseString(l)
           m == E!MoveTo([sh EXCEPT !.declared = TRUE], l.column)
           o == E!OpenString(m)
<1>1. E!PrintTab(t, f) = IF E!LineFull(c) /\ ~E!Folds(c) THEN [c EXCEPT !.inCut = TRUE] ELSE o
  BY DEF E!PrintTab, AtColumn
<1>2. Writing(n) /\ n.face = f
  BY FaceFacts DEF Writing
<1> HIDE DEF n
<1>3. n.wx \in Nat /\ n.column \in Nat
  BY <1>2 DEF Writing, Begun, Lined, Shape
<1>4. k \in Nat /\ w \in Nat /\ w >= n.wx
  BY <1>3, TabBeyond
<1>5. Begun(n) /\ (~n.void => n.x = n.wx)
  BY <1>2 DEF Writing, PensAgree
<1>6. w = k * COURIER_WX
  OBVIOUS
<1> HIDE DEF k, w
<1>7. Begun(c) /\ c.face = n.face /\ c.wx = w /\ c.column = k /\ c.x = n.x /\ c.void = n.void
  BY <1>4, <1>5, ColumnFacts
<1> HIDE DEF c
<1>8. CASE E!LineFull(c) /\ ~E!Folds(c)
  BY <1>1, <1>7, <1>8, CutFacts DEF E!Folds, E!LineFull
<1>9. CASE ~(E!LineFull(c) /\ ~E!Folds(c))
  <2>1. /\ Begun(l) /\ l.wx \in Nat /\ l.wx = l.column * COURIER_WX
        /\ ~l.void => l.x <= l.wx
    <3>1. CASE E!LineFull(c)
      <4>1. Lined(c) /\ c.face = f
        BY <1>2, <1>7 DEF Begun
      <4>2. /\ Lined(r) /\ PensAgree(r) /\ SameMarks(r, c)
            /\ r.face = f /\ r.wx = 0 /\ r.column = 0
        BY <4>1, FoldFacts
      <4>3. l = r
        BY <3>1
      <4> HIDE DEF l, r
      <4>4. Begun(r)
        BY <4>2, <1>7 DEF Begun, SameMarks
      <4>5. 0 = 0 * COURIER_WX
        BY Constants
      <4>6. QED
        BY <4>2, <4>3, <4>4, <4>5 DEF PensAgree
    <3>2. CASE ~E!LineFull(c)
      <4>1. l = c
        BY <3>2
      <4> HIDE DEF l
      <4>2. c.void = n.void /\ c.x = n.x /\ c.wx = w /\ c.column = k
        BY <1>7
      <4>3. ~c.void => c.x <= c.wx
        BY <4>2, <1>3, <1>4, <1>5
      <4>4. QED
        BY <4>1, <4>2, <4>3, <1>4, <1>6, <1>7
    <3>3. QED
      BY <3>1, <3>2
  <2> HIDE DEF l
  <2>2. /\ sh \in Shape /\ SamePlace(sh, l) /\ ~sh.open /\ sh.shows = {}
        /\ sh.face = l.face /\ sh.faults = l.faults
        /\ ~sh.void => sh.font = sh.face
    BY <2>1, ShownFacts DEF Begun
  <2> HIDE DEF sh
  <2>3. sh.column = l.column /\ sh.wx = l.wx /\ sh.void = l.void /\ sh.x = l.x
    BY <2>2 DEF SamePlace
  <2>4. /\ m \in Shape /\ SameMarks(m, sh) /\ SameStrings(m, sh) /\ m.declared /\ m.font = sh.font
        /\ m.line = sh.line /\ m.column = sh.column /\ m.wx = sh.wx
        /\ m.void = sh.void /\ m.row = sh.row /\ PensAgree(m)
    <3>1. /\ sh \in Shape /\ ~sh.open /\ l.wx \in Nat /\ l.wx = sh.column * COURIER_WX
          /\ sh.wx = l.wx /\ (~sh.void => sh.x <= l.wx)
      BY <2>1, <2>2, <2>3
    <3>2. m = E!MoveTo([sh EXCEPT !.declared = TRUE], sh.column)
      BY <2>3
    <3> HIDE DEF m
    <3>3. QED
      BY <3>1, <3>2, TabMoves
  <2> HIDE DEF m
  <2>5. m \in Shape /\ ~m.open
    BY <2>2, <2>4 DEF SameStrings
  <2>6. /\ o \in Shape /\ SamePlace(o, m)
        /\ o.open <=> ~o.void
        /\ o.shows = m.shows /\ o.face = m.face /\ o.font = m.font
        /\ o.faults = m.faults /\ (o.declared <=> m.declared)
    BY <2>5, OpenFacts
  <2> HIDE DEF o
  <2>7. /\ SameMarks(o, l) /\ o.line = l.line /\ o.void = l.void /\ o.row = l.row
    BY <2>2, <2>4, <2>6 DEF SamePlace, SameMarks
  <2>8. PensAgree(o)
    BY <2>4, <2>6 DEF SamePlace, PensAgree
  <2>9. FontsAgree(o)
    <3>1. o.shows = {} /\ o.face = l.face /\ o.faults = l.faults /\ o.font = sh.font
      BY <2>2, <2>4, <2>6 DEF SameStrings
    <3>2. ~o.void => o.font = o.face
      BY <2>2, <2>3, <2>7, <3>1
    <3>3. l.faults \subseteq {"composite"}
      BY <2>1 DEF Begun, Lined, FontsAgree
    <3>4. QED
      BY <3>1, <3>2, <3>3 DEF FontsAgree
  <2>10. Writing(o)
    BY <2>1, <2>6, <2>7, <2>8, <2>9 DEF Writing, Begun, Lined, RowsAgree, SameMarks
  <2>11. QED
    BY <2>10, <1>1, <1>9, WritingIsBody
<1>10. QED
  BY <1>8, <1>9

(* What is neither the printer's nor the counters'.                        *)
LEMMA Apart ==
  ASSUME NEW e, NEW t, e \in Shape, SameMarks(e, t),
         e.open = t.open, e.shows = t.shows, e.face = t.face,
         e.declared = t.declared, e.font = t.font,
         e.line = t.line, e.wx = t.wx,
         e.void = t.void, e.row = t.row, e.x = t.x, e.faults \subseteq {"composite"}
  PROVE  /\ Begun(t) => Begun(e)
         /\ Reaches(t) => Reaches(e)
         /\ PensAgree(t) => PensAgree(e)
         /\ Body(t) => Body(e)
<1>1. FontsAgree(t) => FontsAgree(e)
  BY DEF FontsAgree
<1>2. RowsAgree(t) => RowsAgree(e)
  BY DEF RowsAgree
<1>3. PensAgree(t) => PensAgree(e)
  BY DEF PensAgree
<1>4. (Begun(t) => Begun(e)) /\ (Reaches(t) => Reaches(e))
  BY <1>1, <1>2, <1>3 DEF Begun, Lined, SameMarks, Reaches
<1>5. Body(t) => Body(e)
  BY <1>1, <1>2, <1>3 DEF Body, SameMarks
<1>6. QED
  BY <1>3, <1>4, <1>5

LEMMA HalfSet ==
  ASSUME NEW t \in Shape, NEW h \in {"none", "held", "cut"}
  PROVE  LET e == [t EXCEPT !.half = h]
         IN /\ e \in Shape /\ SameMarks(e, t)
            /\ e.open = t.open /\ e.shows = t.shows /\ e.face = t.face
            /\ e.declared = t.declared /\ e.font = t.font
            /\ e.line = t.line /\ e.wx = t.wx
            /\ e.void = t.void /\ e.row = t.row /\ e.x = t.x /\ e.faults = t.faults
BY DEF Shape, SameMarks

LEMMA DefaultFacts ==
  ASSUME E!TextAssumption, job \in Jobs, NEW f \in EngineFaces, NEW c, NEW t, Begun(t), Reaches(t),
         PensAgree(t) \/ c # "high"
  PROVE  Body(E!PrintDefault(t, c, f))
<1> DEFINE n == E!NewFace(t, f)
           p == [n EXCEPT !.faults = @ \cup E!FaultIf(n.half = "cut", "composite")]
           q == [n EXCEPT !.nonprinting = @ \/ c \notin E!Printable]
           pair == E!PrintGlyph(p, f, 2, 4, 2 * COURIER_WX)
           h == IF pair.inCut THEN "cut" ELSE "none"
<1>1. /\ Begun(n) /\ n.face = f /\ Reaches(n)
      /\ PensAgree(t) => PensAgree(n)
  BY FaceFacts DEF Reaches
<1>2. E!PrintDefault(t, c, f) =
        IF ~E!Pairs(n, c, f) THEN E!PrintGlyph(q, f, E!Columns(c), E!Columns(c), E!Width(c))
        ELSE IF n.half = "none" THEN [n EXCEPT !.half = "held"]
        ELSE [pair EXCEPT !.half = h]
  BY DEF E!PrintDefault
<1> HIDE DEF n
<1>3. n \in Shape /\ n.faults \subseteq {"composite"}
  BY <1>1 DEF Begun, Lined, FontsAgree
<1>4. CASE ~E!Pairs(n, c, f)
  <2> DEFINE g == n.nonprinting \/ c \notin E!Printable
  <2>1. g \in BOOLEAN
    OBVIOUS
  <2>2. q = [n EXCEPT !.nonprinting = g]
    BY <1>3 DEF Shape
  <2> HIDE DEF q, g
  <2>3. /\ q \in Shape /\ SameMarks(q, n)
        /\ q.open = n.open /\ q.shows = n.shows /\ q.face = n.face
        /\ q.declared = n.declared /\ q.font = n.font
        /\ q.line = n.line /\ q.wx = n.wx
        /\ q.void = n.void /\ q.row = n.row /\ q.x = n.x /\ q.faults = n.faults
    BY <1>3, <2>1, <2>2 DEF Shape, SameMarks
  <2>4. Begun(q) /\ Reaches(q) /\ q.face = f
    BY <1>1, <1>3, <2>3, Apart
  <2>5. Body(E!PrintGlyph(q, f, E!Columns(c), E!Columns(c), E!Width(c)))
    BY <2>4, Widths, PrintGlyphFacts DEF Fits
  <2>6. QED
    BY <2>5, <1>2, <1>4 DEF q
<1>5. CASE E!Pairs(n, c, f) /\ n.half = "none"
  <2> DEFINE e == [n EXCEPT !.half = "held"]
  <2>1. e \in Shape /\ SameMarks(e, n)
            /\ e.open = n.open /\ e.shows = n.shows /\ e.face = n.face
            /\ e.declared = n.declared /\ e.font = n.font
            /\ e.line = n.line /\ e.wx = n.wx
            /\ e.void = n.void /\ e.row = n.row /\ e.x = n.x /\ e.faults = n.faults
    BY <1>3, HalfSet
  <2> HIDE DEF e
  <2>7. PensAgree(n)
    BY <1>1, <1>5 DEF E!Pairs
  <2>2. Writing(e)
    BY <1>1, <1>3, <2>1, <2>7, Apart DEF Writing
  <2>3. QED
    BY <2>2, <1>2, <1>5, WritingIsBody DEF e
<1>6. CASE E!Pairs(n, c, f) /\ n.half # "none"
  <2> DEFINE u == E!FaultIf(n.half = "cut", "composite")
             e == [pair EXCEPT !.half = h]
  <2>1. u \subseteq {"composite"}
    BY DEF E!FaultIf
  <2>2. p = [n EXCEPT !.faults = @ \cup u]
    OBVIOUS
  <2> HIDE DEF u, p
  <2>3. /\ p \in Shape /\ SameMarks(p, n)
        /\ p.open = n.open /\ p.shows = n.shows /\ p.face = n.face
        /\ p.declared = n.declared /\ p.font = n.font
        /\ p.line = n.line /\ p.wx = n.wx
        /\ p.void = n.void /\ p.row = n.row /\ p.x = n.x /\ p.faults = n.faults \cup u
    BY <1>3, <2>1, <2>2 DEF Shape, SameMarks, E!TextFaults
  <2>4. Begun(p) /\ Reaches(p) /\ p.face = f
    BY <1>1, <1>3, <2>1, <2>3, Apart
  <2>5. 2 \in Nat /\ 4 \in Nat /\ 2 * COURIER_WX \in Nat /\ Fits(2 * COURIER_WX)
    BY Constants DEF Fits
  <2>6. Body(pair)
    BY <2>4, <2>5, PrintGlyphFacts
  <2>7. h \in {"none", "held", "cut"}
    OBVIOUS
  <2> HIDE DEF pair, h
  <2>8. pair \in Shape /\ pair.faults \subseteq {"composite"}
    BY <2>6 DEF Body, FontsAgree
  <2>9. /\ e \in Shape /\ SameMarks(e, pair)
        /\ e.open = pair.open /\ e.shows = pair.shows /\ e.face = pair.face
        /\ e.declared = pair.declared /\ e.font = pair.font
        /\ e.line = pair.line /\ e.wx = pair.wx
        /\ e.void = pair.void /\ e.row = pair.row /\ e.x = pair.x /\ e.faults = pair.faults
    BY <2>7, <2>8, HalfSet
  <2> HIDE DEF e
  <2>10. Body(e)
    BY <2>6, <2>8, <2>9, Apart
  <2>11. QED
    BY <2>10, <1>2, <1>6 DEF e
<1>7. QED
  BY <1>4, <1>5, <1>6

(* ps_print_char                                                           *)
LEMMA PrintedFacts ==
  ASSUME E!TextAssumption, job \in Jobs, NEW c, NEW f \in EngineFaces, NEW t, Body(t)
  PROVE  Body(E!Printed(t, c, f))
<1> DEFINE b == E!StartLine([t EXCEPT !.inCut = FALSE], f)
<1>1. /\ Lined(b) /\ ~b.startPage /\ ~b.startLine /\ ~b.inCut
      /\ ~t.inCut => PensAgree(b)
      /\ Reaches(b)
  BY StartFacts
<1>2. E!Printed(t, c, f) =
        IF t.inCut /\ c \notin {"ff", "nl"} THEN t
        ELSE CASE c = "nl"                -> E!NewLine(b)
               [] c = "ff" /\ E!Interpret   -> E!FormFeed(b)
               [] c = "tab" /\ E!Interpret  -> E!PrintTab(b, f)
               [] OTHER                   -> E!PrintDefault(b, c, f)
  BY DEF E!Printed
<1> HIDE DEF b
<1>3. Begun(b)
  BY <1>1 DEF Begun
<1>4. Body(E!NewLine(b)) /\ Body(E!FormFeed(b))
  BY <1>3, NewLineFacts, FormFeedFacts
<1>5. ~t.inCut => Writing(b)
  BY <1>1, <1>3 DEF Writing
<1>6. ~t.inCut => Body(E!PrintTab(b, f))
  BY <1>5, TabFacts
<1>7. ~t.inCut \/ c # "high" => Body(E!PrintDefault(b, c, f))
  BY <1>1, <1>3, DefaultFacts
<1>8. CASE t.inCut /\ c \notin {"ff", "nl"}
  BY <1>2, <1>8
<1>9. CASE ~(t.inCut /\ c \notin {"ff", "nl"})
  <2>1. CASE c = "nl"
    BY <2>1, <1>2, <1>4
  <2>2. CASE c = "ff" /\ E!Interpret
    <3>1. E!Printed(t, c, f) = E!FormFeed(b)
      BY <2>2, <1>2
    <3>2. QED
      BY <3>1, <1>4
  <2>3. CASE c = "tab" /\ E!Interpret
    <3>1. E!Printed(t, c, f) = E!PrintTab(b, f) /\ ~t.inCut
      BY <2>3, <1>2, <1>9
    <3>2. QED
      BY <3>1, <1>6
  <2>4. CASE c # "nl" /\ ~(c = "ff" /\ E!Interpret) /\ ~(c = "tab" /\ E!Interpret)
    <3>1. E!Printed(t, c, f) = E!PrintDefault(b, c, f)
      BY <2>4, <1>2, <1>9
    <3>2. ~t.inCut \/ c # "high"
      BY <1>9
    <3>3. QED
      BY <3>1, <3>2, <1>7
  <2>5. QED
    BY <2>1, <2>2, <2>3, <2>4
<1>10. QED
  BY <1>8, <1>9
-----------------------------------------------------------------------------
(* The files.                                                              *)

(* Outside a file nothing is left open.                                    *)
StringClosed(t) == t \in Shape /\ FontsAgree(t) /\ t.line < LinesPerPage /\ ~t.open

EngineInv ==
  /\ job \in Jobs /\ phase \in {"body", "between", "aborted"}
  /\ phase = "body" => Body(s)
  /\ phase # "body" => StringClosed(s)

LEMMA InitEngine ==
  ASSUME E!TextAssumption, E!Init
  PROVE  EngineInv
<1>1. phase = "between" /\ job \in Jobs
  BY DEF E!Init
<1>2. s \in Shape /\ ~s.open /\ s.shows = {} /\ s.faults = {} /\ ~s.declared /\ s.line = 0
  <2> DEFINE g == CHOOSE f \in EngineFaces : TRUE
  <2>1. g \in EngineFaces
    BY Constants
  <2>2. PICK e \in EngineEncodings :
       s = [ startPage |-> TRUE, startLine |-> TRUE, inCut |-> FALSE,
             face |-> g, declared |-> FALSE,
             nonprinting |-> FALSE, line |-> 0, column |-> 0, wx |-> 0,
             half |-> "none", enc |-> e, pages |-> 0, void |-> FALSE,
             open |-> FALSE, font |-> E!NoFont, shows |-> {}, x |-> 0, row |-> 0,
             faults |-> {} ]
    BY DEF E!Init
  <2> HIDE DEF g
  <2>3. QED
    BY <2>1, <2>2 DEF Shape
<1>3. StringClosed(s)
  BY <1>2, Constants DEF StringClosed, FontsAgree
<1>4. QED
  BY <1>1, <1>3 DEF EngineInv

(* ps_begin_file                                                           *)
LEMMA BeginKeeps ==
  ASSUME E!TextAssumption, NEW t, StringClosed(t)
  PROVE  Body(E!Initialized(t))
<1> DEFINE g == CHOOSE f \in EngineFaces : TRUE
           e == E!Initialized(t)
<1>1. g \in EngineFaces /\ t \in Shape
  BY Constants DEF StringClosed
<1>2. e = [t EXCEPT !.startPage = TRUE, !.startLine = TRUE, !.inCut = FALSE,
             !.face = g, !.declared = FALSE,
             !.nonprinting = FALSE, !.line = 0, !.column = 0, !.wx = 0]
  BY DEF E!Initialized
<1> HIDE DEF g, e
<1>3. e \in Shape /\ e.startPage /\ e.startLine /\ ~e.inCut /\ ~e.declared /\ e.line = 0 /\ e.wx = 0
  BY <1>1, <1>2 DEF Shape
<1>4. e.open = t.open /\ e.shows = t.shows /\ e.faults = t.faults
  BY <1>1, <1>2 DEF Shape
<1>5. t.shows = {} /\ ~t.open /\ t.faults \subseteq {"composite"}
  BY DEF StringClosed, FontsAgree
<1>6. QED
  BY <1>3, <1>4, <1>5, Constants DEF Body, FontsAgree, e

(* Showing the string of the line, if one is open, leaves the rest.        *)
Shown(c, t) ==
  /\ c \in Shape /\ SamePlace(c, t) /\ ~c.open /\ c.shows = {}
  /\ c.face = t.face /\ c.faults = t.faults
  /\ c.declared /\ ~c.void => c.font = c.face

LEMMA LineShown ==
  ASSUME NEW t, Body(t)
  PROVE  Shown(IF t.startLine THEN t ELSE E!CloseString(t), t)
<1>1. CASE t.startLine
  BY <1>1 DEF Body, Shown, SamePlace, SameMarks, FontsAgree
<1>2. CASE ~t.startLine
  <2>1. Lined(t)
    BY <1>2 DEF Body, Lined
  <2>2. QED
    BY <1>2, <2>1, ShownFacts DEF Shown
<1>3. QED
  BY <1>1, <1>2

(* ps_switch_encoding                                                      *)
LEMMA SwitchKeeps ==
  ASSUME NEW t, Body(t), NEW en \in EngineEncodings
  PROVE  Body(E!Switched(t, en))
<1> DEFINE h == IF t.startLine THEN t ELSE E!CloseString(t)
           c == [h EXCEPT !.declared = FALSE, !.enc = en, !.font = E!NoFont]
           o == E!OpenString(c)
<1>1. Shown(h, t)
  BY LineShown
<1>2. E!Switched(t, en) = IF t.startLine THEN c ELSE o
  BY DEF E!Switched
<1>3. h \in Shape
  BY <1>1 DEF Shown
<1> HIDE DEF h
<1>4. /\ c \in Shape /\ SameMarks(c, h) /\ c.open = h.open /\ c.shows = h.shows /\ c.face = h.face
      /\ c.faults = h.faults /\ ~c.declared
  BY <1>3 DEF Shape, SameMarks
<1>5. /\ c.line = h.line /\ c.column = h.column /\ c.wx = h.wx
      /\ c.void = h.void /\ c.row = h.row /\ c.x = h.x
  BY <1>3 DEF Shape
<1> HIDE DEF c
<1>6. SamePlace(c, t) /\ ~c.open /\ c.shows = {} /\ c.faults = t.faults
  BY <1>1, <1>4, <1>5 DEF Shown, SamePlace, SameMarks
<1>7. FontsAgree(c)
  BY <1>4, <1>6 DEF FontsAgree, Body
<1>8. CASE t.startLine
  <2>1. Body(c)
    BY <1>4, <1>6, <1>7, <1>8 DEF Body, SamePlace, SameMarks, RowsAgree, PensAgree
  <2>2. QED
    BY <2>1, <1>2, <1>8
<1>9. CASE ~t.startLine
  <2>1. c \in Shape /\ ~c.open
    BY <1>4, <1>6
  <2>2. /\ o \in Shape /\ SamePlace(o, c)
        /\ o.open <=> ~o.void
        /\ o.shows = c.shows /\ o.face = c.face /\ o.font = c.font
        /\ o.faults = c.faults /\ (o.declared <=> c.declared)
    BY <2>1, OpenFacts
  <2> HIDE DEF o
  <2>3. SamePlace(o, t) /\ FontsAgree(o)
    BY <2>2, <1>6, <1>7, <1>4 DEF SamePlace, SameMarks, FontsAgree
  <2>4. Body(o)
    BY <2>2, <2>3, <1>9 DEF Body, SamePlace, SameMarks, RowsAgree, PensAgree
  <2>5. QED
    BY <2>4, <1>2, <1>9
<1>10. QED
  BY <1>8, <1>9

(* ps_end_file                                                             *)
LEMMA EndKeeps ==
  ASSUME E!TextAssumption, NEW t, Body(t)
  PROVE  LET c == IF t.startLine THEN t ELSE E!CloseString(t)
         IN StringClosed(IF t.startPage THEN c ELSE E!VirtualEnd(c))
<1> DEFINE c == IF t.startLine THEN t ELSE E!CloseString(t)
           v == E!VirtualEnd(c)
<1>1. Shown(c, t)
  BY LineShown
<1> HIDE DEF c
<1>2. FontsAgree(c) /\ c.line = t.line
  BY <1>1 DEF Shown, FontsAgree, SamePlace, Body
<1>3. StringClosed(c)
  BY <1>1, <1>2 DEF StringClosed, Shown, Body
<1>4. c \in Shape /\ ~c.open
  BY <1>3 DEF StringClosed
<1>5. /\ v \in Shape /\ SameMarks(v, c) /\ SameStrings(v, c)
      /\ v.font = c.font /\ v.declared = c.declared /\ v.void = c.void
      /\ v.line = 0 /\ v.column = c.column /\ v.wx = c.wx
  BY <1>4, PageEnds
<1> HIDE DEF v
<1>6. FontsAgree(v)
  BY <1>2, <1>5 DEF FontsAgree, SameStrings
<1>7. StringClosed(v)
  BY <1>4, <1>5, <1>6, Constants DEF StringClosed, SameStrings
<1>8. QED
  BY <1>3, <1>7 DEF c, v

LEMMA StepEngine ==
  ASSUME E!TextAssumption, EngineInv, [E!Next]_(E!vars)
  PROVE  EngineInv'
<1>1. job \in Jobs /\ phase \in {"body", "between", "aborted"}
  BY DEF EngineInv
<1>2. CASE E!BeginFile
  <2>1. Body(E!Initialized(s)) /\ s' = E!Initialized(s) /\ phase' = "body" /\ job' = job
    BY <1>2, BeginKeeps DEF E!BeginFile, EngineInv
  <2>2. Body(s)'
    BY <2>1 DEF Body, FontsAgree, RowsAgree, PensAgree, E!Folding, E!WxPerLine
  <2>3. QED
    BY <1>1, <2>1, <2>2 DEF EngineInv
<1>3. ASSUME NEW c \in E!Characters, NEW f \in EngineFaces, E!PrintChar(c, f)
      PROVE  EngineInv'
  <2>1. Body(s) /\ s' = E!Printed(s, c, f) /\ phase' = "body" /\ job' = job
    BY <1>3 DEF E!PrintChar, EngineInv
  <2>2. Body(E!Printed(s, c, f))
    BY <1>1, <2>1, PrintedFacts
  <2>3. Body(s)'
    BY <2>1, <2>2 DEF Body, FontsAgree, RowsAgree, PensAgree, E!Folding, E!WxPerLine
  <2>4. QED
    BY <1>1, <2>1, <2>3 DEF EngineInv
<1>4. ASSUME NEW e \in EngineEncodings, E!SwitchEncoding(e)
      PROVE  EngineInv'
  <2>1. Body(E!Switched(s, e)) /\ s' = E!Switched(s, e) /\ phase' = "body" /\ job' = job
    BY <1>4, SwitchKeeps DEF E!SwitchEncoding, EngineInv
  <2>2. Body(s)'
    BY <2>1 DEF Body, FontsAgree, RowsAgree, PensAgree, E!Folding, E!WxPerLine
  <2>3. QED
    BY <1>1, <2>1, <2>2 DEF EngineInv
<1>5. CASE E!EndFile
  <2>1. StringClosed(s)' /\ job' = job
    BY <1>5, EndKeeps DEF E!EndFile, EngineInv, StringClosed, FontsAgree
  <2>2. phase' \in {"between", "aborted"}
    BY <1>5 DEF E!EndFile
  <2>3. QED
    BY <1>1, <2>1, <2>2 DEF EngineInv
<1>6. CASE E!Aborted \/ UNCHANGED E!vars
  <2>1. s' = s /\ job' = job /\ phase' = phase
    BY <1>6 DEF E!Aborted, E!vars
  <2>2. QED
    BY <2>1 DEF EngineInv, Body, StringClosed, FontsAgree, RowsAgree, PensAgree, E!Folding, E!WxPerLine
<1>7. QED
  BY <1>2, <1>3, <1>4, <1>5, <1>6 DEF E!Next

LEMMA EngineShows ==
  ASSUME E!TextAssumption, EngineInv
  PROVE  E!TypeOK /\ E!StringsBalanced /\ E!FacesShown /\ E!InsideFrame /\ E!TabsForward
<1>1. /\ s \in Shape /\ s.line < LinesPerPage /\ s.line \in Nat
      /\ s.faults \subseteq {"composite"}
  BY DEF EngineInv, Body, StringClosed, FontsAgree, Shape
<1>2. E!TypeOK
  <2>1. s.line \in 0 .. LinesPerPage - 1
    BY <1>1, Constants
  <2>2. s \in E!Status
    BY <1>1, <2>1 DEF Shape, E!Status
  <2>3. QED
    BY <2>2 DEF E!TypeOK, EngineInv
<1>3. E!StringsBalanced /\ E!FacesShown /\ E!TabsForward
  BY <1>1 DEF E!StringsBalanced, E!FacesShown, E!TabsForward, EngineInv, Body
<1>4. E!InsideFrame
  BY <1>1 DEF E!InsideFrame, EngineInv, Body, RowsAgree, PensAgree
<1>5. QED
  BY <1>2, <1>3, <1>4

(* Whatever is printed, in any faces and encodings, whether lines are      *)
(* folded or cut and pages skipped: the strings are opened and closed by   *)
(* turns, each glyph is shown in its own face and within the frame, and    *)
(* the tabs go forward.                                                    *)
THEOREM TextPlaced ==
  ASSUME E!TextAssumption
  PROVE  E!Spec => [](E!TypeOK /\ E!StringsBalanced /\ E!FacesShown /\ E!InsideFrame /\ E!TabsForward)
<1>1. E!Spec => []EngineInv
  BY InitEngine, StepEngine, PTL DEF E!Spec
<1>2. EngineInv => E!TypeOK /\ E!StringsBalanced /\ E!FacesShown /\ E!InsideFrame /\ E!TabsForward
  BY EngineShows
<1>3. QED
  BY <1>1, <1>2, PTL

(* In every text that is printed, the strings are opened and closed by     *)
(* turns, each glyph is shown in its own face and within the frame, and    *)
(* the tabs go forward.                                                    *)
THEOREM GlyphsPlacedAlways == TextSpec => []GlyphsPlaced
<1> DEFINE Inv == part = "engine" => EngineInv
           allVars == <<part, vars, inputVars, engineVars, readerVars>>
<1>1. TextInit => Inv
  BY TextAssumed, InitEngine DEF TextInit
<1>2. Inv /\ [TextNext]_allVars => Inv'
  <2> SUFFICES ASSUME Inv, [TextNext]_allVars, part' = "engine"
               PROVE  EngineInv'
    OBVIOUS
  <2>1. CASE TextNext
    <3>1. part = "engine" /\ E!Next
      BY <2>1 DEF TextNext
    <3>2. QED
      BY <3>1, TextAssumed, StepEngine
  <2>2. CASE UNCHANGED allVars
    <3>1. part = "engine" /\ UNCHANGED E!vars
      BY <2>2 DEF vars, engineVars, E!vars
    <3>2. QED
      BY <3>1, TextAssumed, StepEngine
  <2>3. QED
    BY <2>1, <2>2
<1>3. Inv => GlyphsPlaced
  <2> SUFFICES ASSUME Inv, part = "engine"
               PROVE  E!TypeOK /\ E!StringsBalanced /\ E!FacesShown /\ E!InsideFrame /\ E!TabsForward
    BY DEF GlyphsPlaced
  <2>1. E!TypeOK /\ E!StringsBalanced /\ E!FacesShown /\ E!InsideFrame /\ E!TabsForward
    BY TextAssumed, EngineShows
  <2>2. QED
    BY <2>1
<1>4. QED
  BY <1>1, <1>2, <1>3, PTL DEF TextSpec
-----------------------------------------------------------------------------
(* The lines of the input, and their numbers.  A line is counted when it   *)
(* is read, and again at its first end of line; until a line is read the   *)
(* sample and the stream are the input.                                    *)
Printing == pc = "line" /\ \A k \in 1 .. buffer.curr : buffer.content[k] # "nl"

InputInv ==
  /\ I!TypeOK
  /\ pc # "eof" => buffer.line = Len(lines)
  /\ Printing => number = Len(lines)
  /\ source = "stdin" /\ pc \in {"opened", "ready"} /\ lines = << >> => buffer.buf \o buffer.stream = input
  /\ source = "stdin" /\ pc = "opened" => buffer.buf = << >>
  /\ pc = "line" => lines # << >>
  /\ number >= 1
  /\ I!SavedWhole

(* The field of a buffer that is set is of its type.                       *)
LEMMA BufferSet ==
  ASSUME buffer \in I!Buffer
  PROVE  /\ \A v \in Nat : [buffer EXCEPT !.offset = v] \in I!Buffer
         /\ \A v \in Nat : [buffer EXCEPT !.curr = v] \in I!Buffer
         /\ \A v \in Seq(I!AllChars) : [buffer EXCEPT !.content = v] \in I!Buffer
         /\ \A v, w \in Seq(I!AllChars) : [buffer EXCEPT !.stream = v, !.content = w] \in I!Buffer
         /\ \A v, w \in Seq(I!AllChars) : [buffer EXCEPT !.buf = v, !.stream = w] \in I!Buffer
         /\ \A v \in Nat, w \in Seq(I!AllChars) : [buffer EXCEPT !.offset = v, !.content = w] \in I!Buffer
         /\ \A v \in Seq(I!AllChars), m, n \in Nat :
              [buffer EXCEPT !.content = v, !.line = m, !.curr = n] \in I!Buffer
BY DEF I!Buffer

LEMMA BufferFields ==
  ASSUME buffer \in I!Buffer
  PROVE  /\ buffer.buf \in Seq(I!AllChars) /\ buffer.stream \in Seq(I!AllChars)
         /\ buffer.content \in Seq(I!AllChars)
         /\ buffer.offset \in Nat /\ buffer.line \in Nat /\ buffer.curr \in Nat
BY DEF I!Buffer

(* A sequence is what it begins with and what is left.                     *)
LEMMA CutInTwo ==
  ASSUME NEW S, NEW t \in Seq(S), NEW n \in 0 .. Len(t)
  PROVE  /\ SubSeq(t, 1, n) \in Seq(S) /\ SubSeq(t, n + 1, Len(t)) \in Seq(S)
         /\ SubSeq(t, 1, n) \o SubSeq(t, n + 1, Len(t)) = t
<1>1. SubSeq(t, 1, n) \in Seq(S) /\ SubSeq(t, n + 1, Len(t)) \in Seq(S)
  BY SubSeqProperties
<1>2. 1 \in 1 .. Len(t) + 1 /\ n \in 1 - 1 .. Len(t) /\ Len(t) \in n .. Len(t)
  OBVIOUS
<1>3. SubSeq(t, 1, n) \o SubSeq(t, n + 1, Len(t)) = SubSeq(t, 1, Len(t))
  BY <1>2, ConcatAdjacentSubSeq
<1>4. QED
  BY <1>1, <1>3, SubSeqFull

LEMMA InitInput ==
  ASSUME I!InputAssumption, I!Init
  PROVE  InputInv
<1>1. PICK n \in 0 .. MaxLength : input \in [1 .. n -> InputChars]
  BY DEF I!Init
<1>2. input \in Seq(I!AllChars) /\ << >> \in Seq(I!AllChars) /\ << >> \in Seq(Seq(I!AllChars))
  <2>1. input \in [1 .. n -> I!AllChars]
    BY <1>1 DEF I!InputAssumption
  <2>2. \A S : << >> \in Seq(S)
    OBVIOUS
  <2>3. QED
    BY <2>1, <2>2
<1>3. /\ source \in I!AllSources /\ pc = "opened" /\ lines = << >>
      /\ number = 1 /\ shown = 0 /\ saved = << >>
  BY DEF I!Init, I!InputAssumption
<1>4. PICK eol \in I!AllEols :
        buffer = [ buf    |-> IF source = "string" THEN input ELSE << >>,
                   stream |-> IF source = "string" THEN << >> ELSE input,
                   offset |-> 0, eol |-> eol, line |-> 0, content |-> << >>,
                   curr   |-> 0 ]
  BY DEF I!Init, I!InputAssumption
<1>5. buffer \in I!Buffer /\ buffer.line = 0
  BY <1>2, <1>4 DEF I!Buffer
<1>6. I!TypeOK
  BY <1>2, <1>3, <1>5 DEF I!TypeOK, I!Pcs
<1>7. source = "stdin" => buffer.buf = << >> /\ buffer.buf \o buffer.stream = input
  <2> SUFFICES ASSUME source = "stdin" PROVE buffer.buf = << >> /\ buffer.buf \o buffer.stream = input
    OBVIOUS
  <2>1. buffer.buf = << >> /\ buffer.stream = input
    BY <1>4
  <2>2. QED
    BY <1>2, <2>1, ConcatEmptySeq
<1>8. Len(lines) = 0
  BY <1>3
<1>9. number >= 1 /\ buffer.line = Len(lines)
  BY <1>3, <1>5, <1>8
<1>10. ~Printing /\ I!SavedWhole
  BY <1>3 DEF Printing, I!SavedWhole
<1>11. QED
  BY <1>3, <1>6, <1>7, <1>9, <1>10 DEF InputInv

(* A turn of the loops that read a line: the sample and the stream are     *)
(* consumed, nothing is counted.                                           *)
LEMMA EolLengthRange ==
  ASSUME NEW eol, NEW c, NEW d
  PROVE  /\ I!EolLength(eol, c, d) \in 0 .. 2
         /\ I!EolLength(eol, c, d) = 2 => d \in {"nl", "cr"}
BY DEF I!EolLength

LEMMA ReadingTyped ==
  ASSUME InputInv, I!StringChar \/ I!StreamChar
  PROVE  /\ buffer' \in I!Buffer /\ buffer'.line = buffer.line
         /\ pc \in {"string", "stream"} /\ pc' \in {"string", "stream", "finish"}
         /\ UNCHANGED <<input, source, lines, number, shown, saved>>
<1> DEFINE b == buffer
<1>1. b \in I!Buffer
  BY DEF InputInv, I!TypeOK
<1>2. /\ b.buf \in Seq(I!AllChars) /\ b.stream \in Seq(I!AllChars) /\ b.content \in Seq(I!AllChars)
      /\ b.offset \in Nat
  BY <1>1, BufferFields
<1>3. \A c \in I!AllChars : Append(b.content, c) \in Seq(I!AllChars)
  BY <1>2
<1>4. "nl" \in I!AllChars
  BY DEF I!AllChars
<1>5. CASE I!StringChar
  <2> DEFINE c == I!Bgetc(b, b.offset)
             n == I!EolLength(b.eol, c, I!Bgetc(b, b.offset + 1))
  <2>1. n \in 0 .. 2
    BY EolLengthRange
  <2>2. c = I!EOF \/ c \in I!AllChars
    BY <1>2 DEF I!Bgetc
  <2>3. /\ pc = "string" /\ UNCHANGED <<input, source, lines, number, shown, saved>>
        /\ IF c = I!EOF
           THEN /\ buffer' = [b EXCEPT !.offset = b.offset + 1]
                /\ pc' \in {"stream", "finish"}
           ELSE IF n = 0
           THEN /\ buffer' = [b EXCEPT !.offset = b.offset + 1, !.content = Append(b.content, c)]
                /\ pc' = pc
           ELSE /\ buffer' = [b EXCEPT !.offset = b.offset + n, !.content = Append(b.content, "nl")]
                /\ pc' = "finish"
    BY <1>5 DEF I!StringChar
  <2> HIDE DEF c, n
  <2>4. b.offset + 1 \in Nat /\ b.offset + n \in Nat
    BY <1>2, <2>1
  <2>5. buffer' \in I!Buffer
    BY <1>1, <1>3, <1>4, <2>2, <2>3, <2>4, BufferSet
  <2>6. buffer'.line = b.line
    BY <1>1, <2>3 DEF I!Buffer
  <2>7. QED
    BY <2>3, <2>5, <2>6
<1>6. CASE I!StreamChar
  <2> DEFINE q == b.stream
             c == I!Sgetc(q, 1)
             n == I!EolLength(b.eol, c, I!Sgetc(q, 2))
  <2>1. n \in 0 .. 2 /\ (n = 2 => I!Sgetc(q, 2) \in {"nl", "cr"})
    BY EolLengthRange
  <2>2. c = I!EOF \/ (c \in I!AllChars /\ Len(q) >= 1)
    BY <1>2 DEF I!Sgetc
  <2>3. n = 2 => Len(q) >= 2
    BY <1>2, <2>1 DEF I!Sgetc, I!EOF
  <2>4. /\ pc = "stream" /\ UNCHANGED <<input, source, lines, number, shown, saved>>
        /\ IF c = I!EOF THEN pc' = "finish" /\ buffer' = b
           ELSE IF n = 0
           THEN /\ buffer' = [b EXCEPT !.stream = Tail(q), !.content = Append(b.content, c)]
                /\ pc' = pc
           ELSE /\ buffer' = [b EXCEPT !.stream = SubSeq(q, n + 1, Len(q)),
                                       !.content = Append(b.content, "nl")]
                /\ pc' = "finish"
    BY <1>6 DEF I!StreamChar
  <2> HIDE DEF c, n
  <2>5. c # I!EOF => Tail(q) \in Seq(I!AllChars) /\ SubSeq(q, n + 1, Len(q)) \in Seq(I!AllChars)
    <3> SUFFICES ASSUME c # I!EOF
                 PROVE  Tail(q) \in Seq(I!AllChars) /\ SubSeq(q, n + 1, Len(q)) \in Seq(I!AllChars)
      OBVIOUS
    <3>1. q \in Seq(I!AllChars) /\ Len(q) >= 1 /\ n \in 0 .. Len(q)
      BY <1>2, <2>1, <2>2, <2>3
    <3> HIDE DEF q
    <3>2. QED
      BY <3>1, CutInTwo
  <2>6. buffer' \in I!Buffer
    <3> DEFINE u == Tail(q)
               v == SubSeq(q, n + 1, Len(q))
    <3>1. c # I!EOF => u \in Seq(I!AllChars) /\ v \in Seq(I!AllChars)
      BY <2>5
    <3>2. IF c = I!EOF THEN buffer' = b
          ELSE IF n = 0 THEN buffer' = [b EXCEPT !.stream = u, !.content = Append(b.content, c)]
          ELSE buffer' = [b EXCEPT !.stream = v, !.content = Append(b.content, "nl")]
      BY <2>4
    <3> HIDE DEF u, v, q
    <3>3. QED
      BY <1>1, <1>3, <1>4, <2>2, <3>1, <3>2, BufferSet
  <2>7. buffer'.line = b.line
    BY <1>1, <2>4 DEF I!Buffer
  <2>8. QED
    BY <2>4, <2>6, <2>7
<1>7. QED
  BY <1>5, <1>6

LEMMA StepInput ==
  ASSUME I!InputAssumption, InputInv, I!Next
  PROVE  InputInv' /\ (I!EndsPage => shown' = Len(lines))
<1> DEFINE b == buffer
<1>1. /\ b \in I!Buffer /\ input \in Seq(I!AllChars) /\ source \in I!AllSources /\ pc \in I!Pcs
      /\ lines \in Seq(Seq(I!AllChars)) /\ saved \in Seq(I!AllChars) /\ number \in Nat /\ shown \in Nat
  BY DEF InputInv, I!TypeOK
<1>2. /\ b.buf \in Seq(I!AllChars) /\ b.stream \in Seq(I!AllChars) /\ b.content \in Seq(I!AllChars)
      /\ b.offset \in Nat /\ b.line \in Nat /\ b.curr \in Nat /\ << >> \in Seq(I!AllChars)
  BY <1>1, BufferFields
<1>3. pc # "eof" => b.line = Len(lines)
  BY DEF InputInv
<1>4. CASE I!SampleGet
  <2> DEFINE n == IF Len(b.stream) < SampleSize THEN Len(b.stream) ELSE SampleSize
             u == SubSeq(b.stream, 1, n)
             v == SubSeq(b.stream, n + 1, Len(b.stream))
  <2>1. /\ pc = "opened" /\ source = "stdin" /\ pc' = "ready"
        /\ buffer' = [b EXCEPT !.buf = u, !.stream = v]
        /\ UNCHANGED <<input, source, lines, number, shown, saved>>
    BY <1>4 DEF I!SampleGet
  <2>2. n \in 0 .. Len(b.stream)
    BY <1>2 DEF I!InputAssumption
  <2>3. u \in Seq(I!AllChars) /\ v \in Seq(I!AllChars) /\ u \o v = b.stream
    <3> DEFINE q == b.stream
    <3>1. q \in Seq(I!AllChars)
      BY <1>2
    <3> HIDE DEF n, q
    <3>2. SubSeq(q, 1, n) \in Seq(I!AllChars) /\ SubSeq(q, n + 1, Len(q)) \in Seq(I!AllChars)
          /\ SubSeq(q, 1, n) \o SubSeq(q, n + 1, Len(q)) = q
      BY <3>1, <2>2, CutInTwo DEF q
    <3>3. QED
      BY <3>2 DEF q
  <2> HIDE DEF n, u, v
  <2>4. buffer' \in I!Buffer
    BY <1>1, <2>1, <2>3, BufferSet
  <2>5. buffer'.line = b.line /\ buffer'.buf = u /\ buffer'.stream = v
    BY <1>1, <2>1 DEF I!Buffer
  <2>6. lines = << >> => u \o v = input
    <3> SUFFICES ASSUME lines = << >> PROVE u \o v = input
      OBVIOUS
    <3>1. b.buf \o b.stream = input
      BY <2>1 DEF InputInv
    <3>2. b.buf = << >>
      BY <2>1 DEF InputInv
    <3>3. QED
      BY <3>1, <3>2, <1>2, <2>3, ConcatEmptySeq
  <2>7. I!TypeOK'
    BY <1>1, <2>1, <2>4 DEF I!TypeOK, I!Pcs
  <2>8. InputInv'
    BY <1>3, <2>1, <2>5, <2>6, <2>7 DEF InputInv, Printing, I!SavedWhole
  <2>9. ~I!EndsPage
    BY <2>1 DEF I!EndsPage
  <2>10. QED
    BY <2>8, <2>9
<1>5. CASE I!OpenInput
  <2>1. /\ pc = "opened" /\ source # "stdin" /\ pc' = "ready"
        /\ UNCHANGED <<input, source, buffer, lines, number, shown, saved>>
    BY <1>5 DEF I!OpenInput
  <2>2. I!TypeOK'
    BY <1>1, <2>1 DEF I!TypeOK, I!Pcs
  <2>3. QED
    BY <1>3, <2>1, <2>2 DEF InputInv, Printing, I!SavedWhole, I!EndsPage
<1>6. CASE I!Save
  <2>1. /\ pc = "ready" /\ source = "stdin" /\ lines = << >> /\ pc' = "saved"
        /\ saved' = b.buf \o b.stream
        /\ UNCHANGED <<input, source, buffer, lines, number, shown>>
    BY <1>6 DEF I!Save, I!SavedContent
  <2>2. saved' = input
    BY <2>1 DEF InputInv
  <2>3. I!TypeOK'
    BY <1>1, <2>1, <2>2 DEF I!TypeOK, I!Pcs
  <2>4. QED
    BY <1>3, <2>1, <2>2, <2>3 DEF InputInv, Printing, I!SavedWhole, I!EndsPage
<1>7. CASE I!BeginGet
  <2>1. /\ pc = "ready" /\ pc' \in {"string", "stream", "finish"}
        /\ buffer' = [b EXCEPT !.content = << >>]
        /\ UNCHANGED <<input, source, lines, number, shown, saved>>
    BY <1>7 DEF I!BeginGet
  <2>2. buffer' \in I!Buffer
    BY <1>1, <1>2, <2>1, BufferSet
  <2>3. buffer'.line = b.line
    BY <1>1, <2>1 DEF I!Buffer
  <2>4. I!TypeOK'
    BY <1>1, <2>1, <2>2 DEF I!TypeOK, I!Pcs
  <2>5. QED
    BY <1>3, <2>1, <2>3, <2>4 DEF InputInv, Printing, I!SavedWhole, I!EndsPage
<1>8. CASE I!StringChar \/ I!StreamChar
  <2>1. /\ buffer' \in I!Buffer /\ buffer'.line = b.line
        /\ pc \in {"string", "stream"} /\ pc' \in {"string", "stream", "finish"}
        /\ UNCHANGED <<input, source, lines, number, shown, saved>>
    BY <1>8, ReadingTyped
  <2>2. I!TypeOK'
    BY <1>1, <2>1 DEF I!TypeOK, I!Pcs
  <2>3. QED
    BY <1>3, <2>1, <2>2 DEF InputInv, Printing, I!SavedWhole, I!EndsPage
<1>9. CASE I!FinishGet
  <2> DEFINE t == I!WithoutEol(b.content)
             n == b.line + 1
  <2>1. t \in Seq(I!AllChars)
    <3> DEFINE q == b.content
    <3>1. q \in Seq(I!AllChars)
      BY <1>2
    <3>2. t = IF Len(q) >= 2 /\ q[Len(q) - 1] = "ff" THEN SubSeq(q, 1, Len(q) - 1) ELSE q
      BY DEF I!WithoutEol
    <3> HIDE DEF q, t
    <3>3. QED
      BY <3>1, <3>2, CutInTwo
  <2>2. n \in Nat
    BY <1>2
  <2>3. /\ pc = "finish" /\ number' = n
        /\ buffer' = [b EXCEPT !.content = t, !.line = n, !.curr = 0]
        /\ IF t = << >> THEN pc' = "eof" /\ shown' = n - 1 /\ lines' = lines
           ELSE pc' = "line" /\ lines' = Append(lines, t) /\ shown' = shown
        /\ UNCHANGED <<input, source, saved>>
    BY <1>9 DEF I!FinishGet, I!LineNumber
  <2>4. n = Len(lines) + 1 /\ n - 1 = Len(lines) /\ n - 1 \in Nat
    BY <1>1, <1>2, <1>3, <2>3
  <2> HIDE DEF t, n
  <2>5. buffer' \in I!Buffer
    BY <1>1, <2>1, <2>2, <2>3, BufferSet
  <2>6. buffer'.line = n /\ buffer'.curr = 0
    BY <1>1, <2>3 DEF I!Buffer
  <2>7. lines' \in Seq(Seq(I!AllChars)) /\ (t # << >> => Len(lines') = n /\ lines' # << >>)
    <3> DEFINE S == Seq(I!AllChars)
    <3>1. lines \in Seq(S) /\ t \in S
      BY <1>1, <2>1
    <3> HIDE DEF S
    <3>2. Append(lines, t) \in Seq(S) /\ Len(Append(lines, t)) = n /\ Append(lines, t) # << >>
      BY <3>1, <2>4
    <3>3. QED
      BY <2>3, <3>1, <3>2 DEF S
  <2>8. I!TypeOK'
    BY <1>1, <2>2, <2>3, <2>4, <2>5, <2>7 DEF I!TypeOK, I!Pcs
  <2>9. InputInv'
    <3>1. number' >= 1 /\ Len(lines) \in Nat
      BY <1>1, <2>2, <2>3, <2>4
    <3>2. pc' = "line" => Len(lines') = n /\ lines' # << >>
      BY <2>3, <2>7
    <3>3. QED
      BY <2>3, <2>6, <2>8, <3>1, <3>2 DEF InputInv, Printing, I!SavedWhole
  <2>10. I!EndsPage => shown' = Len(lines)
    BY <2>3, <2>4 DEF I!EndsPage
  <2>11. QED
    BY <2>9, <2>10
<1>10. CASE I!PrintChar
  <2>1. /\ pc = "line"
        /\ UNCHANGED <<input, source, lines, saved>>
    BY <1>10 DEF I!PrintChar
  <2>2. CASE b.curr = Len(b.content)
    <3>1. pc' = "ready" /\ UNCHANGED <<buffer, number, shown>>
      BY <1>10, <2>2 DEF I!PrintChar
    <3>2. I!TypeOK'
      BY <1>1, <2>1, <3>1 DEF I!TypeOK, I!Pcs
    <3>3. ~I!EndsPage
      BY <1>2, <2>1, <3>1 DEF I!EndsPage
    <3>4. lines # << >>
      BY <2>1 DEF InputInv
    <3>5. QED
      BY <1>3, <2>1, <3>1, <3>2, <3>3, <3>4 DEF InputInv, Printing, I!SavedWhole
  <2>3. CASE b.curr # Len(b.content)
    <3> DEFINE n == b.curr + 1
               c == b.content[n]
    <3>1. /\ buffer' = [b EXCEPT !.curr = n]
          /\ number' = number + I!Counted(c)
          /\ shown' = (IF c \in {"ff", "nl"} THEN number' - 1 ELSE shown)
          /\ pc' = pc
      BY <1>10, <2>3 DEF I!PrintChar
    <3>2. n \in Nat /\ n >= 1
      BY <1>2
    <3> HIDE DEF n, c
    <3>3. buffer' \in I!Buffer
      BY <1>1, <3>1, <3>2, BufferSet
    <3>4. buffer'.line = b.line /\ buffer'.curr = n /\ buffer'.content = b.content
      BY <1>1, <3>1 DEF I!Buffer
    <3>5. number' \in Nat /\ (c # "nl" => number' = number) /\ (c = "nl" => number' = number + 1)
      BY <1>1, <3>1 DEF I!Counted
    <3>6. shown' \in Nat
      <4>1. number' >= 1
        BY <1>1, <3>5 DEF InputInv
      <4>2. number' \in Nat
        BY <3>5
      <4>3. \A m \in Nat : m >= 1 => m - 1 \in Nat
        OBVIOUS
      <4>4. QED
        BY <1>1, <3>1, <4>1, <4>2, <4>3
    <3>7. I!TypeOK'
      BY <1>1, <2>1, <3>1, <3>3, <3>5, <3>6 DEF I!TypeOK
    <3>8. (\A k \in 1 .. n : b.content[k] # "nl") => Printing /\ c # "nl"
      BY <1>2, <2>1 DEF Printing, n, c
    <3>9. InputInv'
      <4>1. Printing' => number' = Len(lines')
        BY <2>1, <3>1, <3>4, <3>5, <3>8 DEF InputInv, Printing
      <4>2. number' >= 1
        BY <1>1, <3>5 DEF InputInv
      <4>3. QED
        BY <1>3, <2>1, <3>1, <3>4, <3>7, <4>1, <4>2 DEF InputInv, I!SavedWhole
    <3>10. I!EndsPage => shown' = Len(lines)
      <4> SUFFICES ASSUME I!EndsPage PROVE shown' = Len(lines)
        OBVIOUS
      <4>1. c = "nl" /\ Printing
        BY <2>1, <3>4 DEF I!EndsPage, Printing, c
      <4>2. number = Len(lines)
        BY <4>1 DEF InputInv
      <4>3. QED
        BY <1>1, <3>1, <3>5, <4>1, <4>2
    <3>11. QED
      BY <3>9, <3>10
  <2>4. QED
    BY <2>2, <2>3
<1>11. CASE I!Finished
  <2>1. pc \in {"eof", "saved"} /\ UNCHANGED I!vars
    BY <1>11 DEF I!Finished
  <2>2. QED
    BY <2>1 DEF InputInv, Printing, I!TypeOK, I!SavedWhole, I!EndsPage, I!vars
<1>12. QED
  BY <1>4, <1>5, <1>6, <1>7, <1>8, <1>9, <1>10, <1>11 DEF I!Next

(* Whatever the input and the convention for the ends of its lines, "$l."  *)
(* in the title of a page that ends with a line, or with the file, is the  *)
(* number of that line (ps_print_char); and what is saved for a delegation *)
(* is the whole of the standard input, the sample included (buffer_save).  *)
THEOREM LinesCounted ==
  ASSUME I!InputAssumption
  PROVE  I!Spec => [](I!TypeOK /\ I!SavedWhole) /\ I!CurrentLine
<1>1. I!Init => InputInv
  BY InitInput
<1>2. InputInv /\ [I!Next]_(I!vars) => InputInv' /\ [I!EndsPage => shown' = Len(lines)]_(I!vars)
  BY StepInput DEF InputInv, Printing, I!TypeOK, I!SavedWhole, I!vars
<1>3. InputInv => I!TypeOK /\ I!SavedWhole
  BY DEF InputInv
<1>4. QED
  BY <1>1, <1>2, <1>3, PTL DEF I!Spec, I!CurrentLine

(* A page that ends with a line, or with the file, shows the number of     *)
(* that line in every text that is checked (ps_print_char).                *)
THEOREM CurrentLineAlways == TextSpec => CurrentLine
<1> DEFINE Inv == part = "input" => InputInv
           allVars == <<part, vars, inputVars, engineVars, readerVars>>
<1>1. I!InputAssumption
  BY TextAssumed
<1>2. TextInit => Inv
  BY <1>1, InitInput DEF TextInit
<1>3. Inv /\ [TextNext]_allVars
        => Inv' /\ [part = "input" /\ I!EndsPage => shown' = Len(lines)]_<<part, inputVars, pc>>
  <2>1. ASSUME Inv, TextNext
        PROVE  Inv' /\ (part = "input" /\ I!EndsPage => shown' = Len(lines))
    <3>1. part' = part /\ (part = "input" => I!Next)
      BY <2>1 DEF TextNext
    <3>2. QED
      BY <1>1, <2>1, <3>1, StepInput
  <2>2. ASSUME Inv, UNCHANGED allVars
        PROVE  Inv' /\ UNCHANGED <<part, inputVars, pc>>
    <3>1. part' = part /\ inputVars' = inputVars /\ pc' = pc
      BY <2>2 DEF vars
    <3>2. QED
      BY <2>2, <3>1 DEF inputVars, InputInv, Printing, I!TypeOK, I!SavedWhole
  <2>3. QED
    BY <2>1, <2>2
<1>4. QED
  BY <1>2, <1>3, PTL DEF TextSpec, CurrentLine
-----------------------------------------------------------------------------
(* Induction, and the greatest element of what is bounded, from the order  *)
(* of the natural numbers.                                                 *)
LEMMA Least ==
  ASSUME NEW T \in SUBSET Nat, T # {}
  PROVE  \E i \in T : \A k \in T : i <= k
<1> DEFINE R == OpToRel(<, Nat)
<1>1. IsWellFoundedOn(R, Nat)
  BY NatLessThanWellFounded
<1>2. PICK i \in T : \A k \in T : <<k, i>> \notin R
  <2> HIDE DEF R
  <2>1. QED
    BY <1>1, WFMin
<1>3. ASSUME NEW k \in T
      PROVE  i <= k
  <2>1. <<k, i>> \notin R
    BY <1>2
  <2>2. k \in Nat /\ i \in Nat
    OBVIOUS
  <2>3. ~(k < i)
    BY <2>1, <2>2 DEF R, OpToRel
  <2>4. QED
    BY <2>2, <2>3
<1>4. QED
  BY <1>3

LEMMA Induction ==
  ASSUME NEW n \in Nat, NEW T, 0 \in T, \A i \in 1 .. n : i - 1 \in T => i \in T
  PROVE  \A i \in 0 .. n : i \in T
<1> DEFINE S == {i \in 0 .. n : i \notin T}
<1>1. SUFFICES ASSUME S # {}
               PROVE  FALSE
  OBVIOUS
<1>2. S \in SUBSET Nat
  OBVIOUS
<1>3. PICK i \in S : \A k \in S : i <= k
  <2> HIDE DEF S
  <2>1. QED
    BY <1>1, <1>2, Least
<1>4. i \in 1 .. n /\ i - 1 \in 0 .. n /\ ~(i <= i - 1)
  BY <1>3
<1>5. i - 1 \in T
  BY <1>3, <1>4
<1>6. QED
  BY <1>3, <1>4, <1>5

LEMMA Greatest ==
  ASSUME NEW n \in Nat, NEW T \in SUBSET (0 .. n), T # {}
  PROVE  \E i \in T : \A k \in T : k <= i
<1> DEFINE S == {n - k : k \in T}
<1>1. S \in SUBSET Nat /\ S # {}
  <2>1. \A k \in 0 .. n : n - k \in Nat
    OBVIOUS
  <2>2. QED
    BY <2>1
<1>2. PICK x \in S : \A y \in S : x <= y
  <2> HIDE DEF S
  <2>1. QED
    BY <1>1, Least
<1>3. PICK i \in T : x = n - i
  BY <1>2
<1>4. ASSUME NEW k \in T
      PROVE  k <= i
  <2>1. n - i <= n - k /\ i \in 0 .. n /\ k \in 0 .. n
    BY <1>2, <1>3
  <2>2. QED
    BY <2>1
<1>5. QED
  BY <1>4

(* The strings of a token are given one after another.                     *)
LEMMA TokenFold ==
  ASSUME NEW k, Len(k.rhs) \in Nat
  PROVE  \E g : /\ g[0] = k.lexer
                /\ \A i \in 1 .. Len(k.rhs) : g[i] = Give(k, g[i - 1], k.rhs[i])
                /\ PrintToken(k) = g[Len(k.rhs)]
<1> DEFINE n == Len(k.rhs)
           Is(f, m) == f = [i \in 0 .. m |-> IF i = 0 THEN k.lexer ELSE Give(k, f[i - 1], k.rhs[i])]
           T == {m \in 0 .. n : \E f : Is(f, m)}
<1>0. \A m \in 0 .. n : (\E f : Is(f, m)) => m \in T
  OBVIOUS
<1>1. 0 \in T
  <2> DEFINE f == [i \in 0 .. 0 |-> k.lexer]
  <2>1. Is(f, 0)
    OBVIOUS
  <2>2. 0 \in 0 .. n
    OBVIOUS
  <2> HIDE DEF Is, f, T
  <2>3. QED
    BY <1>0, <2>1, <2>2
<1>2. ASSUME NEW m \in 1 .. n, m - 1 \in T
      PROVE  m \in T
  <2>1. PICK f : Is(f, m - 1)
    BY <1>2
  <2> DEFINE h == [i \in 0 .. m |-> IF i = m THEN Give(k, f[m - 1], k.rhs[m]) ELSE f[i]]
  <2>2. \A i \in 0 .. m : h[i] = IF i = 0 THEN k.lexer ELSE Give(k, h[i - 1], k.rhs[i])
    <3>1. \A i \in 0 .. m - 1 : f[i] = IF i = 0 THEN k.lexer ELSE Give(k, f[i - 1], k.rhs[i])
      BY <2>1
    <3>2. \A i \in 0 .. m : i = m \/ (i \in 0 .. m - 1 /\ (i = 0 \/ i - 1 \in 0 .. m - 1) /\ i # m /\ i - 1 # m)
      OBVIOUS
    <3>3. m - 1 \in 0 .. m /\ m - 1 # m /\ m \in 0 .. m /\ m # 0
      OBVIOUS
    <3>4. \A i \in 0 .. m - 1 : i \in 0 .. m
      OBVIOUS
    <3>5. QED
      BY <3>1, <3>2, <3>3, <3>4
  <2>3. Is(h, m)
    <3>1. h = [i \in 0 .. m |-> h[i]]
      OBVIOUS
    <3> HIDE DEF h
    <3>2. QED
      BY <2>2, <3>1
  <2>4. m \in 0 .. n
    OBVIOUS
  <2> HIDE DEF Is, h, T
  <2>5. QED
    BY <1>0, <2>3, <2>4
<1>3. n \in Nat
  OBVIOUS
<1>4. n \in T
  <2> HIDE DEF T, n
  <2>1. \A i \in 0 .. n : i \in T
    BY <1>1, <1>2, <1>3, Induction
  <2>2. QED
    BY <1>3, <2>1
<1> DEFINE g == CHOOSE f : Is(f, n)
<1>5. Is(g, n)
  <2>1. \E f : Is(f, n)
    BY <1>4
  <2> HIDE DEF Is
  <2>2. QED
    BY <2>1
<1>6. PrintToken(k) = g[n]
  BY DEF PrintToken
<1> HIDE DEF g
<1>7. \A i \in 0 .. n : g[i] = IF i = 0 THEN k.lexer ELSE Give(k, g[i - 1], k.rhs[i])
  BY <1>5
<1>8. g[0] = k.lexer /\ \A i \in 1 .. n : g[i] = Give(k, g[i - 1], k.rhs[i])
  BY <1>3, <1>7
<1>9. QED
  BY <1>6, <1>8

(* What holds of the lexer, and what is kept by each string, holds at the  *)
(* end: T is the set of the states of which it holds.                      *)
LEMMA TokenKeeps ==
  ASSUME NEW k, Len(k.rhs) \in Nat, NEW T, k.lexer \in T,
         \A t \in T : \A i \in 1 .. Len(k.rhs) : Give(k, t, k.rhs[i]) \in T
  PROVE  PrintToken(k) \in T
<1>1. PICK g : /\ g[0] = k.lexer
               /\ \A i \in 1 .. Len(k.rhs) : g[i] = Give(k, g[i - 1], k.rhs[i])
               /\ PrintToken(k) = g[Len(k.rhs)]
  BY TokenFold
<1> DEFINE U == {i \in 0 .. Len(k.rhs) : g[i] \in T}
           n == Len(k.rhs)
<1>2. 0 \in U /\ \A i \in 1 .. n : i - 1 \in U => i \in U
  BY <1>1
<1>3. n \in Nat
  OBVIOUS
<1>4. n \in U
  <2> HIDE DEF U, n
  <2>1. \A i \in 0 .. n : i \in U
    BY <1>2, <1>3, Induction
  <2>2. QED
    BY <1>3, <2>1
<1>5. QED
  BY <1>1, <1>4
-----------------------------------------------------------------------------
(* What matches is a part of the rest of the line; what opens a token is   *)
(* not empty.                                                              *)
IsMatch(m, rest) == m.length \in 0 .. Len(rest) /\ IsRhs(m.rhs)

LEMMA LongestMatch ==
  ASSUME NEW rest \in Strings, NEW S \in SUBSET Strings, S # {},
         \A w \in S : IsPrefix(w, rest)
  PROVE  Longest(S) \in S
<1> DEFINE T == {Len(w) : w \in S}
           n == Len(rest)
<1>1. n \in Nat /\ \A w \in S : Len(w) \in 0 .. n
  BY DEF Strings, IsPrefix
<1>2. T \in SUBSET (0 .. n) /\ T # {}
  BY <1>1
<1>3. PICK i \in T : \A j \in T : j <= i
  <2> HIDE DEF T, n
  <2>1. QED
    BY <1>1, <1>2, Greatest
<1>4. PICK w \in S : i = Len(w)
  OBVIOUS
<1>5. \A v \in S : Len(v) <= Len(w)
  BY <1>3, <1>4
<1>6. QED
  BY <1>5 DEF Longest

LEMMA RuleMatches ==
  ASSUME NEW r, IsRule(r), NEW rest \in Strings, TryRule(r, rest) # NoMatch
  PROVE  /\ IsMatch(TryRule(r, rest), rest)
         /\ << >> \notin r.matches => TryRule(r, rest).length > 0
<1> DEFINE S == {w \in r.matches : IsPrefix(w, rest)}
           w == Longest(S)
<1>1. S # {} /\ TryRule(r, rest) = [length |-> Len(w), rhs |-> r.rhs]
  BY DEF TryRule
<1>2. S \in SUBSET Strings
  BY DEF IsRule
<1>3. w \in S
  <2>1. \A v \in S : IsPrefix(v, rest)
    OBVIOUS
  <2> HIDE DEF S, w
  <2>2. QED
    BY <1>1, <1>2, <2>1, LongestMatch DEF w
<1> HIDE DEF w
<1>4. Len(w) \in 0 .. Len(rest) /\ (<< >> \notin r.matches => Len(w) > 0)
  BY <1>2, <1>3 DEF IsPrefix, Strings
<1>5. QED
  BY <1>1, <1>4 DEF IsMatch, IsRule

LEMMA StringsMatch ==
  ASSUME NEW words, IsWords(words), NEW rest \in Strings, NEW alphabet,
         TryStrings(words, rest, alphabet) # NoMatch
  PROVE  /\ IsMatch(TryStrings(words, rest, alphabet), rest)
         /\ TryStrings(words, rest, alphabet).length > 0
<1> DEFINE S == {r \in words.strings : \E w \in r.matches \ {<< >>} :
                   IsPrefix(w, rest) /\ (Len(w) = Len(rest) \/ rest[Len(w) + 1] \notin alphabet)}
           Length(r) == Len(CHOOSE w \in r.matches : TRUE)
           best == CHOOSE r \in S : \A q \in S : Length(q) <= Length(r)
           n == Len(rest)
           T == {Length(r) : r \in S}
<1>1. S # {} /\ TryStrings(words, rest, alphabet) = [length |-> Length(best), rhs |-> best.rhs]
  BY DEF TryStrings
<1>2. ASSUME NEW r \in S
      PROVE  Length(r) \in 0 .. n /\ IsRhs(r.rhs) /\ Length(r) > 0
  <2>1. PICK w \in r.matches \ {<< >>} : IsPrefix(w, rest)
    OBVIOUS
  <2>2. IsRule(r) /\ \A u, v \in r.matches : u = v
    BY DEF IsWords
  <2>3. (CHOOSE u \in r.matches : TRUE) = w
    BY <2>2
  <2>4. w \in Strings /\ w # << >>
    BY <2>1, <2>2 DEF IsRule
  <2>5. Len(w) \in 0 .. n /\ Len(w) > 0
    BY <2>1, <2>4 DEF IsPrefix, Strings
  <2>6. QED
    BY <2>2, <2>3, <2>5 DEF IsRule
<1>3. n \in Nat
  BY DEF Strings
<1>4. PICK i \in T : \A j \in T : j <= i
  <2> HIDE DEF n, Length, S
  <2>1. T \in SUBSET (0 .. n) /\ T # {}
    BY <1>1, <1>2
  <2> HIDE DEF T
  <2>2. QED
    BY <1>3, <2>1, Greatest
<1>5. best \in S
  <2> HIDE DEF Length, S
  <2>1. PICK r \in S : i = Length(r)
    OBVIOUS
  <2>2. \A q \in S : Length(q) <= Length(r)
    BY <1>4, <2>1
  <2>3. QED
    BY <2>2
<1> HIDE DEF best, Length, S
<1>6. QED
  BY <1>1, <1>2, <1>5 DEF IsMatch

LEMMA LastMatches ==
  ASSUME NEW rules, NEW n \in Nat, DOMAIN rules = 1 .. n, NEW rest
  PROVE  LET i == LastMatch(rules, rest)
         IN i \in 0 .. n /\ (i > 0 => TryRule(rules[i], rest) # NoMatch)
<1> DEFINE S == {0} \cup {i \in DOMAIN rules : TryRule(rules[i], rest) # NoMatch}
<1>1. S \in SUBSET (0 .. n) /\ S # {}
  OBVIOUS
<1>2. PICK i \in S : \A k \in S : k <= i
  <2> HIDE DEF S
  <2>1. QED
    BY <1>1, Greatest
<1>3. Max(S) \in S
  <2>1. \A k \in S : i >= k
    BY <1>1, <1>2
  <2> HIDE DEF S
  <2>2. QED
    BY <1>2, <2>1 DEF Max
<1>4. LastMatch(rules, rest) \in S
  BY <1>3 DEF LastMatch
<1>5. QED
  BY <1>1, <1>4

LEMMA ListLength == ASSUME NEW l, IsList(l) PROVE Len(l) \in Nat /\ DOMAIN l = 1 .. Len(l)
BY DEF IsList

LEMMA KeywordMatches ==
  ASSUME NEW words, IsWords(words), NEW rest \in Strings, NEW alphabet,
         MatchKeyword(words, rest, alphabet) # NoMatch
  PROVE  /\ IsMatch(MatchKeyword(words, rest, alphabet), rest)
         /\ MatchKeyword(words, rest, alphabet).length > 0 \/ MatchEmpty(words)
<1> DEFINE found == TryStrings(words, rest, alphabet)
           i == LastMatch(words.regexps, rest)
<1>1. CASE found # NoMatch
  BY <1>1, StringsMatch DEF MatchKeyword
<1>2. CASE found = NoMatch
  <2>1. i > 0 /\ MatchKeyword(words, rest, alphabet) = TryRule(words.regexps[i], rest)
    BY <1>2 DEF MatchKeyword
  <2>2. IsList(words.regexps) /\ \A k \in DOMAIN words.regexps : IsRule(words.regexps[k])
    BY DEF IsWords
  <2>3. i \in 0 .. Len(words.regexps) /\ DOMAIN words.regexps = 1 .. Len(words.regexps)
        /\ Len(words.regexps) \in Nat
    BY <2>2, ListLength, LastMatches
  <2> HIDE DEF i
  <2>4. i \in DOMAIN words.regexps
    BY <2>1, <2>3
  <2>5. << >> \in words.regexps[i].matches => MatchEmpty(words)
    BY <2>4 DEF MatchEmpty
  <2>6. QED
    BY <2>1, <2>2, <2>4, <2>5, RuleMatches
<1>3. QED
  BY <1>1, <1>2

(* The rest of a line, and the length of a word.                           *)
LEMMA RestOfLine ==
  ASSUME line \in Strings, NEW c \in 0 .. Len(line)
  PROVE  Rest(c) \in Strings /\ Len(Rest(c)) = Len(line) - c
<1> DEFINE n == Len(line) - c
<1>1. n \in Nat /\ \A i \in 1 .. n : c + i \in 1 .. Len(line)
  BY DEF Strings
<1>2. \A i \in 1 .. n : Fold[line[c + i]] \in Chars
  <2>1. \A i \in 1 .. Len(line) : line[i] \in Chars
    BY DEF Strings
  <2>2. QED
    BY <1>1, <2>1, HighlightAssumption
<1>3. Rest(c) = [i \in 1 .. n |-> Fold[line[c + i]]]
  BY DEF Rest
<1> HIDE DEF n
<1>4. Rest(c) \in [1 .. n -> Chars]
  BY <1>2, <1>3
<1>5. Rest(c) \in Seq(Chars) /\ Len(Rest(c)) = n
  BY <1>1, <1>4
<1>6. QED
  BY <1>5 DEF Strings, n

LEMMA WordEnds ==
  ASSUME line \in Strings, NEW c \in Nat, c < Len(line)
  PROVE  WordLength(c) \in 1 .. Len(line) - c
<1> DEFINE n == Len(line) - c
           Ends(k) == c + k = Len(line) \/ line[c + k + 1] \notin Alpha2
           T == {k \in 1 .. n : Ends(k)}
<1>1. n \in Nat /\ n \in 1 .. n /\ c + n = Len(line) /\ Len(line) \in Nat
  BY DEF Strings
<1>2. PICK k \in T : \A i \in T : k <= i
  <2>1. n \in T /\ T \in SUBSET Nat
    BY <1>1
  <2> HIDE DEF T
  <2>2. QED
    BY <2>1, Least
<1>3. ASSUME NEW i \in 2 .. k
      PROVE  line[c + i] \in Alpha2
  <2>1. i - 1 \in 1 .. n /\ ~(k <= i - 1)
    <3>1. k \in 1 .. n
      BY <1>2
    <3> HIDE DEF n, T
    <3>2. QED
      BY <1>1, <1>3, <3>1
  <2>2. ~Ends(i - 1)
    <3> HIDE DEF Ends
    <3>1. QED
      BY <1>2, <2>1
  <2>3. c + (i - 1) + 1 = c + i
    OBVIOUS
  <2>4. QED
    BY <2>2, <2>3
<1>4. \E m \in 1 .. n : /\ \A i \in 2 .. m : line[c + i] \in Alpha2
                        /\ Ends(m)
  BY <1>2, <1>3
<1>5. QED
  BY <1>4 DEF WordLength
-----------------------------------------------------------------------------
(* A token, told by its fields: it is read where the lexer stands, and     *)
(* leaves the printer as it is.                                            *)
Kept(u, t) ==
  /\ u.fface = t.fface /\ u.grabbing = t.grabbing /\ u.name = t.name
  /\ u.tag1 = t.tag1 /\ u.enc = t.enc /\ u.printed = t.printed

Reads(k, t, n, rhs, q, f) ==
  /\ k.lexer \in Lexer /\ Kept(k.lexer, t)
  /\ k.lexer.sequence = q /\ k.lexer.plain = f
  /\ k.lexer.curr = t.curr + n
  /\ k.lexer.tokens = Recorded(t.tokens, t.curr, t.curr + n)
  /\ k.from = t.curr /\ k.to = t.curr + n /\ k.rhs = rhs

LEMMA TokenFields ==
  ASSUME NEW t \in Lexer, NEW n \in Nat, NEW rhs
  PROVE  /\ Reads(Token(t, n, rhs), t, n, rhs, t.sequence, t.plain)
         /\ Token(t, n, rhs).lexer.toPlain = t.toPlain
<1> DEFINE m == t.curr + n
           l == Recorded(t.tokens, t.curr, m)
<1>1. t.curr \in Nat /\ t.tokens \in Seq(Nat \X Nat)
  BY DEF Lexer
<1>2. m \in Nat /\ l \in Seq(Nat \X Nat)
  BY <1>1, AppendProperties DEF Recorded
<1>3. Token(t, n, rhs) = [lexer |-> [t EXCEPT !.curr = m, !.tokens = l], from |-> t.curr, to |-> m, rhs |-> rhs]
  BY DEF Token, Lexer
<1> HIDE DEF l
<1>4. l = Recorded(t.tokens, t.curr, t.curr + n)
  BY DEF l
<1> HIDE DEF m
<1>5. m = t.curr + n
  BY DEF m
<1>6. [t EXCEPT !.curr = m, !.tokens = l] \in Lexer
  BY <1>2 DEF Lexer
<1> DEFINE u == [t EXCEPT !.curr = m, !.tokens = l]
<1>0. Token(t, n, rhs) = [lexer |-> u, from |-> t.curr, to |-> m, rhs |-> rhs]
  BY <1>3
<1>7. u \in Lexer /\ Kept(u, t)
  BY <1>6 DEF Kept, Lexer
<1>8. /\ u.sequence = t.sequence /\ u.toPlain = t.toPlain /\ u.plain = t.plain
      /\ u.curr = m /\ u.tokens = l
  BY DEF Lexer
<1> HIDE DEF u
<1>9. QED
  BY <1>0, <1>4, <1>5, <1>7, <1>8 DEF Reads

(* The lexer that reads a token, when the fields that the token sets are.  *)
LEMMA LexerSet ==
  ASSUME NEW t \in Lexer, NEW q \in 0 .. Len(Sequences), NEW back \in BOOLEAN, NEW f \in FFace
  PROVE  /\ [t EXCEPT !.sequence = q] \in Lexer
         /\ [t EXCEPT !.toPlain = back] \in Lexer
         /\ [t EXCEPT !.plain = f] \in Lexer
         /\ [t EXCEPT !.sequence = q, !.toPlain = back] \in Lexer
         /\ [t EXCEPT !.toPlain = back, !.plain = f] \in Lexer
BY DEF Lexer

LEMMA PlainIsFace == Plain \in FFace
BY DEF Plain, FFace, Faces

(* return_to_plain is for the token after the next word of the sheet.      *)
Back(t) == IF t.toPlain THEN [t EXCEPT !.toPlain = FALSE, !.plain = Plain] ELSE t
PlainOf(t) == IF t.toPlain THEN Plain ELSE t.plain

LEMMA BackFields ==
  ASSUME NEW t \in Lexer
  PROVE  /\ Back(t) \in Lexer /\ Kept(Back(t), t)
         /\ Back(t).toPlain = FALSE /\ Back(t).plain = PlainOf(t)
         /\ Back(t).sequence = t.sequence /\ Back(t).curr = t.curr /\ Back(t).tokens = t.tokens
         /\ GetToken(t) = IF Back(t).sequence > 0 THEN TokenInSequence(Back(t)) ELSE TokenOutside(Back(t))
<1>1. Back(t) \in Lexer
  <2>1. [t EXCEPT !.toPlain = FALSE, !.plain = Plain] \in Lexer
    BY PlainIsFace DEF Lexer
  <2>2. QED
    BY <2>1 DEF Back
<1>2. QED
  BY <1>1 DEF Back, PlainOf, Kept, Lexer, GetToken

(* What a token is read from the fields of the lexer that are set for it.  *)
LEMMA TokenSet ==
  ASSUME NEW t \in Lexer, NEW b \in Lexer, Kept(b, t), b.curr = t.curr, b.tokens = t.tokens,
         NEW n \in Nat, NEW rhs
  PROVE  /\ Reads(Token(b, n, rhs), t, n, rhs, b.sequence, b.plain)
         /\ Token(b, n, rhs).lexer.toPlain = b.toPlain
<1>1. /\ Reads(Token(b, n, rhs), b, n, rhs, b.sequence, b.plain)
      /\ Token(b, n, rhs).lexer.toPlain = b.toPlain
  BY TokenFields
<1>2. QED
  BY <1>1 DEF Reads, Kept
-----------------------------------------------------------------------------
(* What the next token is depends on the sequence and on the place alone,  *)
(* but for the face of the plain characters.  It is a word of the sheet    *)
(* (the face it leaves is set again by a sequence, or by return_to_plain), *)
(* plain characters in a face of their own, or one in the face it finds.   *)
At(t, q, c) == t.sequence = q /\ t.curr = c

WordRead(t, n, rhs, seq) ==
  Reads(GetToken(t), t, n, rhs, seq, PlainOf(t)) /\ (GetToken(t).lexer.toPlain <=> seq = 0)

FaceRead(t, n, q, f) ==
  Reads(GetToken(t), t, n, PlainRhs(f), q, f) /\ ~GetToken(t).lexer.toPlain

WordAt(q, c) ==
  \E n \in 0 .. Len(line) - c, seq \in 0 .. Len(Sequences) : \E rhs :
    /\ IsRhs(rhs) /\ (n > 0 \/ EmptyToken(q, seq))
    /\ \A t \in Lexer : At(t, q, c) => WordRead(t, n, rhs, seq)

FacedAt(q, c) ==
  \E n \in 1 .. Len(line) - c, f \in {Plain} \cup {Sequences[i].face : i \in DOMAIN Sequences} :
    /\ q > 0 \/ f = Plain
    /\ \A t \in Lexer : At(t, q, c) => FaceRead(t, n, q, f)

PlainAt(q, c) ==
  /\ q = 0 /\ line[c + 1] \notin Alpha1
  /\ \A t \in Lexer : At(t, q, c) => FaceRead(t, 1, 0, PlainOf(t))

LEMMA AWordAt ==
  ASSUME NEW q, NEW c, NEW n \in 0 .. Len(line) - c, NEW rhs, NEW seq \in 0 .. Len(Sequences),
         IsRhs(rhs), n > 0 \/ EmptyToken(q, seq),
         \A t \in Lexer : At(t, q, c) => WordRead(t, n, rhs, seq)
  PROVE  WordAt(q, c)
BY DEF WordAt

LEMMA PlainIsRhs == \A f \in FFace : IsRhs(PlainRhs(f))
<1> SUFFICES ASSUME NEW f \in FFace PROVE IsRhs(PlainRhs(f))
  OBVIOUS
<1> DEFINE e == [string |-> Match, face |-> f]
<1>1. PlainRhs(f) = <<e>> /\ e.face = f /\ e.string = Match
  BY DEF PlainRhs
<1> HIDE DEF e
<1>2. ToSet(<<e>>) = {e} /\ <<e>> # << >> /\ DOMAIN <<e>> = {1}
  BY DEF ToSet
<1>3. <<e>> \in Seq({e})
  OBVIOUS
<1>4. QED
  BY <1>1, <1>2, <1>3 DEF IsRhs, IsList

LEMMA TokenIn ==
  ASSUME line \in Strings, NEW q \in 1 .. Len(Sequences), NEW c \in Nat, c < Len(line)
  PROVE  WordAt(q, c) \/ FacedAt(q, c)
<1> DEFINE rest == Rest(c)
           seq == Sequences[q]
           except == MatchOperator(seq.exceptions, rest)
           close == MatchOperator(seq.close, rest)
           n == Len(line) - c
<1>1. rest \in Strings /\ Len(rest) = n /\ Len(line) \in Nat /\ 1 \in 1 .. n
  BY RestOfLine DEF Strings
<1>2. /\ IsWords(seq.exceptions) /\ IsWords(seq.close)
      /\ seq.face \in FFace /\ q \in DOMAIN Sequences /\ q \in 0 .. Len(Sequences) /\ q > 0
      /\ 0 \in 0 .. Len(Sequences)
  BY HighlightAssumption, ListLength
<1>3. except # NoMatch =>
        except.length \in 0 .. n /\ IsRhs(except.rhs) /\ (except.length > 0 \/ EmptyToken(q, q))
  BY <1>1, <1>2, KeywordMatches DEF MatchOperator, IsMatch, EmptyToken
<1>4. close # NoMatch =>
        close.length \in 0 .. n /\ IsRhs(close.rhs) /\ (close.length > 0 \/ EmptyToken(q, 0))
  BY <1>1, <1>2, KeywordMatches DEF MatchOperator, IsMatch, EmptyToken
<1>5. ASSUME NEW t \in Lexer, At(t, q, c)
      PROVE  GetToken(t) = IF except # NoMatch THEN Excepted(Back(t), except)
                           ELSE IF close # NoMatch THEN Closed(Back(t), close)
                           ELSE Token([Back(t) EXCEPT !.plain = seq.face], 1, PlainRhs(seq.face))
  BY <1>2, <1>5, BackFields DEF At, TokenInSequence
<1> HIDE DEF rest, seq, except, close, n
<1>6. CASE except # NoMatch
  <2>1. ASSUME NEW t \in Lexer, At(t, q, c)
        PROVE  WordRead(t, except.length, except.rhs, q)
    <3>1. /\ Back(t) \in Lexer /\ Kept(Back(t), t) /\ Back(t).curr = t.curr /\ Back(t).tokens = t.tokens
          /\ Back(t).sequence = q /\ Back(t).toPlain = FALSE /\ Back(t).plain = PlainOf(t)
      BY <2>1, BackFields DEF At
    <3>2. GetToken(t) = Token(Back(t), except.length, except.rhs)
      BY <1>5, <1>6, <2>1 DEF Excepted, Matched
    <3>3. except.length \in Nat
      BY <1>1, <1>3, <1>6
    <3>4. QED
      BY <3>1, <3>2, <3>3, TokenSet DEF WordRead, FaceRead
  <2>2. except.length \in 0 .. Len(line) - c
    BY <1>3, <1>6 DEF n
  <2>3. QED
    BY <1>2, <1>3, <1>6, <2>1, <2>2, AWordAt
<1>7. CASE except = NoMatch /\ close # NoMatch
  <2>1. ASSUME NEW t \in Lexer, At(t, q, c)
        PROVE  WordRead(t, close.length, close.rhs, 0)
    <3> DEFINE b == [Back(t) EXCEPT !.sequence = 0, !.toPlain = TRUE]
    <3>1. /\ b \in Lexer /\ Kept(b, t) /\ b.curr = t.curr /\ b.tokens = t.tokens
          /\ b.sequence = 0 /\ b.toPlain = TRUE /\ b.plain = PlainOf(t)
      BY <1>2, BackFields DEF Lexer, Kept
    <3>2. GetToken(t) = Token(b, close.length, close.rhs)
      BY <1>5, <1>7, <2>1 DEF Closed, Matched
    <3> HIDE DEF b
    <3>3. close.length \in Nat
      BY <1>1, <1>4, <1>7
    <3>4. QED
      BY <3>1, <3>2, <3>3, TokenSet DEF WordRead, FaceRead
  <2>2. close.length \in 0 .. Len(line) - c
    BY <1>4, <1>7 DEF n
  <2>3. QED
    BY <1>2, <1>4, <1>7, <2>1, <2>2, AWordAt
<1>8. CASE except = NoMatch /\ close = NoMatch
  <2>1. ASSUME NEW t \in Lexer, At(t, q, c)
        PROVE  FaceRead(t, 1, q, seq.face)
    <3> DEFINE b == [Back(t) EXCEPT !.plain = seq.face]
    <3>1. /\ b \in Lexer /\ Kept(b, t) /\ b.curr = t.curr /\ b.tokens = t.tokens
          /\ b.sequence = q /\ b.toPlain = FALSE /\ b.plain = seq.face
      BY <1>2, <2>1, BackFields DEF Lexer, Kept, At
    <3>2. GetToken(t) = Token(b, 1, PlainRhs(seq.face))
      BY <1>5, <1>8, <2>1
    <3> HIDE DEF b
    <3>3. QED
      BY <3>1, <3>2, TokenSet DEF WordRead, FaceRead
  <2>2. seq.face \in {Plain} \cup {Sequences[i].face : i \in DOMAIN Sequences}
    BY <1>2 DEF seq
  <2>3. QED
    BY <1>1, <1>2, <2>1, <2>2 DEF FacedAt, n
<1>9. QED
  BY <1>6, <1>7, <1>8

LEMMA TokenOut ==
  ASSUME line \in Strings, NEW c \in Nat, c < Len(line)
  PROVE  WordAt(0, c) \/ FacedAt(0, c) \/ PlainAt(0, c)
<1> DEFINE rest == Rest(c)
           seq == MatchSequence(rest)
           open == TryRule(Sequences[seq].open, rest)
           key == MatchKeyword(Keywords, rest, Alpha2)
           op == MatchOperator(Operators, rest)
           n == Len(line) - c
           inWord == line[c + 1] \in Alpha1
           back(t) == [Back(t) EXCEPT !.toPlain = TRUE]
<1>1. rest \in Strings /\ Len(rest) = n /\ Len(line) \in Nat /\ 1 \in 1 .. n
  BY RestOfLine DEF Strings
<1>2. /\ seq \in 0 .. Len(Sequences)
      /\ seq > 0 => open.length \in 0 .. n /\ IsRhs(open.rhs) /\ (open.length > 0 \/ EmptyToken(0, seq))
  <2> DEFINE rules == [i \in DOMAIN Sequences |-> Sequences[i].open]
  <2>1. Len(Sequences) \in Nat /\ DOMAIN Sequences = 1 .. Len(Sequences)
    BY HighlightAssumption, ListLength
  <2>2. seq = LastMatch(rules, rest) /\ DOMAIN rules = 1 .. Len(Sequences)
    BY <2>1 DEF MatchSequence
  <2>3. seq \in 0 .. Len(Sequences) /\ (seq > 0 => TryRule(rules[seq], rest) # NoMatch)
    <3> HIDE DEF rules, seq
    <3>1. QED
      BY <2>1, <2>2, LastMatches
  <2>4. ASSUME seq > 0
        PROVE  open.length \in 0 .. n /\ IsRhs(open.rhs) /\ (open.length > 0 \/ EmptyToken(0, seq))
    <3>1. seq \in DOMAIN Sequences
      BY <2>1, <2>3, <2>4
    <3> HIDE DEF seq
    <3>2. rules[seq] = Sequences[seq].open
      BY <3>1
    <3>3. IsRule(Sequences[seq].open)
      BY <3>1, HighlightAssumption
    <3> HIDE DEF rules
    <3>4. IsMatch(open, rest) /\ (open.length > 0 \/ << >> \in Sequences[seq].open.matches)
      BY <1>1, <2>3, <2>4, <3>2, <3>3, RuleMatches
    <3>5. QED
      BY <1>1, <2>4, <3>4 DEF IsMatch, EmptyToken
  <2>5. QED
    BY <2>3, <2>4
<1>3. key # NoMatch => key.length \in 0 .. n /\ IsRhs(key.rhs) /\ (key.length > 0 \/ EmptyToken(0, 0))
  BY <1>1, HighlightAssumption, KeywordMatches DEF IsMatch, EmptyToken
<1>4. op # NoMatch => op.length \in 0 .. n /\ IsRhs(op.rhs) /\ (op.length > 0 \/ EmptyToken(0, 0))
  BY <1>1, HighlightAssumption, KeywordMatches DEF IsMatch, MatchOperator, EmptyToken
<1>5. WordLength(c) \in 1 .. n
  BY WordEnds
<1>6. ASSUME NEW t \in Lexer, At(t, 0, c)
      PROVE  GetToken(t) =
               IF seq > 0 THEN Matched([Back(t) EXCEPT !.sequence = seq], open)
               ELSE IF inWord /\ key # NoMatch THEN Matched(back(t), key)
               ELSE IF op # NoMatch THEN Matched(back(t), op)
               ELSE IF inWord THEN Token([Back(t) EXCEPT !.plain = Plain], WordLength(c), PlainRhs(Plain))
               ELSE Token(Back(t), 1, PlainRhs(Back(t).plain))
  <2>1. GetToken(t) = TokenOutside(Back(t)) /\ Back(t).curr = c
    <3> HIDE DEF rest, seq, open, key, op, n, inWord, back
    <3>1. t.sequence = 0 /\ t.curr = c /\ ~(0 > 0)
      BY <1>6 DEF At
    <3>2. QED
      BY <3>1, BackFields
  <2>2. TokenOutside(Back(t)) =
          LET r == Rest(Back(t).curr)
              q == MatchSequence(r)
              k == MatchKeyword(Keywords, r, Alpha2)
              o == MatchOperator(Operators, r)
              w == line[Back(t).curr + 1] \in Alpha1
          IN IF q > 0 THEN Matched([Back(t) EXCEPT !.sequence = q], TryRule(Sequences[q].open, r))
             ELSE IF w /\ k # NoMatch THEN Matched(back(t), k)
             ELSE IF o # NoMatch THEN Matched(back(t), o)
             ELSE IF w THEN Token([Back(t) EXCEPT !.plain = Plain], WordLength(Back(t).curr), PlainRhs(Plain))
             ELSE Token(Back(t), 1, PlainRhs(Back(t).plain))
    BY Zenon DEF TokenOutside
  <2>3. QED
    BY <2>1, <2>2, Zenon
<1>7. \A m \in 0 .. n : m \in 0 .. Len(line) - c /\ m \in Nat
  BY <1>1
<1> HIDE DEF rest, seq, open, key, op, n, inWord
<1>8. CASE seq > 0
  <2>1. ASSUME NEW t \in Lexer, At(t, 0, c)
        PROVE  WordRead(t, open.length, open.rhs, seq)
    <3> DEFINE b == [Back(t) EXCEPT !.sequence = seq]
    <3>1. /\ b \in Lexer /\ Kept(b, t) /\ b.curr = t.curr /\ b.tokens = t.tokens
          /\ b.sequence = seq /\ b.toPlain = FALSE /\ b.plain = PlainOf(t)
      BY <1>2, BackFields DEF Lexer, Kept
    <3>2. GetToken(t) = Token(b, open.length, open.rhs)
      BY <1>6, <1>8, <2>1 DEF Matched
    <3> HIDE DEF b
    <3>3. open.length \in Nat
      BY <1>2, <1>7, <1>8
    <3>4. seq # 0
      BY <1>2, <1>8
    <3>5. QED
      BY <3>1, <3>2, <3>3, <3>4, TokenSet DEF WordRead, FaceRead
  <2>2. QED
    BY <1>2, <1>7, <1>8, <2>1, AWordAt
<1>9. ASSUME NEW m, m.length \in 0 .. n /\ IsRhs(m.rhs), m.length > 0 \/ EmptyToken(0, 0),
             \A t \in Lexer : At(t, 0, c) => GetToken(t) = Matched(back(t), m)
      PROVE  WordAt(0, c)
  <2>1. ASSUME NEW t \in Lexer, At(t, 0, c)
        PROVE  WordRead(t, m.length, m.rhs, 0)
    <3> DEFINE b == [Back(t) EXCEPT !.toPlain = TRUE]
    <3>1. /\ b \in Lexer /\ Kept(b, t) /\ b.curr = t.curr /\ b.tokens = t.tokens
          /\ b.sequence = 0 /\ b.toPlain = TRUE /\ b.plain = PlainOf(t)
      BY <2>1, BackFields DEF Lexer, Kept, At
    <3>2. GetToken(t) = Token(b, m.length, m.rhs)
      BY <1>9, <2>1 DEF Matched
    <3> HIDE DEF b
    <3>3. m.length \in Nat
      BY <1>7, <1>9
    <3>4. QED
      BY <3>1, <3>2, <3>3, TokenSet DEF WordRead, FaceRead
  <2>2. 0 \in 0 .. Len(Sequences)
    BY HighlightAssumption, ListLength
  <2>3. QED
    BY <1>7, <1>9, <2>1, <2>2, AWordAt
<1>10. CASE ~(seq > 0) /\ inWord /\ key # NoMatch
  <2>1. \A t \in Lexer : At(t, 0, c) => GetToken(t) = Matched(back(t), key)
    BY <1>2, <1>6, <1>10
  <2> HIDE DEF back
  <2>2. QED
    BY <1>3, <1>9, <1>10, <2>1
<1>11. CASE ~(seq > 0) /\ ~(inWord /\ key # NoMatch) /\ op # NoMatch
  <2>1. \A t \in Lexer : At(t, 0, c) => GetToken(t) = Matched(back(t), op)
    BY <1>2, <1>6, <1>11
  <2> HIDE DEF back
  <2>2. QED
    BY <1>4, <1>9, <1>11, <2>1
<1>12. CASE ~(seq > 0) /\ key = NoMatch /\ op = NoMatch /\ inWord
  <2>1. ASSUME NEW t \in Lexer, At(t, 0, c)
        PROVE  FaceRead(t, WordLength(c), 0, Plain)
    <3> DEFINE b == [Back(t) EXCEPT !.plain = Plain]
    <3>1. /\ b \in Lexer /\ Kept(b, t) /\ b.curr = t.curr /\ b.tokens = t.tokens
          /\ b.sequence = 0 /\ b.toPlain = FALSE /\ b.plain = Plain
      BY <2>1, PlainIsFace, BackFields DEF Lexer, Kept, At
    <3>2. GetToken(t) = Token(b, WordLength(c), PlainRhs(Plain))
      BY <1>2, <1>6, <1>12, <2>1
    <3> HIDE DEF b
    <3>3. QED
      BY <1>5, <1>7, <3>1, <3>2, TokenSet DEF WordRead, FaceRead
  <2>2. QED
    BY <1>5, <2>1 DEF FacedAt, n
<1>13. CASE ~(seq > 0) /\ op = NoMatch /\ ~inWord
  <2>1. ASSUME NEW t \in Lexer, At(t, 0, c)
        PROVE  FaceRead(t, 1, 0, PlainOf(t))
    <3>1. /\ Back(t) \in Lexer /\ Kept(Back(t), t) /\ Back(t).curr = t.curr /\ Back(t).tokens = t.tokens
          /\ Back(t).sequence = 0 /\ Back(t).toPlain = FALSE /\ Back(t).plain = PlainOf(t)
      BY <2>1, BackFields DEF At
    <3>2. GetToken(t) = Token(Back(t), 1, PlainRhs(PlainOf(t)))
      BY <1>2, <1>6, <1>13, <2>1, <3>1
    <3>3. QED
      BY <3>1, <3>2, TokenSet DEF WordRead, FaceRead
  <2>2. QED
    BY <1>13, <2>1 DEF PlainAt, inWord
<1>14. QED
  BY <1>2, <1>8, <1>10, <1>11, <1>12, <1>13
-----------------------------------------------------------------------------
(* The printer leaves the lexer where it is, gives the text in the face it *)
(* is told, and grabs an encoding only while its face says so.             *)
Stays(u, t) ==
  /\ u.sequence = t.sequence /\ u.toPlain = t.toPlain /\ u.plain = t.plain
  /\ u.curr = t.curr /\ u.tokens = t.tokens

Grabs(t) ==
  /\ t.grabbing => "Encoding" \in t.fface.flags
  /\ t.name # << >> => t.grabbing

LEMMA FaceFields ==
  ASSUME NEW t \in Lexer, NEW f \in FFace
  PROVE  LET n    == NewFace(t, f)
             done == t.grabbing /\ "Encoding" \notin f.flags
         IN /\ n \in Lexer /\ Stays(n, t) /\ n.fface = f
            /\ n.tag1 = IF t.fface # f /\ "Tag1" \in f.flags THEN << >> ELSE t.tag1
            /\ n.grabbing <=> t.grabbing /\ (t.fface # f => ~done)
            /\ n.name = IF t.fface # f /\ done THEN << >> ELSE t.name
            /\ n.enc = IF t.fface # f /\ done /\ t.name \in Names THEN t.name ELSE t.enc
<1> DEFINE done == t.grabbing /\ "Encoding" \notin f.flags
           tag1 == IF "Tag1" \in f.flags THEN << >> ELSE t.tag1
           grabbing == t.grabbing /\ ~done
           name == IF done THEN << >> ELSE t.name
           enc == IF done /\ t.name \in Names THEN t.name ELSE t.enc
           u == [t EXCEPT !.fface = f, !.tag1 = tag1, !.grabbing = grabbing, !.name = name, !.enc = enc]
<1>1. NewFace(t, f) = IF t.fface = f THEN t ELSE u
  BY DEF NewFace, Lexer
<1>2. /\ tag1 \in Strings /\ grabbing \in BOOLEAN /\ name \in Strings
      /\ enc \in Names \cup {Requested}
  <2>1. << >> \in Strings
    BY DEF Strings
  <2>2. QED
    BY <2>1 DEF Lexer
<1>3. CASE t.fface = f
  BY <1>1, <1>3 DEF Stays
<1>4. CASE t.fface # f
  <2> HIDE DEF tag1, grabbing, name, enc
  <2>1. /\ u \in Lexer /\ Stays(u, t) /\ u.fface = f
        /\ u.tag1 = tag1 /\ u.grabbing = grabbing /\ u.name = name /\ u.enc = enc
    BY <1>2 DEF Lexer, Stays
  <2> HIDE DEF u
  <2>2. QED
    BY <1>1, <1>4, <2>1 DEF tag1, grabbing, name, enc
<1>5. QED
  BY <1>3, <1>4

LEMMA GrabbedFields ==
  ASSUME NEW t \in Lexer, NEW string \in Strings
  PROVE  LET g == Grabbed(t, string)
         IN /\ g \in Lexer /\ Stays(g, t) /\ g.fface = t.fface /\ g.enc = t.enc
            /\ g.tag1 = IF "Tag1" \in t.fface.flags THEN t.tag1 \o string ELSE t.tag1
            /\ g.grabbing <=> t.grabbing \/ "Encoding" \in t.fface.flags
            /\ g.name = IF "Encoding" \in t.fface.flags THEN t.name \o string ELSE t.name
<1> DEFINE tag1 == IF "Tag1" \in t.fface.flags THEN t.tag1 \o string ELSE t.tag1
           grabbing == t.grabbing \/ "Encoding" \in t.fface.flags
           name == IF "Encoding" \in t.fface.flags THEN t.name \o string ELSE t.name
           u == [t EXCEPT !.tag1 = tag1, !.grabbing = grabbing, !.name = name]
<1>1. Grabbed(t, string) = u
  BY DEF Grabbed, Lexer
<1>2. t.tag1 \in Strings /\ t.name \in Strings
  BY DEF Lexer
<1>3. t.tag1 \o string \in Strings /\ t.name \o string \in Strings
  BY <1>2, ConcatProperties DEF Strings
<1>4. tag1 \in Strings /\ grabbing \in BOOLEAN /\ name \in Strings
  BY <1>2, <1>3
<1> HIDE DEF tag1, grabbing, name
<1>5. /\ u \in Lexer /\ Stays(u, t) /\ u.fface = t.fface /\ u.enc = t.enc
      /\ u.tag1 = tag1 /\ u.grabbing = grabbing /\ u.name = name
  BY <1>4 DEF Lexer, Stays
<1> HIDE DEF u
<1>6. QED
  BY <1>1, <1>5 DEF tag1, grabbing, name

LEMMA PrintedFields ==
  ASSUME NEW t \in Lexer, NEW string \in Strings
  PROVE  LET p == Printed(t, string)
         IN /\ p \in Lexer /\ Stays(p, t) /\ p.fface = t.fface /\ p.enc = t.enc
            /\ p.tag1 = t.tag1 /\ p.grabbing = t.grabbing /\ p.name = t.name
<1> DEFINE S == [string : Strings, face : Faces, enc : Names \cup {Requested}]
           e == [string |-> string, face |-> t.fface.face, enc |-> t.enc]
           l == Append(t.printed, e)
           u == [t EXCEPT !.printed = l]
<1>1. Printed(t, string) = t \/ Printed(t, string) = u
  BY DEF Printed, Lexer
<1>2. t.printed \in Seq(S) /\ e \in S
  BY DEF Lexer, FFace
<1>3. l \in Seq(S)
  <2> HIDE DEF S, e
  <2>1. QED
    BY <1>2, AppendProperties
<1> HIDE DEF l
<1>4. /\ u \in Lexer /\ Stays(u, t) /\ u.fface = t.fface /\ u.enc = t.enc
      /\ u.tag1 = t.tag1 /\ u.grabbing = t.grabbing /\ u.name = t.name
  BY <1>3 DEF Lexer, Stays
<1> HIDE DEF u
<1>5. QED
  BY <1>1, <1>4 DEF Stays

(* A string of a token that is within the line.                            *)
Given(k, d) == IF d.string = Match THEN SubSeq(line, k.from + 1, k.to) ELSE d.string

LEMMA GivenIsString ==
  ASSUME line \in Strings, NEW k, k.from \in Nat, k.to \in k.from .. Len(line),
         NEW d, d.string = Match \/ d.string \in Strings
  PROVE  Given(k, d) \in Strings
<1>1. CASE d.string = Match
  <2> DEFINE m == k.from + 1
             n == k.to
  <2>1. m \in Int /\ n \in Int /\ \A i \in m .. n : i \in 1 .. Len(line)
    BY DEF Strings
  <2>2. \A i \in m .. n : line[i] \in Chars
    BY <2>1 DEF Strings
  <2> HIDE DEF m, n
  <2>3. SubSeq(line, m, n) \in Seq(Chars)
    BY <2>1, <2>2, SubSeqProperties
  <2>4. QED
    BY <1>1, <2>3 DEF Given, Strings, m, n
<1>2. CASE d.string # Match
  BY <1>2 DEF Given
<1>3. QED
  BY <1>1, <1>2

LEMMA GiveFields ==
  ASSUME NEW t \in Lexer, NEW k, NEW d, d.face \in FFace, Given(k, d) \in Strings
  PROVE  LET g == Give(k, t, d)
             n == NewFace(t, d.face)
             string == Given(k, d)
         IN /\ g \in Lexer /\ Stays(g, t) /\ g.fface = d.face /\ g.enc = n.enc
            /\ g.tag1 = IF "Tag1" \in d.face.flags THEN n.tag1 \o string ELSE n.tag1
            /\ g.grabbing <=> n.grabbing \/ "Encoding" \in d.face.flags
            /\ g.name = IF "Encoding" \in d.face.flags THEN n.name \o string ELSE n.name
<1> DEFINE n == NewFace(t, d.face)
           string == Given(k, d)
           b == Grabbed(n, string)
<1>1. Give(k, t, d) = Printed(b, string)
  BY DEF Give, Given
<1>2. n \in Lexer /\ Stays(n, t) /\ n.fface = d.face
  BY FaceFields
<1> HIDE DEF n, string
<1>3. string \in Strings
  BY DEF string
<1>4. /\ b \in Lexer /\ Stays(b, n) /\ b.fface = n.fface /\ b.enc = n.enc
      /\ b.tag1 = IF "Tag1" \in n.fface.flags THEN n.tag1 \o string ELSE n.tag1
      /\ b.grabbing <=> n.grabbing \/ "Encoding" \in n.fface.flags
      /\ b.name = IF "Encoding" \in n.fface.flags THEN n.name \o string ELSE n.name
  BY <1>2, <1>3, GrabbedFields
<1> HIDE DEF b
<1>5. LET p == Printed(b, string)
      IN /\ p \in Lexer /\ Stays(p, b) /\ p.fface = b.fface /\ p.enc = b.enc
         /\ p.tag1 = b.tag1 /\ p.grabbing = b.grabbing /\ p.name = b.name
  BY <1>3, <1>4, PrintedFields
<1>6. Stays(Printed(b, string), t)
  BY <1>2, <1>4, <1>5 DEF Stays
<1>7. QED
  BY <1>1, <1>2, <1>4, <1>5, <1>6 DEF n, string

LEMMA GiveGrabs ==
  ASSUME NEW t \in Lexer, Grabs(t), NEW k, NEW d, d.face \in FFace, Given(k, d) \in Strings
  PROVE  Grabs(Give(k, t, d))
<1> DEFINE n == NewFace(t, d.face)
           g == Give(k, t, d)
<1>1. /\ n.grabbing <=> t.grabbing /\ (t.fface # d.face => "Encoding" \in d.face.flags)
      /\ n.name # << >> => t.name # << >> /\ (t.fface # d.face /\ t.grabbing => "Encoding" \in d.face.flags)
  BY FaceFields
<1>2. /\ g.fface = d.face
      /\ g.grabbing <=> n.grabbing \/ "Encoding" \in d.face.flags
      /\ g.name = IF "Encoding" \in d.face.flags THEN n.name \o Given(k, d) ELSE n.name
  BY GiveFields
<1> HIDE DEF n, g
<1>3. Grabs(g)
  BY <1>1, <1>2 DEF Grabs
<1>4. QED
  BY <1>3 DEF g
-----------------------------------------------------------------------------
(* Two printers that have grabbed the same go on alike, once they are in   *)
(* the same face, and before that if neither of their faces grabs.         *)
Quiet(f) == f.flags \cap {"Tag1", "Encoding"} = {}

Idle(t) == ~t.grabbing /\ t.name = << >> /\ Quiet(t.fface)

Same(t, u) == t.tag1 = u.tag1 /\ t.grabbing = u.grabbing /\ t.name = u.name /\ t.enc = u.enc

Near(t, u) == Same(t, u) /\ (t.fface = u.fface \/ (Idle(t) /\ Idle(u)))

LEMMA GrabbingIsBoolean == \A t \in Lexer : t.grabbing \in BOOLEAN
BY DEF Lexer

LEMMA GiveNear ==
  ASSUME NEW t \in Lexer, NEW u \in Lexer, Near(t, u), NEW k, NEW l, NEW d, d.face \in FFace,
         Given(k, d) \in Strings, Given(l, d) = Given(k, d)
  PROVE  Same(Give(k, t, d), Give(l, u, d)) /\ Give(k, t, d).fface = Give(l, u, d).fface
<1> DEFINE n == NewFace(t, d.face)
           m == NewFace(u, d.face)
           g == Give(k, t, d)
           h == Give(l, u, d)
           tag == "Tag1" \in d.face.flags
           nam == "Encoding" \in d.face.flags
           string == Given(k, d)
<1>1. /\ n.tag1 = IF t.fface # d.face /\ tag THEN << >> ELSE t.tag1
      /\ n.grabbing <=> t.grabbing /\ (t.fface # d.face => ~(t.grabbing /\ ~nam))
      /\ n.name = IF t.fface # d.face /\ t.grabbing /\ ~nam THEN << >> ELSE t.name
      /\ n.enc = IF t.fface # d.face /\ t.grabbing /\ ~nam /\ t.name \in Names THEN t.name ELSE t.enc
  BY FaceFields
<1>2. /\ m.tag1 = IF u.fface # d.face /\ tag THEN << >> ELSE u.tag1
      /\ m.grabbing <=> u.grabbing /\ (u.fface # d.face => ~(u.grabbing /\ ~nam))
      /\ m.name = IF u.fface # d.face /\ u.grabbing /\ ~nam THEN << >> ELSE u.name
      /\ m.enc = IF u.fface # d.face /\ u.grabbing /\ ~nam /\ u.name \in Names THEN u.name ELSE u.enc
  BY FaceFields
<1>3. /\ g \in Lexer /\ g.fface = d.face /\ g.enc = n.enc
      /\ g.tag1 = IF tag THEN n.tag1 \o string ELSE n.tag1
      /\ g.grabbing <=> n.grabbing \/ nam
      /\ g.name = IF nam THEN n.name \o string ELSE n.name
  BY GiveFields
<1>4. /\ h \in Lexer /\ h.fface = d.face /\ h.enc = m.enc
      /\ h.tag1 = IF tag THEN m.tag1 \o string ELSE m.tag1
      /\ h.grabbing <=> m.grabbing \/ nam
      /\ h.name = IF nam THEN m.name \o string ELSE m.name
  BY GiveFields
<1>5. (Idle(t) /\ t.fface = d.face) \/ (Idle(u) /\ u.fface = d.face) => ~tag
  BY DEF Idle, Quiet
<1> HIDE DEF n, m, g, h, tag, nam, string
<1>7. n.tag1 = m.tag1
  BY <1>1, <1>2, <1>5 DEF Near, Same
<1>8. n.name = m.name /\ n.enc = m.enc /\ (n.grabbing <=> m.grabbing)
  BY <1>1, <1>2 DEF Near, Same, Idle
<1>9. g.grabbing = h.grabbing
  BY <1>3, <1>4, <1>8, GrabbingIsBoolean
<1>10. Same(g, h) /\ g.fface = h.fface
  BY <1>3, <1>4, <1>7, <1>8, <1>9 DEF Same
<1>11. QED
  BY <1>10 DEF g, h

(* An idle printer that is given a face that does not grab is idle still,  *)
(* and has grabbed nothing.                                                *)
LEMMA GiveIdle ==
  ASSUME NEW t \in Lexer, Idle(t), NEW k, NEW d, d.face \in FFace, Quiet(d.face), Given(k, d) \in Strings
  PROVE  Idle(Give(k, t, d)) /\ Same(Give(k, t, d), t)
<1> DEFINE n == NewFace(t, d.face)
           g == Give(k, t, d)
<1>1. "Tag1" \notin d.face.flags /\ "Encoding" \notin d.face.flags
  BY DEF Quiet
<1>2. n.tag1 = t.tag1 /\ ~n.grabbing /\ n.name = t.name /\ n.enc = t.enc
  BY <1>1, FaceFields DEF Idle
<1>3. /\ g \in Lexer /\ g.fface = d.face /\ g.enc = n.enc /\ g.tag1 = n.tag1
      /\ ~g.grabbing /\ g.name = n.name
  BY <1>1, <1>2, GiveFields
<1> HIDE DEF n, g
<1>4. g.grabbing = t.grabbing
  BY <1>3, GrabbingIsBoolean DEF Idle
<1>5. Idle(g) /\ Same(g, t)
  BY <1>2, <1>3, <1>4 DEF Idle, Same
<1>6. QED
  BY <1>5 DEF g

(* What is printed of a token.                                             *)
IsToken(k) == k.lexer \in Lexer /\ IsRhs(k.rhs) /\ k.from \in Nat /\ k.to \in k.from .. Len(line)

LEMMA RhsGiven ==
  ASSUME line \in Strings, NEW k, IsToken(k)
  PROVE  /\ Len(k.rhs) \in Nat /\ Len(k.rhs) > 0
         /\ \A i \in 1 .. Len(k.rhs) : k.rhs[i].face \in FFace /\ Given(k, k.rhs[i]) \in Strings
<1>1. Len(k.rhs) \in Nat /\ Len(k.rhs) > 0 /\ DOMAIN k.rhs = 1 .. Len(k.rhs)
  BY DEF IsToken, IsRhs, IsList
<1>2. \A i \in 1 .. Len(k.rhs) :
        k.rhs[i].face \in FFace /\ (k.rhs[i].string = Match \/ k.rhs[i].string \in Strings)
  BY <1>1 DEF IsToken, IsRhs
<1>3. QED
  BY <1>1, <1>2, GivenIsString DEF IsToken

LEMMA TokenPrinted ==
  ASSUME line \in Strings, NEW k, IsToken(k), Grabs(k.lexer)
  PROVE  LET p == PrintToken(k) IN p \in Lexer /\ Stays(p, k.lexer) /\ Grabs(p)
<1> DEFINE T == {t \in Lexer : Stays(t, k.lexer) /\ Grabs(t)}
<1>1. k.lexer \in T
  BY DEF IsToken, Stays
<1>2. ASSUME NEW t \in T, NEW i \in 1 .. Len(k.rhs)
      PROVE  Give(k, t, k.rhs[i]) \in T
  <2>1. k.rhs[i].face \in FFace /\ Given(k, k.rhs[i]) \in Strings
    BY RhsGiven
  <2>2. Give(k, t, k.rhs[i]) \in Lexer /\ Stays(Give(k, t, k.rhs[i]), t)
    BY <2>1, GiveFields
  <2>3. Grabs(Give(k, t, k.rhs[i]))
    BY <2>1, GiveGrabs
  <2>4. QED
    BY <2>2, <2>3 DEF Stays
<1>3. Len(k.rhs) \in Nat
  BY RhsGiven
<1>4. PrintToken(k) \in T
  <2> HIDE DEF T
  <2>1. QED
    BY <1>1, <1>2, <1>3, TokenKeeps
<1>5. QED
  BY <1>4

(* Two lexers that read the same token, and are near, are the same after.  *)
LEMMA TokenPrintedNear ==
  ASSUME line \in Strings, NEW k, IsToken(k), NEW l, IsToken(l), Near(k.lexer, l.lexer),
         l.from = k.from, l.to = k.to, l.rhs = k.rhs
  PROVE  Same(PrintToken(k), PrintToken(l)) /\ PrintToken(k).fface = PrintToken(l).fface
<1> DEFINE n == Len(k.rhs)
<1>1. n \in Nat /\ n > 0 /\ \A i \in 1 .. n : k.rhs[i].face \in FFace /\ Given(k, k.rhs[i]) \in Strings
  BY RhsGiven
<1>2. \A i \in 1 .. n : Given(l, k.rhs[i]) = Given(k, k.rhs[i])
  BY DEF Given
<1>3. PICK g : g[0] = k.lexer /\ (\A i \in 1 .. n : g[i] = Give(k, g[i - 1], k.rhs[i])) /\ PrintToken(k) = g[n]
  BY <1>1, TokenFold
<1>4. PICK h : h[0] = l.lexer /\ (\A i \in 1 .. n : h[i] = Give(l, h[i - 1], k.rhs[i])) /\ PrintToken(l) = h[n]
  BY <1>1, TokenFold
<1> DEFINE U == {i \in 0 .. n : g[i] \in Lexer /\ h[i] \in Lexer /\ Near(g[i], h[i])}
<1> HIDE DEF n
<1>5. 0 \in U
  BY <1>1, <1>3, <1>4 DEF IsToken
<1>6. ASSUME NEW i \in 1 .. n, i - 1 \in U
      PROVE  g[i] \in Lexer /\ h[i] \in Lexer /\ Same(g[i], h[i]) /\ g[i].fface = h[i].fface
  <2> DEFINE t == g[i - 1]
             u == h[i - 1]
             d == k.rhs[i]
  <2>1. t \in Lexer /\ u \in Lexer /\ Near(t, u)
    BY <1>6
  <2>2. d.face \in FFace /\ Given(k, d) \in Strings /\ Given(l, d) = Given(k, d)
    BY <1>1, <1>2
  <2>3. g[i] = Give(k, t, d) /\ h[i] = Give(l, u, d)
    BY <1>3, <1>4
  <2> HIDE DEF t, u, d
  <2>4. Give(k, t, d) \in Lexer /\ Give(l, u, d) \in Lexer
    BY <2>1, <2>2, GiveFields
  <2>5. QED
    BY <2>1, <2>2, <2>3, <2>4, GiveNear
<1>7. \A i \in 1 .. n : i - 1 \in U => i \in U
  <2>1. \A i \in 1 .. n : i \in 0 .. n
    BY <1>1
  <2>2. QED
    BY <1>6, <2>1 DEF Near
<1>8. \A i \in 0 .. n : i \in U
  <2> HIDE DEF U
  <2>1. QED
    BY <1>1, <1>5, <1>7, Induction
<1>9. n \in 1 .. n /\ n - 1 \in U
  <2>1. n - 1 \in 0 .. n /\ n \in 1 .. n
    BY <1>1
  <2> HIDE DEF U
  <2>2. QED
    BY <1>8, <2>1
<1>10. QED
  BY <1>3, <1>4, <1>6, <1>9

(* Plain characters in a face that does not grab leave an idle printer as  *)
(* it is.                                                                  *)
LEMMA PlainPrinted ==
  ASSUME line \in Strings, NEW k, IsToken(k), NEW f \in FFace, k.rhs = PlainRhs(f), Quiet(f), Idle(k.lexer)
  PROVE  Idle(PrintToken(k)) /\ Same(PrintToken(k), k.lexer)
<1> DEFINE d == [string |-> Match, face |-> f]
<1>1. Len(k.rhs) = 1 /\ k.rhs[1] = d /\ d.face = f
  BY DEF PlainRhs
<1> HIDE DEF d
<1>2. PICK g : g[0] = k.lexer /\ (\A i \in 1 .. 1 : g[i] = Give(k, g[i - 1], d)) /\ PrintToken(k) = g[1]
  <2>1. PICK g : /\ g[0] = k.lexer
                 /\ \A i \in 1 .. Len(k.rhs) : g[i] = Give(k, g[i - 1], k.rhs[i])
                 /\ PrintToken(k) = g[Len(k.rhs)]
    BY RhsGiven, TokenFold
  <2>2. QED
    BY <1>1, <2>1
<1>3. PrintToken(k) = Give(k, k.lexer, d)
  BY <1>2
<1>4. Given(k, d) \in Strings
  BY <1>1, RhsGiven
<1>5. QED
  BY <1>1, <1>3, <1>4, GiveIdle DEF IsToken
-----------------------------------------------------------------------------
(* A token is read and printed.                                            *)
LEMMA ReadsToken ==
  ASSUME line \in Strings, NEW t \in Lexer, Grabs(t), NEW n \in 0 .. Len(line) - t.curr, NEW rhs,
         IsRhs(rhs), NEW q, NEW f, NEW k, Reads(k, t, n, rhs, q, f)
  PROVE  LET p == PrintToken(k)
         IN /\ IsToken(k) /\ Same(k.lexer, t) /\ k.lexer.fface = t.fface
            /\ p \in Lexer /\ Grabs(p) /\ p.sequence = q /\ p.toPlain = k.lexer.toPlain /\ p.plain = f
            /\ p.curr = t.curr + n /\ p.tokens = Recorded(t.tokens, t.curr, t.curr + n)
            /\ k.from = t.curr /\ k.to = t.curr + n
<1>1. t.curr \in Nat /\ Len(line) \in Nat
  BY DEF Lexer, Strings
<1>2. t.curr + n \in t.curr .. Len(line)
  BY <1>1
<1>3. IsToken(k)
  BY <1>1, <1>2 DEF IsToken, Reads
<1>4. Grabs(k.lexer) /\ Same(k.lexer, t) /\ k.lexer.fface = t.fface
  BY DEF Reads, Kept, Grabs, Same
<1>5. PrintToken(k) \in Lexer /\ Stays(PrintToken(k), k.lexer) /\ Grabs(PrintToken(k))
  BY <1>3, <1>4, TokenPrinted
<1>6. QED
  BY <1>3, <1>4, <1>5 DEF Reads, Stays

LEMMA TokenKinds ==
  ASSUME line \in Strings, NEW t \in Lexer, t.curr < Len(line)
  PROVE  /\ At(t, t.sequence, t.curr) /\ t.sequence \in 0 .. Len(Sequences) /\ t.curr \in Nat
         /\ \/ WordAt(t.sequence, t.curr)
            \/ FacedAt(t.sequence, t.curr)
            \/ PlainAt(t.sequence, t.curr)
<1>1. t.sequence \in 0 .. Len(Sequences) /\ t.curr \in Nat /\ Len(Sequences) \in Nat
  BY HighlightAssumption, ListLength DEF Lexer
<1>2. CASE t.sequence = 0
  BY <1>1, <1>2, TokenOut DEF At
<1>3. CASE t.sequence # 0
  BY <1>1, <1>3, TokenIn DEF At
<1>4. QED
  BY <1>2, <1>3

LEMMA SequenceFaces ==
  ASSUME NEW f \in {Plain} \cup {Sequences[i].face : i \in DOMAIN Sequences}
  PROVE  f \in FFace /\ Quiet(f)
<1>1. Plain \in FFace /\ Quiet(Plain)
  BY PlainIsFace DEF Plain, Quiet
<1>2. \A i \in DOMAIN Sequences : Sequences[i].face \in FFace /\ Quiet(Sequences[i].face)
  BY HighlightAssumption, QuietSequences DEF Quiet
<1>3. QED
  BY <1>1, <1>2

LEMMA PlainOfFaces ==
  ASSUME NEW t \in Lexer
  PROVE  PlainOf(t) \in FFace /\ (Quiet(t.plain) => Quiet(PlainOf(t)))
<1>1. Plain \in FFace /\ Quiet(Plain) /\ t.plain \in FFace
  BY PlainIsFace DEF Plain, Quiet, Lexer
<1>2. QED
  BY <1>1 DEF PlainOf

(* What a token does to the lexer.                                         *)
LEMMA TokenStep ==
  ASSUME line \in Strings, NEW t \in Lexer, Grabs(t), t.curr < Len(line), Quiet(t.plain)
  PROVE  LET p == PrintToken(GetToken(t))
         IN /\ p \in Lexer /\ Grabs(p) /\ Quiet(p.plain)
            /\ p.curr \in t.curr .. Len(line) /\ p.tokens = Recorded(t.tokens, t.curr, p.curr)
            /\ p.curr > t.curr \/ (p.curr = t.curr /\ EmptyToken(t.sequence, p.sequence))
            /\ \/ p.sequence > 0 \/ p.toPlain \/ p.plain = Plain
               \/ t.sequence = 0 /\ ~t.toPlain /\ p.plain = t.plain /\ line[t.curr + 1] \notin Alpha1
<1> DEFINE k == GetToken(t)
           p == PrintToken(k)
           c == t.curr
           q == t.sequence
<1>1. At(t, q, c) /\ q \in 0 .. Len(Sequences) /\ c \in Nat /\ Len(line) \in Nat
  BY TokenKinds DEF Strings
<1>2. CASE WordAt(q, c)
  <2>1. PICK n \in 0 .. Len(line) - c, seq \in 0 .. Len(Sequences) : \E rhs :
          /\ IsRhs(rhs) /\ (n > 0 \/ EmptyToken(q, seq))
          /\ WordRead(t, n, rhs, seq)
    <3> HIDE DEF k, c, q
    <3>1. QED
      BY <1>1, <1>2 DEF WordAt
  <2>2. PICK rhs : /\ IsRhs(rhs) /\ (n > 0 \/ EmptyToken(q, seq))
                   /\ WordRead(t, n, rhs, seq)
    BY <2>1
  <2>3. /\ p \in Lexer /\ Grabs(p) /\ p.sequence = seq /\ (p.toPlain <=> seq = 0) /\ p.plain = PlainOf(t)
        /\ p.curr = c + n /\ p.tokens = Recorded(t.tokens, c, c + n)
    <3> HIDE DEF k
    <3>1. QED
      BY <2>2, ReadsToken DEF WordRead, k
  <2> HIDE DEF p, k
  <2>4. p.curr \in c .. Len(line) /\ p.tokens = Recorded(t.tokens, c, p.curr)
        /\ (n > 0 => p.curr > c) /\ (~(n > 0) => p.curr = c)
    BY <1>1, <2>3
  <2>5. QED
    BY <2>2, <2>3, <2>4, PlainOfFaces DEF p, k
<1>3. CASE FacedAt(q, c)
  <2>1. PICK n \in 1 .. Len(line) - c, f \in {Plain} \cup {Sequences[i].face : i \in DOMAIN Sequences} :
          (q > 0 \/ f = Plain) /\ FaceRead(t, n, q, f)
    <3> HIDE DEF k, c, q
    <3>1. QED
      BY <1>1, <1>3 DEF FacedAt
  <2>2. f \in FFace /\ Quiet(f) /\ IsRhs(PlainRhs(f)) /\ n \in 0 .. Len(line) - c
    BY <2>1, SequenceFaces, PlainIsRhs
  <2>3. /\ p \in Lexer /\ Grabs(p) /\ p.sequence = q /\ ~p.toPlain /\ p.plain = f
        /\ p.curr = c + n /\ p.tokens = Recorded(t.tokens, c, c + n)
    <3> HIDE DEF k
    <3>1. QED
      BY <2>1, <2>2, ReadsToken DEF FaceRead, k
  <2> HIDE DEF p, k
  <2>4. p.curr \in c .. Len(line) /\ p.tokens = Recorded(t.tokens, c, p.curr) /\ p.curr > c
    BY <1>1, <2>3
  <2>5. QED
    BY <2>1, <2>2, <2>3, <2>4 DEF p, k
<1>4. CASE PlainAt(q, c)
  <2>1. FaceRead(t, 1, 0, PlainOf(t)) /\ q = 0 /\ line[c + 1] \notin Alpha1
    <3> HIDE DEF k, c, q
    <3>1. QED
      BY <1>1, <1>4 DEF PlainAt
  <2>2. PlainOf(t) \in FFace /\ Quiet(PlainOf(t)) /\ IsRhs(PlainRhs(PlainOf(t))) /\ 1 \in 0 .. Len(line) - c
    BY <1>1, PlainOfFaces, PlainIsRhs
  <2>3. /\ p \in Lexer /\ Grabs(p) /\ p.sequence = 0 /\ ~p.toPlain /\ p.plain = PlainOf(t)
        /\ p.curr = c + 1 /\ p.tokens = Recorded(t.tokens, c, c + 1)
    <3> HIDE DEF k
    <3>1. QED
      BY <2>1, <2>2, ReadsToken DEF FaceRead, k
  <2> HIDE DEF p, k
  <2>4. p.curr \in c .. Len(line) /\ p.tokens = Recorded(t.tokens, c, p.curr) /\ p.curr > c
    BY <1>1, <2>3
  <2>5. p.plain = Plain \/ (~t.toPlain /\ p.plain = t.plain)
    BY <2>3 DEF PlainOf
  <2>6. QED
    BY <2>1, <2>2, <2>3, <2>4, <2>5 DEF p, k
<1>5. QED
  BY <1>2, <1>3, <1>4, TokenKinds

(* Two lexers at the same place of the same sequence.                      *)
Level(t, u) ==
  t.sequence = u.sequence /\ (t.toPlain <=> u.toPlain) /\ t.curr = u.curr /\ t.tokens = u.tokens

(* They have the same plain face, or will have.                            *)
Alike(t, u) == t.fface = u.fface /\ (t.toPlain \/ t.sequence > 0 \/ t.plain = u.plain)

LEMMA PairStep ==
  ASSUME line \in Strings, NEW t \in Lexer, NEW u \in Lexer, Grabs(t), Grabs(u), t.curr < Len(line),
         Quiet(t.plain), Quiet(u.plain), Level(t, u), Same(t, u),
         \/ Alike(t, u)
         \/ Idle(t) /\ Idle(u) /\ t.sequence = 0 /\ ~t.toPlain
  PROVE  LET p == PrintToken(GetToken(t))
             r == PrintToken(GetToken(u))
         IN /\ Level(p, r) /\ Same(p, r)
            /\ \/ Alike(p, r)
               \/ ~Alike(t, u) /\ line[t.curr + 1] \notin Alpha1 /\ p.sequence = 0 /\ ~p.toPlain
            /\ Idle(t) /\ Idle(u) => p.sequence > 0 \/ p.toPlain \/ (Idle(p) /\ Idle(r))
<1> DEFINE k == GetToken(t)
           l == GetToken(u)
           p == PrintToken(k)
           r == PrintToken(l)
           c == t.curr
           q == t.sequence
<1>1. At(t, q, c) /\ At(u, q, c) /\ c \in Nat /\ Len(line) \in Nat /\ Near(t, u)
  BY TokenKinds DEF Strings, Level, At, Near, Alike
<1>2. u.curr = c /\ u.tokens = t.tokens /\ (u.toPlain <=> t.toPlain)
  BY DEF Level
<1>3. CASE WordAt(q, c)
  <2>1. PICK n \in 0 .. Len(line) - c, seq \in 0 .. Len(Sequences) : \E rhs :
          /\ IsRhs(rhs)
          /\ WordRead(t, n, rhs, seq) /\ WordRead(u, n, rhs, seq)
    <3> HIDE DEF k, l, c, q
    <3>1. QED
      BY <1>1, <1>3 DEF WordAt
  <2>2. PICK rhs : /\ IsRhs(rhs)
                   /\ WordRead(t, n, rhs, seq) /\ WordRead(u, n, rhs, seq)
    BY <2>1
  <2>3. /\ IsToken(k) /\ Same(k.lexer, t) /\ k.lexer.fface = t.fface
        /\ p.sequence = seq /\ (p.toPlain <=> seq = 0) /\ k.from = c /\ k.to = c + n
        /\ p.curr = c + n /\ p.tokens = Recorded(t.tokens, c, c + n)
    <3> HIDE DEF k
    <3>1. QED
      BY <2>2, ReadsToken DEF WordRead, k
  <2>4. /\ IsToken(l) /\ Same(l.lexer, u) /\ l.lexer.fface = u.fface
        /\ r.sequence = seq /\ (r.toPlain <=> seq = 0) /\ l.from = c /\ l.to = c + n
        /\ r.curr = c + n /\ r.tokens = Recorded(t.tokens, c, c + n)
    <3> HIDE DEF l, c
    <3>1. n \in 0 .. Len(line) - u.curr
      BY <1>2
    <3>2. Reads(l, u, n, rhs, seq, PlainOf(u)) /\ (l.lexer.toPlain <=> seq = 0)
      BY <2>2 DEF WordRead, l
    <3>3. /\ IsToken(l) /\ Same(l.lexer, u) /\ l.lexer.fface = u.fface
          /\ r.sequence = seq /\ r.toPlain = l.lexer.toPlain /\ l.from = u.curr /\ l.to = u.curr + n
          /\ r.curr = u.curr + n /\ r.tokens = Recorded(u.tokens, u.curr, u.curr + n)
      BY <2>2, <3>1, <3>2, ReadsToken
    <3> HIDE DEF r
    <3>4. QED
      BY <1>2, <3>2, <3>3
  <2>5. Near(k.lexer, l.lexer) /\ k.rhs = rhs /\ l.rhs = rhs
    BY <1>1, <2>2, <2>3, <2>4 DEF Near, Same, Idle, WordRead, Reads
  <2>6. Same(p, r) /\ p.fface = r.fface
    <3> HIDE DEF k, l
    <3>1. QED
      BY <2>3, <2>4, <2>5, TokenPrintedNear
  <2> HIDE DEF p, r, k, l
  <2>7. Level(p, r) /\ Alike(p, r)
    BY <2>2, <2>3, <2>4, <2>6 DEF Level, Alike
  <2>8. QED
    BY <2>2, <2>3, <2>6, <2>7 DEF p, r, k, l
<1>4. CASE FacedAt(q, c)
  <2>1. PICK n \in 1 .. Len(line) - c, f \in {Plain} \cup {Sequences[i].face : i \in DOMAIN Sequences} :
          FaceRead(t, n, q, f) /\ FaceRead(u, n, q, f)
    <3> HIDE DEF k, l, c, q
    <3>1. QED
      BY <1>1, <1>4 DEF FacedAt
  <2>2. f \in FFace /\ Quiet(f) /\ IsRhs(PlainRhs(f)) /\ n \in 0 .. Len(line) - c
    BY <2>1, SequenceFaces, PlainIsRhs
  <2>3. /\ IsToken(k) /\ Same(k.lexer, t) /\ k.lexer.fface = t.fface
        /\ p.sequence = q /\ ~p.toPlain /\ p.plain = f /\ k.from = c /\ k.to = c + n
        /\ p.curr = c + n /\ p.tokens = Recorded(t.tokens, c, c + n)
    <3> HIDE DEF k
    <3>1. QED
      BY <2>1, <2>2, ReadsToken DEF FaceRead, k
  <2>4. /\ IsToken(l) /\ Same(l.lexer, u) /\ l.lexer.fface = u.fface
        /\ r.sequence = q /\ ~r.toPlain /\ r.plain = f /\ l.from = c /\ l.to = c + n
        /\ r.curr = c + n /\ r.tokens = Recorded(t.tokens, c, c + n)
    <3> HIDE DEF l, c
    <3>1. n \in 0 .. Len(line) - u.curr
      BY <1>2, <2>2
    <3>2. QED
      BY <1>2, <2>1, <2>2, <3>1, ReadsToken DEF FaceRead, l
  <2>5. Near(k.lexer, l.lexer) /\ k.rhs = PlainRhs(f) /\ l.rhs = PlainRhs(f)
    BY <1>1, <2>1, <2>3, <2>4 DEF Near, Same, Idle, FaceRead, Reads
  <2>6. Same(p, r) /\ p.fface = r.fface
    <3> HIDE DEF k, l
    <3>1. QED
      BY <2>3, <2>4, <2>5, TokenPrintedNear
  <2>7. ASSUME Idle(t), Idle(u)
        PROVE  Idle(p) /\ Idle(r)
    <3>1. Idle(k.lexer) /\ Idle(l.lexer)
      BY <2>3, <2>4, <2>7 DEF Idle, Same
    <3> HIDE DEF k, l
    <3>2. QED
      BY <2>2, <2>3, <2>4, <2>5, <3>1, PlainPrinted
  <2> HIDE DEF p, r, k, l
  <2>8. Level(p, r) /\ Alike(p, r)
    BY <2>3, <2>4, <2>6 DEF Level, Alike
  <2>9. QED
    BY <2>6, <2>7, <2>8 DEF p, r, k, l
<1>5. CASE PlainAt(q, c)
  <2> DEFINE f == PlainOf(t)
             g == PlainOf(u)
  <2>1. /\ FaceRead(t, 1, 0, f) /\ FaceRead(u, 1, 0, g)
        /\ q = 0 /\ line[c + 1] \notin Alpha1
    <3> HIDE DEF k, l, c, q
    <3>1. QED
      BY <1>1, <1>5 DEF PlainAt
  <2>2. /\ f \in FFace /\ Quiet(f) /\ IsRhs(PlainRhs(f)) /\ 1 \in 0 .. Len(line) - c
        /\ g \in FFace /\ Quiet(g) /\ IsRhs(PlainRhs(g)) /\ (Alike(t, u) => f = g)
    <3>1. Alike(t, u) => f = g
      BY <1>2, <2>1 DEF Alike, PlainOf
    <3>2. QED
      BY <1>1, <3>1, PlainOfFaces, PlainIsRhs
  <2> HIDE DEF f, g
  <2>3. /\ IsToken(k) /\ Same(k.lexer, t) /\ k.lexer.fface = t.fface
        /\ p.sequence = 0 /\ ~p.toPlain /\ p.plain = f /\ k.from = c /\ k.to = c + 1
        /\ p.curr = c + 1 /\ p.tokens = Recorded(t.tokens, c, c + 1)
    <3> HIDE DEF k
    <3>1. QED
      BY <2>1, <2>2, ReadsToken DEF FaceRead, k
  <2>4. /\ IsToken(l) /\ Same(l.lexer, u) /\ l.lexer.fface = u.fface
        /\ r.sequence = 0 /\ ~r.toPlain /\ r.plain = g /\ l.from = c /\ l.to = c + 1
        /\ r.curr = c + 1 /\ r.tokens = Recorded(t.tokens, c, c + 1)
    <3> HIDE DEF l, c
    <3>1. 1 \in 0 .. Len(line) - u.curr
      BY <1>2, <2>2
    <3>2. QED
      BY <1>2, <2>1, <2>2, <3>1, ReadsToken DEF FaceRead, l
  <2>5. Near(k.lexer, l.lexer) /\ k.rhs = PlainRhs(f) /\ l.rhs = PlainRhs(g)
    BY <1>1, <2>1, <2>3, <2>4 DEF Near, Same, Idle, FaceRead, Reads
  <2>6. ASSUME Alike(t, u)
        PROVE  Same(p, r) /\ p.fface = r.fface /\ p.plain = r.plain
    <3>1. k.rhs = l.rhs /\ k.from = l.from /\ k.to = l.to
      BY <2>2, <2>3, <2>4, <2>5, <2>6
    <3> HIDE DEF k, l
    <3>2. QED
      BY <2>2, <2>3, <2>4, <2>5, <2>6, <3>1, TokenPrintedNear
  <2>7. ASSUME Idle(t), Idle(u)
        PROVE  Idle(p) /\ Idle(r) /\ Same(p, r)
    <3>1. Idle(k.lexer) /\ Idle(l.lexer)
      BY <2>3, <2>4, <2>7 DEF Idle, Same
    <3> HIDE DEF k, l
    <3>2. Idle(p) /\ Same(p, k.lexer)
      BY <2>2, <2>3, <2>5, <3>1, PlainPrinted
    <3>3. Idle(r) /\ Same(r, l.lexer)
      BY <2>2, <2>4, <2>5, <3>1, PlainPrinted
    <3>4. QED
      BY <2>3, <2>4, <3>2, <3>3 DEF Same
  <2> HIDE DEF p, r, k, l
  <2>8. Level(p, r) /\ (Alike(t, u) => Alike(p, r))
    BY <2>3, <2>4, <2>6 DEF Level, Alike
  <2>9. QED
    BY <2>1, <2>3, <2>6, <2>7, <2>8 DEF p, r, k, l
<1>6. QED
  BY <1>3, <1>4, <1>5, TokenKinds
-----------------------------------------------------------------------------
(* The tokens of a line tile it as far as it is read.  Between the files   *)
(* the lexer is back at the start of its life, but for the plain face; in  *)
(* a file it goes at the pace of its twin and grabs what it grabs, and is  *)
(* alike once the file is settled, before which both are idle.             *)
Tiled(l, c) ==
  /\ \A i \in DOMAIN l : l[i][1] = (IF i = 1 THEN 0 ELSE l[i - 1][2]) /\ l[i][1] <= l[i][2]
  /\ IF l = << >> THEN c = 0 ELSE l[Len(l)][2] = c

LexInv ==
  /\ TypeOK /\ Tiled(s.tokens, s.curr) /\ PlainRestored
  /\ Grabs(s) /\ Grabs(twin) /\ Quiet(s.plain) /\ Quiet(twin.plain)
  /\ pc = "between" => s.sequence = 0 /\ ~s.toPlain /\ twin = s
  /\ pc = "file" => Level(s, twin) /\ Same(s, twin)
  /\ pc = "file" /\ settled => Alike(s, twin)
  /\ pc = "file" /\ ~settled => Idle(s) /\ Idle(twin) /\ s.sequence = 0 /\ ~s.toPlain

LEMMA TiledAppend ==
  ASSUME NEW l \in Seq(Nat \X Nat), NEW c \in Nat, NEW d \in Nat, Tiled(l, c), c <= d
  PROVE  Tiled(Append(l, <<c, d>>), d)
<1> DEFINE m == Append(l, <<c, d>>)
           n == Len(l)
<1>1. n \in Nat /\ DOMAIN l = 1 .. n /\ (l = << >> <=> n = 0)
  OBVIOUS
<1>2. /\ m \in Seq(Nat \X Nat) /\ Len(m) = n + 1 /\ m # << >>
      /\ \A i \in 1 .. n : m[i] = l[i]
      /\ m[n + 1] = <<c, d>>
  <2> DEFINE e == <<c, d>>
             S == Nat \X Nat
  <2>1. e \in S /\ l \in Seq(S)
    OBVIOUS
  <2> HIDE DEF e, S
  <2>2. Append(l, e) \in Seq(S) /\ Append(l, e) # << >> /\ Len(Append(l, e)) = Len(l) + 1
    BY <2>1, AppendProperties
  <2>3. (\A i \in 1 .. Len(l) : Append(l, e)[i] = l[i]) /\ Append(l, e)[Len(l) + 1] = e
    BY <2>1, AppendProperties
  <2>4. QED
    BY <2>2, <2>3 DEF e, S
<1>3. DOMAIN m = 1 .. n + 1
  BY <1>2
<1> HIDE DEF m
<1>4. ASSUME NEW i \in 1 .. n + 1
      PROVE  m[i][1] = (IF i = 1 THEN 0 ELSE m[i - 1][2]) /\ m[i][1] <= m[i][2]
  <2>1. CASE i \in 1 .. n
    <3>1. i # 1 => i - 1 \in 1 .. n
      BY <1>1, <2>1
    <3>2. l[i][1] = (IF i = 1 THEN 0 ELSE l[i - 1][2]) /\ l[i][1] <= l[i][2]
      BY <1>1, <2>1 DEF Tiled
    <3>3. QED
      BY <1>2, <2>1, <3>1, <3>2
  <2>2. CASE i = n + 1
    <3>1. m[i][1] = c /\ m[i][2] = d
      BY <1>2, <2>2
    <3>2. CASE n = 0
      BY <1>1, <2>2, <3>1, <3>2 DEF Tiled
    <3>3. CASE n # 0
      <4>1. i # 1 /\ i - 1 = n /\ n \in 1 .. n
        BY <1>1, <2>2, <3>3
      <4>2. m[i - 1][2] = c
        BY <1>1, <1>2, <3>3, <4>1 DEF Tiled
      <4>3. QED
        BY <3>1, <4>1, <4>2
    <3>4. QED
      BY <3>2, <3>3
  <2>3. QED
    BY <1>1, <2>1, <2>2
<1>5. m[Len(m)][2] = d
  BY <1>2
<1>6. Tiled(m, d)
  BY <1>2, <1>3, <1>4, <1>5 DEF Tiled
<1>7. QED
  BY <1>6 DEF m

LEMMA TiledRecord ==
  ASSUME NEW l \in Seq(Nat \X Nat), NEW c \in Nat, NEW d \in Nat, Tiled(l, c), c <= d
  PROVE  Tiled(Recorded(l, c, d), d)
BY TiledAppend DEF Recorded

(* A lexer that begins: with the program, with a file, with a line.        *)
LEMMA LexerBegins ==
  ASSUME NEW t \in Lexer
  PROVE  /\ LET n == NewLine(t)
            IN /\ n \in Lexer /\ n.curr = 0 /\ n.tokens = << >> /\ Same(n, t) /\ n.fface = t.fface
               /\ n.sequence = t.sequence /\ n.toPlain = t.toPlain /\ n.plain = t.plain
         /\ LET n == AtEnd(t)
            IN /\ n \in Lexer /\ n.curr = t.curr /\ n.tokens = t.tokens /\ Same(n, t) /\ n.fface = t.fface
               /\ n.sequence = 0 /\ ~n.toPlain /\ n.plain = t.plain
         /\ LET n == Fresh([t EXCEPT !.tag1 = << >>])
            IN /\ n \in Lexer /\ n.curr = t.curr /\ n.tokens = t.tokens /\ Idle(n)
               /\ n.sequence = t.sequence /\ n.toPlain = t.toPlain /\ n.plain = t.plain
         /\ LET n == [t EXCEPT !.sequence = 0, !.toPlain = FALSE, !.plain = Plain]
            IN /\ n \in Lexer /\ n.curr = t.curr /\ n.tokens = t.tokens /\ Same(n, t) /\ n.fface = t.fface
               /\ n.sequence = 0 /\ ~n.toPlain /\ n.plain = Plain
<1>1. Plain \in FFace /\ Quiet(Plain) /\ << >> \in Strings /\ 0 \in 0 .. Len(Sequences)
  BY PlainIsFace, HighlightAssumption, ListLength DEF Quiet, Plain, Strings
<1>2. \A S : << >> \in Seq(S)
  OBVIOUS
<1>3. LET n == NewLine(t)
      IN /\ n \in Lexer /\ n.curr = 0 /\ n.tokens = << >> /\ Same(n, t) /\ n.fface = t.fface
         /\ n.sequence = t.sequence /\ n.toPlain = t.toPlain /\ n.plain = t.plain
  <2>1. NewLine(t) \in Lexer
    BY <1>2 DEF NewLine, Lexer
  <2>2. QED
    BY <2>1 DEF NewLine, Lexer, Same
<1>4. LET n == AtEnd(t)
      IN /\ n \in Lexer /\ n.curr = t.curr /\ n.tokens = t.tokens /\ Same(n, t) /\ n.fface = t.fface
         /\ n.sequence = 0 /\ ~n.toPlain /\ n.plain = t.plain
  <2>1. AtEnd(t) \in Lexer
    BY <1>1 DEF AtEnd, Lexer
  <2>2. QED
    BY <2>1 DEF AtEnd, Lexer, Same
<1>5. LET n == Fresh([t EXCEPT !.tag1 = << >>])
      IN /\ n \in Lexer /\ n.curr = t.curr /\ n.tokens = t.tokens /\ Idle(n)
         /\ n.sequence = t.sequence /\ n.toPlain = t.toPlain /\ n.plain = t.plain
  <2> DEFINE u == [t EXCEPT !.tag1 = << >>]
  <2>1. /\ u \in Lexer /\ u.curr = t.curr /\ u.tokens = t.tokens
        /\ u.sequence = t.sequence /\ u.toPlain = t.toPlain /\ u.plain = t.plain
    BY <1>1 DEF Lexer
  <2> HIDE DEF u
  <2>2. Fresh(u) \in Lexer
    BY <1>1, <2>1 DEF Fresh, Lexer
  <2>3. QED
    BY <1>1, <2>1, <2>2 DEF Fresh, Lexer, Idle, u
<1>6. LET n == [t EXCEPT !.sequence = 0, !.toPlain = FALSE, !.plain = Plain]
      IN /\ n \in Lexer /\ n.curr = t.curr /\ n.tokens = t.tokens /\ Same(n, t) /\ n.fface = t.fface
         /\ n.sequence = 0 /\ ~n.toPlain /\ n.plain = Plain
  <2> DEFINE u == [t EXCEPT !.sequence = 0, !.toPlain = FALSE, !.plain = Plain]
  <2>1. u \in Lexer
    BY <1>1 DEF Lexer
  <2>2. QED
    BY <2>1 DEF Lexer, Same
<1>7. QED
  BY <1>3, <1>4, <1>5, <1>6

LEMMA TiledNothing == Tiled(<< >>, 0)
BY DEF Tiled

LEMMA InitLexer == ASSUME Init PROVE LexInv
<1>1. Plain \in FFace /\ Quiet(Plain) /\ << >> \in Strings /\ 0 \in 0 .. Len(Sequences)
  BY PlainIsFace, HighlightAssumption, ListLength DEF Quiet, Plain, Strings
<1>2. \A S : << >> \in Seq(S)
  OBVIOUS
<1>3. s \in Lexer
  BY <1>1, <1>2 DEF Init, Lexer
<1>4. TypeOK
  <2>1. line = << >> /\ s.curr = 0 /\ twin = s /\ settled = FALSE /\ count = 0 /\ pc = "between"
    BY DEF Init
  <2>2. 0 \in 0 .. MaxLines /\ s.curr <= Len(line)
    BY <2>1, HighlightAssumption
  <2>3. {s, twin} \subseteq Lexer
    BY <1>3, <2>1
  <2>4. QED
    BY <2>1, <2>2, <2>3 DEF TypeOK
<1>5. /\ s.tokens = << >> /\ s.curr = 0 /\ Grabs(s) /\ Quiet(s.plain) /\ twin = s
      /\ s.sequence = 0 /\ ~s.toPlain
  BY <1>1 DEF Init, Grabs
<1>6. pc = "between" /\ settled = FALSE
  BY DEF Init
<1>7. QED
  BY <1>4, <1>5, <1>6, TiledNothing DEF LexInv, PlainRestored

LEMMA LinesAreStrings == ASSUME TypeOK PROVE line \in Strings /\ Len(line) \in Nat
<1>1. line \in Strings
  <2>1. << >> \in Strings
    BY DEF Strings
  <2>2. QED
    BY <2>1, HighlightAssumption DEF TypeOK
<1>2. QED
  BY <1>1 DEF Strings

LEMMA StepStartFile == ASSUME LexInv, StartFile PROVE LexInv'
<1>1. TypeOK /\ s \in Lexer /\ pc = "between" /\ pc' = "file" /\ settled' = FALSE /\ count' = 0 /\ line' = line
  BY DEF LexInv, StartFile, TypeOK
<1>2. s' = Fresh([s EXCEPT !.tag1 = << >>]) /\ twin' = [s' EXCEPT !.sequence = 0, !.toPlain = FALSE, !.plain = Plain]
  BY DEF StartFile
<1>3. /\ s' \in Lexer /\ s'.curr = s.curr /\ s'.tokens = s.tokens /\ Idle(s')
      /\ s'.sequence = s.sequence /\ s'.toPlain = s.toPlain /\ s'.plain = s.plain
  BY <1>1, <1>2, LexerBegins
<1>4. /\ twin' \in Lexer /\ twin'.curr = s'.curr /\ twin'.tokens = s'.tokens /\ Same(twin', s') /\ twin'.fface = s'.fface
      /\ twin'.sequence = 0 /\ ~twin'.toPlain /\ twin'.plain = Plain
  BY <1>2, <1>3, LexerBegins
<1>5. s.sequence = 0 /\ ~s.toPlain /\ Quiet(s.plain) /\ Quiet(Plain) /\ Tiled(s.tokens, s.curr)
  BY <1>1 DEF LexInv, Quiet, Plain
<1>6. TypeOK'
  <2>1. 0 \in 0 .. MaxLines
    BY HighlightAssumption
  <2>2. QED
    BY <1>1, <1>3, <1>4, <2>1 DEF TypeOK
<1>7. Idle(twin') /\ Grabs(s') /\ Grabs(twin') /\ Level(s', twin') /\ Same(s', twin')
  BY <1>3, <1>4, <1>5 DEF Idle, Grabs, Level, Same
<1>8. QED
  BY <1>1, <1>3, <1>4, <1>5, <1>6, <1>7 DEF LexInv, PlainRestored

LEMMA StepGetLine == ASSUME LexInv, NEW l \in Lines, GetLine(l) PROVE LexInv'
<1>1. /\ TypeOK /\ s \in Lexer /\ twin \in Lexer /\ pc = "file" /\ pc' = "file" /\ settled' = settled
      /\ count < MaxLines /\ count' = count + 1 /\ line' = l /\ s' = NewLine(s) /\ twin' = NewLine(twin)
  BY DEF LexInv, GetLine, TypeOK
<1>2. /\ s' \in Lexer /\ s'.curr = 0 /\ s'.tokens = << >> /\ Same(s', s) /\ s'.fface = s.fface
      /\ s'.sequence = s.sequence /\ s'.toPlain = s.toPlain /\ s'.plain = s.plain
  BY <1>1, LexerBegins
<1>3. /\ twin' \in Lexer /\ twin'.curr = 0 /\ twin'.tokens = << >> /\ Same(twin', twin) /\ twin'.fface = twin.fface
      /\ twin'.sequence = twin.sequence /\ twin'.toPlain = twin.toPlain /\ twin'.plain = twin.plain
  BY <1>1, LexerBegins
<1>4. TypeOK'
  <2>1. count + 1 \in 0 .. MaxLines
    BY <1>1, HighlightAssumption DEF TypeOK
  <2>2. Len(l) \in Nat
    BY HighlightAssumption DEF Strings
  <2>3. QED
    BY <1>1, <1>2, <1>3, <2>1, <2>2 DEF TypeOK
<1>5. Tiled(s'.tokens, s'.curr)
  BY <1>2, TiledNothing
<1>6. Grabs(s') /\ Grabs(twin') /\ (Idle(s) => Idle(s')) /\ (Idle(twin) => Idle(twin'))
  BY <1>2, <1>3 DEF LexInv, Grabs, Same, Idle
<1>7. Level(s', twin') /\ Same(s', twin') /\ (Alike(s, twin) => Alike(s', twin'))
  BY <1>1, <1>2, <1>3 DEF LexInv, Level, Same, Alike
<1>8. PlainRestored'
  BY <1>1, <1>2 DEF LexInv, PlainRestored
<1>9. QED
  BY <1>1, <1>2, <1>3, <1>4, <1>5, <1>6, <1>7, <1>8 DEF LexInv

LEMMA StepEndOfFile == ASSUME LexInv, EndOfFile PROVE LexInv'
<1>1. /\ TypeOK /\ s \in Lexer /\ pc' = "between" /\ settled' = settled /\ count' = count
      /\ line' = << >> /\ s' = NewLine(AtEnd(s)) /\ twin' = s'
  BY DEF LexInv, EndOfFile, TypeOK
<1>2. LET n == AtEnd(s)
      IN /\ n \in Lexer /\ Same(n, s) /\ n.fface = s.fface /\ n.sequence = 0 /\ ~n.toPlain /\ n.plain = s.plain
  BY <1>1, LexerBegins
<1>3. /\ s' \in Lexer /\ s'.curr = 0 /\ s'.tokens = << >> /\ Same(s', s) /\ s'.fface = s.fface
      /\ s'.sequence = 0 /\ ~s'.toPlain /\ s'.plain = s.plain
  <2> DEFINE n == AtEnd(s)
  <2>1. s' = NewLine(n)
    BY <1>1
  <2>2. n \in Lexer /\ Same(n, s) /\ n.fface = s.fface /\ n.sequence = 0 /\ ~n.toPlain /\ n.plain = s.plain
    BY <1>2
  <2> HIDE DEF n
  <2>3. QED
    BY <2>1, <2>2, LexerBegins DEF Same
<1>4. TypeOK'
  BY <1>1, <1>3 DEF TypeOK
<1>5. Tiled(s'.tokens, s'.curr)
  BY <1>3, TiledNothing
<1>6. Grabs(s')
  BY <1>3 DEF LexInv, Grabs, Same
<1>7. QED
  BY <1>1, <1>3, <1>4, <1>5, <1>6 DEF LexInv, PlainRestored

(* An empty token closes or opens a sequence, unless the sheet is endless. *)
LEMMA EmptyTokens ==
  ASSUME NEW q \in Nat, NEW r \in Nat, EmptyToken(q, r)
  PROVE  Rank(r) < Rank(q) \/ Endless(q) \/ Endless(r)
BY DEF EmptyToken, Rank, Endless

LEMMA StepReadToken == ASSUME LexInv, ReadToken PROVE LexInv' /\ TokenAdvances
<1> DEFINE p == PrintToken(GetToken(s))
           r == PrintToken(GetToken(twin))
           first == line[s.curr + 1] \in Alpha1
<1>1. /\ TypeOK /\ s \in Lexer /\ twin \in Lexer /\ pc = "file" /\ pc' = "file"
      /\ count' = count /\ line' = line /\ s' = p /\ twin' = r /\ ~(s.curr >= Len(line))
      /\ settled' <=> settled \/ s.sequence > 0 \/ p.sequence > 0 \/ p.toPlain \/ first
  BY DEF LexInv, ReadToken, TypeOK, AtEndOfLine
<1>2. line \in Strings /\ Len(line) \in Nat /\ s.curr \in Nat /\ s.curr < Len(line)
  BY <1>1, LinesAreStrings DEF Lexer
<1>3. /\ Grabs(s) /\ Grabs(twin) /\ Quiet(s.plain) /\ Quiet(twin.plain) /\ Level(s, twin) /\ Same(s, twin)
      /\ Tiled(s.tokens, s.curr) /\ PlainRestored
      /\ settled => Alike(s, twin)
      /\ ~settled => Idle(s) /\ Idle(twin) /\ s.sequence = 0 /\ ~s.toPlain
  BY <1>1 DEF LexInv
<1>4. /\ p \in Lexer /\ Grabs(p) /\ Quiet(p.plain)
      /\ p.curr \in s.curr .. Len(line) /\ p.tokens = Recorded(s.tokens, s.curr, p.curr)
      /\ p.curr > s.curr \/ (p.curr = s.curr /\ EmptyToken(s.sequence, p.sequence))
      /\ p.sequence > 0 \/ p.toPlain \/ p.plain = Plain \/ (~s.toPlain /\ s.sequence = 0 /\ p.plain = s.plain /\ ~first)
  BY <1>1, <1>2, <1>3, TokenStep
<1>5. r \in Lexer /\ Grabs(r) /\ Quiet(r.plain)
  <2>1. twin.curr < Len(line)
    BY <1>2, <1>3 DEF Level
  <2>2. QED
    BY <1>1, <1>2, <1>3, <2>1, TokenStep
<1>6. /\ Level(p, r) /\ Same(p, r)
      /\ Alike(p, r) \/ (~Alike(s, twin) /\ ~first /\ p.sequence = 0 /\ ~p.toPlain)
      /\ Idle(s) /\ Idle(twin) => p.sequence > 0 \/ p.toPlain \/ (Idle(p) /\ Idle(r))
  <2>1. Alike(s, twin) \/ (Idle(s) /\ Idle(twin) /\ s.sequence = 0 /\ ~s.toPlain)
    BY <1>3
  <2>2. QED
    BY <1>1, <1>2, <1>3, <2>1, PairStep
<1> HIDE DEF p, r, first
<1>7. p.sequence \in Nat
  BY <1>4, HighlightAssumption, ListLength DEF Lexer
<1>8. settled' \in BOOLEAN
  BY DEF ReadToken
<1>9. TypeOK'
  BY <1>1, <1>2, <1>4, <1>5, <1>8 DEF TypeOK
<1>10. Tiled(p.tokens, p.curr)
  <2>1. s.tokens \in Seq(Nat \X Nat) /\ p.curr \in Nat /\ s.curr <= p.curr
    BY <1>1, <1>2, <1>4 DEF Lexer
  <2>2. QED
    BY <1>2, <1>3, <1>4, <2>1, TiledRecord
<1>11. settled' => p.sequence > 0 \/ p.toPlain \/ p.plain = Plain
  BY <1>1, <1>3, <1>4 DEF PlainRestored
<1>12. settled' => Alike(p, r)
  BY <1>1, <1>3, <1>6
<1>13. ~settled' => Idle(p) /\ Idle(r) /\ p.sequence = 0 /\ ~p.toPlain
  BY <1>1, <1>3, <1>6, <1>7
<1>14. LexInv'
  BY <1>1, <1>4, <1>5, <1>6, <1>9, <1>10, <1>11, <1>12, <1>13 DEF LexInv, PlainRestored
<1>15. TokenAdvances
  <2>1. s.sequence \in Nat
    BY <1>1, HighlightAssumption, ListLength DEF Lexer
  <2>2. QED
    BY <1>1, <1>4, <1>7, <2>1, EmptyTokens DEF TokenAdvances
<1>16. QED
  BY <1>14, <1>15

LEMMA StepLexer == ASSUME LexInv, Next PROVE LexInv' /\ TokenAdvances
<1>1. CASE StartFile
  BY <1>1, StepStartFile DEF TokenAdvances, StartFile
<1>2. CASE EndOfFile
  BY <1>2, StepEndOfFile DEF TokenAdvances, EndOfFile
<1>3. CASE ReadToken
  BY <1>3, StepReadToken
<1>4. ASSUME NEW l \in Lines, GetLine(l)
      PROVE  LexInv' /\ TokenAdvances
  <2>1. count' # count
    BY <1>4 DEF LexInv, TypeOK, GetLine
  <2>2. QED
    BY <1>4, <2>1, StepGetLine DEF TokenAdvances
<1>5. QED
  BY <1>1, <1>2, <1>3, <1>4 DEF Next

LEMMA LexerShows ==
  ASSUME LexInv
  PROVE  TypeOK /\ TokensTile /\ PlainRestored /\ SettledIndependent /\ EncodingSwitched
<1>1. TypeOK /\ PlainRestored /\ s \in Lexer /\ twin \in Lexer /\ pc \in {"between", "file"}
  BY DEF LexInv, TypeOK
<1>2. TokensTile
  BY DEF LexInv, Tiled, TokensTile, Last
<1>3. EncodingSwitched
  BY DEF LexInv, Grabs, EncodingSwitched
<1>4. CASE pc = "between"
  <2>1. SettledIndependent
    BY <1>4 DEF LexInv, SettledIndependent
  <2>2. QED
    BY <1>1, <1>2, <1>3, <2>1
<1>5. CASE pc = "file"
  <2>1. s.toPlain \in BOOLEAN /\ twin.toPlain \in BOOLEAN
    BY <1>1 DEF Lexer
  <2>2. s.toPlain = twin.toPlain
    BY <1>5, <2>1 DEF LexInv, Level
  <2>3. SettledIndependent
    BY <1>5, <2>2 DEF LexInv, SettledIndependent, Level, Same, Alike
  <2>4. QED
    BY <1>1, <1>2, <1>3, <2>3
<1>6. QED
  BY <1>1, <1>4, <1>5

(* Whatever the style sheet, the tokens tile each line, the plain face is  *)
(* back after each sequence, a file that is settled prints as if it were   *)
(* the first, and a name of encoding switches to it once (ssh_get_token,   *)
(* ssh_print_postscript).                                                  *)
THEOREM LexerAlwaysSound == TextSpec => []LexerSound
<1> DEFINE Inv == part = "lexer" => LexInv
           allVars == <<part, vars, inputVars, engineVars, readerVars>>
<1>1. TextInit => Inv
  BY InitLexer DEF TextInit
<1>2. Inv /\ [TextNext]_allVars => Inv'
  <2> SUFFICES ASSUME Inv, [TextNext]_allVars, part' = "lexer"
               PROVE  LexInv'
    OBVIOUS
  <2>1. CASE TextNext
    BY <2>1, StepLexer DEF TextNext
  <2>2. CASE UNCHANGED allVars
    BY <2>2 DEF vars, LexInv, TypeOK, PlainRestored
  <2>3. QED
    BY <2>1, <2>2
<1>3. Inv => LexerSound
  BY LexerShows DEF LexerSound
<1>4. QED
  BY <1>1, <1>2, <1>3, PTL DEF TextSpec

(* Whatever the sheet, each token advances in the line, or the sheet       *)
(* matches the empty string there; and then it closes or opens a sequence, *)
(* or the sheet is endless (ssh_get_token).                                *)
THEOREM LexerAlwaysAdvances == TextSpec => LexerAdvances
<1> DEFINE Inv == part = "lexer" => LexInv
           allVars == <<part, vars, inputVars, engineVars, readerVars>>
<1>1. TextInit => Inv
  BY InitLexer DEF TextInit
<1>2. Inv /\ [TextNext]_allVars => Inv' /\ [part = "lexer" => TokenAdvances]_<<part, vars>>
  <2>1. ASSUME Inv, TextNext
        PROVE  Inv' /\ (part = "lexer" => TokenAdvances)
    BY <2>1, StepLexer DEF TextNext
  <2>2. ASSUME Inv, UNCHANGED allVars
        PROVE  Inv' /\ UNCHANGED <<part, vars>>
    BY <2>2 DEF vars, LexInv, TypeOK, PlainRestored
  <2>3. QED
    BY <2>1, <2>2
<1>3. QED
  BY <1>1, <1>2, PTL DEF TextSpec, LexerAdvances

(* A token advances, or lowers the rank, which is at most 2.               *)
LineGoesOn ==
  pc = "file" /\ pc' = "file" /\ count' = count =>
    \/ s'.curr > s.curr
    \/ s'.curr = s.curr /\ Rank(s'.sequence) < Rank(s.sequence)

(* Unless the sheet is endless the reading of each line ends: no keyword,  *)
(* operator or exception keeps the lexer where it is, and no sequence is   *)
(* opened and closed there for ever (ssh_get_token).                       *)
THEOREM LineEndsUnlessEndless ==
  (\A q \in 0 .. Len(Sequences) : ~Endless(q)) =>
    (TextSpec => [][part = "lexer" => LineGoesOn]_<<part, vars>>)
<1> SUFFICES ASSUME \A q \in 0 .. Len(Sequences) : ~Endless(q)
             PROVE  TextSpec => [][part = "lexer" => LineGoesOn]_<<part, vars>>
  OBVIOUS
<1> DEFINE Inv == part = "lexer" => LexInv
           allVars == <<part, vars, inputVars, engineVars, readerVars>>
<1>1. TextInit => Inv
  BY InitLexer DEF TextInit
<1>2. Inv /\ [TextNext]_allVars => Inv' /\ [part = "lexer" => LineGoesOn]_<<part, vars>>
  <2>1. ASSUME Inv, TextNext
        PROVE  Inv' /\ (part = "lexer" => LineGoesOn)
    <3>1. Inv' /\ (part = "lexer" => LexInv /\ LexInv' /\ TokenAdvances)
      BY <2>1, StepLexer DEF TextNext
    <3>2. LexInv /\ LexInv' => s.sequence \in 0 .. Len(Sequences) /\ s'.sequence \in 0 .. Len(Sequences)
      BY DEF LexInv, TypeOK, Lexer
    <3>3. QED
      BY <3>1, <3>2 DEF TokenAdvances, LineGoesOn
  <2>2. ASSUME Inv, UNCHANGED allVars
        PROVE  Inv' /\ UNCHANGED <<part, vars>>
    BY <2>2 DEF vars, LexInv, TypeOK, PlainRestored
  <2>3. QED
    BY <2>1, <2>2
<1>3. QED
  BY <1>1, <1>2, PTL DEF TextSpec
=============================================================================
