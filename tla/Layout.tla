------------------------------- MODULE Layout -------------------------------
(***************************************************************************)
(* The geometry of the virtual pages (ps_begin, liba2ps/prolog.c): the     *)
(* room that the medium, the headings and the margins leave, the size of   *)
(* the font, and the lines and columns that go in.  Sizes are in points;   *)
(* the font is the fraction n / d; the differences of unsigned numbers     *)
(* wrap at WordMod, as does the conversion of a negative number.           *)
(***************************************************************************)
EXTENDS Options

CONSTANT WordMod
Word == 0 .. WordMod - 1

(* The constants of the program, and the integers that getnum.c reads, are *)
(* words.                                                                  *)
ASSUME WordModAssumption == WordMod \in Nat /\ WordMod > 80
ASSUME NumberAssumption == \A a \in DOMAIN Number : Number[a] \in Int /\ Number[a] < WordMod

HEADERS_H == 12
PAGE_MARGIN == 12
Shown(job, fields) == \E f \in fields : job[f] \notin {NULL, ""}
HeadingsHeight(job) ==
  HEADERS_H * ((IF Shown(job, {"header"}) THEN 1 ELSE 0) + (IF Shown(job, {"footer", "left_footer", "right_footer"}) THEN 1 ELSE 0))
TitleBar(job) ==
  CASE ~Shown(job, {"center_title", "left_title", "right_title"}) -> 0
    [] Shown(job, {"center_title", "left_title", "right_title"}) /\ job.columns * job.rows > 1 -> 15
    [] OTHER -> 20
Prefix(job) == IF job.numbering = 0 THEN 0 ELSE 5

(* The printable area, before and after the unsigned subtractions.         *)
Area(job, m) ==
  LET upright == job.orientation = "portrait"
      long == m.ury - m.lly
      short == m.urx - m.llx - job.margin
  IN IF upright THEN [w |-> short, h |-> long - HeadingsHeight(job)]
     ELSE [w |-> long, h |-> short - HeadingsHeight(job)]
Fits(area) == area.w >= 0 /\ area.h >= 0

(* What all the columns, and all the rows, share.                          *)
Room(job, area) ==
  [w |-> (area.w % WordMod) - (IF job.columns > 1 THEN PAGE_MARGIN ELSE 0),
   h |-> (area.h % WordMod) - job.rows * TitleBar(job) - (IF job.rows > 1 THEN PAGE_MARGIN ELSE 0)]

FontNoPrefix(job, room) ==
  CASE job.columns_requested # 0 -> <<50 * room.w, job.columns * (30 * job.columns_requested + 42)>>
    [] job.columns_requested = 0 /\ job.lines_requested # 0 -> <<10 * room.h, job.rows * (10 * job.lines_requested + 7)>>
    [] job.columns_requested = 0 /\ job.lines_requested = 0 /\ job.fontsize # 0 -> <<job.fontsize, 1>>
    [] OTHER -> <<9, 1>>

Font(job, room) ==
  CASE job.columns_requested # 0 -> <<50 * room.w, job.columns * (30 * (job.columns_requested + Prefix(job)) + 42)>>
    [] job.columns_requested = 0 /\ job.lines_requested # 0 -> <<10 * room.h, job.rows * (10 * job.lines_requested + 7)>>
    [] job.columns_requested = 0 /\ job.lines_requested = 0 /\ job.fontsize # 0 -> <<job.fontsize, 1>>
    [] OTHER -> IF job.orientation = "landscape" THEN <<34, 5>>
                ELSE IF job.columns * job.rows > 1 THEN <<32, 5>> ELSE <<9, 1>>

(* The conversion of the quotient a / b to an unsigned integer.            *)
Truncated(a, b) ==
  LET x == IF b < 0 THEN -a ELSE a
      y == IF b < 0 THEN -b ELSE b
  IN IF x >= 0 THEN x \div y ELSE (-((-x) \div y)) % WordMod

(* What goes in the room with the font, and what is kept of the request.   *)
Status(job, room, font) ==
  LET n == font[1]  d == font[2]
      lines == Truncated(10 * room.h * d - 7 * n * job.rows, 10 * n * job.rows)
      columns == Truncated(50 * room.w * d - 42 * n * job.columns, 30 * n * job.columns)
      linesperpage == IF job.columns_requested = 0 /\ job.lines_requested > 0 THEN job.lines_requested ELSE lines
      columnsperline == IF job.columns_requested > 0 THEN job.columns_requested + Prefix(job) ELSE columns
  IN [linesperpage |-> linesperpage, columnsperline |-> columnsperline,
      width |-> (columnsperline - Prefix(job)) % WordMod]

(* Whether the quotient of Status for the columns is above -1: below, C    *)
(* does not say what it converts to.                                       *)
Converts(job, room, font) ==
  50 * room.w * font[2] - 42 * font[1] * job.columns > -(30 * font[1] * job.columns)

TooBig(status) == status.linesperpage = 0 \/ status.columnsperline = 0

(* What the text of the page takes, both in units of 1 / (600 d).          *)
TextFits(job, room, font, status) ==
  /\ font[1] * (30 * status.columnsperline + 42) * job.columns <= 50 * room.w * font[2]
  /\ font[1] * (10 * status.linesperpage + 7) * job.rows <= 10 * room.h * font[2]
-----------------------------------------------------------------------------
(* What the setup of the document tells the printer (output_document_setup)*)
(* of the box of the virtual pages, in coordinates that page_begin rotates *)
(* when the sheet is landscape.                                            *)
Box(job, m) ==
  IF job.orientation = "portrait"
  THEN [llx |-> m.llx, urx |-> m.urx - job.margin, lly |-> m.lly, ury |-> m.ury]
  ELSE [llx |-> m.lly, urx |-> m.ury, lly |-> m.w - m.urx + job.margin, ury |-> m.w - m.llx]

(* Where a point of these coordinates is on the paper.  The front sides    *)
(* are shifted by the margin.                                              *)
OnPaper(job, m, front, x, y) ==
  LET shift == IF front THEN job.margin ELSE 0
  IN IF job.orientation = "portrait" THEN <<x + shift, y>> ELSE <<m.w - y + shift, x>>

(* The arrays x and y: where the virtual pages are, counted in pages.  The *)
(* printer computes each from a number, or from the one below on its stack.*)
Operand(n) == [dup |-> FALSE, add |-> n]
Dup(n) == [dup |-> TRUE, add |-> n]
Times(n, op) == [i \in 1 .. n |-> op]
Calculate(stack, op) == Append(stack, (IF op.dup THEN Last(stack) ELSE 0) + op.add)
Run(program) == FoldLeft(Calculate, << >>, program)

PagesX(job) ==
  Run(FlattenSeq(IF job.madir = "rows"
                 THEN Times(job.rows, <<Operand(0)>> \o Times(job.columns - 1, Dup(1)))
                 ELSE [i \in 1 .. job.columns |-> <<Operand(i - 1)>> \o Times(job.rows - 1, Dup(0))]))
PagesY(job) ==
  Run(FlattenSeq(IF job.madir = "rows"
                 THEN [j \in 1 .. job.rows |-> <<Operand(job.rows - j)>> \o Times(job.columns - 1, Dup(0))]
                 ELSE Times(job.columns, [j \in 1 .. job.rows |-> Operand(job.rows - j)])))
=============================================================================
