------------------------------- MODULE Lister -------------------------------
(***************************************************************************)
(* The listings (liba2ps/lister.c, tterm.c): items in columns, as many as  *)
(* the line has room for, or one after another with a separator.  An item  *)
(* is its width; columns and positions are counted from 0.                 *)
(***************************************************************************)
EXTENDS Integers, Sequences, SequencesExt, FiniteSets, FiniteSetsExt

CONSTANTS
  Lists,      (* the lists: sequences of widths                            *)
  Terminals,  (* their width, and their tabsize (0: no tabulations)        *)
  Before,     (* l->before                                                 *)
  Between     (* of the columns, and of the separated items                *)

ListerAssumption ==
  /\ Before \in Nat /\ Between \in Nat
  /\ \A t \in Terminals : t.width > Before + Between /\ t.tabsize \in Nat
  /\ << >> \notin Lists

VARIABLES
  items, tterm,
  format,     (* "vertical" or "separated"                                 *)
  phase,
  worlds,     (* l->multicol.worlds: what each number of columns takes     *)
  itemno,     (* how many items were measured or printed                   *)
  cols,
  pos,        (* where the program believes it is                          *)
  cursor,     (* history: where the line printed so far really ends        *)
  screen      (* history: the line and the position of each printed item   *)

vars == <<items, tterm, format, phase, worlds, itemno, cols, pos, cursor, screen>>

MIN_COLUMN_WIDTH == 1
SeparatorWidth == 1  \* "," and ".", the default settings
Number == Len(items)
Line == IF screen = << >> THEN 0 ELSE Last(screen).line

(* INDENT: from, tabs and spaces to reach the position to.                 *)
Indent(from, to) ==
  LET tab(x) == tterm.tabsize > 0 /\ to \div tterm.tabsize > (x + 1) \div tterm.tabsize
      add(s, k) ==
        IF s.x >= to THEN s
        ELSE IF tab(s.x) THEN [x |-> s.x + tterm.tabsize - (s.x % tterm.tabsize), moves |-> Append(s.moves, "tab")]
        ELSE [x |-> s.x + 1, moves |-> Append(s.moves, "space")]
  IN FoldLeftDomain(add, [x |-> from, moves |-> << >>], [k \in 1 .. Max({0, to - from}) |-> k]).moves

(* Where these moves lead a terminal whose tab stops are tabsize apart.    *)
Moved(from, moves) ==
  FoldLeft(LAMBDA x, m : IF m = "tab" THEN (x \div tterm.tabsize + 1) * tterm.tabsize ELSE x + 1, from, moves)

(* init_worlds                                                             *)
MaxIdx == Max({1, (tterm.width - Before - Between) \div (MIN_COLUMN_WIDTH + Between)})
InitWorlds ==
  [i \in 0 .. MaxIdx - 1 |->
     [widths |-> [j \in 0 .. i |-> MIN_COLUMN_WIDTH], width |-> (i + 1) * MIN_COLUMN_WIDTH, valid |-> TRUE]]

(* tterm_initialize and lister_before_set set what depends on the terminal.*)
Init ==
  /\ items \in Lists /\ tterm \in Terminals /\ format \in {"vertical", "separated"}
  /\ phase = IF format = "vertical" THEN "measure" ELSE "print"
  /\ worlds = InitWorlds
  /\ itemno = 0 /\ cols = 0
  /\ pos = IF format = "vertical" THEN 0 ELSE Before
  /\ cursor = IF format = "vertical" THEN 0 ELSE Moved(0, Indent(0, Before))
  /\ screen = << >>
-----------------------------------------------------------------------------
MaxCols == Min({MaxIdx, Number})
RowsOf(columns) == (Number + columns - 1) \div columns

(* Mutant: the spaces between the columns are forgotten.                   *)
EffectiveWhole(i) == tterm.width - Before

(* What is left for the items of i + 1 columns.                            *)
Effective(i) == tterm.width - Before - i * Between

(* lister_vertical_format: the item goes in its column in every world.     *)
With(world, i, width) ==
  LET idx == itemno \div RowsOf(i + 1)
      wider == world.width + width - world.widths[idx]
  IN IF ~world.valid \/ width <= world.widths[idx] THEN world
     ELSE [widths |-> [world.widths EXCEPT ![idx] = width], width |-> wider,
           valid |-> wider <= Effective(i)]

Measure ==
  /\ phase = "measure" /\ itemno < Number
  /\ worlds' = [i \in DOMAIN worlds |->
                  IF i < MaxCols THEN With(worlds[i], i, items[itemno + 1]) ELSE worlds[i]]
  /\ itemno' = itemno + 1
  /\ UNCHANGED <<items, tterm, format, phase, cols, pos, cursor, screen>>

SelectColumns ==
  /\ phase = "measure" /\ itemno = Number
  /\ cols' = Max({1} \cup {c \in 2 .. MaxCols : worlds[c - 1].valid})
  /\ phase' = "print" /\ itemno' = 0
  /\ UNCHANGED <<items, tterm, format, worlds, pos, cursor, screen>>

(* An item is printed where the cursor is led by the indentation.            *)
PutItem(item, line, from, to, real) ==
  LET at == Moved(real, Indent(from, to))
  IN /\ screen' = Append(screen, [item |-> item, line |-> line, at |-> at])
     /\ cursor' = at + items[item]

(* lister_fprint_vertical, a turn of its inner loop.  The items are left   *)
(* justified.                                                              *)
Rows == (Number \div cols) + (IF Number % cols # 0 THEN 1 ELSE 0)
Widths(i) == worlds[cols - 1].widths[i]
ColumnStart(col) == Before + SumFunction([i \in 1 .. col |-> Widths(i - 1) + Between])

PrintInColumn ==
  /\ phase = "print" /\ format = "vertical" /\ itemno < Number
  /\ LET last == IF screen = << >> THEN [item |-> 1 - Rows, line |-> 0] ELSE Last(screen)
         next == last.item + Rows
         newline == next > Number
         item == IF newline THEN last.line + 2 ELSE next
         line == IF newline THEN last.line + 1 ELSE last.line
         col == (item - 1) \div Rows
         from == IF newline THEN 0 ELSE pos
     IN /\ PutItem(item, line, from, ColumnStart(col), IF newline THEN 0 ELSE cursor)
        /\ pos' = ColumnStart(col) + items[item]
  /\ itemno' = itemno + 1
  /\ UNCHANGED <<items, tterm, format, phase, worlds, cols>>

(* lister_fprint_separated, a turn of its loop; the separator or the final *)
(* string goes after the item.                                             *)
PrintSeparated ==
  /\ phase = "print" /\ format = "separated" /\ itemno < Number
  /\ LET item == itemno + 1
         width == items[item] + SeparatorWidth
         newline == pos + width + Between > tterm.width
     IN CASE item = 1 -> PutItem(1, 0, pos, pos, cursor) /\ pos' = pos + width
          [] item > 1 /\ newline -> PutItem(item, Line + 1, 0, Before, 0) /\ pos' = Before + width
          [] item > 1 /\ ~newline ->
               PutItem(item, Line, pos, pos + Between, cursor + SeparatorWidth) /\ pos' = pos + width + Between
  /\ itemno' = itemno + 1
  /\ UNCHANGED <<items, tterm, format, phase, worlds, cols>>

Done == phase = "print" /\ itemno = Number /\ UNCHANGED vars

Next == Measure \/ SelectColumns \/ PrintInColumn \/ PrintSeparated \/ Done

Spec == Init /\ [][Next]_vars
-----------------------------------------------------------------------------
TypeOK ==
  /\ itemno \in 0 .. Number /\ cols \in 0 .. MaxIdx /\ Len(screen) <= Number
  /\ \A i \in DOMAIN worlds : DOMAIN worlds[i].widths = 0 .. i

Ends(i) == screen[i].at + items[screen[i].item]
Full == phase = "print" /\ itemno = Number
Places == {<<i, k>> \in (DOMAIN screen) \X (DOMAIN screen) : i < k /\ screen[i].line = screen[k].line}

(* The items of a line are apart, in one order, and the tabulations that   *)
(* replace spaces lead where the program believes it is.                   *)
ItemsApart ==
  /\ \A p \in Places : screen[p[2]].at >= Ends(p[1]) + Between
  /\ screen # << >> =>
       pos = Ends(Len(screen)) + (IF format = "separated" THEN SeparatorWidth ELSE 0)

(* Columns: each item is printed once, the columns are read downwards, the *)
(* items of a column begin together, and nothing passes the margin unless  *)
(* there is one column.                                                    *)
ColumnsRead ==
  Full /\ format = "vertical" =>
    /\ {screen[i].item : i \in DOMAIN screen} = DOMAIN items
    /\ \A i \in DOMAIN screen : screen[i].line = (screen[i].item - 1) % Rows
    /\ \A i, k \in DOMAIN screen :
         (screen[i].item - 1) \div Rows = (screen[k].item - 1) \div Rows => screen[i].at = screen[k].at
    /\ cols > 1 => \A i \in DOMAIN screen : Ends(i) <= tterm.width

(* The room that the items take in c columns, with what is between them.   *)
Takes(c) ==
  LET width(j) == Max({MIN_COLUMN_WIDTH} \cup {items[i] : i \in {k \in DOMAIN items : (k - 1) \div RowsOf(c) = j}})
  IN Before + (c - 1) * Between + SumFunction([j \in 0 .. c - 1 |-> width(j)])

(* No larger number of columns would do (up to the number of columns that  *)
(* the program believes possible).                                         *)
ColumnsMost ==
  Full /\ format = "vertical" => \A c \in cols + 1 .. MaxCols : Takes(c) > tterm.width

(* "Maximum number of columns ever possible for this display."  Not        *)
(* checked: it does not hold, see the README.                              *)
MaxIdxTrue ==
  \A c \in MaxIdx + 1 .. tterm.width :
    Before + (c * MIN_COLUMN_WIDTH) + ((c - 1) * Between) > tterm.width

(* Separated: the items are in their order, a line is within the margin    *)
(* unless it has one item only, and is left when the next does not fit.    *)
LinesFilled ==
  Full /\ format = "separated" =>
    \A i \in DOMAIN screen :
      /\ screen[i].item = i
      /\ i > 1 /\ screen[i].line = screen[i - 1].line => Ends(i) + SeparatorWidth <= tterm.width
      /\ i > 1 /\ screen[i].line # screen[i - 1].line =>
           /\ screen[i].line = screen[i - 1].line + 1 /\ screen[i].at = Before
           /\ Ends(i - 1) + SeparatorWidth + Between + items[i] + SeparatorWidth > tterm.width
=============================================================================
