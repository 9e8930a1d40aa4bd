----------------------------- MODULE PlainReader -----------------------------
(***************************************************************************)
(* The reader of files that have no style sheet (plain_getc, src/read.c):  *)
(* it gives a line to the text engine one glyph at a time, and reads the   *)
(* overstrikes of nroff ("x\bx" is a bold x) as faces and symbols.         *)
(***************************************************************************)
EXTENDS Integers, Sequences, SequencesExt, FiniteSetsExt

CONSTANTS
  Contents,  (* the lines, as sequences of characters                      *)
  Numbers    (* their numbers                                              *)

VARIABLES
  content,   (* buffer->content                                            *)
  curr,      (* buffer->curr                                               *)
  number,    (* file->lines                                                *)
  given      (* history: what ps_print_char was called with                *)

vars == <<content, curr, number, given>>

bs == "bs"
Glyph(c, face) == [char |-> c, face |-> face]

Init ==
  /\ content \in Contents /\ number \in Numbers
  /\ curr = 0 /\ given = << >>
-----------------------------------------------------------------------------
(* n times c, each over what is before.                                    *)
Struck(c, n) == FlattenSeq([i \in 1 .. n |-> <<bs, c>>])

(* A rule: what follows the character, and the glyph that it all makes.    *)
Rule(after, glyph) == [after |-> after, glyph |-> glyph]

(* "Super strong", and three ways to be bold.                              *)
Bold(c) ==
  <<Rule(Struck(c, 4), Glyph(c, "Label_strong"))>>
    \o [i \in 1 .. 3 |-> Rule(Struck(c, 4 - i), Glyph(c, "Keyword_strong"))]

(* "If C is `_', then set font to italic and move to next char."           *)
Underlined(d) ==
  <<Rule(Struck(d, 4), Glyph(d, "Label_strong")), Rule(<<bs, d>>, Glyph(d, "Keyword"))>>

Symbols(c) ==
  LET made == <<
        <<"o", <<bs, "+">>, "oplus">>, <<"+", <<bs, "o">>, "oplus">>,
        <<"c", <<bs, "O">>, "copyright">>, <<"+", <<bs, "_">>, "plusminus">>,
        <<"~", <<bs, ">", bs, "_">>, "greaterequal">>, <<"~", <<bs, "<", bs, "_">>, "lessequal">> >>
      own == SelectSeq(made, LAMBDA s : s[1] = c)
  IN [i \in DOMAIN own |-> Rule(own[i][2], Glyph(own[i][3], "Symbol"))]

(* The lines of the header and of the footer of a page of nroff.           *)
InMargin == (number + 3) % 66 = 0 \/ (number - 4) % 66 = 0

(* Mutant: the underscore is looked for before the symbols that have one.  *)
RulesUnderscoreFirst(c, d) ==
  Bold(c)
    \o (IF c = "_" THEN Underlined(d) ELSE <<Rule(<<bs, "_">>, Glyph(c, "Keyword"))>> \o Symbols(c))
    \o (IF InMargin THEN <<Rule(<<bs, d>>, Glyph(c, "Plain"))>> ELSE << >>)

(* The rules for the character c when d is over it, in the order of their  *)
(* tests.  Past the end of the line, the character is the NUL.             *)
Rules(c, d) ==
  Bold(c)
    \o (IF c = "_" THEN Underlined(d) ELSE Symbols(c) \o <<Rule(<<bs, "_">>, Glyph(c, "Keyword"))>>)
    \o (IF InMargin THEN <<Rule(<<bs, d>>, Glyph(c, "Plain"))>> ELSE << >>)

At(i) == IF i <= Len(content) THEN content[i] ELSE "nul"
Ahead(i) == [k \in 1 .. 8 |-> At(i + k)]

(* plain_getc, and the call of ps_print_char: the first rule that applies, *)
(* or the character as it is.                                              *)
PlainGetc ==
  /\ curr < Len(content)
  /\ LET c == content[curr + 1]
         applying == SelectSeq(Rules(c, At(curr + 3)), LAMBDA r : IsPrefix(r.after, Ahead(curr + 1)))
         rule == IF applying = << >> THEN Rule(<< >>, Glyph(c, "Plain")) ELSE Head(applying)
     IN /\ curr' = curr + 1 + Len(rule.after)
        /\ given' = Append(given, rule.glyph)
  /\ UNCHANGED <<content, number>>

(* buffer_is_empty: the next call gets another line.                       *)
EndOfLine == curr >= Len(content)

Next == PlainGetc \/ (EndOfLine /\ UNCHANGED vars)

Spec == Init /\ [][Next]_vars
-----------------------------------------------------------------------------
(* Reference: a terminal shows each column of the line with everything     *)
(* that was struck there.                                                  *)
Starts == {i \in DOMAIN content : content[i] # bs /\ (i = 1 \/ content[i - 1] # bs)}
Column(i) ==
  LET end == Min({k \in Starts \cup {Len(content) + 1} : k > i})
  IN SelectSeq(SubSeq(content, i, end - 1), LAMBDA c : c # bs)
Columns == LET at == SetToSortSeq(Starts, LAMBDA i, k : i < k) IN [n \in DOMAIN at |-> Column(at[n])]

(* What the characters of one column stand for together, if anything.      *)
Times(column, c) == Len(SelectSeq(column, LAMBDA x : x = c))
Pairs ==
  { <<<<"o", "+">>, "oplus">>, <<<<"+", "o">>, "oplus">>, <<<<"c", "O">>, "copyright">>,
    <<<<"+", "_">>, "plusminus">>, <<<<"~", ">", "_">>, "greaterequal">>,
    <<<<"~", "<", "_">>, "lessequal">> }
Meanings(column) ==
  LET c == column[1]  n == Len(column)  top == column[n]
      same == Times(column, c) = n
      under == c = "_" /\ ~same /\ Times(column, top) = n - 1
      symbols == {Glyph(p[2], "Symbol") : p \in {q \in Pairs : q[1] = column}}
  IN CASE n = 1 -> {Glyph(c, "Plain")}
       [] n \in 2 .. 4 /\ same -> {Glyph(c, "Keyword_strong")}
       [] n = 5 /\ (same \/ under) -> {Glyph(top, "Label_strong")}
       [] n = 2 /\ under -> {Glyph(top, "Keyword")}
       [] symbols # {} -> symbols
       [] n = 2 /\ top = "_" /\ ~same -> {Glyph(c, "Keyword")}
       [] n = 2 /\ InMargin /\ ~same -> {Glyph(c, "Plain")}
       [] OTHER -> {}

(* Each backspace is between two characters that it puts in one column.    *)
WellStruck ==
  \A i \in DOMAIN content : content[i] = bs =>
    /\ {i - 1, i + 1} \subseteq DOMAIN content
    /\ content[i - 1] # bs /\ content[i + 1] # bs

(* A line whose columns all stand for something gives one glyph a column:  *)
(* no character of an overstrike is left for the next column, and none of  *)
(* the next column is taken.                                               *)
OverstrikesRead ==
  (EndOfLine /\ WellStruck /\ \A column \in ToSet(Columns) : Meanings(column) # {}) =>
    /\ Len(given) = Len(Columns)
    /\ \A n \in DOMAIN Columns : given[n] \in Meanings(Columns[n])
=============================================================================
