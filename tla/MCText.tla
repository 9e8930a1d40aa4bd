------------------------------- MODULE MCText -------------------------------
(* The way of the text, from the input to the page: the lines of the input,*)
(* their highlighting, and the text engine.  Each behaviour is that of one *)
(* of them, as `part' says, on every text that its bounds allow.           *)
EXTENDS MCHighlight

CONSTANTS
  InputChars, Sources, Eols, SampleSize, MaxLength,   \* of TextInput
  EngineFaces, EngineEncodings, Composite, LinesPerPage, COURIER_WX, Jobs,
  MaxPages, MaxWx                                      \* of TextEngine

(* Jobs that fold or cut the lines, number them, skip a page, or take the  *)
(* special characters for glyphs.                                          *)
Job(folding, numbering, interpret, tabsize, wxperline, skipped) ==
  [ folding |-> folding, numbering |-> numbering, interpret |-> interpret,
    tabsize |-> tabsize, wxperline |-> wxperline, skipped |-> skipped ]

MCJobs ==
  { Job(TRUE,  FALSE, TRUE,  3, 8,  {2}),
    Job(TRUE,  FALSE, TRUE,  2, 6,  {2}),
    Job(TRUE,  TRUE,  FALSE, 3, 8,  {}),
    Job(TRUE,  TRUE,  TRUE,  2, 6,  {}),
    Job(FALSE, FALSE, TRUE,  1, 10, {}),
    Job(FALSE, FALSE, FALSE, 1, 6, {}) }

(* Lines of two columns, each with what may be struck there, and lines     *)
(* where a backspace has nothing on one of its sides.                      *)
Strike(column) == FlattenSeq([i \in DOMAIN column |-> IF i = 1 THEN <<column[1]>> ELSE <<"bs", column[i]>>])
Often(c, n) == [i \in 1 .. n |-> c]
MCStrikes ==
  {Strike(column) : column \in UNION {{Often(c, n), <<"_">> \o Often(c, n)} : c \in {"x", "_", "+"}, n \in 1 .. 6}
     \cup {<<"o", "+">>, <<"c", "O">>, <<"+", "o">>, <<"~", ">", "_">>, <<"~", "<", "_">>, <<"x", "y">>, <<"x", "_">>, <<"x", "y", "y">>}}
MCContents ==
  {<< >>} \cup {s1 \o s2 \o e : s1 \in MCStrikes, s2 \in MCStrikes, e \in {<< >>, <<"nl">>}}
    \cup {s1 \o <<"bs">> \o e : s1 \in MCStrikes \cup {<< >>}, e \in {<< >>, <<"nl">>, <<"bs", "x">>}}
-----------------------------------------------------------------------------
VARIABLES part, input, source, buffer, lines, number, shown, saved, job, phase, content, curr, given
inputVars  == <<input, source, buffer, lines, number, shown, saved>>
engineVars == <<job, phase>>
lexerVars  == <<twin, line, settled, count>>
readerVars == <<content, curr, given>>

(* The inputs, of characters that the ends of lines and the sampling treat *)
(* apart.                                                                  *)
I == INSTANCE TextInput WITH Chars <- InputChars

E == INSTANCE TextEngine WITH Faces <- EngineFaces, Encodings <- EngineEncodings

(* The third and the sixty-third lines of a page of nroff.                 *)
N == INSTANCE PlainReader WITH Contents <- MCContents, Numbers <- {3, 63}

ASSUME TextAssumed == I!InputAssumption /\ E!TextAssumption

(* The sequences print in faces that grab nothing (see SettledIndependent).*)
ASSUME QuietSequences ==
  \A i \in DOMAIN Sequences : Sequences[i].face.flags \cap {"Tag1", "Encoding"} = {}

NoInput ==
  /\ input = "none" /\ source = "none" /\ buffer = "none" /\ lines = "none"
  /\ number = 0 /\ shown = 0 /\ saved = "none"
NoLexer  == twin = "none" /\ line = "none" /\ settled = FALSE /\ count = 0
NoEngine == job = "none" /\ phase = "none"
NoReader == content = "none" /\ curr = 0 /\ given = "none"

TextInit ==
  \/ part = "input" /\ I!Init /\ NoLexer /\ NoEngine /\ NoReader /\ s = "none"
  \/ part = "lexer" /\ Init /\ NoInput /\ NoEngine /\ NoReader
  \/ part = "engine" /\ E!Init /\ NoInput /\ NoLexer /\ NoReader /\ pc = "none"
  \/ /\ part = "reader" /\ N!Init /\ NoLexer /\ NoEngine /\ s = "none" /\ pc = "none"
     /\ input = "none" /\ source = "none" /\ buffer = "none" /\ lines = "none"
     /\ shown = 0 /\ saved = "none"

TextNext ==
  \/ part = "input" /\ I!Next /\ UNCHANGED <<part, s, lexerVars, engineVars, readerVars>>
  \/ part = "lexer" /\ Next /\ UNCHANGED <<part, inputVars, engineVars, readerVars>>
  \/ part = "engine" /\ E!Next /\ UNCHANGED <<part, inputVars, lexerVars, readerVars, pc>>
  \/ /\ part = "reader" /\ N!Next
     /\ UNCHANGED <<part, vars, engineVars, input, source, buffer, lines, shown, saved>>

TextSpec == TextInit /\ [][TextNext]_<<part, vars, inputVars, engineVars, readerVars>>

(* Every line of the input is given intact with its number, what is saved  *)
(* for a delegation is the whole of it, and the overstrikes are read as    *)
(* the columns of a terminal (buffer.c, delegate.c, read.c).               *)
InputWhole ==
  CASE part = "input"  -> I!TypeOK /\ I!LinesIntact /\ I!SavedWhole
    [] part = "reader" -> N!OverstrikesRead
    [] OTHER -> TRUE

(* A page that ends shows the lines up to the current one (ps_print_char). *)
CurrentLine == [][part = "input" /\ I!EndsPage => shown' = Len(lines)]_<<part, inputVars, pc>>

(* The tokens tile the line, the plain face is back after each sequence,   *)
(* what was printed before does not matter to a file that finds the lexer  *)
(* settled, and a name of encoding switches to it once (sshread.c).        *)
LexerSound ==
  part = "lexer" => TypeOK /\ TokensTile /\ PlainRestored /\ SettledIndependent /\ EncodingSwitched

(* Each token advances in the line, or the sheet matches the empty string  *)
(* where it is read, and no such token repeats unless it does so in each   *)
(* of them (ssh_get_token).                                                *)
LexerAdvances == [][part = "lexer" => TokenAdvances]_<<part, vars>>

(* The strings are opened and closed by turns, each glyph is shown in its  *)
(* own face and within the frame, and tabs go forward (psgen.c).           *)
GlyphsPlaced ==
  part = "engine" => E!TypeOK /\ E!StringsBalanced /\ E!FacesShown /\ E!InsideFrame /\ E!TabsForward
=============================================================================
