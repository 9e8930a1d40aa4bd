------------------------------ MODULE Highlight ------------------------------
(***************************************************************************)
(* The highlighting of a file by a style sheet (src/sshread.c): the lexer  *)
(* ssh_get_token, whose state is static and outlives the files, and the    *)
(* printer ssh_print_postscript, which gives the text to the text engine   *)
(* in its faces and grabs the marks and the encodings named in the file.   *)
(***************************************************************************)
EXTENDS Integers, Sequences, FiniteSets, SequencesExt, FiniteSetsExt

CONSTANTS
  Chars,      (* the characters of the files                               *)
  Alpha1,     (* sheet->alpha1: what a word begins with                    *)
  Alpha2,     (* sheet->alpha2: what it goes on with                       *)
  Fold,       (* tolower, the identity when the sheet is case sensitive    *)
  Keywords,   (* sheet->keywords                                           *)
  Operators,  (* sheet->operators                                          *)
  Sequences,  (* sheet->sequences, in the order of their definitions       *)
  Names,      (* the encodings that have an alias                          *)
  Lines,      (* the lines that the files are made of                      *)
  MaxLines    (* bound of the model: lines in a file                       *)

Flags  == {"Invisible", "Tag1", "Encoding"}
Faces  == {"Plain", "Keyword", "Keyword_strong", "Label", "Label_strong", "String", "Symbol",
           "Error", "Comment", "Comment_strong"}
FFace  == [face : Faces, flags : SUBSET Flags]
Plain  == [face |-> "Plain", flags |-> {}]   \* Plain_fface
Match  == <<"what was matched">>              \* a null string in a rhs
Strings == Seq(Chars)
Requested == <<"requested">>                 \* job->requested_encoding

(* A rule is either a word or a regular expression, known by the words it  *)
(* matches.  Its right hand side is a list of strings with their faces,    *)
(* at least one (rhs_list).                                                *)
IsList(l) == l \in Seq(ToSet(l))
IsRhs(rhs) ==
  /\ IsList(rhs) /\ rhs # << >>
  /\ \A i \in DOMAIN rhs : rhs[i].face \in FFace /\ (rhs[i].string = Match \/ rhs[i].string \in Strings)

IsRule(r) == r.matches \subseteq Strings /\ IsRhs(r.rhs)

IsWords(words) ==
  /\ \A r \in words.strings : IsRule(r) /\ r.matches # {} /\ \A v, w \in r.matches : v = w
  /\ IsList(words.regexps) /\ \A i \in DOMAIN words.regexps : IsRule(words.regexps[i])

ASSUME HighlightAssumption ==
  /\ Alpha1 \subseteq Chars /\ Alpha2 \subseteq Chars /\ Fold \in [Chars -> Chars]
  /\ IsWords(Keywords) /\ IsWords(Operators)
  /\ IsList(Sequences) /\ \A i \in DOMAIN Sequences :
       /\ IsRule(Sequences[i].open) /\ Sequences[i].face \in FFace
       /\ IsWords(Sequences[i].exceptions) /\ IsWords(Sequences[i].close)
  /\ Names \subseteq Strings /\ Lines \subseteq Strings \ {<< >>} /\ MaxLines \in Nat

VARIABLES
  s,      (* the state of the lexer and of the printer                     *)
  twin,   (* history: the same, had the program begun with this file       *)
  line,   (* buffer->content                                               *)
  settled,(* history: in this file, something but plain characters was read*)
  count,  (* history: lines read from this file                            *)
  pc      (* "between" two files, or in a "file"                           *)

vars == <<s, twin, line, settled, count, pc>>

Lexer ==
  [ sequence : 0 .. Len(Sequences),  \* the one that is open, 0 if none
    toPlain  : BOOLEAN,              \* return_to_plain
    plain    : FFace,                \* the face of plain_rhs
    curr     : Nat,                  \* buffer->curr
    fface    : FFace,                \* the current face
    grabbing : BOOLEAN,              \* grabbing_encoding
    name     : Strings,              \* bufenc
    tag1     : Strings,              \* job->tag1
    enc      : Names \cup {Requested},  \* job->encoding
    printed  : Seq([string : Strings, face : Faces, enc : Names \cup {Requested}]),
    tokens   : Seq(Nat \X Nat) ]     \* history: the registers of the line
-----------------------------------------------------------------------------
(* Matching.  A result is the length matched and the right hand side.      *)

NoMatch == [length |-> -1, rhs |-> << >>]

(* The rest of the line, in lower case if the sheet asks for it.           *)
Rest(curr) == [i \in 1 .. Len(line) - curr |-> Fold[line[curr + i]]]

Longest(S) == CHOOSE w \in S : \A v \in S : Len(v) <= Len(w)

(* The words that begin with the current character are tried downwards in  *)
(* the order of strcmp: of those that match, all prefixes of the line, the *)
(* longest comes first.  The next character must not be in the alphabet.   *)
(* An empty word is filed under the null character, which no line has.     *)
TryStrings(words, rest, alphabet) ==
  LET S == {r \in words.strings : \E w \in r.matches \ {<< >>} :
              IsPrefix(w, rest) /\ (Len(w) = Len(rest) \/ rest[Len(w) + 1] \notin alphabet)}
      Length(r) == Len(CHOOSE w \in r.matches : TRUE)
      best == CHOOSE r \in S : \A q \in S : Length(q) <= Length(r)
  IN IF S = {} THEN NoMatch ELSE [length |-> Length(best), rhs |-> best.rhs]

(* One pattern: re_match gives the longest match.                          *)
TryRule(r, rest) ==
  LET S == {w \in r.matches : IsPrefix(w, rest)}
  IN IF S = {} THEN NoMatch ELSE [length |-> Len(Longest(S)), rhs |-> r.rhs]

(* "In reversed order, in order to take the last definition."              *)
LastMatch(rules, rest) ==
  Max({0} \cup {i \in DOMAIN rules : TryRule(rules[i], rest) # NoMatch})

(* match_keyword, and match_operator, for which there is no alphabet.      *)
MatchKeyword(words, rest, alphabet) ==
  LET found == TryStrings(words, rest, alphabet)
      i     == LastMatch(words.regexps, rest)
  IN IF found # NoMatch THEN found
     ELSE IF i > 0 THEN TryRule(words.regexps[i], rest) ELSE NoMatch

MatchOperator(words, rest) == MatchKeyword(words, rest, {})

(* match_sequence: the index of the sequence that opens here, or 0.        *)
MatchSequence(rest) ==
  LastMatch([i \in DOMAIN Sequences |-> Sequences[i].open], rest)

(* match_word: how many characters the word has.                           *)
WordLength(curr) ==
  CHOOSE n \in 1 .. Len(line) - curr :
    /\ \A i \in 2 .. n : line[curr + i] \in Alpha2
    /\ curr + n = Len(line) \/ line[curr + n + 1] \notin Alpha2
-----------------------------------------------------------------------------
(* ssh_get_token: the token is told by its registers and its rhs.          *)

PlainRhs(face) == <<[string |-> Match, face |-> face]>>

(* History: of a token that is empty nothing is recorded.                  *)
Recorded(tokens, from, to) == IF to = from THEN tokens ELSE Append(tokens, <<from, to>>)

Token(t, length, rhs) ==
  [lexer |-> [t EXCEPT !.curr = @ + length, !.tokens = Recorded(@, t.curr, t.curr + length)],
   from |-> t.curr, to |-> t.curr + length, rhs |-> rhs]

Matched(t, m) == Token(t, m.length, m.rhs)

(* Mutant: return_to_plain is not set.                                     *)
ClosedInFace(t, m) == Matched([t EXCEPT !.sequence = 0], m)

(* The end of the sequence.                                                *)
Closed(t, m) == Matched([t EXCEPT !.sequence = 0, !.toPlain = TRUE], m)

(* Mutant: the exception is printed but not passed.                        *)
ExceptedAgain(t, m) ==
  [Matched(t, m) EXCEPT !.lexer = t]

(* "escape: not converted when in a sequence"                              *)
Excepted(t, m) == Matched(t, m)

TokenInSequence(t) ==
  LET q      == Sequences[t.sequence]
      except == MatchOperator(q.exceptions, Rest(t.curr))
      close  == MatchOperator(q.close, Rest(t.curr))
  IN IF except # NoMatch THEN Excepted(t, except)
     ELSE IF close # NoMatch THEN Closed(t, close)
     ELSE Token([t EXCEPT !.plain = q.face], 1, PlainRhs(q.face))

TokenOutside(t) ==
  LET rest == Rest(t.curr)
      seq  == MatchSequence(rest)
      key  == MatchKeyword(Keywords, rest, Alpha2)
      op   == MatchOperator(Operators, rest)
      back == [t EXCEPT !.toPlain = TRUE]
      inWord == line[t.curr + 1] \in Alpha1
  IN IF seq > 0 THEN Matched([t EXCEPT !.sequence = seq], TryRule(Sequences[seq].open, rest))
     ELSE IF inWord /\ key # NoMatch THEN Matched(back, key)
     ELSE IF op # NoMatch THEN Matched(back, op)
     ELSE IF inWord THEN Token([t EXCEPT !.plain = Plain], WordLength(t.curr), PlainRhs(Plain))
     ELSE Token(t, 1, PlainRhs(t.plain))

GetToken(t) ==
  LET b == IF t.toPlain THEN [t EXCEPT !.toPlain = FALSE, !.plain = Plain] ELSE t
  IN IF b.sequence > 0 THEN TokenInSequence(b) ELSE TokenOutside(b)
-----------------------------------------------------------------------------
(* ssh_print_postscript: the loop over the rhs of a token.                 *)

(* "Is a new face?": the marks it grabs are reset; if the name of an       *)
(* encoding is over, it is looked for, and switched to or ignored.         *)
NewFace(t, f) ==
  IF t.fface = f THEN t
  ELSE LET done == t.grabbing /\ "Encoding" \notin f.flags
       IN [t EXCEPT !.fface = f,
             !.tag1 = IF "Tag1" \in f.flags THEN << >> ELSE @,
             !.grabbing = @ /\ ~done,
             !.name = IF done THEN << >> ELSE @,
             !.enc = IF done /\ t.name \in Names THEN t.name ELSE @]

Grabbed(t, string) ==
  [t EXCEPT !.tag1 = IF "Tag1" \in t.fface.flags THEN @ \o string ELSE @,
            !.grabbing = @ \/ "Encoding" \in t.fface.flags,
            !.name = IF "Encoding" \in t.fface.flags THEN @ \o string ELSE @]

Printed(t, string) ==
  IF "Invisible" \in t.fface.flags \/ string = << >> THEN t
  ELSE [t EXCEPT !.printed = Append(@, [string |-> string, face |-> t.fface.face, enc |-> t.enc])]

Give(k, t, d) ==
  LET string == IF d.string = Match THEN SubSeq(line, k.from + 1, k.to) ELSE d.string
  IN Printed(Grabbed(NewFace(t, d.face), string), string)

PrintToken(k) ==
  LET given[i \in 0 .. Len(k.rhs)] == IF i = 0 THEN k.lexer ELSE Give(k, given[i - 1], k.rhs[i])
  IN given[Len(k.rhs)]
-----------------------------------------------------------------------------
Fresh(t) == [t EXCEPT !.fface = Plain, !.grabbing = FALSE, !.name = << >>]

Init ==
  /\ s = [ sequence |-> 0, toPlain |-> FALSE, plain |-> Plain, curr |-> 0,
           fface |-> Plain, grabbing |-> FALSE, name |-> << >>, tag1 |-> << >>,
           enc |-> Requested, printed |-> << >>, tokens |-> << >> ]
  /\ twin = s
  /\ line = << >>
  /\ settled = FALSE /\ count = 0
  /\ pc = "between"

(* a2ps_open_input_session clears the marks; the encoding stays.           *)
StartFile ==
  /\ pc = "between" /\ pc' = "file"
  /\ s' = Fresh([s EXCEPT !.tag1 = << >>])
  /\ twin' = [s' EXCEPT !.sequence = 0, !.toPlain = FALSE, !.plain = Plain]
  /\ settled' = FALSE /\ count' = 0
  /\ UNCHANGED line

AtEndOfLine == s.curr >= Len(line)

NewLine(t) == [t EXCEPT !.curr = 0, !.printed = << >>, !.tokens = << >>]

(* ssh_get_token, at the end of a line, gets one more.                     *)
GetLine(l) ==
  /\ pc = "file" /\ AtEndOfLine /\ count < MaxLines
  /\ line' = l
  /\ count' = count + 1
  /\ s' = NewLine(s) /\ twin' = NewLine(twin)
  /\ UNCHANGED <<settled, pc>>

ReadToken ==
  /\ pc = "file" /\ ~AtEndOfLine
  /\ s' = PrintToken(GetToken(s))
  /\ twin' = PrintToken(GetToken(twin))
  /\ settled' = \/ settled \/ s.sequence > 0 \/ s'.sequence > 0 \/ s'.toPlain
                \/ line[s.curr + 1] \in Alpha1
  /\ UNCHANGED <<line, count, pc>>

(* "end of file: reset values"                                             *)
AtEnd(t) == [t EXCEPT !.sequence = 0, !.toPlain = FALSE]

EndOfFile ==
  /\ pc = "file" /\ AtEndOfLine /\ pc' = "between"
  /\ s' = NewLine(AtEnd(s))
  /\ line' = << >>
  /\ twin' = s'
  /\ UNCHANGED <<settled, count>>

Next == StartFile \/ (\E l \in Lines : GetLine(l)) \/ ReadToken \/ EndOfFile

Spec == Init /\ [][Next]_vars
-----------------------------------------------------------------------------
(* Properties.                                                             *)

TypeOK ==
  /\ {s, twin} \subseteq Lexer /\ s.curr <= Len(line)
  /\ line \in Lines \cup {<< >>}
  /\ settled \in BOOLEAN /\ count \in 0 .. MaxLines /\ pc \in {"between", "file"}

(* The tokens of a line follow each other without a hole or an overlap,    *)
(* whatever the sheet: every character is read once, in its place.         *)
TokensTile ==
  /\ \A i \in DOMAIN s.tokens :
       s.tokens[i][1] = (IF i = 1 THEN 0 ELSE s.tokens[i - 1][2]) /\ s.tokens[i][1] <= s.tokens[i][2]
  /\ s.tokens # << >> => Last(s.tokens)[2] = s.curr

(* Outside of the sequences the face of the plain text is Plain, or will   *)
(* be before the next token: the lexer leaves no face behind within a file *)
(* (return_to_plain).                                                      *)
PlainRestored == settled /\ pc = "file" =>
  s.sequence > 0 \/ s.toPlain \/ s.plain = Plain

(* "If this is a new file, it must not depend on the trailling parameters  *)
(* of the previous file" (ssh_get_token): it is printed as a program that  *)
(* begins with it would do.                                                *)
FilesIndependent == s.printed = twin.printed

(* But for the faces of its first plain characters, until a word, a        *)
(* keyword, an operator or a sequence is read: from there on nothing is    *)
(* left of the file before (for sheets whose sequences print in faces that *)
(* grab nothing: what follows them would be grabbed too).                  *)
SettledIndependent ==
  /\ s.tokens = twin.tokens /\ s.tag1 = twin.tag1 /\ s.sequence = twin.sequence
  /\ settled /\ pc = "file" =>
       /\ s.toPlain \/ s.sequence > 0 \/ s.plain = twin.plain
       /\ s.toPlain = twin.toPlain /\ s.fface = twin.fface
       /\ s.enc = twin.enc /\ s.name = twin.name

(* No text is printed between the name of an encoding and the switch to    *)
(* it, and no part of the name is left over for the next one.              *)
EncodingSwitched ==
  /\ s.grabbing => "Encoding" \in s.fface.flags
  /\ s.name # << >> => s.grabbing

(* Words that match where nothing is left to match, or nothing wanted.     *)
MatchEmpty(words) == \E i \in DOMAIN words.regexps : << >> \in words.regexps[i].matches

(* A token of no characters, read in the sequence q and leading to r.      *)
EmptyToken(q, r) ==
  \/ q = 0 /\ r = 0 /\ (MatchEmpty(Keywords) \/ MatchEmpty(Operators))
  \/ q = 0 /\ r > 0 /\ << >> \in Sequences[r].open.matches
  \/ q > 0 /\ r = q /\ MatchEmpty(Sequences[q].exceptions)
  \/ q > 0 /\ r = 0 /\ MatchEmpty(Sequences[q].close)

(* The sheets for which the reading of a line may never end: nothing       *)
(* refuses them, neither the parser nor the lexer.                         *)
Endless(q) ==
  IF q = 0 THEN MatchEmpty(Keywords) \/ MatchEmpty(Operators)
  ELSE \/ MatchEmpty(Sequences[q].exceptions)
       \/ << >> \in Sequences[q].open.matches /\ MatchEmpty(Sequences[q].close)

(* What is left to do where the lexer stands: to close, and then to open.  *)
Rank(q) == IF q = 0 THEN 1 ELSE IF MatchEmpty(Sequences[q].close) THEN 2 ELSE 0

(* A token advances in the line, unless what it matched is empty in the    *)
(* sheet; and then it closes or opens a sequence, each at most once before *)
(* the lexer advances, but where the sheet is endless (ssh_get_token).     *)
TokenAdvances ==
  pc = "file" /\ pc' = "file" /\ count' = count =>
    \/ s'.curr > s.curr
    \/ /\ s'.curr = s.curr /\ EmptyToken(s.sequence, s'.sequence)
       /\ Rank(s'.sequence) < Rank(s.sequence) \/ Endless(s.sequence) \/ Endless(s'.sequence)
=============================================================================
