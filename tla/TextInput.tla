----------------------------- MODULE TextInput -----------------------------
(***************************************************************************)
(* The lines of an input file (src/buffer.c) and their numbers, as the     *)
(* readers give them to the text engine (src/read.c, src/sshread.c).       *)
(*                                                                         *)
(* A buffer reads a string, a stream, or both: the standard input is first *)
(* sampled for file(1), then read from the sample and on from the stream.  *)
(***************************************************************************)
EXTENDS Integers, Sequences, FiniteSets

CONSTANTS
  Chars,      (* the characters that occur in the inputs                   *)
  Sources,    (* the kinds of buffers                                      *)
  Eols,       (* the end of line conventions                               *)
  SampleSize, (* SAMPLE_SIZE                                               *)
  MaxLength   (* bound of the model: characters in an input                *)

(* "a" stands for every ordinary character, "xff" for the character that   *)
(* is equal to EOF when it is read as a signed char.                       *)
AllChars   == {"a", "nl", "cr", "ff", "xff"}
AllSources == {"string", "stream", "stdin"}
AllEols    == {"r", "n", "rn", "nr", "auto"}

InputAssumption ==
  /\ Chars \subseteq AllChars /\ Sources \subseteq AllSources /\ Eols \subseteq AllEols
  /\ SampleSize \in Nat \ {0} /\ MaxLength \in Nat

VARIABLES
  input,   (* the whole input, which nothing changes                       *)
  source,  (* how it is read                                               *)
  buffer,  (* the struct buffer_s                                          *)
  pc,      (* where the reader is, see Pcs                                 *)
  lines,   (* history: the lines read                                      *)
  number,  (* file->lines                                                  *)
  shown,   (* "$l." in the latest title: the current line number           *)
  saved    (* the file written by buffer_save                              *)

vars == <<input, source, buffer, pc, lines, number, shown, saved>>

EOF == "EOF"

Pcs == {"opened",   \* the buffer is set, nothing was read
        "ready",    \* the next call is buffer_get
        "string",   \* in buffer_string_get_line
        "stream",   \* in buffer_stream_get_line
        "finish",   \* at the end of buffer_get
        "line",     \* the characters of the line are being printed
        "eof",      \* an empty line was read
        "saved"}    \* the buffer was saved instead of being read

Buffer == [ buf : Seq(AllChars), offset : Nat, stream : Seq(AllChars),
            eol : AllEols, line : Nat, content : Seq(AllChars), curr : Nat ]

Init ==
  /\ input \in UNION {[1 .. n -> Chars] : n \in 0 .. MaxLength}
  /\ source \in Sources
  /\ \E eol \in Eols :
       buffer = [ buf    |-> IF source = "string" THEN input ELSE << >>,
                  stream |-> IF source = "string" THEN << >> ELSE input,
                  offset |-> 0, eol |-> eol, line |-> 0, content |-> << >>,
                  curr   |-> 0 ]
  /\ pc = "opened"
  /\ lines = << >>
  /\ number = 1
  /\ shown = 0
  /\ saved = << >>
-----------------------------------------------------------------------------
(* buffer_sample_get, called for the standard input only.                  *)
SampleGet ==
  /\ pc = "opened" /\ source = "stdin"
  /\ LET n == IF Len(buffer.stream) < SampleSize THEN Len(buffer.stream) ELSE SampleSize
     IN buffer' = [buffer EXCEPT !.buf    = SubSeq(buffer.stream, 1, n),
                                 !.stream = SubSeq(@, n + 1, Len(@))]
  /\ pc' = "ready"
  /\ UNCHANGED <<input, source, lines, number, shown, saved>>

(* The other inputs are not sampled.                                       *)
OpenInput ==
  /\ pc = "opened" /\ source # "stdin"
  /\ pc' = "ready"
  /\ UNCHANGED <<input, source, buffer, lines, number, shown, saved>>

SavedContent(b) == b.buf \o b.stream

(* buffer_save, when the standard input is delegated.                      *)
Save ==
  /\ pc = "ready" /\ source = "stdin" /\ lines = << >> /\ buffer.line = 0
  /\ saved' = SavedContent(buffer)
  /\ pc' = "saved"
  /\ UNCHANGED <<input, source, buffer, lines, number, shown>>

(* Mutant: the conventions of one character do not tell \r from \n.        *)
EolLengthSingleAny(eol, c, d) ==
  CASE c = "nl" /\ d = "cr" /\ eol \in {"nr", "auto"} -> 2
    [] c = "cr" /\ d = "nl" /\ eol \in {"rn", "auto"} -> 2
    [] c \in {"nl", "cr"} /\ eol \in {"n", "r", "auto"} -> 1
    [] OTHER                                          -> 0

(* How many characters make an end of line, when c was read and d is next: *)
(* none, c, or both.  The code has the switch twice, for the string and    *)
(* for the stream.                                                         *)
EolLength(eol, c, d) ==
  CASE c = "nl" /\ d = "cr" /\ eol \in {"nr", "auto"} -> 2
    [] c = "cr" /\ d = "nl" /\ eol \in {"rn", "auto"} -> 2
    [] c = "nl" /\ eol \in {"n", "auto"}              -> 1
    [] c = "cr" /\ eol \in {"r", "auto"}              -> 1
    [] OTHER                                          -> 0

HasStream == source # "string"

(* buffer_get, up to the first line it calls for.                          *)
BeginGet ==
  /\ pc = "ready"
  /\ buffer' = [buffer EXCEPT !.content = << >>]
  /\ pc' = IF buffer.offset < Len(buffer.buf) THEN "string"
           ELSE IF HasStream THEN "stream" ELSE "finish"
  /\ UNCHANGED <<input, source, lines, number, shown, saved>>

(* bgetc: past the end, and for the character 0xff, the result is EOF.     *)
Bgetc(b, i) ==
  IF i < Len(b.buf) /\ b.buf[i + 1] # "xff" THEN b.buf[i + 1] ELSE EOF

(* One turn of the loop of buffer_string_get_line.                         *)
StringChar ==
  /\ pc = "string"
  /\ LET c == Bgetc(buffer, buffer.offset)
         n == EolLength(buffer.eol, c, Bgetc(buffer, buffer.offset + 1))
     IN IF c = EOF
        THEN /\ buffer' = [buffer EXCEPT !.offset = @ + 1]
             /\ pc' = IF HasStream THEN "stream" ELSE "finish"
        ELSE IF n = 0
        THEN /\ buffer' = [buffer EXCEPT !.offset = @ + 1, !.content = Append(@, c)]
             /\ UNCHANGED pc
        ELSE /\ buffer' = [buffer EXCEPT !.offset = @ + n, !.content = Append(@, "nl")]
             /\ pc' = "finish"
  /\ UNCHANGED <<input, source, lines, number, shown, saved>>

Sgetc(s, i) == IF i <= Len(s) THEN s[i] ELSE EOF

(* One turn of the loop of buffer_stream_get_line.                         *)
StreamChar ==
  /\ pc = "stream"
  /\ LET s == buffer.stream
         c == Sgetc(s, 1)
         n == EolLength(buffer.eol, c, Sgetc(s, 2))
     IN IF c = EOF
        THEN pc' = "finish" /\ UNCHANGED buffer
        ELSE IF n = 0
        THEN /\ buffer' = [buffer EXCEPT !.stream = Tail(@), !.content = Append(@, c)]
             /\ UNCHANGED pc
        ELSE /\ buffer' = [buffer EXCEPT !.stream = SubSeq(@, n + 1, Len(@)),
                                         !.content = Append(@, "nl")]
             /\ pc' = "finish"
  /\ UNCHANGED <<input, source, lines, number, shown, saved>>

(* "If the eol char is preceded by a \f, then just forget the eol."  The   *)
(* last character is not looked at.                                        *)
WithoutEol(s) ==
  IF Len(s) >= 2 /\ s[Len(s) - 1] = "ff" THEN SubSeq(s, 1, Len(s) - 1) ELSE s

(* file->lines = buffer->line, after the line was counted.                 *)
LineNumber(b) == b.line + 1

(* The end of buffer_get, and the readers: an empty line is the end of the *)
(* file, where ps_end_file ends the last virtual page.                     *)
FinishGet ==
  /\ pc = "finish"
  /\ LET s == WithoutEol(buffer.content)
     IN /\ buffer' = [buffer EXCEPT !.content = s, !.line = @ + 1, !.curr = 0]
        /\ IF s = << >> THEN pc' = "eof" /\ shown' = LineNumber(buffer) - 1 /\ UNCHANGED lines
           ELSE pc' = "line" /\ lines' = Append(lines, s) /\ UNCHANGED shown
  /\ number' = LineNumber(buffer)
  /\ UNCHANGED <<input, source, saved>>

(* Mutant: the number is set by the reader only.                           *)
CountedNever(c) == 0

Counted(c) == IF c = "nl" THEN 1 ELSE 0

(* ps_print_char, which may end the virtual page at a \f or a \n: it first *)
(* counts the line, and the title shows "lines - 1".                       *)
PrintChar ==
  /\ pc = "line"
  /\ IF buffer.curr = Len(buffer.content)
     THEN pc' = "ready" /\ UNCHANGED <<buffer, number, shown>>
     ELSE LET c == buffer.content[buffer.curr + 1]
          IN /\ buffer' = [buffer EXCEPT !.curr = @ + 1]
             /\ number' = number + Counted(c)
             /\ shown' = IF c \in {"ff", "nl"} THEN number' - 1 ELSE shown
             /\ UNCHANGED pc
  /\ UNCHANGED <<input, source, lines, saved>>

Finished == pc \in {"eof", "saved"} /\ UNCHANGED vars

Next ==
  \/ SampleGet
  \/ OpenInput
  \/ Save
  \/ BeginGet
  \/ StringChar
  \/ StreamChar
  \/ FinishGet
  \/ PrintChar
  \/ Finished

Spec == Init /\ [][Next]_vars
-----------------------------------------------------------------------------
(* Reference: the lines of the whole input.  A line runs to the first end  *)
(* of line, the longest one of its convention at that place.               *)
EolStrings ==
  [ r |-> {<<"cr">>}, n |-> {<<"nl">>}, rn |-> {<<"cr", "nl">>},
    nr |-> {<<"nl", "cr">>},
    auto |-> {<<"cr">>, <<"nl">>, <<"cr", "nl">>, <<"nl", "cr">>} ]

EolsAt(i) ==
  {t \in EolStrings[buffer.eol] :
     i + Len(t) - 1 <= Len(input) /\ SubSeq(input, i, i + Len(t) - 1) = t}

NextEol(i) ==
  CHOOSE e \in i .. Len(input) + 1 :
    /\ e = Len(input) + 1 \/ EolsAt(e) # {}
    /\ \A k \in i .. e - 1 : EolsAt(k) = {}

LongestEolAt(i) == CHOOSE t \in EolsAt(i) : \A u \in EolsAt(i) : Len(u) <= Len(t)

LinesFrom[i \in 1 .. Len(input) + 1] ==
  IF i > Len(input) THEN << >>
  ELSE LET e == NextEol(i)
           text == SubSeq(input, i, e - 1)
       IN IF e > Len(input) THEN <<text>>
          ELSE << IF text # << >> /\ text[Len(text)] = "ff" THEN text
                  ELSE Append(text, "nl") >> \o LinesFrom[e + Len(LongestEolAt(e))]

InputLines == LinesFrom[1]
-----------------------------------------------------------------------------
(* Properties.                                                             *)

TypeOK ==
  /\ input \in Seq(AllChars) /\ source \in AllSources
  /\ buffer \in Buffer
  /\ pc \in Pcs
  /\ lines \in Seq(Seq(AllChars)) /\ saved \in Seq(AllChars)
  /\ number \in Nat /\ shown \in Nat

(* buffer_get delivers the lines of the input, all of them and in order,   *)
(* under every end of line convention, whatever part of the input was      *)
(* sampled before: "The piece that has been extracted is taken as buf in   *)
(* BUFFER, so that we still can use it" (buffer_sample_get).  Not checked: *)
(* it does not hold, see the README.                                       *)
LinesRead == pc = "eof" => lines = InputLines

(* What the buffer holds in its string: the code loses the byte 0xff there *)
(* (bgetc), and an end of line that the end of the sample cuts in two.     *)
InString ==
  CASE source = "string" -> Len(input)
    [] source = "stream" -> 0
    [] source = "stdin"  -> IF Len(input) < SampleSize THEN Len(input) ELSE SampleSize

StringIsSound ==
  /\ "xff" \notin {input[i] : i \in 1 .. InString}
  /\ source = "stdin" /\ InString > 0 => \A t \in EolsAt(InString) : Len(t) = 1

(* But for that, every line is delivered as it stands in the input: a line *)
(* feed that follows a form feed is dropped "so that there won't be a      *)
(* blank line at the top of the next page", and nothing else is, from any  *)
(* line except a last one where a character follows a form feed.           *)
LinesIntact ==
  pc = "eof" /\ StringIsSound =>
    /\ Len(lines) = Len(InputLines)
    /\ \A i \in DOMAIN lines :
         i < Len(lines) \/ WithoutEol(InputLines[i]) = InputLines[i] => lines[i] = InputLines[i]

(* When the standard input is delegated, the application reads all of it.  *)
SavedWhole == pc = "saved" => saved = input

(* "$l." (current line number) in the title of a virtual page is the       *)
(* number of the line of the input where the page ends, when it ends with  *)
(* that line or with the file: psgen.c counts the line first, buffer_get   *)
(* set the number when it read the line.                                   *)
EndsPage ==
  \/ /\ pc = "line" /\ buffer'.curr > buffer.curr
     /\ buffer.content[buffer'.curr] = "nl"
     /\ \A k \in 1 .. buffer.curr : buffer.content[k] # "nl"
  \/ pc = "finish" /\ pc' = "eof"

CurrentLine == [][EndsPage => shown' = Len(lines)]_vars
=============================================================================
