------------------------------ MODULE Library ------------------------------
(***************************************************************************)
(* output_file (liba2ps/output.c): the reading of the PostScript files of  *)
(* the library.  A file may include others, and its setup sections are     *)
(* diverted to the setup of the document.  The calls of output_file are a  *)
(* stack, one record for each file being read.                             *)
(***************************************************************************)
EXTENDS Integers, Sequences, FiniteSets, SequencesExt

CONSTANTS
  Files,    (* the files of the library                                    *)
  Prologue, (* job->prolog, the file that output_prolog reads              *)
  Length    (* bound of the model: lines of a file                         *)

(* %%BeginSetup, %%EndSetup, %%IncludeResource: file f, and all the others.*)
Lines == {"BeginSetup", "EndSetup", "text"} \cup Files

ASSUME LibraryAssumption ==
  /\ Prologue \in Files /\ Length \in Nat
  /\ Files \cap {"BeginSetup", "EndSetup", "text"} = {}

VARIABLES
  lines,  (* what the files contain                                        *)
  stack,  (* the calls: file, line number, out and dest                    *)
  needed, (* the files among the needed resources                          *)
  wrote,  (* for "main" and "setup", the lines written                     *)
  result  (* "reading", "done" or one of the two errors                    *)

vars == <<lines, stack, needed, wrote, result>>

Errors == {"incoherence", "no matching EndSetup"}

Call(f, out) == [file |-> f, line |-> 1, out |-> out, dest |-> out]

Top      == Last(stack)
Line     == lines[Top.file][Top.line]
AtEnd    == Top.line > Len(lines[Top.file])
Below    == Front(stack)
Advanced == [Top EXCEPT !.line = @ + 1]
Reading  == result = "reading"

MaxDepth == Cardinality(Files) + 1  \* bound of the model: of the recursion

Init ==
  /\ lines \in [Files -> BoundedSeq(Lines, Length)]
  /\ stack = <<Call(Prologue, "main")>>
  /\ needed = {}
  /\ wrote = [d \in {"main", "setup"} |-> <<>>]
  /\ result = "reading"

(* A line of the code goes where dest says.                                *)
Text ==
  /\ Reading /\ ~AtEnd /\ Line = "text"
  /\ wrote' = [wrote EXCEPT ![Top.dest] = Append(@, <<Top.file, Top.line>>)]
  /\ stack' = Append(Below, Advanced)
  /\ UNCHANGED <<lines, needed, result>>

(* Mutant: what is included in a setup section is not looked for.          *)
IsNewInSetup(f) == Top.dest = "setup" \/ f \notin needed

(* exist_resource                                                          *)
IsNew(f) == f \notin needed

(* The included file is written where this line would be.                  *)
Include ==
  /\ Reading /\ ~AtEnd /\ Line \in Files
  /\ IF IsNew(Line)
     THEN /\ needed' = needed \cup {Line}
          /\ stack' = Below \o <<Advanced, Call(Line, Top.dest)>>
     ELSE stack' = Append(Below, Advanced) /\ UNCHANGED needed
  /\ Len(stack') <= MaxDepth
  /\ UNCHANGED <<lines, wrote, result>>

BeginSetup ==
  /\ Reading /\ ~AtEnd /\ Line = "BeginSetup"
  /\ stack' = Append(Below, [Advanced EXCEPT !.dest = "setup"])
  /\ UNCHANGED <<lines, needed, wrote, result>>

(* Mutant: the section goes on.                                            *)
AfterSetupSame == Top.dest

(* The destination after %%EndSetup.                                       *)
AfterSetup == Top.out

EndSetup ==
  /\ Reading /\ ~AtEnd /\ Line = "EndSetup"
  /\ IF Top.dest = Top.out
     THEN result' = "incoherence" /\ UNCHANGED stack
     ELSE /\ stack' = Append(Below, [Advanced EXCEPT !.dest = AfterSetup])
          /\ UNCHANGED result
  /\ UNCHANGED <<lines, needed, wrote>>

EndOfFile ==
  /\ Reading /\ AtEnd
  /\ IF Top.dest # Top.out
     THEN result' = "no matching EndSetup" /\ UNCHANGED stack
     ELSE /\ stack' = Below
          /\ result' = IF Below = <<>> THEN "done" ELSE result
  /\ UNCHANGED <<lines, needed, wrote>>

(* Nothing more is read after the end, an error or a stack overflow.       *)
Finished == (Reading => Len(stack) = MaxDepth) /\ UNCHANGED vars

Next == Text \/ Include \/ BeginSetup \/ EndSetup \/ EndOfFile \/ Finished

Spec     == Init /\ [][Next]_vars
FairSpec == Spec /\ WF_vars(Next)
-----------------------------------------------------------------------------
(* A call is made for a file that was not needed before: that bounds the   *)
(* depth of the recursion.                                                 *)
TypeOK ==
  /\ Len(stack) <= Cardinality(needed) + 1
  /\ lines \in [Files -> BoundedSeq(Lines, Length)]
  /\ needed \subseteq Files
  /\ result \in {"reading", "done"} \cup Errors
  /\ \A i \in DOMAIN stack :
       stack[i].file \in Files /\ {stack[i].out, stack[i].dest} \subseteq {"main", "setup"}

(* Is the n-th line of f in a section that is open in f itself?            *)
InSection(f, n) ==
  \E i \in 1 .. n - 1 :
    lines[f][i] = "BeginSetup" /\ \A j \in i .. n - 1 : lines[f][j] # "EndSetup"

(* Every %%BeginSetup of f is followed by one %%EndSetup.                  *)
Matched(f) ==
  /\ ~InSection(f, Len(lines[f]) + 1)
  /\ \A i \in DOMAIN lines[f] : lines[f][i] = "EndSetup" => InSection(f, i)

(* "We want to include a file only once" (output.c:330): no line of a file *)
(* that another includes, even in a circle, is written twice.              *)
IncludedOnce ==
  \A d, e \in DOMAIN wrote : \A i \in DOMAIN wrote[d], j \in DOMAIN wrote[e] :
    wrote[d][i] = wrote[e][j] /\ wrote[d][i][1] # Prologue => d = e /\ i = j

(* The same of the prologue, that nothing records. Not checked: it does    *)
(* not hold, see the README.                                               *)
PrologueOnce ==
  Len(SelectSeq(wrote["main"] \o wrote["setup"], LAMBDA l : l = <<Prologue, 1>>)) <= 1

(* What is in a setup section is diverted to the setup of the document, in *)
(* the file that has the section and in those that are included there.     *)
SetupDiverted ==
  /\ \A i \in DOMAIN wrote["main"] : ~InSection(wrote["main"][i][1], wrote["main"][i][2])
  /\ \A i \in DOMAIN stack : i > 1 => stack[i].out = stack[i - 1].dest
  /\ Reading => (Top.dest = "setup"
                  <=> \E i \in DOMAIN stack : InSection(stack[i].file, stack[i].line))

(* The errors are those of the files: one that has the section of another  *)
(* open is told so, and matched sections are accepted. Not checked: it     *)
(* does not hold, see the README.                                          *)
ErrorsReported ==
  /\ result \in Errors => ~Matched(Top.file)
  /\ result = "done" => \A f \in needed \cup {Prologue} : Matched(f)

(* The reading comes to an end, whatever the files include.                *)
ReadingEnds == <>(result # "reading")
=============================================================================
