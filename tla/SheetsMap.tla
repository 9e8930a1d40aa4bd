------------------------------ MODULE SheetsMap ------------------------------
(***************************************************************************)
(* sheets.map: the file that says which style sheet is for which file.     *)
(* The scanner (sheets-map.l) follows the inclusions with a stack of its   *)
(* own, and select.c keeps the rules and looks for the one that applies.   *)
(***************************************************************************)
EXTENDS Integers, Sequences, FiniteSets, FiniteSetsExt, SequencesExt

CONSTANTS
  Depth,       (* MAX_INCLUDE_DEPTH                                        *)
  LowerCase    (* the lower case form of a file name                       *)

VARIABLES
  files,    (* what the scanner finds in each file that can be opened      *)
  rules,    (* sheets_map                                                  *)
  include,  (* the file being read and those that include it, with places  *)
  key,      (* the last key read: it outlives the file that defines it     *)
  scan      (* "idle", "reading", "exit"                                   *)

mapVars == <<files, rules, include, key, scan>>

Main == "sheets.map"
NoKey == "no_key"

(* What the scanner can find in the files.                                 *)
Written(map) ==
  \A f \in DOMAIN map :
    /\ map[f] \in Seq(ToSet(map[f]))
    /\ \A i \in DOMAIN map[f] : map[f][i].is = "key" => map[f][i].key # NoKey

MapInit ==
  /\ rules = << >> /\ include = << >> /\ key = NoKey /\ scan = "idle"

At == Last(include)
Token == files[At.file][At.place]
Reading == scan = "reading" /\ include # << >>
Advanced == [include EXCEPT ![Len(include)].place = @ + 1]

(* sheets_map_load: the system's map is opened.                            *)
Open ==
  /\ scan = "idle" /\ Main \in DOMAIN files
  /\ include' = <<[file |-> Main, place |-> 1]>> /\ key' = NoKey /\ scan' = "reading"
  /\ UNCHANGED <<files, rules>>

MoreTokens == Reading /\ At.place <= Len(files[At.file])

ReadKey ==
  /\ MoreTokens /\ Token.is = "key"
  /\ key' = Token.key /\ include' = Advanced
  /\ UNCHANGED <<files, rules, scan>>

(* Mutant: the rule takes the key that its own file defines, if any.       *)
KeyInFile ==
  LET K == {i \in 1 .. At.place : files[At.file][i].is = "key"}
  IN IF K = {} THEN NoKey ELSE files[At.file][Max(K)].key

(* The key of the rule that is read.                                       *)
KeyOfRule == key

(* The rule that sheets_map_add keeps.                                     *)
RuleOf(tok, command) ==
  [on |-> tok.is, pattern |-> tok.pattern, insensitive |-> tok.insensitive, command |-> command]

(* sheets_map_add, or the end of the program when there is no key yet.     *)
ReadRule ==
  /\ MoreTokens /\ Token.is \in {"name", "file"}
  /\ IF KeyOfRule = NoKey THEN scan' = "exit" /\ UNCHANGED <<rules, include>>
     ELSE /\ rules' = Append(rules, RuleOf(Token, KeyOfRule))
          /\ include' = Advanced /\ UNCHANGED scan
  /\ UNCHANGED <<files, key>>

(* include_stack_ptr >= MAX_INCLUDE_DEPTH                                  *)
TooDeep == Len(include) - 1 >= Depth

(* yy_include_push: too many inclusions, or a file that cannot be opened   *)
(* (xrfopen), end the program.                                             *)
IncludePush ==
  /\ MoreTokens /\ Token.is = "include"
  /\ IF TooDeep \/ Token.file \notin DOMAIN files
     THEN scan' = "exit" /\ UNCHANGED include
     ELSE include' = Append(Advanced, [file |-> Token.file, place |-> 1]) /\ UNCHANGED scan
  /\ UNCHANGED <<files, rules, key>>

(* An unexpected character, or the end of a line inside a pattern.         *)
ReadError ==
  /\ MoreTokens /\ Token.is = "error"
  /\ scan' = "exit"
  /\ UNCHANGED <<files, rules, include, key>>

(* <<EOF>>: back to the file that includes this one, if any.               *)
IncludePop ==
  /\ Reading /\ At.place > Len(files[At.file])
  /\ include' = Front(include)
  /\ scan' = IF Len(include) = 1 THEN "idle" ELSE "reading"
  /\ UNCHANGED <<files, rules, key>>

Scan == ReadKey \/ ReadRule \/ IncludePush \/ ReadError \/ IncludePop
-----------------------------------------------------------------------------
(* get_command.  A verdict is None when file(1) cannot be run.             *)

None == "none"

Applies(rule, name, verdict) ==
  IF rule.on = "file" THEN verdict # None /\ verdict \in rule.pattern
  ELSE (IF rule.insensitive THEN LowerCase[name] ELSE name) \in rule.pattern

(* Mutant: the first rule that applies.                                    *)
GetCommandFirst(name, verdict) ==
  LET S == {i \in DOMAIN rules : Applies(rules[i], name, verdict)}
  IN IF S = {} THEN "plain" ELSE rules[Min(S)].command

(* "We look from bottom up, so that most recently defined rules are        *)
(* honored."                                                               *)
GetCommand(name, verdict) ==
  LET S == {i \in DOMAIN rules : Applies(rules[i], name, verdict)}
  IN IF S = {} THEN "plain" ELSE rules[Max(S)].command
-----------------------------------------------------------------------------
(* What the map means, without a stack: the tokens of a file with each     *)
(* inclusion replaced by the tokens of the file, down to a depth.          *)

Spliced(tok, deeper) ==
  IF tok.is # "include" THEN <<tok>>
  ELSE IF tok.file \in DOMAIN deeper THEN deeper[tok.file] ELSE <<[is |-> "error"]>>

Pieces(toks, deeper) == [i \in DOMAIN toks |-> Spliced(toks[i], deeper)]

Expansions(map) ==
  LET at[d \in 0 .. Depth] ==
        LET deeper == IF d = 0 THEN << >> ELSE at[d - 1]
        IN [f \in DOMAIN map |-> FlattenSeq(Pieces(map[f], deeper))]
  IN at

Expansion(map) == Expansions(map)[Depth][Main]

KeysBefore(toks, i) == {j \in 1 .. i : toks[j].is = "key"}
RulesIn(toks) == {i \in DOMAIN toks : toks[i].is \in {"name", "file"}}

(* Errors, and rules before any key.                                       *)
WrongIn(toks) ==
  {i \in DOMAIN toks : toks[i].is = "error"}
  \cup {i \in RulesIn(toks) : KeysBefore(toks, i) = {}}

(* The n-th of the rules, and what it says: with the last key before it.   *)
Nth(S, n) == CHOOSE i \in S : Cardinality({j \in S : j <= i}) = n
RuleAt(toks, i) == RuleOf(toks[i], toks[Max(KeysBefore(toks, i))].key)

(* The rules of the tokens up to the first that is wrong.                  *)
Valid(toks) == {i \in RulesIn(toks) : \A j \in WrongIn(toks) : i < j}
Meant(toks) == [n \in 1 .. Cardinality(Valid(toks)) |-> RuleAt(toks, Nth(RulesIn(toks), n))]
Sound(toks) == WrongIn(toks) = {}

(* What is read so far is the beginning of what the map means, all of it   *)
(* when the scanner is done; it gives up exactly when the map is wrong.    *)
(* Keys cross the bounds of files in both directions.                      *)
MapAsWritten ==
  Main \in DOMAIN files =>
    /\ IsPrefix(rules, Meant(Expansion(files)))
    /\ scan = "exit" => ~Sound(Expansion(files)) /\ rules = Meant(Expansion(files))
    /\ scan = "idle" /\ rules # << >> => Sound(Expansion(files)) /\ rules = Meant(Expansion(files))

(* The stack of inclusions stays within its array.                         *)
StackBounded == Len(include) - 1 <= Depth
=============================================================================
