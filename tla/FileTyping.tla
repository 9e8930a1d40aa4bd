----------------------------- MODULE FileTyping -----------------------------
(***************************************************************************)
(* What is done of each file of the command line (generate.c): it is       *)
(* opened, typed by sheets.map and by file(1), or by the style asked for,  *)
(* and then printed with a sheet, as plain text, by an application, or not *)
(* at all.  The sheets are loaded by StyleSheets, the map by SheetsMap.    *)
(***************************************************************************)
EXTENDS StyleSheets

CONSTANTS
  Scenarios,    (* the sheets, the map and the files of a session          *)
  Depth,        (* MAX_INCLUDE_DEPTH                                       *)
  LowerCase,    (* the lower case form of a file name                      *)
  Contracts,    (* the types that an application is configured for         *)
  PrintBinaries (* job->print_binaries                                     *)

VARIABLES
  files, rules, include, key, scan,  (* of SheetsMap                       *)
  input,    (* the files of the command line                               *)
  style_request, (* the key asked for on the command line, or None         *)
  sample,   (* what file(1) would say of the file sample_tmpname:          *)
            (* "null" when it has no name, "removed" when it is unlinked   *)
  current,  (* the file being dealt with: its place and its state          *)
  type,     (* file_job->type, once known                                  *)
  done      (* history: what was done of each file                         *)

M == INSTANCE SheetsMap

(* The parser gives lists, and no sheet names a mix among its ancestors:   *)
(* strtok, which cuts the mixes, forgets the outer one (see the README).   *)
IsList(list) == list \in Seq(ToSet(list))
Parsed(sheets) ==
  \A n \in DOMAIN sheets :
    /\ IsList(sheets[n])
    /\ \A def \in ToSet(sheets[n]) : def.kind = "ancestors" =>
         IsList(def.list) /\ \A name \in ToSet(def.list) : IsList(name) /\ Len(name) = 1

ASSUME FileTypingAssumption ==
  /\ Depth \in Nat
  /\ \A s \in Scenarios :
       M!Written(s.map) /\ Parsed(s.lib) /\ IsList(s.input) /\ IsList(s.style)

mapVars  == <<files, rules, include, key, scan>>
fileVars == <<input, style_request, sample, current, type, done>>
allVars  == <<vars, mapVars, fileVars>>

TypingInit ==
  /\ Init /\ M!MapInit
  /\ \E s \in Scenarios : lib = s.lib /\ files = s.map /\ input = s.input
                         /\ style_request = s.style
  /\ sample = "null" /\ current = [i |-> 1, at |-> "open"] /\ type = None /\ done = << >>

File == input[current.i]
At(state) == scan # "exit" /\ current.i <= Len(input) /\ current.at = state
Step(state) == current' = [current EXCEPT !.at = state]

(* file_job->printable: no directory, opened, and stat says its date.      *)
Printable(file) == file.is \in {"stdin", "regular"}

(* input_new: the standard input is saved in a sample, under the name that *)
(* sample_tmpname has kept if there is one.                                *)
InputNew ==
  /\ At("open")
  /\ sample' = IF File.is = "stdin" THEN File.content ELSE sample
  /\ IF ~Printable(File) THEN type' = <<"UNPRINTABLE">> /\ Step("typed")
     ELSE IF style_request # None THEN type' = style_request /\ Step("typed")
     ELSE UNCHANGED type /\ Step("load")
  /\ UNCHANGED <<vars, mapVars, input, style_request, done>>

(* get_command reads the map if it has no rule yet.                        *)
LoadMap ==
  /\ At("load") /\ rules = << >> /\ M!Open
  /\ Step("loading")
  /\ UNCHANGED <<vars, input, style_request, sample, type, done>>

ScanMap ==
  /\ At("loading") /\ M!Scan
  /\ UNCHANGED <<vars, fileVars>>

(* The map was there, or it is read, or "automatic style selection         *)
(* cancelled".                                                             *)
MapReady ==
  \/ At("load") /\ (rules # << >> \/ M!Main \notin DOMAIN files)
  \/ At("loading") /\ scan = "idle"

(* What file(1) is asked about: the sample as soon as it has a name.       *)
FiledContent == IF sample # "null" THEN sample ELSE File.content

GetCommand ==
  /\ MapReady
  /\ type' = <<M!GetCommand(File.name, FiledContent)>>
  /\ Step("typed")
  /\ UNCHANGED <<vars, mapVars, input, style_request, sample, done>>

(* The sample is removed at the end of input_new, whatever the file.       *)
Removed == sample' = IF sample = "null" THEN "null" ELSE "removed"

(* string_to_style_kind, and the choices of print before the sheet is      *)
(* looked for.                                                             *)
Kind ==
  IF \E c \in Contracts : type = <<c>> THEN "delegate"
  ELSE IF type = <<"UNPRINTABLE">> THEN "ignored"
  ELSE IF type = <<"binary">> THEN (IF PrintBinaries THEN "plain" ELSE "ignored")
  ELSE IF type = Plain \/ Highlight = 0 THEN "plain"
  ELSE "sheet"

Record(how) == done' = Append(done, [type |-> type, how |-> how])

(* input_end                                                               *)
NextFile == current' = [i |-> current.i + 1, at |-> "open"] /\ type' = None

(* An application, plain_print_postscript, or nothing.                     *)
PrintDirectly ==
  /\ At("typed") /\ Kind # "sheet"
  /\ \E how \in IF Kind = "delegate" THEN {"delegated", "failed"} ELSE {Kind} : Record(how)
  /\ NextFile /\ Removed
  /\ UNCHANGED <<vars, mapVars, input, style_request>>

(* get_style_sheet                                                         *)
AskSheet ==
  /\ At("typed") /\ Kind = "sheet"
  /\ RequestFor(type)
  /\ Step("sheet") /\ Removed
  /\ UNCHANGED <<mapVars, input, style_request, type, done>>

LoadSheet ==
  /\ At("sheet") \/ input = << >>
  /\ Loader
  /\ UNCHANGED <<mapVars, fileVars>>

(* ssh_print_postscript, or plain_print_postscript when there is no sheet. *)
PrintWithSheet ==
  /\ At("sheet") /\ Answer
  /\ Record(IF call.key = None THEN "plain" ELSE "sheet")
  /\ NextFile
  /\ UNCHANGED <<mapVars, input, style_request, sample>>

(* --list instead of files.                                                *)
ListSheets ==
  /\ input = << >>
  /\ List \/ ListNext \/ ListTake
  /\ UNCHANGED <<mapVars, fileVars>>

TypingNext ==
  \/ InputNew \/ LoadMap \/ ScanMap \/ GetCommand \/ PrintDirectly
  \/ AskSheet \/ LoadSheet \/ PrintWithSheet \/ ListSheets

TypingSpec == TypingInit /\ [][TypingNext]_allVars /\ WF_allVars(TypingNext)
-----------------------------------------------------------------------------
(* Properties.                                                             *)

TypingTypeOK ==
  /\ TypeOK
  /\ scan \in {"idle", "reading", "exit"} /\ \A i \in DOMAIN rules : rules[i].command # M!NoKey
  /\ current.i \in 1 .. Len(input) + 1 /\ Len(done) = current.i - 1
  /\ current.at \in {"open", "load", "loading", "typed", "sheet"}
  /\ current.at = "loading" => rules = << >> \/ scan # "idle" \/ include = << >>

(* The map means what its text means once its inclusions are in place, and *)
(* they are nested at most Depth deep (SheetsMap).                         *)
MapAsWritten == M!MapAsWritten /\ M!StackBounded

(* The type of a file that is printed alone: the last of the rules written *)
(* in the map and in what it includes that applies to its name or to what  *)
(* file(1) says of it.                                                     *)
TypeAlone(file) ==
  IF ~Printable(file) THEN <<"UNPRINTABLE">>
  ELSE IF style_request # None THEN style_request
  ELSE IF M!Main \notin DOMAIN files THEN Plain
  ELSE LET meant == M!Meant(M!Expansion(files))
           S == {i \in DOMAIN meant : M!Applies(meant[i], file.name, file.content)}
       IN IF S = {} THEN Plain ELSE <<meant[Max(S)].command>>

(* A file is typed by its own name and content, whatever files come before *)
(* it: all but the standard input leave nothing behind.                    *)
TypedAlone ==
  \A i \in DOMAIN done :
    (\A j \in 1 .. i - 1 : input[j].is # "stdin") => done[i].type = TypeAlone(input[i])

(* A file is printed with a sheet only if the sheet of its type is loaded, *)
(* and as plain text, though its type is another, only if there is none,   *)
(* or no highlighting is wanted.                                           *)
PrintedAsTyped ==
  \A i \in DOMAIN done :
    /\ done[i].how = "sheet" => done[i].type \in Stored
    /\ done[i].how = "plain" => IF done[i].type = <<"binary">> THEN PrintBinaries
                                ELSE Highlight = 0 \/ ToSet(done[i].type) \cap DOMAIN lib = {}
    /\ done[i].how = "ignored" => done[i].type \in {<<"UNPRINTABLE">>, <<"binary">>}

(* Every file has its turn, whatever happens to the others, unless the     *)
(* program exits on an error.                                              *)
Stopped == scan = "exit" \/ call.op \in {"exit", "crash"}
FilesEnd == <>(Stopped \/ (current.i > Len(input) /\ stack = << >>))

(* "Get file(1)'s verdict": the verdict is about the file being printed.   *)
(* Not checked: it does not hold, see the README.                          *)
VerdictOfOwnFile ==
  \A i \in DOMAIN done : done[i].type = TypeAlone(input[i])

(* A sheet has the words of its ancestors but for those it defines itself, *)
(* and the syntax of the last of them unless it gives its own; it is read  *)
(* with its own alphabet.                                                  *)
Inheritance == OwnWins /\ InheritsWords /\ SyntaxFollows /\ SyntaxInherited

(* A sheet is ready when it is used: its index covers its words, every     *)
(* word has a face, doubles were reported, and its file was read once.     *)
SheetsReady ==
  /\ TypingTypeOK
  /\ IndexCovers
  /\ EveryFaced
  /\ DoublesReported
  /\ ParsedOnce

(* A file is typed as if it came alone, and printed as it was typed.       *)
TypedAndPrinted == TypedAlone /\ PrintedAsTyped
=============================================================================
