----------------------------- MODULE StyleSheets -----------------------------
(***************************************************************************)
(* Loading the style sheets: what the parser (parsessh.y) builds from a    *)
(* file, what a sheet inherits from its ancestors (ssheet.c), the sheets   *)
(* made on the fly of several others, and the table of the sheets loaded.  *)
(* get_style_sheet calls itself for the ancestors: its calls are a stack.  *)
(***************************************************************************)
EXTENDS Naturals, Sequences, FiniteSets, SequencesExt, FiniteSetsExt

CONSTANTS
  WordCount,    (* the words are 1 .. WordCount, in the order of strcmp    *)
  Initial,      (* the first letter of each word                           *)
  Upper,        (* the words that have an upper case letter                *)
  Names,        (* the names of sheets, without "plain"                    *)
  Libraries,    (* the possible contents of the directory of the sheets    *)
  Requests,     (* the keys that the user asks for                         *)
  Highlight,    (* highlight_level                                         *)
  Strip,        (* strip_level                                             *)
  Version,      (* the version of a2ps                                     *)
  MaxRequests,  (* bound of the model: the requests of a session           *)
  MaxDepth      (* bound of the model: the calls that are nested           *)

Words == 1 .. WordCount

ASSUME StyleSheetsAssumption ==
  /\ WordCount \in Nat /\ Initial \in [Words -> Nat] /\ Upper \subseteq Words
  /\ \A v, w \in Words : v < w => Initial[v] <= Initial[w]
  /\ Highlight \in 0 .. 2 /\ Strip \in 0 .. 3 /\ MaxRequests \in Nat /\ MaxDepth \in Nat
  /\ "plain" \notin Names /\ \A lib \in Libraries : DOMAIN lib \subseteq Names

A == INSTANCE SortedArrays

(* A key is a list of names: several of them ask for a mixed sheet.        *)
Plain == <<"plain">>
None  == << >>     \* the null pointer
Undefined == "undefined"

VARIABLES
  lib,      (* the files: what the parser reads in each                    *)
  table,    (* style_sheets, the sheets loaded, by key                     *)
  stack,    (* the calls of get_style_sheet that are not finished          *)
  call,     (* what the innermost call is doing                            *)
  tok,      (* the static pointer of strtok                                *)
  syntax,   (* re_syntax_table: the key of the sheet whose alpha1 it is    *)
  parsed,   (* history: how often each file was parsed                     *)
  asked     (* history: the requests answered                              *)

vars == <<lib, table, stack, call, tok, syntax, parsed, asked>>
-----------------------------------------------------------------------------
(* Flagged faces.                                                          *)

NoFace == [face |-> "No_face", flags |-> {}]
PlainFace == [face |-> "Plain", flags |-> {}]

(* "(face + flags)": the last face named, all the flags, and Invisible     *)
(* when no face is named.  Comments are made invisible by --strip-level.   *)
FaceAtom(atom) ==
  IF \/ atom = "Comment" /\ Strip \in {1, 3}
     \/ atom = "Comment_strong" /\ Strip \in {2, 3}
  THEN [flag |-> "Invisible"] ELSE [face |-> atom]

FFace(atoms) ==
  LET read  == [i \in DOMAIN atoms |->
                  IF atoms[i] \in {"Tag1", "Encoding", "Invisible"}
                  THEN [flag |-> atoms[i]] ELSE FaceAtom(atoms[i])]
      faces == {i \in DOMAIN read : "face" \in DOMAIN read[i]}
      flags == {read[i].flag : i \in DOMAIN read \ faces}
  IN IF faces = {} THEN [face |-> "No_face", flags |-> flags \cup {"Invisible"}]
     ELSE [face |-> read[Max(faces)].face, flags |-> flags]

(* A rule: a word or a regular expression, and the faces of its right hand *)
(* side.                                                                   *)
SetNoFace(rule, face) ==
  [rule EXCEPT !.rhs = [i \in DOMAIN @ |-> IF @[i] = NoFace THEN face ELSE @[i]]]

WordsSetNoFace(rules, face) == [i \in DOMAIN rules |-> SetNoFace(rules[i], face)]

IsString(rule) == ~rule.regex
Strings(rules) == SelectSeq(rules, IsString)
Regexps(rules) == SelectSeq(rules, LAMBDA rule : rule.regex)
-----------------------------------------------------------------------------
(* The parser.  A file is a list of definitions.                           *)

Version0 == <<0, 0, 0>>

NewStyleSheet ==
  [ key |-> None, ancestors |-> << >>, sensitiveness |-> Undefined,
    alpha1 |-> Undefined, alpha2 |-> Undefined,
    version |-> Version0, requirement |-> Version0,
    keywords |-> [strings |-> << >>, regexps |-> << >>, index |-> << >>],
    operators |-> [strings |-> << >>, regexps |-> << >>, index |-> << >>],
    sequences |-> << >>, sane |-> TRUE ]

(* version_cmp: the numbers compared from the first.                       *)
VersionLess(v, w) ==
  \E i \in 1 .. 3 : v[i] < w[i] /\ \A j \in 1 .. i - 1 : v[j] = w[j]

(* keywords_def and operators_def: the face of the block, else Plain.      *)
Block(def) ==
  WordsSetNoFace(IF def.face = NoFace THEN def.rules
                 ELSE WordsSetNoFace(def.rules, def.face), PlainFace)

(* words_merge_rules_unique                                                *)
MergeRules(words, rules) ==
  [words EXCEPT !.regexps = @ \o Regexps(rules),
                !.strings = A!Merged(@, A!Sorted(Strings(rules)), "da_2_wins")]

(* words_finalize: the strings sorted, and for each first letter the       *)
(* places of its first and last strings, 0 if there are none.              *)
Index(strings) ==
  [c \in {Initial[w] : w \in Words} |->
     LET S == {i \in DOMAIN strings : Initial[strings[i].word] = c}
     IN IF S = {} THEN <<0, 0>> ELSE <<Min(S), Max(S)>>]

(* Mutant: the index is built before the strings are sorted.               *)
WordsFinalizeLate(words) ==
  [words EXCEPT !.strings = A!Sorted(@), !.index = Index(words.strings)]

WordsFinalize(words) ==
  LET sorted == A!Sorted(words.strings)
  IN [words EXCEPT !.strings = sorted, !.index = Index(sorted)]

NewWords(rules) ==
  WordsFinalize([strings |-> Strings(rules), regexps |-> Regexps(rules), index |-> << >>])

(* sequence_new, closers_opt and exception_def_opt: without closers, a     *)
(* sequence goes to the end of the line.  new_C_string_sequence gives what *)
(* a definition whose words have all their faces gives.                    *)
SequenceNew(def, newline) ==
  LET closers == IF def.close = << >> THEN <<newline>> ELSE def.close
  IN [ open  |-> SetNoFace(def.open, def.face), face |-> def.face,
       close |-> NewWords(WordsSetNoFace(closers, def.face)),
       exceptions |-> NewWords(WordsSetNoFace(def.exceptions, def.face)) ]

NewLine == [word |-> WordCount, regex |-> FALSE, rhs |-> <<NoFace>>]

(* The optional definitions are kept at the highest level only.            *)
Kept(def) == ~def.optional \/ Highlight = 2

Defined(sheet, def) ==
  CASE def.kind = "keywords" /\ Kept(def) ->
         [sheet EXCEPT !.keywords = MergeRules(@, Block(def))]
    [] def.kind = "operators" /\ Kept(def) ->
         [sheet EXCEPT !.operators = MergeRules(@, Block(def))]
    [] def.kind = "sequences" /\ Kept(def) ->
         [sheet EXCEPT !.sequences =
            @ \o [i \in DOMAIN def.list |-> SequenceNew(def.list[i], NewLine)]]
    [] def.kind = "ancestors" -> [sheet EXCEPT !.ancestors = @ \o def.list]
    [] def.kind = "alphabets" -> [sheet EXCEPT !.alpha1 = def.value, !.alpha2 = def.value]
    [] def.kind = "first"     -> [sheet EXCEPT !.alpha1 = def.value]
    [] def.kind = "second"    -> [sheet EXCEPT !.alpha2 = def.value]
    [] def.kind = "case"      -> [sheet EXCEPT !.sensitiveness = def.value]
    [] def.kind = "version"   -> [sheet EXCEPT !.version = def.value]
    [] def.kind = "requires"  -> [sheet EXCEPT !.requirement = def.value]
    [] OTHER -> sheet

(* parse_style_sheet                                                       *)
ParseStyleSheet(key) == [FoldLeft(Defined, NewStyleSheet, lib[key[1]]) EXCEPT !.key = key]

(* style_sheet_set_requirement: "make sure now that we won't encounter new *)
(* tokens".  The program exits.                                            *)
TooRecent(key) ==
  \E i \in DOMAIN lib[key[1]] :
    LET def == lib[key[1]][i] IN def.kind = "requires" /\ VersionLess(Version, def.value)
-----------------------------------------------------------------------------
(* What a sheet inherits.                                                  *)

(* Mutant: the ancestor wins.                                              *)
InheritStringsOver(sheet, ancestor) ==
  [sheet EXCEPT
     !.keywords.strings  = A!Merged(@, ancestor.keywords.strings, "da_2_wins"),
     !.operators.strings = A!Merged(@, ancestor.operators.strings, "da_2_wins")]

(* The forward loop of ancestors_finalize.                                 *)
InheritStrings(sheet, ancestor) ==
  [sheet EXCEPT
     !.keywords.strings  = A!Merged(@, ancestor.keywords.strings, "da_1_wins"),
     !.operators.strings = A!Merged(@, ancestor.operators.strings, "da_1_wins")]

Inherited(own, theirs) == IF own = Undefined THEN theirs ELSE own

(* Its backward loop.                                                      *)
InheritSyntax(sheet, ancestor) ==
  [sheet EXCEPT
     !.alpha1 = Inherited(@, ancestor.alpha1),
     !.alpha2 = Inherited(@, ancestor.alpha2),
     !.sensitiveness = Inherited(@, ancestor.sensitiveness),
     !.keywords.regexps  = ancestor.keywords.regexps \o @,
     !.operators.regexps = ancestor.operators.regexps \o @,
     !.sequences = ancestor.sequences \o @]

(* style_sheet_check: doubles are looked for among neighbours.             *)
HasDoubles(rules) == \E i \in DOMAIN rules : i > 1 /\ rules[i - 1].word = rules[i].word

HasUpper(rules) == \E i \in DOMAIN rules : rules[i].word \in Upper
WordsUpper(words) == HasUpper(words.strings) \/ HasUpper(words.regexps)

CheckDoubles(sheet) ==
  \A words \in {sheet.keywords, sheet.operators} :
    ~HasDoubles(words.strings) /\ ~HasDoubles(words.regexps)

CheckSensitivity(sheet) ==
  sheet.sensitiveness # "sensitive" =>
    /\ ~WordsUpper(sheet.keywords) /\ ~WordsUpper(sheet.operators)
    /\ \A i \in DOMAIN sheet.sequences :
         LET q == sheet.sequences[i]
         IN q.open.word \notin Upper /\ ~WordsUpper(q.exceptions) /\ ~WordsUpper(q.close)

StyleSheetCheck(sheet) == CheckDoubles(sheet) /\ CheckSensitivity(sheet)

(* style_sheet_finalize, once the ancestors are read.                      *)
Finalized(sheet) ==
  LET s == [sheet EXCEPT
              !.alpha1 = Inherited(@, "default"), !.alpha2 = Inherited(@, "default"),
              !.sensitiveness = Inherited(@, "insensitive"),
              !.keywords = WordsFinalize(@), !.operators = WordsFinalize(@)]
  IN [s EXCEPT !.sane = StyleSheetCheck(s)]
-----------------------------------------------------------------------------
(* get_style_sheet.  A frame of the stack is either a sheet that reads its *)
(* ancestors, forward and then backward, or a mixed sheet that collects    *)
(* its ancestors, or a listing that goes through its entries.              *)

Busy(op, key) == [op |-> op, key |-> key]
Idle == Busy("idle", None)

Init ==
  /\ lib \in Libraries
  /\ table = << >> /\ stack = << >> /\ call = Idle /\ tok = << >> /\ syntax = None
  /\ parsed = [n \in DOMAIN lib |-> 0] /\ asked = 0

Stored == DOMAIN table
Store(sheet) == table' = [k \in Stored \cup {sheet.key} |->
                            IF k = sheet.key THEN sheet ELSE table[k]]

(* A frame is added or changed.                                            *)
Push(frame) == stack' = Append(stack, frame)
Top == Last(stack)
SetTop(frame) == stack' = [stack EXCEPT ![Len(stack)] = frame]

(* A file to print, with the sheet asked for or found by its type.         *)
RequestFor(key) ==
  /\ call = Idle /\ stack = << >> /\ asked < MaxRequests
  /\ call' = Busy("get", key) /\ asked' = asked + 1
  /\ UNCHANGED <<lib, table, stack, tok, syntax, parsed>>

Request == \E key \in Requests : RequestFor(key)

(* "plain" is no sheet at all.                                             *)
GetPlain ==
  /\ call = Busy("get", Plain)
  /\ call' = Busy("return", None)
  /\ UNCHANGED <<lib, table, stack, tok, syntax, parsed, asked>>

(* hash_find_item                                                          *)
GetStored ==
  /\ call.op = "get" /\ Len(call.key) = 1 /\ call.key \in Stored
  /\ call' = Busy("return", call.key) /\ syntax' = call.key
  /\ UNCHANGED <<lib, table, stack, tok, parsed, asked>>

(* "cannot find file": the caller goes on without.                         *)
GetMissing ==
  /\ call.op = "get" /\ Len(call.key) = 1 /\ call.key \notin Stored \cup {Plain}
  /\ call.key[1] \notin DOMAIN lib
  /\ call' = Busy("return", None)
  /\ UNCHANGED <<lib, table, stack, tok, syntax, parsed, asked>>

(* load_style_sheet: the file is parsed, then its ancestors are read.      *)
Load ==
  /\ call.op = "get" /\ Len(call.key) = 1 /\ call.key \notin Stored
  /\ call.key[1] \in DOMAIN lib /\ Len(stack) < MaxDepth
  /\ parsed' = [parsed EXCEPT ![call.key[1]] = @ + 1]
  /\ IF TooRecent(call.key)
     THEN call' = Busy("exit", call.key) /\ UNCHANGED stack
     ELSE /\ Push([kind |-> "sheet", sheet |-> ParseStyleSheet(call.key), dir |-> "forward", i |-> 1])
          /\ call' = Busy("resume", None)
  /\ UNCHANGED <<lib, table, tok, syntax, asked>>

(* style_sheet_mixed_new: the key is cut by strtok.                        *)
Mix ==
  /\ call.op = "get" /\ Len(call.key) > 1
  /\ Push([kind |-> "mixed", keys |-> <<call.key[1]>>, key |-> << >>])
  /\ tok' = Tail(call.key)
  /\ call' = Busy("get", <<call.key[1]>>)
  /\ UNCHANGED <<lib, table, syntax, parsed, asked>>

(* One turn of its loop, when an ancestor returns.  The key of the         *)
(* ancestor is read through its pointer, null or not.                      *)
MixNext ==
  /\ call.op = "return" /\ stack # << >> /\ Top.kind = "mixed"
  /\ IF call.key = None THEN call' = Busy("crash", None) /\ UNCHANGED <<stack, tok>>
     ELSE LET key == Top.key \o call.key
          IN IF tok # << >>
             THEN /\ SetTop([Top EXCEPT !.keys = Append(@, tok[1]), !.key = key])
                  /\ tok' = Tail(tok)
                  /\ call' = Busy("get", <<tok[1]>>)
             ELSE /\ SetTop([kind |-> "sheet", dir |-> "forward", i |-> 1,
                             sheet |-> [NewStyleSheet EXCEPT !.key = key,
                                          !.ancestors = [j \in DOMAIN Top.keys |-> <<Top.keys[j]>>]]])
                  /\ call' = Busy("resume", None) /\ UNCHANGED tok
  /\ UNCHANGED <<lib, table, syntax, parsed, asked>>

Ancestors == Top.sheet.ancestors
Reading(dir) == stack # << >> /\ Top.kind = "sheet" /\ Top.dir = dir

(* ancestors_finalize asks for the next ancestor.                          *)
AskAncestor ==
  /\ call = Busy("resume", None)
  /\ \/ Reading("forward") /\ Top.i <= Len(Ancestors)
     \/ Reading("backward") /\ Top.i >= 1
  /\ call' = Busy("get", Ancestors[Top.i])
  /\ UNCHANGED <<lib, table, stack, tok, syntax, parsed, asked>>

(* It comes: the strings are merged, or the syntax is inherited.           *)
TakeStrings ==
  /\ call.op = "return" /\ Reading("forward")
  /\ SetTop([Top EXCEPT !.i = @ + 1,
               !.sheet = IF call.key = None THEN @ ELSE InheritStrings(@, table[call.key])])
  /\ call' = Busy("resume", None)
  /\ UNCHANGED <<lib, table, tok, syntax, parsed, asked>>

(* Mutant: the same ancestor is asked for again.                           *)
TakeSyntaxAgain ==
  /\ call.op = "return" /\ Reading("backward")
  /\ call' = Busy("resume", None)
  /\ UNCHANGED <<lib, table, stack, tok, syntax, parsed, asked>>

TakeSyntax ==
  /\ call.op = "return" /\ Reading("backward")
  /\ SetTop([Top EXCEPT !.i = @ - 1,
               !.sheet = IF call.key = None THEN @ ELSE InheritSyntax(@, table[call.key])])
  /\ call' = Busy("resume", None)
  /\ UNCHANGED <<lib, table, tok, syntax, parsed, asked>>

TurnBack ==
  /\ call = Busy("resume", None) /\ Reading("forward") /\ Top.i > Len(Ancestors)
  /\ SetTop([Top EXCEPT !.dir = "backward", !.i = Len(Ancestors)])
  /\ UNCHANGED <<lib, table, call, tok, syntax, parsed, asked>>

(* "each time we change sheet, make sure to update the re_syntax_table"    *)
SyntaxOf(key) == syntax' = key

(* The sheet is finalized; get_style_sheet finds it in the table.          *)
Finish ==
  /\ call = Busy("resume", None) /\ Reading("backward") /\ Top.i = 0
  /\ LET sheet == Finalized(Top.sheet)
     IN /\ Store(sheet) /\ SyntaxOf(sheet.key)
        /\ call' = Busy(IF sheet.key \in DOMAIN table' THEN "return" ELSE "lost", sheet.key)
  /\ stack' = Front(stack)
  /\ UNCHANGED <<lib, tok, parsed, asked>>

(* The request is answered: the file is printed with the sheet.            *)
Answer ==
  /\ call.op = "return" /\ stack = << >>
  /\ call' = Idle
  /\ UNCHANGED <<lib, table, stack, tok, syntax, parsed, asked>>
-----------------------------------------------------------------------------
(* The listings of the sheets, for a2ps --list.  All the sheets are loaded *)
(* by the sort, by the sum of the versions or by the listing itself,       *)
(* whichever comes first; each of these passes asks for them all.          *)

Passes(format) ==
  CASE format = "long"    -> <<"sort", "print">>
    [] format = "html"    -> <<"versions", "sort", "table", "print">>
    [] format = "texinfo" -> <<"sort", "versions", "print">>

Entries == SetToSeq(DOMAIN lib)

List ==
  /\ call = Idle /\ stack = << >> /\ asked < MaxRequests
  /\ \E format \in {"long", "html", "texinfo"} :
       Push([kind |-> "list", passes |-> Passes(format), i |-> 0,
             sum |-> Version0, required |-> Version0])
  /\ call' = Busy("resume", None) /\ asked' = asked + 1
  /\ UNCHANGED <<lib, table, tok, syntax, parsed>>

(* version_add, and the highest requirement.                               *)
Counted(frame, sheet) ==
  IF Head(frame.passes) # "versions" THEN frame
  ELSE [frame EXCEPT !.sum = [n \in 1 .. 3 |-> @[n] + sheet.version[n]],
          !.required = IF VersionLess(@, sheet.requirement) THEN sheet.requirement ELSE @]

Listing == stack # << >> /\ Top.kind = "list"

ListNext ==
  /\ call.op = "resume" /\ Listing
  /\ IF Top.i < Len(Entries)
     THEN SetTop([Top EXCEPT !.i = @ + 1]) /\ call' = Busy("get", <<Entries[Top.i + 1]>>)
     ELSE IF Len(Top.passes) > 1
     THEN SetTop([Top EXCEPT !.i = 0, !.passes = Tail(@)]) /\ UNCHANGED call
     ELSE stack' = Front(stack) /\ call' = Idle
  /\ UNCHANGED <<lib, table, tok, syntax, parsed, asked>>

ListTake ==
  /\ call.op = "return" /\ Listing
  /\ IF call.key = None THEN call' = Busy("crash", None) /\ UNCHANGED stack
     ELSE SetTop(Counted(Top, table[call.key])) /\ call' = Busy("resume", None)
  /\ UNCHANGED <<lib, table, tok, syntax, parsed, asked>>

(* One step of the loading of a sheet.                                     *)
Loader ==
  \/ GetPlain \/ GetStored \/ GetMissing \/ Load \/ Mix \/ MixNext
  \/ AskAncestor \/ TakeStrings \/ TakeSyntax \/ TurnBack \/ Finish

Next == Request \/ Loader \/ Answer \/ List \/ ListNext \/ ListTake

Spec == Init /\ [][Next]_vars

-----------------------------------------------------------------------------
(* Properties.                                                             *)

Rules(words) == ToSet(words.strings) \cup ToSet(words.regexps)

(* match_keyword: the rule of a word is looked for downwards, between the  *)
(* places that the index gives for its first letter.                       *)
Effective(words, w) ==
  LET at == words.index[Initial[w]]
      S  == {i \in at[1] .. at[2] : i > 0 /\ words.strings[i].word = w}
  IN IF S = {} THEN None ELSE words.strings[Max(S)]

Kinds == {"keywords", "operators"}

(* The blocks of a file that define a word.                                *)
Blocks(name, kind, w) ==
  {i \in DOMAIN lib[name] :
     LET def == lib[name][i]
     IN def.kind = kind /\ Kept(def) /\ \E j \in DOMAIN def.rules :
          def.rules[j].word = w /\ ~def.rules[j].regex}

Own(key, kind, w) == IF Len(key) = 1 THEN Blocks(key[1], kind, w) ELSE {}

TypeOK ==
  /\ lib \in Libraries /\ asked \in 0 .. MaxRequests
  /\ \A key \in Stored : table[key].key = key /\ A!InOrder(table[key].keywords.strings)
  /\ call.op \in {"idle", "get", "resume", "return", "lost", "exit", "crash"}
  /\ syntax \in Stored \cup {None} /\ Len(stack) <= MaxDepth + 1
  /\ \A n \in DOMAIN lib : parsed[n] \in Nat

(* What a sheet defines itself, in its last block that does, is what the   *)
(* lexer finds, whatever its ancestors say (words_merge_rules_unique and   *)
(* the "da_1_wins" of ancestors_finalize).                                 *)
OwnWins ==
  \A key \in Stored, kind \in Kinds, w \in Words :
    LET B == Own(key, kind, w)
    IN B # {} => Effective(table[key][kind], w) \in ToSet(Block(lib[key[1]][Max(B)]))

(* A word that a sheet does not define has the rule of the first ancestor  *)
(* that has it, when this one defines it once, however far it comes from.  *)
HasWord(key, kind, w) == key \in Stored /\ Effective(table[key][kind], w) # None
InheritsWords ==
  \A key \in Stored, kind \in Kinds, w \in Words :
    LET anc == table[key].ancestors
        S   == {i \in DOMAIN anc : HasWord(anc[i], kind, w)}
    IN Own(key, kind, w) = {} /\ S # {} =>
         LET from == table[anc[Min(S)]][kind]
         IN Len(A!Group(from.strings, w)) = 1
              => Effective(table[key][kind], w) = Effective(from, w)

AllWords(sheet) ==
  {sheet.keywords, sheet.operators}
  \cup UNION {{q.close, q.exceptions} : q \in ToSet(sheet.sequences)}

(* The index of a sheet covers its strings: the lexer looks nowhere else   *)
(* (words_finalize is called once, and sheets share their rules).          *)
IndexCovers ==
  \A key \in Stored : \A words \in AllWords(table[key]) :
    /\ \A i \in DOMAIN words.strings :
         LET at == words.index[Initial[words.strings[i].word]] IN at[1] <= i /\ i <= at[2]
    /\ \A c \in DOMAIN words.index : \A i \in words.index[c][1] .. words.index[c][2] :
         i > 0 => Initial[words.strings[i].word] = c

(* No rule of a sheet is left without a face: the faces of the blocks and  *)
(* of the sequences are all handed down, and Plain is what remains.        *)
EveryFaced ==
  \A key \in Stored :
    LET opens == {q.open : q \in ToSet(table[key].sequences)}
        all   == opens \cup UNION {Rules(words) : words \in AllWords(table[key])}
    IN \A rule \in all : NoFace \notin ToSet(rule.rhs)

(* When a sheet is given back, the regular expressions are matched with    *)
(* its alphabet, though its ancestors were looked for in between.          *)
SyntaxFollows == call.op = "return" /\ call.key # None => syntax = call.key

(* The alphabet and the sensitiveness come from the sheet itself, else     *)
(* from the last of its ancestors that could be found, else by default.    *)
Specified(key, kinds) ==
  IF Len(key) # 1 THEN {} ELSE {i \in DOMAIN lib[key[1]] : lib[key[1]][i].kind \in kinds}
Syntax(key, kinds, inherited) ==
  LET S == Specified(key, kinds) IN IF S = {} THEN inherited ELSE lib[key[1]][Max(S)].value
SyntaxInherited ==
  \A key \in Stored :
    LET anc   == table[key].ancestors
        S     == {i \in DOMAIN anc : anc[i] \in Stored}
        alpha == IF S = {} THEN "default" ELSE table[anc[Max(S)]].alpha1
        case  == IF S = {} THEN "insensitive" ELSE table[anc[Max(S)]].sensitiveness
    IN /\ table[key].alpha1 = Syntax(key, {"alphabets", "first"}, alpha)
       /\ table[key].sensitiveness = Syntax(key, {"case"}, case)

(* A file is read once, however many sheets inherit from it.               *)
ParsedOnce == \A n \in DOMAIN lib : parsed[n] <= 1

(* The check of a sheet sees every word that is defined twice, though it   *)
(* only compares neighbours.                                               *)
DoublesReported ==
  \A key \in Stored, kind \in Kinds, w \in Words :
    Len(A!Group(table[key][kind].strings, w)) > 1 => ~table[key].sane

(* The sheet that a call is loading.                                       *)
Loading(i) == IF stack[i].kind = "sheet" THEN stack[i].sheet.key ELSE None

(* A sheet is never asked for while it is being loaded: what it would take *)
(* for "mutually dependent style sheets" to work.                          *)
(* Not checked: it does not hold, see the README.                          *)
NoReentry ==
  \A i, j \in DOMAIN stack : i < j /\ Loading(i) # None => Loading(i) # Loading(j)

(* "It is always the last item read which wins", and "the ancestors are    *)
(* read in order".                                                         *)
(* Not checked: it does not hold, see the README.                          *)
LastReadWins ==
  \A key \in Stored, kind \in Kinds, w \in Words :
    LET anc == table[key].ancestors
        S   == {i \in DOMAIN anc : HasWord(anc[i], kind, w)}
    IN Own(key, kind, w) = {} /\ S # {} =>
         Effective(table[key][kind], w) = Effective(table[anc[Max(S)]][kind], w)

(* A mixed sheet is made of sheets that exist.                             *)
(* Not checked: it does not hold, see the README.                          *)
NoCrash == call.op # "crash"
=============================================================================
