-------------------------- MODULE MCConfiguration --------------------------
(***************************************************************************)
(* Worlds for Configuration, the meaning of a text of options, and what    *)
(* the manual promises of the job that they make.                          *)
(***************************************************************************)
EXTENDS Configuration, TLC

Opt(name, arg) == [name |-> name, arg |-> arg]

(* The words that are options.                                             *)
MCOptionOf ==
  [w \in {"-1", "-2", "-8", "-B", "-c", "-C", "-d", "-g", "-h", "-i", "-j", "-k", "-K", "-m", "-q", "-r", "-R", "-V", "-Z"} |->
     Opt(CASE w = "-1" -> "1" [] w = "-2" -> "2" [] w = "-8" -> "8" [] w = "-B" -> "B" [] w = "-c" -> "c" [] w = "-C" -> "C"
           [] w = "-d" -> "d" [] w = "-g" -> "g" [] w = "-h" -> "h" [] w = "-i" -> "i" [] w = "-j" -> "j" [] w = "-k" -> "k"
           [] w = "-K" -> "K" [] w = "-m" -> "m" [] w = "-q" -> "q" [] w = "-r" -> "r" [] w = "-R" -> "R" [] w = "-V" -> "V"
           [] w = "-Z" -> "Z", NULL)]
  @@ "-l40" :> Opt("l", "40") @@ "-l0" :> Opt("l", "0") @@ "-L20" :> Opt("L", "20") @@ "-f10" :> Opt("f", "10")
  @@ "-f400" :> Opt("f", "400") @@ "--columns=2" :> Opt("132", "2") @@ "--columns=0" :> Opt("132", "0") @@ "--rows=2" :> Opt("133", "2")
  @@ "--margin" :> Opt("147", NULL) @@ "--line-numbers" :> Opt("152", NULL) @@ "-b" :> Opt("b", NULL)
  @@ "-bHead" :> Opt("b", "Head") @@ "--center-title=T" :> Opt("149", "T") @@ "--footer=F" :> Opt("143", "F")
  @@ "-Mcard" :> Opt("M", "card") @@ "-Xlatin1" :> Opt("X", "latin1") @@ "-Xnone" :> Opt("X", "none")
  @@ "-s1" :> Opt("s", "1") @@ "-s2" :> Opt("s", "2") @@ "-stumble" :> Opt("s", "tumble") @@ "-s3" :> Opt("s", "3")
  @@ "-SDuplex" :> Opt("S", "Duplex") @@ "-STray:1" :> Opt("S", "Tray:1") @@ "--statusdict=copies::2" :> Opt("164", "copies::2")
  @@ "-Dkey=v" :> Opt("D", "key=v") @@ "-Dkey" :> Opt("D", "key") @@ "-Dk(y=v" :> Opt("D", "k(y=v")
  @@ "-Plw" :> Opt("P", "lw") @@ "-Pwc" :> Opt("P", "wc") @@ "-o-" :> Opt("o", "-") @@ "-oout" :> Opt("o", "out")
  @@ "--ppd=level2" :> Opt("163", "level2") @@ "-v" :> Opt("v", NULL) @@ "--toc" :> Opt("167", NULL)
  @@ "-a1" :> Opt("a", "1") @@ "-a3" :> Opt("a", "3") @@ "-Afill" :> Opt("A", "fill") @@ "-A2" :> Opt("A", "2") @@ "-A0" :> Opt("A", "0")
  @@ "--borders=no" :> Opt("156", "no") @@ "--truncate-lines=yes" :> Opt("151", "yes") @@ "--list=media" :> Opt("145", "media")
  @@ "--strip-level=4" :> Opt("148", "4") @@ "-=a" :> Opt("=", "a") @@ "-=b" :> Opt("=", "b") @@ "--wrong" :> Opt("?", NULL)

MCNumber == "0" :> 0 @@ "1" :> 1 @@ "2" :> 2 @@ "4" :> 4 @@ "10" :> 10 @@ "20" :> 20 @@ "40" :> 40 @@ "400" :> 400
MCDefinition ==
  "Duplex" :> <<"Duplex", 0, NULL>> @@ "Tray:1" :> <<"Tray", 1, "1">> @@ "copies::2" :> <<"copies", 2, "2">>
  @@ "key=v" :> <<"key", 1, "v">> @@ "key" :> <<"key", 0, NULL>> @@ "k(y=v" :> <<"k(y", 1, "v">>
  @@ "|lpr" :> <<"|", 0, NULL>> @@ ">file" :> <<">", 0, NULL>> @@ "|lp -d#o" :> <<"|", 0, NULL>>
MCPathOf ==
  "lib" :> <<"lib">> @@ "one:two" :> <<"one", "two">> @@ "two:lib" :> <<"two", "lib">> @@ "one::two" :> <<"one", "", "two">>
MCDimensions == <<"300", "400">> :> <<300, 400>> @@ <<"90", "120">> :> <<90, 120>> @@ <<"9">> :> <<9>>
MCPapers == [a4 |-> <<595, 842>>]
MCForbidden == {"k(y"}
MCLibrary == {<<"lib", "level1">>, <<"lib", "level2">>, <<"one", "level1">>, <<"two", "level2">>, <<"home/.a2ps", "level1">>, <<"home/.a2ps", "level2">>}
MCEncodings == {"latin1"}

Line(words) == [words |-> words, quoted |-> FALSE, eol |-> TRUE]
Quoted(words) == [words |-> words, quoted |-> TRUE, eol |-> TRUE]
Unended(words) == [words |-> words, quoted |-> FALSE, eol |-> FALSE]
Etc == Sources[1]
User == Sources[2]
World(names, lines, max, slots, env) == [files |-> names, lines |-> lines, max |-> max, slots |-> slots, env |-> env]

(* The base of most worlds: a library, so that the job can be finalized.   *)
Scales == {"-1", "-2", "-8", "-l40", "-L20", "-m", "-f10", "-f400"}
Each(words) == {<<w>> : w \in words}
Lib == Line(<<"LibraryPath:", "lib">>)

MCWorlds == <<
  \* the syntax of the files
  World({Etc, User},
        {Line(<< >>), Line(<<"#", "word">>), Quoted(<<"#", "word">>), Quoted(<< >>), Quoted(<<"Options:">>), Quoted(<<"-c">>), Line(<<"-g">>),
         Unended(<< >>), Unended(<<"#">>), Line(<<"Options:", "-1", "word">>), Line(<<"Nothing:">>), Line(<<"Include:", "a", "b">>),
         Line(<<"Pattern:", "x">>), Line(<<"Printer:", "lw">>)}, 4, << >>, {}),
  \* inclusions
  World({Etc, User, <<"etc", "inc">>, <<"home", "inc">>, <<"/", "/site.cfg">>},
        {Line(<<"Include:", "inc">>), Line(<<"Include:", "/site.cfg">>), Line(<<"Include:", "missing">>), Line(<<"Options:", "-L20">>),
         Line(<<"Options:", "-2">>)}, 3, << >>, {"NO_HOME_CONF"}),
  \* shortcuts
  World({Etc, User},
        {Line(<<"UserOption:", "a", "-=b", "-l40">>), Line(<<"UserOption:", "b", "-2", "-c">>), Line(<<"UserOption:", "b", "-=a">>),
         Line(<<"UserOption:", "a", "-m">>), Line(<<"UserOption:", "b", "--wrong">>), Line(<<"Options:", "-=b", "-f10">>),
         Line(<<"Options:", "-=a", "-g">>)}, 4, <<{<< >>, <<"-=a", "-L20">>, <<"-=a", "-=b">>, <<"-g", "--wrong">>}>>, {}),
  \* destinations
  World({Etc},
        {Line(<<"Printer:", "lw", "level2">>), Line(<<"Printer:", "lw", "|lpr">>), Line(<<"Printer:", "lw", "level2", ">file">>),
         Line(<<"UnknownPrinter:", "|lp -d#o">>), Line(<<"UnknownPrinter:", "level2">>), Line(<<"DefaultPrinter:", "level1", "|lpr">>), Line(<<"DefaultPPD:", "level2">>)},
        4, <<{<<"-Xlatin1", "-Plw">>, <<"-Xlatin1", "-Pwc">>, <<"-d", "-Xlatin1">>, <<"-o-", "-Xlatin1">>, <<"-Plw", "-Xlatin1", "--ppd=level2">>}>>, {}),
  \* the library
  World({Etc, User},
        {Lib, Line(<<"LibraryPath:", "two:lib">>), Line(<<"AppendLibraryPath:", "one:two">>), Line(<<"PrependLibraryPath:", "one:two">>),
         Line(<<"AppendLibraryPath:", "lib">>), Line(<<"PrependLibraryPath:", "lib">>)},
        4, <<{<<"-Xlatin1">>, <<"-Xlatin1", "--ppd=level2">>}>>, {}),
  World({Etc},
        {Lib, Line(<<"LibraryPath:", "two:lib">>), Line(<<"PrependLibraryPath:", "one:two">>)}, 3, <<{<<"-Xlatin1">>, <<"-Xnone">>}>>, {"NO_HOME_CONF"}),
  \* the other entries
  World({Etc},
        {Lib, Line(<<"Medium:", "card", "90", "120">>), Line(<<"Medium:", "card", "300", "400">>), Line(<<"Media:", "card", "9">>), Line(<<"Variable:", "key", "v">>),
         Line(<<"Variable:", "k(y", "v">>), Line(<<"Delegation:", "d">>), Line(<<"FileCommand:", "file">>), Line(<<"OutputFirstLine:", "%!">>), Line(<<"PageLabelFormat:", "#p">>)},
        3, <<{<<"-Xlatin1", "-Mcard">>, <<"-Xlatin1", "-Mcard", "-1">>}>>, {}),
  \* the options, by two, and those of the layout by four
  World({Etc}, {Lib}, 1, <<{<<"-Xlatin1">>}, Each(DOMAIN MCOptionOf), Each(DOMAIN MCOptionOf)>>, {}),
  World({Etc}, {Lib}, 1,
        <<{<<"-Xlatin1">>}, Each(Scales \cup {"--columns=2", "--rows=2"}), Each(Scales \cup {"-R", "-r"}),
          Each({"--margin", "--line-numbers", "-c"}), Each({"-bHead", "-B", "--center-title=T", "--footer=F"})>>, {"A2PS_VERBOSITY"}) >>
MCSystemPaper == "a4"

-----------------------------------------------------------------------------
(* The options of a vector with the shortcuts replaced by what they stand  *)
(* for, as long as no shortcut is within itself.                           *)
Calls(a, b) == \E i \in DOMAIN job.user_options[a] : job.user_options[a][i] = "-=" \o b
Cyclic ==
  LET shortcuts == DOMAIN job.user_options
  IN \E n \in 1..Cardinality(shortcuts) : \E loop \in [1..n -> shortcuts] :
       Calls(loop[n], loop[1]) /\ \A i \in 1..n - 1 : Calls(loop[i], loop[i + 1])
RECURSIVE Expanded(_)
Expanded(options) ==
  IF options = << >> THEN << >>
  ELSE LET o == Head(options)
       IN (IF o.name # "=" THEN <<o>>
           ELSE IF o.arg \in DOMAIN job.user_options THEN Expanded(VectorFrame(job.user_options[o.arg]).options)
           ELSE << >>) \o Expanded(Tail(options))
RECURSIVE Pending(_)
Pending(stack) ==
  IF stack = << >> \/ Head(stack).kind = "file" THEN << >> ELSE Expanded(Head(stack).options) \o Pending(Tail(stack))

(* A shortcut stands for its options where it is used: processing a vector *)
(* neither adds, loses nor reorders any; and the stack of vectors ends by  *)
(* itself, unless a shortcut is within itself.                             *)
InPlace ==
  [][/\ InVector /\ phase' = "reading" /\ ~Cyclic => applied' \o Pending(frames') = applied \o Pending(frames)
     /\ phase' = "crashed" => Cyclic]_vars

(* The last declaration of the printer that is asked for gives its command, *)
(* the unknown printer the one of those that have none.                    *)
LastEntry(entries) == IF entries = << >> THEN NULL ELSE entries[Len(entries)]
Declared(code, key) ==
  LET e == LastEntry(SelectSeq(read, LAMBDA r : r[1] = code /\ (code = "Printer" => r[2] = key)))
      commands == IF e = NULL THEN << >> ELSE SelectSeq(e[3], IsCommand)
  IN IF commands = << >> THEN NULL ELSE commands[1]
DestinationResolved ==
  phase \in {"ready", "printing"} /\ job.flag_output_is_printer =>
    LET named == job.flag_output_name
        own == Declared("Printer", named)
    IN CommandOf(job) = IF named = NULL THEN Declared("DefaultPrinter", "")
                        ELSE IF own # NULL THEN own ELSE Declared("UnknownPrinter", "")

(* The library is the directory of the user, then what was put before the  *)
(* path, the latest first, then the path, then what was added to it.       *)
DirsOf(entry) == PathOf[entry[3][1]]
LibraryInOrder ==
  LET starts == {i \in DOMAIN read : read[i][1] = "LibraryPath"}
      start == IF starts = {} THEN 0 ELSE CHOOSE i \in starts : \A k \in starts : k <= i
      since == SubSeq(read, start + 1, Len(read))
      of(code) == LET es == SelectSeq(since, LAMBDA e : e[1] = code) IN [i \in DOMAIN es |-> DirsOf(es[i])]
      base == IF start = 0 THEN << >> ELSE DirsOf(read[start])
      whole == FlattenSeq(Reverse(of("PrependLibraryPath"))) \o base \o FlattenSeq(of("AppendLibraryPath"))
  IN /\ phase = "reading" => job.path = whole
     /\ phase \in {"ready", "printing"} => job.path = (IF "NO_HOME_CONF" \in job.env THEN << >> ELSE <<"home/.a2ps">>) \o whole

(* The destination and the directories of the library are those of the     *)
(* declarations that were read last, in whichever files they are.          *)
DeclarationsGovern == DestinationResolved /\ LibraryInOrder

(* "lines starting with `#' are comments" (a2ps.texi:2503).  Not checked:  *)
(* it does not hold, see the README.                                       *)
CommentsIgnored == InFile /\ Top.ready => ~IsComment(Top.buf)
=============================================================================
