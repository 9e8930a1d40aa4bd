---------------------------- MODULE MCFileTyping -----------------------------
(* A few files of definitions, with and without ancestors that are there.  *)
EXTENDS FileTyping

MCInitial == <<1, 1, 2, 3>>
MCUpper == {3}
MCVersion == <<4, 14, 0>>

Word(w, atoms) == [word |-> w, regex |-> FALSE, rhs |-> <<IF atoms = << >> THEN NoFace ELSE FFace(atoms)>>]
Regexp(w, atoms) == [Word(w, atoms) EXCEPT !.regex = TRUE]
BlockOf(kind, optional, face, list) ==
  [kind |-> kind, optional |-> optional, face |-> face, rules |-> list]
Ancestry(list) == [kind |-> "ancestors", list |-> list]
Value(kind, value) == [kind |-> kind, value |-> value]

Keyword == FFace(<<"Keyword">>)
Comments == [open |-> Word(2, << >>), face |-> FFace(<<"Comment">>), close |-> << >>,
             exceptions |-> <<Word(3, << >>), Word(1, << >>), Regexp(3, <<"String", "Tag1">>)>>]

(* Two base sheets, one with blocks out of order, sequences and a version. *)
BaseC == << BlockOf("keywords", FALSE, Keyword, <<Word(2, << >>), Word(1, <<"Label">>), Regexp(1, << >>)>>),
            BlockOf("operators", TRUE, NoFace, <<Word(3, << >>)>>),
            [kind |-> "sequences", optional |-> FALSE, list |-> <<Comments>>],
            Value("alphabets", "C"), Value("case", "sensitive"), Value("version", <<1, 2, 0>>) >>
BaseOpt == << Value("first", "O"), Value("case", "sensitive"), Value("requires", <<4, 9, 1>>),
              BlockOf("keywords", FALSE, NoFace, <<Word(3, << >>), Word(1, <<"Error">>)>>),
              BlockOf("keywords", TRUE, Keyword, <<Word(1, << >>)>>) >>
BaseNew == << Value("requires", <<4, 14, 1>>) >>

(* One that inherits, and one that inherits from it.                       *)
Middle(anc) == << BlockOf("keywords", FALSE, Keyword, <<Word(2, << >>)>>), Ancestry(anc),
                  Value("version", <<2, 0, 1>>), Value("first", "M") >>
Leaf(anc) == << Ancestry(anc), BlockOf("operators", FALSE, NoFace, <<Word(3, <<"Symbol">>), Word(1, << >>)>>),
                Value("second", "L") >>

MCLibraries ==
  { [c |-> base, m |-> Middle(a1), l |-> Leaf(a2)] :
      base \in {BaseC, BaseOpt, BaseNew}, a1 \in {<< <<"c">> >>, << <<"c">>, <<"x">> >>},
      a2 \in { << <<"m">> >>, << <<"c">>, <<"m">> >>, << <<"m">>, <<"plain">>, <<"c">> >> } }
  \cup { [c |-> BaseC], [m |-> Middle(<< <<"c">> >>), l |-> Leaf(<< <<"m">>, <<"c">> >>)] }

MCRequests == {<<"l">>, <<"m">>, <<"c">>, <<"plain">>, <<"m", "l">>, <<"l", "m">>}

(* The files to print, and what file(1) says of them.                      *)
Of(is, name, content) == [is |-> is, name |-> name, content |-> content]
NamedFile(k) == Of("regular", k, "text")
MCLowerCase == [n \in {"l", "m", "c", "x", "f", "F", "stdin"} |-> IF n = "F" THEN "f" ELSE n]

Key(k) == [is |-> "key", key |-> k]
Rule(on, pattern, insensitive) == [is |-> on, pattern |-> pattern, insensitive |-> insensitive]
Include(f) == [is |-> "include", file |-> f]
Wrong == [is |-> "error"]

(* One rule for each sheet, and one for a sheet that is not there.         *)
NamesMap ==
  [f \in {"sheets.map"} |->
     <<Key("l"), Rule("name", {"l"}, FALSE), Key("m"), Rule("name", {"m"}, FALSE),
       Key("c"), Rule("name", {"c"}, FALSE), Key("x"), Rule("name", {"x"}, FALSE)>>]

(* Maps with inclusions, sound and wrong.                                  *)
Sub == <<Rule("name", {"f"}, FALSE), Key("m"), Rule("file", {"script"}, FALSE)>>
MapOf(main, sub) == [f \in {"sheets.map", "sub"} |-> IF f = "sub" THEN sub ELSE main]
MCMaps ==
  { << >>,
    MapOf(<<Key("ps"), Rule("file", {"data"}, FALSE), Include("sub"),
            Rule("name", {"stdin"}, FALSE)>>, Sub),
    MapOf(<<Key("binary"), Include("sub"), Key("ps"), Rule("file", {"data"}, FALSE),
            Key("l"), Rule("name", {"f"}, TRUE)>>, Sub),
    MapOf(<<Include("sub"), Key("c")>>, Sub),
    MapOf(<<Key("c"), Rule("name", {"f"}, TRUE), Include("sub")>>, <<Rule("name", {"F"}, FALSE), Include("sub")>>),
    MapOf(<<Key("c"), Rule("name", {"f"}, FALSE), Include("other")>>, Sub),
    MapOf(<<Key("binary"), Rule("file", {"text", "data"}, FALSE), Key("plain"), Rule("name", {"stdin"}, FALSE)>>, Sub),
    MapOf(<<Key("c"), Include("sub")>>, <<Wrong>>),
    MapOf(<<Key("c")>>, Sub) }
MCFiles ==
  { Of("stdin", "stdin", "script"), Of("regular", "f", "text"), Of("regular", "F", "data"),
    Of("directory", "f", "data"), Of("missing", "f", "text") }

Upto(S, n) == UNION {[1 .. k -> S] : k \in 1 .. n}

MCScenarios ==
  { [lib |-> l, map |-> NamesMap, input |-> i, style |-> None] :
      l \in MCLibraries, i \in {<< >>} \cup [1 .. 3 -> {NamedFile("l"), NamedFile("m"), NamedFile("x")}] }
  \cup { [lib |-> l, map |-> << >>, input |-> <<NamedFile("f"), NamedFile("f")>>, style |-> s] :
      l \in MCLibraries, s \in MCRequests }
  \cup { [lib |-> [c |-> BaseC], map |-> m, input |-> i, style |-> None] :
      m \in MCMaps, i \in Upto(MCFiles, 3) }
=============================================================================
