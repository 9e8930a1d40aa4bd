---------------------------- MODULE MCHighlight ----------------------------
(* Instances of Highlight for TLC: a small language.                       *)
EXTENDS Highlight

MCChars == {"k", "K", "1", "q", "e", "-", "n"}

(* k and K are letters, e is one too; 1 a digit; "n" ends the lines.       *)
Letters == {"k", "K", "e"}
Digits  == {"1"}
WordChars == Letters \cup Digits

Face(name)  == [face |-> name, flags |-> {}]
String(w, rhs) == [matches |-> {w}, rhs |-> rhs]
InFace(f)   == <<[string |-> Match, face |-> f]>>
NoWords     == [strings |-> {}, regexps |-> << >>]

Naming      == [face |-> "Plain", flags |-> {"Encoding"}]
Hidden      == [face |-> "Plain", flags |-> {"Invisible", "Tag1"}]
KeywordFace == Face("Keyword")
StringFace  == Face("String")

(* Keywords: k, and kk with a hidden mark; e and e1 name encodings, in two *)
(* pieces when 1e comes before or after; - is shown as a symbol, -- is not *)
(* shown.                                                                  *)
MCKeywords ==
  [ strings |-> {String(<<"k">>, InFace(KeywordFace)),
                 String(<<"k", "k">>, <<[string |-> Match, face |-> KeywordFace],
                                        [string |-> <<"1">>, face |-> Hidden]>>)},
    regexps |-> <<[matches |-> {<<"e">>, <<"e", "1">>}, rhs |-> InFace(Naming)]>> ]

MCOperators ==
  [ strings |-> {String(<<"-">>, <<[string |-> <<"1", "1">>, face |-> Face("Symbol")]>>),
                 String(<<"-", "-">>, InFace(Hidden))},
    regexps |-> <<[matches |-> {<<"1", "e">>}, rhs |-> InFace([face |-> "Label", flags |-> {"Encoding"}])]>> ]

(* Strings between q, where -q is an exception; comments from qq to the    *)
(* end of the line; what 1k opens is closed at once; and where 1q was, the *)
(* exception k* is read for ever, unless there are k's.                    *)
MCSequences ==
  << [ open |-> String(<<"q">>, InFace(StringFace)), face |-> StringFace,
       exceptions |-> [strings |-> {String(<<"-", "q">>, InFace(StringFace))}, regexps |-> << >>],
       close |-> [strings |-> {String(<<"q">>, InFace(StringFace))}, regexps |-> << >>] ],
     [ open |-> String(<<"q", "q">>, InFace(Face("Comment"))), face |-> Face("Comment"),
       exceptions |-> NoWords,
       close |-> [strings |-> {}, regexps |-> <<[matches |-> {<<"n">>}, rhs |-> InFace(Face("Comment"))]>>] ],
     [ open |-> String(<<"1", "k">>, InFace(StringFace)), face |-> StringFace,
       exceptions |-> NoWords,
       close |-> [strings |-> {}, regexps |-> <<[matches |-> {<< >>}, rhs |-> InFace(StringFace)]>>] ],
     [ open |-> String(<<"1", "q">>, InFace(StringFace)), face |-> StringFace,
       exceptions |-> [strings |-> {}, regexps |->
         <<[matches |-> {<< >>, <<"k">>, <<"k", "k">>}, rhs |-> InFace(Face("Symbol"))]>>],
       close |-> NoWords ] >>

MCFold == [c \in MCChars |-> IF c = "K" THEN "k" ELSE c]

MCNames == {<<"e">>, <<"e", "1">>}

(* Lines of up to three characters, and the same with their end.           *)
MCLines ==
  LET texts == UNION {[1 .. n -> MCChars \ {"n"}] : n \in 1 .. 3}
  IN texts \cup {Append(w, "n") : w \in texts \cup {<< >>}}
=============================================================================
