---------------------------- MODULE MCSheetTitles ----------------------------
(* Instances of SheetTitles: titles that show the files of the sheet, the  *)
(* pages of the current file and its totals.                               *)
EXTENDS SheetTitles

CONSTANTS latin1, latin2

AllPages == {}
OneAndOn == {[min |-> 1, max |-> 1], [min |-> 3, max |-> 0]}
TwoThree == {[min |-> 2, max |-> 3]}

MCSelection == [intervals |-> SetToSeq(Intervals), toc |-> TocOnly, failed |-> FALSE]

MCMarks ==
  [ label  |-> <<Each("s", <<Esc("$", "#")>>, <<Char(",")>>, 0, FALSE)>>,
    header |-> <<Esc("$", "p-")>>,
    footer |-> <<Esc("$", "p#"), Char("/"), Esc("$", "s#")>>,
    right  |-> <<If("v", <<Char("back")>>, <<Char("front")>>)>>,
    left   |-> <<Named("#", "user.name", "-", <<C("nobody")>>), Named("$", "HOME", "", << >>),
                 If("1", <<Esc("$", "t1")>>, <<Esc("%", "s.")>>)>> ]

MCMacros  == [m \in {"user.name"} |-> <<Esc("%", "Q"), Each("$", << >>, <<Char(" ")>>, 0, FALSE)>>]
MCEnviron == [m \in {"HOME"} |-> <<C("/home")>>]
MCArgv    == <<"a2ps", "file">>
MCTags    == <<<<C("x")>>, << >>, << >>, << >>>>
MCOrder   == <<2, 3, 1>>
=============================================================================
