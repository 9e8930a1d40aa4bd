---------------------------- MODULE MetaSequence ----------------------------
(***************************************************************************)
(* The strings users give for titles, commands and the table of contents   *)
(* (liba2ps/metaseq.c): what expand_user_string makes of their escapes.    *)
(* A template is a sequence of tokens, an expansion a sequence of atoms of *)
(* one column each: characters, numbers, and symbols for what the model    *)
(* does not look into (<<"run", ..>> for the date, <<"name", i>> for the   *)
(* name of the i-th file).  j is the a2ps_job with its files, f the index  *)
(* of a file in it.                                                        *)
(***************************************************************************)
EXTENDS RangeText, FiniteSets, FiniteSetsExt

CONSTANTS
  Macros,    (* job->macro_meta_sequences: from names to templates         *)
  Environ,   (* the environment, from names to expansions                  *)
  Argv,      (* job->argv                                                  *)
  Flags,     (* the conditions of `#?' that the options set                *)
  Tags,      (* job->tag1 to tag4                                          *)
  Selection, (* job->page_range                                            *)
  NameOrder  (* the files, in the order of strcmp                          *)

(* Tokens.                                                                 *)
Char(c)            == [is |-> "char", c |-> c]
Esc(type, of)      == [is |-> "escape", type |-> type, of |-> of, width |-> 0, left |-> FALSE]
Sized(t, w, left)  == [t EXCEPT !.width = w, !.left = left]
Named(type, name, how, word) ==
  [is |-> "named", type |-> type, name |-> name, how |-> how, word |-> word, width |-> 0, left |-> FALSE]
If(cond, yes, no)  == [is |-> "if", cond |-> cond, yes |-> yes, no |-> no]
Each(key, in, between, w, left) ==
  [is |-> "each", key |-> key, in |-> in, between |-> between, width |-> w, left |-> left]

(* Atoms; Fatal stands for error (1, ...), which ends the program.         *)
C(c)  == <<"c", c>>
N(n)  == <<"n", n>>
Fatal == <<"error">>
Pad   == C(" ")
Delayed(what, f) == <<"delayed", what, f>>

Known(j, f) == f # Len(j.files)   \* file != CURRENT_FILE (job)

(* APPEND_CH and APPEND_STR: filled up to the width, never cut.            *)
AppendStr(s, t) ==
  LET fill == [n \in 1 .. (IF Len(s) > t.width THEN 0 ELSE t.width - Len(s)) |-> Pad]
  IN IF t.left THEN s \o fill ELSE fill \o s

(* limit_by_width                                                          *)
LimitByWidth(t, n) ==
  IF t.width = 0 THEN n
  ELSE IF t.left THEN IF t.width <= n THEN n - t.width ELSE n
  ELSE IF t.width < n THEN t.width ELSE n
-----------------------------------------------------------------------------
(* Dates and times, of the run and of a file's modification.               *)
TimeNames == {"C", "D", "D{}", "e", "E", "F", "t", "T", "*", "W"}
RunTime(of)     == <<<<"run", of>>>>
FileTime(of, f) == <<<<"modified", of, f>>>>

(* The user and the machine, from variables; the directory; the version.   *)
UserVariable == [a |-> "user.name", A |-> "user.name", n |-> "user.login", N |-> "user.name",
                 m |-> "user.host", M |-> "user.host"]
Where(of) == <<<<"context", of>>>>

(* The job: the numbers that are known now, and those that are not yet.    *)
JobNumber(j, of) ==
  CASE of = "p." -> <<N(j.pages)>>  [] of = "s." -> <<N(j.sheets)>>
    [] of = "p#" -> <<Delayed("JOB_NB_PAGES", 0)>>
    [] of = "s#" -> <<Delayed("JOB_NB_SHEETS", 0)>>
    [] of = "#"  -> <<Delayed("JOB_NB_FILES", 0)>>
    [] of = "q"  -> <<C("Page "), N(j.pages)>>
    [] of = "Q"  -> <<C("Page "), N(j.pages), C("/"), Delayed("JOB_NB_PAGES", 0)>>

JobNumbers == {"p.", "s.", "p#", "s#", "#", "q", "Q"}

Global(j, of) ==
  IF of = "%" THEN <<C("%")>>
  ELSE IF of \in JobNumbers THEN JobNumber(j, of)
  ELSE IF of \in TimeNames THEN RunTime(of)
  ELSE IF of \in {"c", "d", "V"} THEN Where(of)
  ELSE IF of \in DOMAIN UserVariable THEN <<<<"user", UserVariable[of]>>>>
  ELSE <<Fatal>>

(* A file: its name and directory.                                         *)
FileName(of, f) == <<<<"name", of, f>>>>

(* What is final only when the file is over.                               *)
Later(j, f, now, what) == IF Known(j, f) THEN <<N(now)>> ELSE <<Delayed(what, f)>>

(* The pages of a file, in the numbering of the job (< > ) or its own.     *)
FilePages(j, f, of) ==
  LET file == j.files[f]
  IN CASE of = "p^" -> <<N(file.topPage)>>
       [] of = "p-" -> IF file.topPage = file.pages THEN <<N(file.topPage)>>
                       ELSE <<N(file.topPage), C("-"), N(file.pages)>>
       [] of = "p<" -> <<N(file.firstPage)>>
       [] of = "p." -> <<N(file.pages)>>
       [] of = "p>" -> Later(j, f, file.lastPage, "FILE_LAST_PAGE")
       [] of = "p#" -> Later(j, f, file.pages, "FILE_NB_PAGES")
       [] of = "q"  -> <<C("Page "), N(file.pages)>>
       [] of = "Q"  -> <<C("Page "), N(file.pages), C("/")>> \o Later(j, f, file.pages, "FILE_NB_PAGES")

FileSheets(j, f, of) ==
  LET file == j.files[f]
  IN CASE of = "s<" -> <<N(file.firstSheet)>>
       [] of = "s." -> <<N(file.sheets)>>
       [] of = "s>" -> Later(j, f, file.lastSheet, "FILE_LAST_SHEET")
       [] of = "s#" -> Later(j, f, file.sheets, "FILE_NB_SHEETS")

FileLines(j, f, of) ==
  IF of = "l#" THEN Later(j, f, <<"lines", f>>, "FILE_NB_LINES") ELSE <<<<of, f>>>>

TagIndex == [t1 |-> 1, t2 |-> 2, t3 |-> 3, t4 |-> 4]

OfFile(j, f, of) ==
  IF of = "$" THEN <<C("$")>>
  ELSE IF of = "#" THEN <<N(f)>>
  ELSE IF of \in {"p^", "p-", "p<", "p.", "p>", "p#", "q", "Q"} THEN FilePages(j, f, of)
  ELSE IF of \in {"s<", "s.", "s>", "s#"} THEN FileSheets(j, f, of)
  ELSE IF of \in {"l^", "l.", "l#"} THEN FileLines(j, f, of)
  ELSE IF of \in {"d", "f", "N", "n"} THEN FileName(of, f)
  ELSE IF of \in TimeNames THEN FileTime(of, f)
  ELSE IF of \in DOMAIN TagIndex THEN Tags[TagIndex[of]]
  ELSE <<Fatal>>

(* `$[n]': the test looks at the bracket where it wants a digit, so that   *)
(* every use of it ends the program, whatever the argument.                *)
Argument(n) == <<Fatal>>

(* The output: medium, destination, pages left, temporary files.  `#p'     *)
(* prints a local buffer; stale is what the buffer held before.            *)
TempName(k) == <<<<"tmp", k>>>>
OfOutput(j, of, stale) ==
  IF of = "#" THEN <<C("#")>>
  ELSE IF of = "." THEN <<C("ps")>>
  ELSE IF of \in {"h", "w", "o", "O", "v"} THEN <<<<"output", of>>>>
  ELSE IF of = "p" THEN <<<<"range", ToBuffer(Selection, j.pages, stale)>>>>
  ELSE IF of \in {"f0", "f1", "f9"} THEN TempName(of)
  ELSE <<Fatal>>

(* `#?': the tests.                                                        *)
TagTests == [t \in {"1", "2", "3", "4"} |-> CHOOSE n \in 1 .. 4 : ToString(n) = t]
Test(j, cond) ==
  IF cond \in DOMAIN TagTests THEN Tags[TagTests[cond]] # << >>
  ELSE IF cond = "p" THEN AppliesAbove(Selection, j.pages)
  ELSE IF cond = "v" THEN j.sheets % 2 = 1
  ELSE cond \in Flags
-----------------------------------------------------------------------------
(* What `#!' enumerates: indices of files, in their order.  Mutant: the    *)
(* files that end on the sheet are left out.                               *)
OnSheetBefore(j) == SelectSeq([n \in 1 .. Len(j.files) |-> n],
                              LAMBDA f : j.files[f].lastSheet > j.sheets)

(* "Only the files before this sheet are known, so just test on the last   *)
(* page number"                                                            *)
OnSheet(j) == SelectSeq([n \in 1 .. Len(j.files) |-> n],
                        LAMBDA f : j.files[f].lastSheet >= j.sheets)

(* A clone of job->jobs, sorted by file_name_cmp.                          *)
ByName(j) == SelectSeq(NameOrder, LAMBDA f : f <= Len(j.files))

Enumerated(j, key) ==
  IF key = "s" THEN OnSheet(j)
  ELSE IF key = "F" THEN ByName(j)
  ELSE [n \in 1 .. Len(j.files) |-> n]

RECURSIVE Grow(_, _, _)

(* One token.  Enumerations print the separator, for the file before it,   *)
(* after each object but the last; those of `#!$' are the arguments.       *)
Objects(j, f, t) ==
  IF t.key = "$"
  THEN [n \in 1 .. LimitByWidth(t, Len(Argv)) |->
          [text |-> AppendStr(<<C(Argv[n])>>, t), file |-> n]]
  ELSE LET e == Enumerated(j, t.key)
       IN [n \in 1 .. LimitByWidth(t, Len(e)) |-> [text |-> Grow(t.in, e[n], j), file |-> e[n]]]

Enumerate(j, f, t) ==
  LET o == Objects(j, f, t)
  IN FlattenSeq([n \in DOMAIN o |->
       o[n].text \o IF n < Len(o) THEN Grow(t.between, o[n].file, j) ELSE << >>])

(* A variable is expanded in its turn; of the environment, or a word, the  *)
(* text is taken as it is.                                                 *)
Defined(t) ==
  IF t.type = "#" THEN t.name \in DOMAIN Macros /\ Macros[t.name] # << >>
  ELSE t.name \in DOMAIN Environ /\ Environ[t.name] # << >>

ValueOf(j, f, t) ==
  IF ~Defined(t) THEN << >>
  ELSE IF t.type = "#" THEN Grow(Macros[t.name], f, j) ELSE AppendStr(Environ[t.name], t)

Variable(j, f, t) ==
  CASE t.how = ""  -> ValueOf(j, f, t)
    [] t.how = "-" -> IF Defined(t) THEN ValueOf(j, f, t) ELSE AppendStr(t.word, t)
    [] t.how = "+" -> IF Defined(t) THEN AppendStr(t.word, t) ELSE << >>
    [] OTHER       -> <<Fatal>>

Simple(j, f, t) ==
  AppendStr(CASE t.type = "%"  -> Global(j, t.of)
              [] t.type = "$"  -> OfFile(j, f, t.of)
              [] t.type = "#"  -> OfOutput(j, t.of, << >>)
              [] t.type = "$[" -> Argument(t.of)
              [] t.type = "\\" -> <<C(t.of)>>, t)

Token(j, f, t) ==
  CASE t.is = "char"   -> <<C(t.c)>>
    [] t.is = "escape" -> Simple(j, f, t)
    [] t.is = "named"  -> Variable(j, f, t)
    [] t.is = "if"     -> Grow(IF Test(j, t.cond) THEN t.yes ELSE t.no, f, j)
    [] t.is = "each"   -> Enumerate(j, f, t)

(* grow_user_string_obstack                                                *)
Grow(str, f, j) == FlattenSeq([n \in DOMAIN str |-> Token(j, f, str[n])])

(* expand_user_string, of a string that is not null.                       *)
ExpandUserString(j, f, str) == Grow(str, f, j)

Ends(expansion) == Fatal \in ToSet(expansion)
=============================================================================
