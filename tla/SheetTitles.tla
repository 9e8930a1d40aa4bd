---------------------------- MODULE SheetTitles ----------------------------
(***************************************************************************)
(* What the titles of the physical pages say: page_end (liba2ps/psgen.c)   *)
(* expands the label, the header and the footers of the page with the      *)
(* counters of the page engine, and leaves what is not known yet to the    *)
(* end of the job.                                                         *)
(***************************************************************************)
EXTENDS PageEngine, MetaSequence

CONSTANT Marks   (* templates: label, header, footer, right, left          *)

VARIABLES
  titles,    (* what was written on each page that is printed              *)
  stack,     (* the string expand_user_string returned last: its callers   *)
             (* share it                                                   *)
  onSheet,   (* history: the pages, as <<file, number in the file>>, of    *)
             (* the physical page being filled                             *)
  requests   (* history: pages printed before, and what was asked, for     *)
             (* each delegation                                            *)

titleVars == <<titles, stack, onSheet, requests>>

TitlesInit ==
  /\ Init
  /\ titles = << >> /\ stack = << >> /\ onSheet = {} /\ requests = << >>

(* output_marker: the delayed numbers are those of the file that is        *)
(* current when the marker is written.                                     *)
OutputMarker(j, mark) ==
  LET text == ExpandUserString(j, CurrentIndex(j), Marks[mark])
  IN [n \in DOMAIN text |->
        IF text[n][1] = "delayed" THEN [later |-> text[n][2], file |-> CurrentIndex(j)]
        ELSE [later |-> "", text |-> text[n]]]

PageLabel(text) == [copy |-> TRUE, text |-> text]

(* The titles of page_end.  The last one that is expanded stays in the     *)
(* shared string.                                                          *)
PageTitles(j) ==
  [ sheet  |-> j.sheets, file |-> CurrentIndex(j), on |-> onSheet,
    label  |-> PageLabel(ExpandUserString(j, CurrentIndex(j), Marks.label)),
    header |-> OutputMarker(j, "header"), footer |-> OutputMarker(j, "footer"),
    right  |-> OutputMarker(j, "right"), left |-> OutputMarker(j, "left") ]

(* The job when page_end is called: a phantom page is counted first.       *)
JobAtEnd ==
  IF phase \in {"aligning", "tocAligning"} /\ FileAlign = "rank" THEN [job EXCEPT !.pages = @ + 1] ELSE job

PageEnds == job.virtual # 0 /\ job'.virtual = 0
PageBegins == phase = "body" /\ phase' = "virtual" /\ ~job'.toVoid

TitleStep ==
  /\ IF PageEnds THEN stack' = ExpandUserString(JobAtEnd, CurrentIndex(job), Marks.left) ELSE UNCHANGED stack
  /\ titles' = IF PageEnds /\ ~job.toVoid THEN Append(titles, PageTitles(JobAtEnd)) ELSE titles
  /\ onSheet' = IF PageEnds THEN {}
                ELSE IF PageBegins THEN onSheet \cup {<<CurrentIndex(job'), CurrentFile(job').pages>>}
                ELSE onSheet
  /\ requests' = IF phase = "opened" /\ phase' \in {"delegating", "closing"} /\ hist'[Len(hist)].kind # "ignored"
                 THEN Append(requests, [offset |-> job.pages, range |-> ToBuffer(Selection, job.pages, << >>)])
                 ELSE requests

TitlesNext == Next /\ TitleStep

TitlesSpec == TitlesInit /\ [][TitlesNext]_<<vars, titleVars>>

(* The loops of ps_begin_file run until their conditions fail.             *)
FairTitlesSpec ==
  TitlesSpec /\ WF_<<vars, titleVars>>(AlignStep /\ TitleStep) /\ WF_<<vars, titleVars>>(LinkFile /\ TitleStep)
-----------------------------------------------------------------------------
(* undivert: the delayed numbers are read when the output is dumped.       *)
Final(j, f, what) ==
  CASE what = "FILE_LAST_PAGE"  -> N(j.files[f].lastPage)
    [] what = "FILE_LAST_SHEET" -> N(j.files[f].lastSheet)
    [] what = "FILE_NB_PAGES"   -> N(j.files[f].pages)
    [] what = "FILE_NB_SHEETS"  -> N(j.files[f].sheets)
    [] what = "FILE_NB_LINES"   -> <<"lines", f>>
    [] what = "JOB_NB_PAGES"    -> N(j.pages)
    [] what = "JOB_NB_SHEETS"   -> N(j.sheets)
    [] what = "JOB_NB_FILES"    -> N(Len(j.files))

Printed(j, marker) ==
  [n \in DOMAIN marker |-> IF marker[n].later = "" THEN marker[n].text ELSE Final(j, marker[n].file, marker[n].later)]

PrintedLabel(t) == IF t.label.copy THEN t.label.text ELSE stack

FilesOn(t) == {p[1] : p \in t.on}
NumbersOf(t, f) == {p[2] : p \in {q \in t.on : q[1] = f}}
NumbersIn(text) == {text[n][2] : n \in {m \in DOMAIN text : text[m][1] = "n"}}

(* "enumeration of the files appearing in the current sheet" (`#!s',       *)
(* a2ps.texi:2178), when every page is selected: the label, here the       *)
(* numbers of these files, names the files that put a page on the sheet,   *)
(* each once, also when a file starts or ends in the middle of the sheet.  *)
(* A file without a page is named where it would have started.             *)
SheetFiles ==
  \A t \in ToSet(titles) :
    LET named == {f \in NumbersIn(PrintedLabel(t)) : hist[f].virtuals > 0}
    IN /\ named = FilesOn(t)
       /\ \A n, m \in DOMAIN PrintedLabel(t) :
            n # m /\ PrintedLabel(t)[n][1] = "n" => PrintedLabel(t)[n] # PrintedLabel(t)[m]

(* "interval of the page number of the current file appearing in the       *)
(* current sheet" (`$p-'): the first and the last of the pages that the    *)
(* current file has on the sheet.                                          *)
SheetInterval ==
  \A t \in ToSet(titles) : NumbersOf(t, t.file) # {} =>
    LET p == NumbersIn([n \in DOMAIN t.header |-> t.header[n].text])
    IN p = {Min(NumbersOf(t, t.file)), Max(NumbersOf(t, t.file))}

(* A total that was not known when a title was written is printed as what  *)
(* a table of contents, expanded when the file is over, says of the file.  *)
TotalsAgree ==
  phase = "done" => \A t \in ToSet(titles) :
    Printed(job, t.footer) = <<N(job.files[t.file].pages), C("/"), N(job.files[t.file].sheets)>>

(* The doc of widths and enumerations, for the job at hand: "the result of *)
(* the expansion is prefixed by the character PADDING so that the whole    *)
(* result is as long as INTEGER"; "#10!f lists only the ten first file     *)
(* names", "#-1!f lists all the files but the last".                       *)
Widths == {0, 1, 2, 4}
WidthAsDocumented ==
  phase = "opened" =>
    \A w \in Widths, e \in {Esc("$", "p-"), Esc("%", "Q"), Esc("%", "%")} :
      LET bare  == Grow(<<e>>, CurrentIndex(job), job)
          right == Grow(<<Sized(e, w, FALSE)>>, CurrentIndex(job), job)
          left  == Grow(<<Sized(e, w, TRUE)>>, CurrentIndex(job), job)
          long  == Max({w, Len(bare)})
      IN /\ Len(right) = long /\ Len(left) = long
         /\ SubSeq(right, long - Len(bare) + 1, long) = bare
         /\ SubSeq(left, 1, Len(bare)) = bare

EnumerationAsDocumented ==
  phase = "opened" =>
    \A key \in {"f", "F"}, w \in 1 .. Len(job.files) :
      LET List(n, left) == Grow(<<Each(key, <<Esc("$", "#")>>, <<Char(",")>>, n, left)>>, 1, job)
          all == SelectSeq(List(0, FALSE), LAMBDA a : a[1] = "n")
          Shown(n, left) == SelectSeq(List(n, left), LAMBDA a : a[1] = "n")
      IN /\ Shown(w, FALSE) = SubSeq(all, 1, w)
         /\ Shown(w, TRUE) = SubSeq(all, 1, Len(all) - w)
         /\ Last(List(w, FALSE)) # C(",")

(* "the page range of what remains to be printed" (`#p', a2ps.texi:2362):  *)
(* a delegated application, reading what it is given as a2ps reads its own *)
(* --pages, prints its page p when a2ps was asked for the page that comes  *)
(* out p pages after those it has printed.  (When nothing remains the code *)
(* may also write an empty range, which says the contrary.)  Not checked:  *)
(* it does not hold, see the README.                                       *)
Told(r, p) == PrintPage(ToSet(Reading(r.range).intervals), FALSE, FALSE, p)
Remains(r) == \A p \in 1 .. MaxPages : Told(r, p) <=> PrintPage(Intervals, FALSE, FALSE, p + r.offset)

RangeRemains == \A r \in ToSet(requests) : r.range # << >> => Remains(r)

(* The same, when no interval ends with the pages that are printed or is   *)
(* open at its start, and none that is open at its end has begun.          *)
RangeShifted ==
  \A r \in ToSet(requests) :
    (\A i \in Intervals : \/ i.max # 0 /\ i.max > r.offset /\ i.min # 0
                          \/ i.max = 0 /\ i.min > r.offset) => Remains(r)

(* "true if printing on the back side of the sheet (verso)" (`#?v',        *)
(* a2ps.texi:2155): the first page of a job is on a front side.  Not       *)
(* checked: it does not hold, see the README.                              *)
VersoIsBack ==
  \A t \in ToSet(titles) :
    [n \in DOMAIN t.right |-> t.right[n].text] = <<C(IF t.sheet % 2 = 0 THEN "back" ELSE "front")>>
-----------------------------------------------------------------------------
(* What the titles say is so: the files and the pages of their sheet, the  *)
(* totals of their file, in the widths and enumerations of the manual.     *)
TitlesTrue ==
  SheetFiles /\ SheetInterval /\ TotalsAgree /\ WidthAsDocumented /\ EnumerationAsDocumented
=============================================================================
