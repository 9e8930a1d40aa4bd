-------------------------- MODULE PageEngineProofs --------------------------
(***************************************************************************)
(* Proofs about PageEngine, for every value of its constants.              *)
(*                                                                         *)
(* 1. The counters of a2ps_job and of its files keep their types: the      *)
(*    differences of fjobs.c never wrap (TypeCorrect).                     *)
(* 2. What the printer reads is a sequence of well-formed pages, which     *)
(*    job->sheets counts, whatever the pages selected and whatever files   *)
(*    fail, provided that ranks are not aligned with phantom virtual pages *)
(*    under a selection of the pages (PagesWellFormed).                    *)
(* 3. When every page is selected, the printer opens and closes the        *)
(*    dictionaries of the encodings one at a time, and reads the text      *)
(*    under the encoding that was asked for (TextUnderItsEncoding).        *)
(* 4. Files aligned on physical pages share none, and each begins where    *)
(*    its alignment says (FilesStartApart, FilesStartAligned).             *)
(* 5. The counters of a file that a2ps prints itself count the virtual     *)
(*    pages that were begun (CountersAreTrue).                             *)
(***************************************************************************)
EXTENDS PageEngine, TLAPS

(* The strengthening that keeps the differences of fjobs.c in Nat: a file  *)
(* cannot have begun after the current page.                               *)
FilesBegun(j) ==
  \A i \in DOMAIN j.files : /\ j.files[i].firstSheet <= j.sheets
                            /\ j.files[i].firstPage <= j.pages

JobOK(j) == j \in Job /\ FilesBegun(j)

(* Only before the first file is linked is there no current file.          *)
SomeFile == phase \notin {"idle", "aligning", "tocAligning"} => job.files # << >>

TypeInv ==
  /\ JobOK(job)
  /\ enc \in EncState
  /\ phase \in Phases
  /\ hist \in Seq(History) /\ Len(hist) = Len(job.files)
  /\ asked \in Encodings
  /\ SomeFile

(* Everything of the job that an update of a file's counters leaves alone. *)
SameButCounters(j, k) ==
  /\ k.pages = j.pages /\ k.sheets = j.sheets /\ k.virtual = j.virtual
  /\ k.toVoid = j.toVoid /\ k.page = j.page /\ k.label = j.label
  /\ k.shown = j.shown /\ k.faults = j.faults
  /\ Len(k.files) = Len(j.files)
-----------------------------------------------------------------------------
(* The counters of the current file.                                       *)

LEMMA SetCurrentFile ==
  ASSUME NEW j, JobOK(j), j.files # << >>,
         NEW g \in File, g.firstSheet <= j.sheets, g.firstPage <= j.pages,
         NEW k, k = [j EXCEPT !.files[Len(j.files)] = g]
  PROVE  JobOK(k) /\ SameButCounters(j, k)
<1> DEFINE t == [j.files EXCEPT ![Len(j.files)] = g]
<1>1. j.files \in Seq(File) /\ Len(j.files) \in DOMAIN j.files
  BY DEF JobOK, Job
<1>2. /\ t \in Seq(File) /\ Len(t) = Len(j.files) /\ DOMAIN t = DOMAIN j.files
      /\ \A i \in DOMAIN t : t[i] = g \/ t[i] = j.files[i]
  BY <1>1
<1> HIDE DEF t
<1>3. k = [j EXCEPT !.files = t]
  BY DEF t, JobOK, Job
<1>4. k \in Job /\ k.files = t /\ SameButCounters(j, k)
  BY <1>2, <1>3 DEF JobOK, Job, SameButCounters
<1>5. FilesBegun(k)
  BY <1>2, <1>4 DEF JobOK, FilesBegun, SameButCounters
<1>6. QED
  BY <1>4, <1>5 DEF JobOK

LEMMA CurrentFileOK ==
  ASSUME NEW j, JobOK(j), j.files # << >>
  PROVE  /\ CurrentFile(j) \in File
         /\ CurrentFile(j).firstSheet <= j.sheets
         /\ CurrentFile(j).firstPage <= j.pages
         /\ j.sheets \in Nat /\ j.pages \in Nat
<1>1. j.files \in Seq(File) /\ Len(j.files) \in DOMAIN j.files
  BY DEF JobOK, Job
<1>2. QED
  BY <1>1 DEF JobOK, Job, FilesBegun, CurrentFile

LEMMA SynchronizeSheetsOK ==
  ASSUME NEW j, JobOK(j), j.files # << >>
  PROVE  /\ JobOK(SynchronizeSheets(j))
         /\ SameButCounters(j, SynchronizeSheets(j))
<1> DEFINE f     == CurrentFile(j)
           first == IF f.firstSheet = 0 THEN j.sheets ELSE f.firstSheet
           d     == j.sheets - first + 1
           g     == [f EXCEPT !.firstSheet = first, !.lastSheet = j.sheets,
                              !.sheets = d]
<1>1. f \in File /\ f.firstSheet <= j.sheets /\ f.firstPage <= j.pages
      /\ j.sheets \in Nat
  BY CurrentFileOK
<1>2. first \in Nat /\ first <= j.sheets
  BY <1>1 DEF File
<1>3. SynchronizeSheets(j) = [j EXCEPT !.files[Len(j.files)] = g]
  BY DEF SynchronizeSheets, CurrentIndex
<1> HIDE DEF f, first
<1>4. d \in Nat
  BY <1>1, <1>2
<1> HIDE DEF d
<1>5. g \in File /\ g.firstSheet = first /\ g.firstPage = f.firstPage
  BY <1>1, <1>2, <1>4 DEF File
<1> HIDE DEF g
<1>6. QED
  BY <1>1, <1>2, <1>3, <1>5, SetCurrentFile

LEMMA SynchronizePagesOK ==
  ASSUME NEW j, JobOK(j), j.files # << >>
  PROVE  /\ JobOK(SynchronizePages(j))
         /\ SameButCounters(j, SynchronizePages(j))
<1> DEFINE f     == CurrentFile(j)
           first == IF f.firstPage = 0 THEN j.pages ELSE f.firstPage
           top   == IF f.topPage = 0 THEN 1 ELSE f.topPage
           d     == j.pages - first + 1
           g     == [f EXCEPT !.firstPage = first, !.topPage = top,
                              !.lastPage = j.pages, !.pages = d]
<1>1. f \in File /\ f.firstSheet <= j.sheets /\ f.firstPage <= j.pages
      /\ j.pages \in Nat
  BY CurrentFileOK
<1>2. first \in Nat /\ first <= j.pages /\ top \in Nat
  BY <1>1 DEF File
<1>3. SynchronizePages(j) = [j EXCEPT !.files[Len(j.files)] = g]
  BY DEF SynchronizePages, CurrentIndex
<1> HIDE DEF f, first, top
<1>4. d \in Nat
  BY <1>1, <1>2
<1> HIDE DEF d
<1>5. g \in File /\ g.firstPage = first /\ g.firstSheet = f.firstSheet
  BY <1>1, <1>2, <1>4 DEF File
<1> HIDE DEF g
<1>6. QED
  BY <1>1, <1>2, <1>3, <1>5, SetCurrentFile
-----------------------------------------------------------------------------
(* Physical pages: what each function does to the job.                     *)

LEMMA FaultIfType ==
  ASSUME NEW cond, NEW name \in PageFaults
  PROVE  FaultIf(cond, name) \subseteq PageFaults
BY DEF FaultIf

LEMMA PageBeginEffect ==
  ASSUME NEW j, JobOK(j), j.files # << >>
  PROVE  LET k == PageBegin(j)
         IN /\ JobOK(k)
            /\ Len(k.files) = Len(j.files)
            /\ k.pages = j.pages /\ k.toVoid = j.toVoid /\ k.shown = j.shown
            /\ k.virtual = 1
            /\ k.sheets = IF Selected(j, j.pages) THEN j.sheets + 1 ELSE j.sheets
            /\ k.page = (j.page \/ ~j.toVoid)
            /\ k.label = IF j.toVoid THEN j.label ELSE "pending"
            /\ k.faults = j.faults
                 \cup FaultIf(~j.toVoid /\ j.page, "page not ended")
                 \cup FaultIf(~j.toVoid /\ j.label = "pending", "label not filled")
<1> DEFINE f == CurrentFile(j)
           d == f.pages + 1
           g == [f EXCEPT !.topPage = d]
           t == [j.files EXCEPT ![Len(j.files)] = g]
           n == IF Selected(j, j.pages) THEN j.sheets + 1 ELSE j.sheets
           faults == j.faults
                 \cup FaultIf(~j.toVoid /\ j.page, "page not ended")
                 \cup FaultIf(~j.toVoid /\ j.label = "pending", "label not filled")
           page  == j.page \/ ~j.toVoid
           label == IF j.toVoid THEN j.label ELSE "pending"
           k == PageBegin(j)
<1>1. f \in File /\ f.firstSheet <= j.sheets /\ f.firstPage <= j.pages
  BY CurrentFileOK
<1>2. d \in Nat
  BY <1>1 DEF File
<1>3. k = [j EXCEPT !.virtual = 1, !.sheets = n, !.files = t, !.page = page,
                    !.label = label, !.faults = faults]
  BY DEF PageBegin, CurrentIndex, CurrentFile, JobOK, Job
<1>4. faults \subseteq PageFaults /\ page \in BOOLEAN
      /\ label \in {"none", "pending", "filled"} /\ n \in Nat /\ j.sheets <= n
  <2>1. j.faults \subseteq PageFaults
        /\ {"page not ended", "label not filled"} \subseteq PageFaults
    BY DEF JobOK, Job, PageFaults
  <2>2. faults \subseteq PageFaults
    BY <2>1, FaultIfType
  <2>3. page \in BOOLEAN
    OBVIOUS
  <2>4. label \in {"none", "pending", "filled"} /\ n \in Nat /\ j.sheets <= n
    BY DEF JobOK, Job
  <2>5. QED BY <2>2, <2>3, <2>4
<1> HIDE DEF f, d
<1>5. g \in File /\ g.firstSheet = f.firstSheet /\ g.firstPage = f.firstPage
  BY <1>1, <1>2 DEF File
<1> HIDE DEF g
<1>6. j.files \in Seq(File) /\ Len(j.files) \in DOMAIN j.files
  BY DEF JobOK, Job
<1>7. /\ t \in Seq(File) /\ Len(t) = Len(j.files) /\ DOMAIN t = DOMAIN j.files
      /\ \A i \in DOMAIN t : t[i] = g \/ t[i] = j.files[i]
  BY <1>5, <1>6
<1> HIDE DEF t, n, faults, page, label, k
<1>8. k \in Job /\ k.files = t /\ k.sheets = n /\ k.pages = j.pages
      /\ k.toVoid = j.toVoid /\ k.shown = j.shown /\ k.virtual = 1
      /\ k.label = label /\ k.faults = faults
  BY <1>3, <1>4, <1>7 DEF JobOK, Job
<1>9. k.page = page
  BY <1>3 DEF JobOK, Job
<1>10. FilesBegun(k)
  <2> SUFFICES ASSUME NEW i \in DOMAIN t
               PROVE  t[i].firstSheet <= n /\ t[i].firstPage <= j.pages
    BY <1>8 DEF FilesBegun
  <2>1. CASE t[i] = g
    <3>1. g.firstSheet <= j.sheets /\ g.firstPage <= j.pages
      BY <1>1, <1>5
    <3>2. j.sheets \in Nat /\ g.firstSheet \in Nat
      BY <1>5 DEF JobOK, Job, File
    <3>3. QED BY <2>1, <3>1, <3>2, <1>4
  <2>2. CASE t[i] = j.files[i]
    <3>1. j.files[i] \in File /\ j.files[i].firstSheet <= j.sheets
          /\ j.files[i].firstPage <= j.pages
      BY <1>6, <1>7 DEF JobOK, FilesBegun
    <3>2. j.sheets \in Nat /\ j.files[i].firstSheet \in Nat
      BY <3>1 DEF JobOK, Job, File
    <3>3. QED BY <3>1, <3>2, <2>2, <1>4
  <2>3. QED BY <1>7, <2>1, <2>2
<1>11. QED
  BY <1>7, <1>8, <1>9, <1>10 DEF JobOK, n, faults, page, label, k

LEMMA PageEndEffect ==
  ASSUME NEW j, JobOK(j)
  PROVE  LET k == PageEnd(j)
         IN /\ JobOK(k)
            /\ k.files = j.files
            /\ k.pages = j.pages /\ k.sheets = j.sheets /\ k.toVoid = j.toVoid
            /\ k.virtual = 0
            /\ k.page = (j.page /\ j.toVoid)
            /\ k.label = IF j.label = "none" THEN "none" ELSE "filled"
            /\ k.shown = IF j.toVoid THEN j.shown ELSE j.shown + 1
            /\ k.faults = j.faults
                 \cup FaultIf(j.label = "none", "label not allocated")
                 \cup FaultIf(j.label = "filled", "label overwritten")
                 \cup FaultIf(~j.toVoid /\ ~j.page, "showpage without page")
<1> DEFINE faults == j.faults
                 \cup FaultIf(j.label = "none", "label not allocated")
                 \cup FaultIf(j.label = "filled", "label overwritten")
                 \cup FaultIf(~j.toVoid /\ ~j.page, "showpage without page")
           page  == j.page /\ j.toVoid
           label == IF j.label = "none" THEN "none" ELSE "filled"
           shown == IF j.toVoid THEN j.shown ELSE j.shown + 1
           k == PageEnd(j)
<1>1. k = [j EXCEPT !.virtual = 0, !.label = label, !.page = page,
                    !.shown = shown, !.faults = faults]
  BY DEF PageEnd, JobOK, Job
<1>2. faults \subseteq PageFaults /\ page \in BOOLEAN
      /\ label \in {"none", "pending", "filled"} /\ shown \in Nat
  <2>1. j.faults \subseteq PageFaults
        /\ {"label not allocated", "label overwritten", "showpage without page"}
             \subseteq PageFaults
    BY DEF JobOK, Job, PageFaults
  <2>2. faults \subseteq PageFaults
    BY <2>1, FaultIfType
  <2>3. page \in BOOLEAN
    OBVIOUS
  <2>4. label \in {"none", "pending", "filled"} /\ shown \in Nat
    BY DEF JobOK, Job
  <2>5. QED BY <2>2, <2>3, <2>4
<1> HIDE DEF faults, page, label, shown, k
<1>3. k \in Job /\ k.files = j.files /\ k.sheets = j.sheets /\ k.pages = j.pages
      /\ k.toVoid = j.toVoid /\ k.shown = shown /\ k.virtual = 0
      /\ k.label = label /\ k.faults = faults /\ k.page = page
  BY <1>1, <1>2 DEF JobOK, Job
<1>4. FilesBegun(k)
  BY <1>3 DEF JobOK, FilesBegun
<1>5. QED
  BY <1>3, <1>4 DEF JobOK, faults, page, label, shown, k

LEMMA UnvoidOK ==
  ASSUME NEW j, JobOK(j), NEW b \in BOOLEAN
  PROVE  LET k == [j EXCEPT !.toVoid = b]
         IN JobOK(k) /\ k.toVoid = b /\ k.files = j.files /\ k.pages = j.pages
            /\ k.sheets = j.sheets /\ k.virtual = j.virtual /\ k.page = j.page
            /\ k.label = j.label /\ k.shown = j.shown /\ k.faults = j.faults
BY DEF JobOK, Job, FilesBegun

LEMMA PageFlushOK ==
  ASSUME NEW j, JobOK(j)
  PROVE  JobOK(PageFlush(j)) /\ Len(PageFlush(j).files) = Len(j.files)
<1> DEFINE k == [j EXCEPT !.toVoid = FALSE]
<1>1. JobOK(k) /\ k.files = j.files
  BY UnvoidOK
<1>2. PageFlush(j) = IF k.virtual # 0 THEN PageEnd(k) ELSE k
  BY DEF PageFlush
<1> HIDE DEF k
<1>3. JobOK(PageEnd(k)) /\ PageEnd(k).files = k.files
  BY <1>1, PageEndEffect
<1>4. QED
  BY <1>1, <1>2, <1>3

LEMMA OneMoreSheet ==
  ASSUME NEW j, JobOK(j)
  PROVE  LET a == [j EXCEPT !.sheets = @ + 1]
         IN /\ JobOK(a) /\ a.files = j.files /\ a.sheets = j.sheets + 1
            /\ a.pages = j.pages /\ a.virtual = j.virtual /\ a.toVoid = j.toVoid
            /\ a.page = j.page /\ a.label = j.label /\ a.shown = j.shown
            /\ a.faults = j.faults
<1> DEFINE a == [j EXCEPT !.sheets = @ + 1]
<1>1. a \in Job /\ a.files = j.files /\ a.sheets = j.sheets + 1
      /\ a.pages = j.pages /\ a.virtual = j.virtual /\ a.toVoid = j.toVoid
      /\ a.page = j.page /\ a.label = j.label /\ a.shown = j.shown
      /\ a.faults = j.faults
  BY DEF JobOK, Job
<1>2. \A i \in DOMAIN j.files : j.files[i] \in File /\ j.sheets \in Nat
  BY DEF JobOK, Job
<1>3. \A i \in DOMAIN j.files : j.files[i].firstSheet \in Nat
  BY <1>2 DEF File
<1>4. FilesBegun(a)
  <2> SUFFICES ASSUME NEW i \in DOMAIN j.files
               PROVE  /\ j.files[i].firstSheet <= j.sheets + 1
                      /\ j.files[i].firstPage <= j.pages
    BY <1>1 DEF FilesBegun
  <2>1. j.files[i].firstSheet <= j.sheets /\ j.files[i].firstPage <= j.pages
    BY DEF JobOK, FilesBegun
  <2>2. QED BY <2>1, <1>2, <1>3
<1>5. QED
  BY <1>1, <1>4 DEF JobOK

LEMMA PageEmptyOutputEffect ==
  ASSUME NEW j, JobOK(j), j.files # << >>
  PROVE  LET k == PageEmptyOutput(j)
         IN /\ JobOK(k)
            /\ Len(k.files) = Len(j.files)
            /\ k.pages = j.pages /\ k.virtual = j.virtual /\ k.toVoid = j.toVoid
            /\ k.page = j.page /\ k.label = j.label
            /\ k.sheets = j.sheets + 1
            /\ k.shown = IF j.toVoid THEN j.shown ELSE j.shown + 1
            /\ k.faults = IF j.toVoid THEN j.faults
                          ELSE j.faults \cup FaultIf(j.page, "page not ended")
<1> DEFINE a == [j EXCEPT !.sheets = @ + 1]
           b == SynchronizeSheets(a)
           faults == b.faults \cup FaultIf(b.page, "page not ended")
           shown == b.shown + 1
           c == [b EXCEPT !.shown = shown, !.faults = faults]
<1>1. JobOK(a) /\ a.files = j.files /\ a.sheets = j.sheets + 1
      /\ a.pages = j.pages /\ a.virtual = j.virtual /\ a.toVoid = j.toVoid
      /\ a.page = j.page /\ a.label = j.label /\ a.shown = j.shown
      /\ a.faults = j.faults
  BY OneMoreSheet
<1> HIDE DEF a
<1>2. JobOK(b) /\ SameButCounters(a, b)
  BY <1>1, SynchronizeSheetsOK
<1>3. PageEmptyOutput(j) = IF b.toVoid THEN b ELSE c
  BY DEF PageEmptyOutput, a, JobOK, Job
<1> HIDE DEF b
<1>4. faults \subseteq PageFaults /\ shown \in Nat
  <2>1. b.faults \subseteq PageFaults /\ "page not ended" \in PageFaults
    BY <1>2 DEF JobOK, Job, PageFaults
  <2>2. b.shown \in Nat
    BY <1>2 DEF JobOK, Job
  <2>3. faults \subseteq PageFaults
    BY <2>1, FaultIfType
  <2>4. shown \in Nat
    BY <2>2
  <2>5. QED BY <2>3, <2>4
<1> HIDE DEF faults, shown
<1>5. JobOK(c) /\ c.shown = shown /\ c.faults = faults
      /\ c.files = b.files /\ c.sheets = b.sheets
      /\ c.pages = b.pages /\ c.virtual = b.virtual /\ c.toVoid = b.toVoid
      /\ c.page = b.page /\ c.label = b.label
  BY <1>2, <1>4 DEF JobOK, Job, FilesBegun
<1>6. faults = j.faults \cup FaultIf(j.page, "page not ended")
  BY <1>1, <1>2 DEF faults, SameButCounters
<1>7. shown = j.shown + 1
  BY <1>1, <1>2 DEF shown, SameButCounters
<1> HIDE DEF c
<1>8. CASE b.toVoid
  BY <1>1, <1>2, <1>3, <1>8 DEF SameButCounters
<1>9. CASE ~b.toVoid
  BY <1>1, <1>2, <1>3, <1>5, <1>6, <1>7, <1>9 DEF SameButCounters
<1>10. QED
  BY <1>8, <1>9

LEMMA SheetFlushOK ==
  ASSUME NEW j, JobOK(j), j.files # << >>
  PROVE  JobOK(SheetFlush(j)) /\ Len(SheetFlush(j).files) = Len(j.files)
<1> DEFINE k == PageFlush(j)
<1>1. JobOK(k) /\ Len(k.files) = Len(j.files)
  BY PageFlushOK
<1>2. k.files # << >>
  BY <1>1 DEF JobOK, Job
<1>3. SheetFlush(j) = k \/ SheetFlush(j) = PageEmptyOutput(k)
  BY DEF SheetFlush
<1> HIDE DEF k
<1>4. QED
  BY <1>1, <1>2, <1>3, PageEmptyOutputEffect
-----------------------------------------------------------------------------
(* Virtual pages.                                                          *)

(* virtual_begin up to the call of page_begin.                             *)
Enter(j) == LET ok == Selected(j, j.pages + 1)
            IN [j EXCEPT !.pages = @ + 1, !.toVoid = ~ok,
                         !.virtual = IF ok THEN @ + 1 ELSE @]

LEMMA EnterEffect ==
  ASSUME NEW j, JobOK(j)
  PROVE  LET k == Enter(j)
         IN /\ JobOK(k) /\ k.files = j.files /\ k.pages = j.pages + 1
            /\ k.toVoid = ~Selected(k, k.pages)
            /\ k.virtual = IF k.toVoid THEN j.virtual ELSE j.virtual + 1
            /\ k.sheets = j.sheets /\ k.shown = j.shown /\ k.page = j.page
            /\ k.label = j.label /\ k.faults = j.faults
<1> DEFINE ok == Selected(j, j.pages + 1)
           v  == IF ok THEN j.virtual + 1 ELSE j.virtual
           no == ~ok
           p  == j.pages + 1
           k  == [j EXCEPT !.pages = p, !.toVoid = no, !.virtual = v]
<1>1. Enter(j) = k
  BY DEF Enter, JobOK, Job
<1>2. ok \in BOOLEAN /\ no \in BOOLEAN /\ v \in Nat /\ p \in Nat
  BY DEF JobOK, Job, Selected, PrintPage
<1> HIDE DEF v, no, p
<1>3. k \in Job /\ k.files = j.files /\ k.pages = p
      /\ k.virtual = v /\ k.sheets = j.sheets /\ k.shown = j.shown
      /\ k.page = j.page /\ k.label = j.label /\ k.faults = j.faults
      /\ k.toVoid = no
  BY <1>2 DEF JobOK, Job
<1> HIDE DEF k
<1>4. Selected(k, k.pages) <=> ok
  BY <1>3 DEF Selected, CurrentFile, p
<1>5. FilesBegun(k)
  <2> SUFFICES ASSUME NEW i \in DOMAIN j.files
               PROVE  /\ j.files[i].firstSheet <= j.sheets
                      /\ j.files[i].firstPage <= j.pages + 1
    BY <1>3 DEF FilesBegun, p
  <2>1. j.files[i].firstSheet <= j.sheets /\ j.files[i].firstPage <= j.pages
    BY DEF JobOK, FilesBegun
  <2>2. j.files[i] \in File /\ j.pages \in Nat
    BY DEF JobOK, Job
  <2>3. j.files[i].firstPage \in Nat
    BY <2>2 DEF File
  <2>4. QED BY <2>1, <2>2, <2>3
<1>6. QED
  BY <1>1, <1>2, <1>3, <1>4, <1>5 DEF JobOK, v, no, p

LEMMA VirtualBeginIs ==
  ASSUME NEW j
  PROVE  VirtualBegin(j) =
           SynchronizeSheets(SynchronizePages(
             IF Enter(j).virtual = 1 THEN PageBegin(Enter(j)) ELSE Enter(j)))
BY DEF VirtualBegin, Enter

LEMMA VirtualBeginOK ==
  ASSUME NEW j, JobOK(j), j.files # << >>
  PROVE  JobOK(VirtualBegin(j)) /\ Len(VirtualBegin(j).files) = Len(j.files)
<1> DEFINE a == Enter(j)
           b == IF a.virtual = 1 THEN PageBegin(a) ELSE a
           c == SynchronizePages(b)
           d == SynchronizeSheets(c)
<1>1. JobOK(a) /\ a.files = j.files
  BY EnterEffect
<1>2. VirtualBegin(j) = d
  BY VirtualBeginIs
<1> HIDE DEF a
<1>3. JobOK(b) /\ Len(b.files) = Len(j.files) /\ b.files # << >>
  <2>1. JobOK(PageBegin(a)) /\ Len(PageBegin(a).files) = Len(a.files)
    BY <1>1, PageBeginEffect
  <2>2. JobOK(b) /\ Len(b.files) = Len(j.files)
    BY <1>1, <2>1
  <2>3. QED BY <2>2 DEF JobOK, Job
<1> HIDE DEF b
<1>4. JobOK(c) /\ Len(c.files) = Len(j.files) /\ c.files # << >>
  BY <1>3, SynchronizePagesOK DEF SameButCounters, JobOK, Job
<1> HIDE DEF c
<1>5. JobOK(d) /\ Len(d.files) = Len(j.files)
  BY <1>4, SynchronizeSheetsOK DEF SameButCounters
<1>6. QED
  BY <1>2, <1>5

LEMMA VirtualEndOK ==
  ASSUME NEW j, JobOK(j)
  PROVE  JobOK(VirtualEnd(j)) /\ Len(VirtualEnd(j).files) = Len(j.files)
BY PageEndEffect DEF VirtualEnd

(* virtual_empty_output, when it only counts the virtual page.             *)
LEMMA PhantomOK ==
  ASSUME NEW j, JobOK(j)
  PROVE  LET k == [j EXCEPT !.pages = @ + 1, !.virtual = @ + 1]
         IN /\ JobOK(k) /\ k.files = j.files /\ k.sheets = j.sheets
            /\ k.pages = j.pages + 1 /\ k.virtual = j.virtual + 1
            /\ k.toVoid = j.toVoid /\ k.shown = j.shown /\ k.page = j.page
            /\ k.label = j.label /\ k.faults = j.faults
<1> DEFINE p == j.pages + 1
           v == j.virtual + 1
           k == [j EXCEPT !.pages = p, !.virtual = v]
<1>1. p \in Nat /\ v \in Nat /\ j.pages <= p
  BY DEF JobOK, Job
<1>2. k = [j EXCEPT !.pages = @ + 1, !.virtual = @ + 1]
  BY DEF JobOK, Job
<1> HIDE DEF p, v
<1>3. k \in Job /\ k.files = j.files /\ k.sheets = j.sheets /\ k.pages = p
      /\ k.virtual = v /\ k.toVoid = j.toVoid /\ k.shown = j.shown
      /\ k.page = j.page /\ k.label = j.label /\ k.faults = j.faults
  BY <1>1 DEF JobOK, Job
<1> HIDE DEF k
<1>4. FilesBegun(k)
  <2> SUFFICES ASSUME NEW i \in DOMAIN j.files
               PROVE  /\ j.files[i].firstSheet <= j.sheets
                      /\ j.files[i].firstPage <= p
    BY <1>3 DEF FilesBegun
  <2>1. j.files[i].firstSheet <= j.sheets /\ j.files[i].firstPage <= j.pages
    BY DEF JobOK, FilesBegun
  <2>2. j.files[i] \in File /\ j.pages \in Nat
    BY DEF JobOK, Job
  <2>3. j.files[i].firstPage \in Nat
    BY <2>2 DEF File
  <2>4. QED BY <2>1, <2>2, <2>3, <1>1
<1>5. QED
  BY <1>2, <1>3, <1>4 DEF JobOK, p, v

LEMMA VirtualEmptyOutputOK ==
  ASSUME NEW j, JobOK(j), j.files # << >>
  PROVE  /\ JobOK(VirtualEmptyOutput(j))
         /\ Len(VirtualEmptyOutput(j).files) = Len(j.files)
<1> DEFINE k == [j EXCEPT !.pages = @ + 1, !.virtual = @ + 1]
<1>1. VirtualEmptyOutput(j) = VirtualEnd(VirtualBegin(j))
      \/ VirtualEmptyOutput(j) = VirtualEnd(k)
  BY DEF VirtualEmptyOutput
<1>2. JobOK(k) /\ k.files = j.files
  BY PhantomOK
<1> HIDE DEF k
<1>3. QED
  BY <1>1, <1>2, VirtualBeginOK, VirtualEndOK
-----------------------------------------------------------------------------
(* What the functions do to the counters of the job.                       *)

LEMMA SynchronizedState ==
  ASSUME NEW j, JobOK(j), j.files # << >>
  PROVE  LET k == SynchronizeSheets(SynchronizePages(j))
             m == SynchronizePages(SynchronizeSheets(j))
         IN SameButCounters(j, k) /\ SameButCounters(j, m)
<1>1. /\ JobOK(SynchronizePages(j)) /\ SameButCounters(j, SynchronizePages(j))
      /\ JobOK(SynchronizeSheets(j)) /\ SameButCounters(j, SynchronizeSheets(j))
  BY SynchronizePagesOK, SynchronizeSheetsOK
<1>2. SynchronizePages(j).files # << >> /\ SynchronizeSheets(j).files # << >>
  BY <1>1 DEF SameButCounters, JobOK, Job
<1>3. /\ SameButCounters(SynchronizePages(j), SynchronizeSheets(SynchronizePages(j)))
      /\ SameButCounters(SynchronizeSheets(j), SynchronizePages(SynchronizeSheets(j)))
  BY <1>1, <1>2, SynchronizePagesOK, SynchronizeSheetsOK
<1>4. QED
  BY <1>1, <1>3 DEF SameButCounters

LEMMA PageFlushCounts ==
  ASSUME NEW j, JobOK(j)
  PROVE  LET k == PageFlush(j)
         IN /\ JobOK(k) /\ k.files = j.files /\ k.pages = j.pages
            /\ k.sheets = j.sheets /\ k.virtual = 0 /\ k.toVoid = FALSE
<1> DEFINE d == [j EXCEPT !.toVoid = FALSE]
           e == PageEnd(d)
<1>1. JobOK(d) /\ d.files = j.files /\ d.pages = j.pages /\ d.sheets = j.sheets
      /\ d.virtual = j.virtual /\ d.toVoid = FALSE
  BY UnvoidOK
<1>2. PageFlush(j) = IF d.virtual # 0 THEN e ELSE d
  BY DEF PageFlush
<1> HIDE DEF d
<1>3. JobOK(e) /\ e.files = d.files /\ e.pages = d.pages /\ e.sheets = d.sheets
      /\ e.virtual = 0 /\ e.toVoid = d.toVoid
  BY <1>1, PageEndEffect
<1> HIDE DEF e
<1>4. CASE d.virtual # 0
  BY <1>1, <1>2, <1>3, <1>4
<1>5. CASE d.virtual = 0
  BY <1>1, <1>2, <1>5
<1>6. QED
  BY <1>4, <1>5

LEMMA SheetFlushCounts ==
  ASSUME NEW j, JobOK(j), j.files # << >>
  PROVE  LET k == SheetFlush(j)
         IN /\ JobOK(k) /\ k.pages = j.pages /\ k.virtual = 0 /\ k.toVoid = FALSE
            /\ k.sheets = IF Duplex /\ j.sheets % 2 # 0 THEN j.sheets + 1 ELSE j.sheets
<1> DEFINE k == PageFlush(j)
<1>1. JobOK(k) /\ k.files = j.files /\ k.pages = j.pages /\ k.sheets = j.sheets
      /\ k.virtual = 0 /\ k.toVoid = FALSE
  BY PageFlushCounts
<1>2. SheetFlush(j) = IF Duplex /\ k.sheets % 2 # 0 THEN PageEmptyOutput(k) ELSE k
  BY DEF SheetFlush
<1> HIDE DEF k
<1>3. QED
  BY <1>1, <1>2, PageEmptyOutputEffect

LEMMA VirtualBeginCounts ==
  ASSUME NEW j, JobOK(j), j.files # << >>
  PROVE  LET k == VirtualBegin(j)
         IN /\ JobOK(k) /\ k.pages = j.pages + 1
            /\ k.toVoid = ~Selected(j, j.pages + 1)
            /\ k.virtual = IF k.toVoid THEN j.virtual ELSE j.virtual + 1
            /\ k.sheets = IF ~k.toVoid /\ j.virtual = 0 THEN j.sheets + 1
                                                        ELSE j.sheets
<1> DEFINE a == Enter(j)
           b == IF a.virtual = 1 THEN PageBegin(a) ELSE a
           d == SynchronizeSheets(SynchronizePages(b))
<1>1. /\ JobOK(a) /\ a.files = j.files /\ a.pages = j.pages + 1
      /\ a.toVoid = ~Selected(a, a.pages)
      /\ a.virtual = IF a.toVoid THEN j.virtual ELSE j.virtual + 1
      /\ a.sheets = j.sheets
  BY EnterEffect
<1>2. VirtualBegin(j) = d
  BY VirtualBeginIs
<1>3. Selected(a, a.pages) = Selected(j, j.pages + 1)
  BY <1>1 DEF Selected, CurrentFile
<1>4. /\ JobOK(PageBegin(a)) /\ Len(PageBegin(a).files) = Len(a.files)
      /\ PageBegin(a).toVoid = a.toVoid /\ PageBegin(a).pages = a.pages
      /\ PageBegin(a).virtual = 1
      /\ PageBegin(a).sheets = IF Selected(a, a.pages) THEN a.sheets + 1 ELSE a.sheets
  BY <1>1, PageBeginEffect
<1> HIDE DEF a
<1>5. j.virtual \in Nat /\ j.sheets \in Nat
  BY DEF JobOK, Job
<1>6. /\ JobOK(b) /\ Len(b.files) = Len(j.files)
      /\ b.toVoid = a.toVoid /\ b.pages = a.pages /\ b.virtual = a.virtual
      /\ b.sheets = IF ~a.toVoid /\ j.virtual = 0 THEN j.sheets + 1 ELSE j.sheets
  <2>1. CASE a.virtual = 1 /\ ~a.toVoid
    <3>1. j.virtual = 0 /\ b = PageBegin(a)
      BY <1>1, <1>5, <2>1
    <3>2. QED BY <1>1, <1>4, <2>1, <3>1
  <2>2. CASE a.virtual = 1 /\ a.toVoid
    BY <1>1, <1>4, <2>2
  <2>3. CASE a.virtual # 1
    <3>1. ~(~a.toVoid /\ j.virtual = 0)
      BY <1>1, <2>3
    <3>2. QED BY <1>1, <2>3, <3>1
  <2>4. QED BY <2>1, <2>2, <2>3
<1> HIDE DEF b
<1>7. b.files # << >>
  BY <1>6 DEF JobOK, Job
<1>8. SameButCounters(b, d)
  BY <1>6, <1>7, SynchronizedState
<1>9. JobOK(VirtualBegin(j))
  BY VirtualBeginOK
<1> HIDE DEF d
<1>10. QED
  BY <1>1, <1>2, <1>3, <1>6, <1>8, <1>9 DEF SameButCounters

LEMMA VirtualEndCounts ==
  ASSUME NEW j, JobOK(j)
  PROVE  LET k == VirtualEnd(j)
         IN /\ JobOK(k) /\ k.files = j.files /\ k.pages = j.pages
            /\ k.sheets = j.sheets /\ k.toVoid = j.toVoid
            /\ k.virtual = IF j.virtual = Slots THEN 0 ELSE j.virtual
BY PageEndEffect DEF VirtualEnd

(* What a delegated page does, before the counters of its file are set.    *)
Delegated(j) ==
  [j EXCEPT !.pages = @ + Slots, !.sheets = @ + 1, !.shown = @ + 1]

LEMMA DelegatedCounts ==
  ASSUME NEW j, JobOK(j)
  PROVE  LET a == Delegated(j)
         IN /\ JobOK(a) /\ a.files = j.files /\ a.pages = j.pages + Slots
            /\ a.sheets = j.sheets + 1 /\ a.shown = j.shown + 1
            /\ a.virtual = j.virtual /\ a.toVoid = j.toVoid /\ a.page = j.page
            /\ a.label = j.label /\ a.faults = j.faults
<1> DEFINE p == j.pages + Slots
           n == j.sheets + 1
           s == j.shown + 1
           a == [j EXCEPT !.pages = p, !.sheets = n, !.shown = s]
<1>1. p \in Nat /\ n \in Nat /\ s \in Nat /\ j.pages <= p /\ j.sheets <= n
      /\ j.pages \in Nat /\ j.sheets \in Nat
  BY PageAssumption DEF JobOK, Job
<1>2. Delegated(j) = a
  BY DEF Delegated, JobOK, Job
<1> HIDE DEF p, n, s
<1>3. a \in Job /\ a.files = j.files /\ a.sheets = n /\ a.pages = p
      /\ a.shown = s /\ a.page = j.page /\ a.label = j.label
      /\ a.virtual = j.virtual /\ a.faults = j.faults /\ a.toVoid = j.toVoid
  BY <1>1 DEF JobOK, Job
<1> HIDE DEF a
<1>4. FilesBegun(a)
  <2> SUFFICES ASSUME NEW i \in DOMAIN j.files
               PROVE  /\ j.files[i].firstSheet <= n
                      /\ j.files[i].firstPage <= p
    BY <1>3 DEF FilesBegun
  <2>1. /\ j.files[i].firstSheet <= j.sheets
        /\ j.files[i].firstPage <= j.pages
    BY DEF JobOK, FilesBegun
  <2>2. j.files[i] \in File
    BY DEF JobOK, Job
  <2>3. j.files[i].firstSheet \in Nat /\ j.files[i].firstPage \in Nat
    BY <2>2 DEF File
  <2>4. QED BY <1>1, <2>1, <2>3
<1>5. QED
  BY <1>2, <1>3, <1>4 DEF JobOK, p, n, s
-----------------------------------------------------------------------------
(* The encoding state keeps its type.                                      *)

LEMMA PsSetEncodingType ==
  ASSUME NEW e \in EncState, NEW x \in Encodings \cup {NULL}, NEW void
  PROVE  PsSetEncoding(e, x, void) \in EncState
<1> DEFINE dict   == IF void THEN e.dict ELSE x
           faults == e.faults \cup (IF x = NULL THEN {"null encoding"} ELSE {})
              \cup (IF ~void /\ e.dict # NULL THEN {"dict nested"} ELSE {})
<1>1. PsSetEncoding(e, x, void) =
        [e EXCEPT !.cur = x, !.opened = x, !.dict = dict, !.faults = faults]
  BY DEF PsSetEncoding, EncState
<1>2. dict \in Encodings \cup {NULL} /\ faults \subseteq EncFaults
  BY DEF EncState, EncFaults
<1> HIDE DEF dict, faults
<1>3. QED
  BY <1>1, <1>2 DEF EncState

LEMMA PsEndEncodingType ==
  ASSUME NEW e \in EncState, NEW void
  PROVE  PsEndEncoding(e, void) \in EncState
<1> DEFINE prints == e.opened # NULL /\ ~void
           dict   == IF prints THEN NULL ELSE e.dict
           faults == e.faults \cup (IF prints /\ e.dict = NULL
                                    THEN {"end without dict"} ELSE {})
<1>1. PsEndEncoding(e, void) =
        [e EXCEPT !.cur = NULL, !.opened = NULL, !.dict = dict, !.faults = faults]
  BY DEF PsEndEncoding, EncState
<1>2. dict \in Encodings \cup {NULL} /\ faults \subseteq EncFaults
  BY DEF EncState, EncFaults
<1> HIDE DEF dict, faults
<1>3. QED
  BY <1>1, <1>2 DEF EncState

LEMMA PsInternalSwitchType ==
  ASSUME NEW e \in EncState, NEW x \in Encodings \cup {NULL}, NEW void
  PROVE  PsInternalSwitch(e, x, void) \in EncState
<1>1. PsEndEncoding(e, void) \in EncState
  BY PsEndEncodingType
<1>2. PsSetEncoding(PsEndEncoding(e, void), x, void) \in EncState
  BY <1>1, PsSetEncodingType
<1>3. [PsEndEncoding(e, void) EXCEPT !.cur = x] \in EncState
  BY <1>1 DEF EncState
<1>4. QED
  BY <1>2, <1>3 DEF PsInternalSwitch

LEMMA PsSwitchEncodingType ==
  ASSUME NEW e \in EncState, NEW x \in Encodings, NEW void
  PROVE  PsSwitchEncoding(e, x, void) \in EncState
<1>1. PsInternalSwitch(e, x, void) \in EncState
  BY PsInternalSwitchType
<1>2. [PsInternalSwitch(e, x, void) EXCEPT !.saved = x] \in EncState
  BY <1>1 DEF EncState
<1>3. QED
  BY <1>2 DEF PsSwitchEncoding

LEMMA PsPushEncodingType ==
  ASSUME NEW e \in EncState, NEW void
  PROVE  PsPushEncoding(e, Requested, void) \in EncState
<1>1. [e EXCEPT !.saved = e.cur] \in EncState
  BY DEF EncState
<1>2. QED
  BY <1>1, PsInternalSwitchType, EncodingAssumption DEF PsPushEncoding

LEMMA PsPopEncodingType ==
  ASSUME NEW e \in EncState, NEW void
  PROVE  PsPopEncoding(e, void) \in EncState
<1>1. e.saved \in Encodings \cup {NULL}
  BY DEF EncState
<1>2. QED
  BY <1>1, PsInternalSwitchType DEF PsPopEncoding

LEMMA PageBeginEncType ==
  ASSUME NEW e \in EncState, NEW void
  PROVE  PageBeginEnc(e, void) \in EncState
<1>1. PsSetEncoding(e, Requested, void) \in EncState
  BY PsSetEncodingType, EncodingAssumption
<1>2. e.saved \in Encodings \cup {NULL}
  BY DEF EncState
<1>3. QED
  BY <1>1, <1>2, PsInternalSwitchType DEF PageBeginEnc

LEMMA PageEndEncType ==
  ASSUME NEW e \in EncState, NEW void
  PROVE  PageEndEnc(e, void) \in EncState
BY PsPushEncodingType, PsEndEncodingType DEF PageEndEnc

LEMMA PageFlushEncType ==
  ASSUME NEW e \in EncState, NEW j
  PROVE  PageFlushEnc(e, j) \in EncState
BY PageEndEncType DEF PageFlushEnc

LEMMA VirtualBeginEncType ==
  ASSUME NEW e \in EncState, NEW j
  PROVE  VirtualBeginEnc(e, j) \in EncState
<1> DEFINE k == VirtualBegin(j)
           d == IF k.virtual = 1 THEN PageBeginEnc(e, k.toVoid) ELSE e
<1>1. d \in EncState
  BY PageBeginEncType
<1>2. VirtualBeginEnc(e, j) = IF d.cur = NULL
                              THEN PsSetEncoding(d, d.saved, k.toVoid) ELSE d
  BY DEF VirtualBeginEnc
<1> HIDE DEF k, d
<1>3. d.saved \in Encodings \cup {NULL}
  BY <1>1 DEF EncState
<1>4. QED
  BY <1>1, <1>2, <1>3, PsSetEncodingType

LEMMA VirtualEndEncType ==
  ASSUME NEW e \in EncState, NEW j
  PROVE  VirtualEndEnc(e, j) \in EncState
<1>1. PsPushEncoding(e, Requested, j.toVoid) \in EncState
  BY PsPushEncodingType
<1>2. PsPopEncoding(PsPushEncoding(e, Requested, j.toVoid), j.toVoid) \in EncState
  BY <1>1, PsPopEncodingType
<1>3. QED
  BY <1>2, PageEndEncType DEF VirtualEndEnc

LEMMA VirtualEmptyOutputEncType ==
  ASSUME NEW e \in EncState, NEW j
  PROVE  VirtualEmptyOutputEnc(e, j) \in EncState
BY VirtualBeginEncType, VirtualEndEncType, PageEndEncType
DEF VirtualEmptyOutputEnc
-----------------------------------------------------------------------------
(* The type invariant.                                                     *)

LEMMA HistoryUpdate ==
  ASSUME NEW h \in Seq(History), h # << >>, NEW r \in History
  PROVE  /\ [h EXCEPT ![Len(h)] = r] \in Seq(History)
         /\ Len([h EXCEPT ![Len(h)] = r]) = Len(h)
OBVIOUS

LEMMA CurrentType ==
  ASSUME NEW h \in Seq(History), h # << >>
  PROVE  h[Len(h)] \in History
OBVIOUS

LEMMA InitType == Init => TypeInv
<1> SUFFICES ASSUME Init PROVE TypeInv
  OBVIOUS
<1>1. JobOK(job) /\ Len(job.files) = 0
  BY DEF Init, JobOK, Job, FilesBegun, PageFaults
<1>2. enc \in EncState
  BY EncodingAssumption DEF Init, EncInit, EncState, EncFaults
<1>3. QED
  BY <1>1, <1>2, EncodingAssumption DEF Init, TypeInv, SomeFile, Phases

(* The current record of the history, when a file is opened.               *)
LEMMA SetKindType ==
  ASSUME TypeInv, job.files # << >>, NEW k \in Kinds, SetKind(k)
  PROVE  hist' \in Seq(History) /\ Len(hist') = Len(hist)
<1> DEFINE r == [Current EXCEPT !.kind = k]
<1>1. hist \in Seq(History) /\ hist # << >>
  BY DEF TypeInv, JobOK, Job
<1>2. r \in History
  BY <1>1, CurrentType DEF History, Current
<1>3. hist' = [hist EXCEPT ![Len(hist)] = r]
  BY DEF SetKind
<1> HIDE DEF r
<1>4. QED
  BY <1>1, <1>2, <1>3, HistoryUpdate

LEMMA RecordType ==
  ASSUME TypeInv, job.files # << >>, NEW n \in Nat, NEW sheet \in Nat,
         Record(n, sheet)
  PROVE  hist' \in Seq(History) /\ Len(hist') = Len(hist)
<1> DEFINE v == Current.virtuals + n
           u == IF Current.sheet = 0 THEN sheet ELSE Current.sheet
           r == [Current EXCEPT !.virtuals = v, !.sheet = u]
<1>1. hist \in Seq(History) /\ hist # << >>
  BY DEF TypeInv, JobOK, Job
<1>2. Current \in History
  BY <1>1, CurrentType DEF Current
<1>3. hist' = [hist EXCEPT ![Len(hist)] = r]
  BY DEF Record
<1>4. v \in Nat /\ u \in Nat
  BY <1>2 DEF History
<1> HIDE DEF v, u
<1>5. r \in History
  BY <1>2, <1>4 DEF History
<1> HIDE DEF r
<1>6. QED
  BY <1>1, <1>3, <1>5, HistoryUpdate

LEMMA StepType == TypeInv /\ [Next]_vars => TypeInv'
<1> SUFFICES ASSUME TypeInv, [Next]_vars PROVE TypeInv'
  OBVIOUS
<1> USE DEF TypeInv
<1>s. SomeFile /\ hist \in Seq(History) /\ Len(hist) = Len(job.files) /\ JobOK(job)
      /\ job.files \in Seq(File)
  BY DEF JobOK, Job
<1>1. ASSUME NEW isToc \in BOOLEAN, StartFile(isToc) PROVE TypeInv'
  <2>1. JobOK(job') /\ Len(job'.files) = Len(job.files)
    BY <1>s, <1>1, PageFlushOK, SheetFlushOK DEF StartFile
  <2>2. enc' \in EncState
    BY <1>1, PageFlushEncType DEF StartFile
  <2>3. QED BY <1>1, <1>s, <2>1, <2>2 DEF StartFile, SomeFile, Phases
<1>2. CASE AlignStep
  <2>1. JobOK(job') /\ Len(job'.files) = Len(job.files)
    BY <1>s, <1>2, VirtualEmptyOutputOK, PageEmptyOutputEffect
    DEF AlignStep, Misaligned
  <2>2. enc' \in EncState
    BY <1>2, VirtualEmptyOutputEncType DEF AlignStep
  <2>3. QED BY <1>2, <1>s, <2>1, <2>2 DEF AlignStep, SomeFile, Phases
<1>3. CASE LinkFile
  <2> DEFINE f == NewFile(phase = "tocAligning")
             t == Append(job.files, f)
  <2>1. f \in File /\ f.firstSheet = 0 /\ f.firstPage = 0
    BY DEF NewFile, File
  <2> HIDE DEF f
  <2>2. /\ t \in Seq(File) /\ Len(t) = Len(job.files) + 1 /\ t # << >>
        /\ \A i \in DOMAIN t :
             t[i] = f \/ (i \in DOMAIN job.files /\ t[i] = job.files[i])
    <3>1. t \in Seq(File) /\ Len(t) = Len(job.files) + 1
      BY <1>s, <2>1
    <3>2. /\ DOMAIN t = 1 .. Len(job.files) + 1
          /\ DOMAIN job.files = 1 .. Len(job.files)
          /\ Len(job.files) \in Nat
      BY <1>s, <3>1
    <3>3. \A i \in 1 .. Len(job.files) : t[i] = job.files[i]
      BY <1>s, <2>1
    <3>4. t[Len(job.files) + 1] = f
      BY <1>s, <2>1
    <3>5. t # << >>
      BY <3>1, <3>2
    <3> HIDE DEF t
    <3>6. QED BY <3>1, <3>2, <3>3, <3>4, <3>5
  <2>3. job' = [job EXCEPT !.files = t]
    BY <1>3 DEF LinkFile, f
  <2> HIDE DEF t
  <2>4. job' \in Job /\ job'.files = t /\ job'.sheets = job.sheets /\ job'.pages = job.pages
    BY <2>2, <2>3 DEF JobOK, Job
  <2>5. FilesBegun(job')
    BY <2>1, <2>2, <2>4 DEF FilesBegun, JobOK, Job
  <2>6. hist' \in Seq(History) /\ Len(hist') = Len(hist) + 1
    BY <1>3 DEF LinkFile, History, Kinds
  <2>7. QED BY <1>3, <1>s, <2>2, <2>4, <2>5, <2>6 DEF LinkFile, SomeFile, Phases, JobOK
<1>4. CASE PrintNative
  <2>1. job.files # << >>
    BY <1>4, <1>s DEF PrintNative, SomeFile
  <2>2. hist' \in Seq(History) /\ Len(hist') = Len(hist)
    BY <1>4, <2>1, SetKindType DEF PrintNative, Kinds
  <2>3. QED BY <1>4, <2>1, <2>2 DEF PrintNative, SomeFile, Phases
<1>5. CASE IgnoreFile
  <2>1. job.files # << >>
    BY <1>5, <1>s DEF IgnoreFile, SomeFile
  <2>2. hist' \in Seq(History) /\ Len(hist') = Len(hist)
    BY <1>5, <2>1, SetKindType DEF IgnoreFile, Kinds
  <2>3. QED BY <1>5, <2>1, <2>2 DEF IgnoreFile, SomeFile, Phases
<1>6. CASE Delegate
  <2>1. job.files # << >>
    BY <1>6, <1>s DEF Delegate, SomeFile
  <2>2. hist' \in Seq(History) /\ Len(hist') = Len(hist)
    BY <1>6, <2>1, SetKindType DEF Delegate, Kinds
  <2> DEFINE a == PageFlush(job)
             b == SynchronizeSheets(a)
             c == SynchronizePages(b)
  <2>3. JobOK(a) /\ Len(a.files) = Len(job.files) /\ a.files # << >>
    BY <2>1, PageFlushOK DEF JobOK, Job
  <2>4. job' = c
    BY <1>6 DEF Delegate
  <2> HIDE DEF a
  <2>5. JobOK(b) /\ Len(b.files) = Len(job.files) /\ b.files # << >>
    BY <2>3, SynchronizeSheetsOK DEF SameButCounters, JobOK, Job
  <2> HIDE DEF b
  <2>6. JobOK(c) /\ Len(c.files) = Len(job.files) /\ c.files # << >>
    BY <2>5, SynchronizePagesOK DEF SameButCounters, JobOK, Job
  <2> HIDE DEF c
  <2>7. enc' \in EncState
    BY <1>6, PageFlushEncType DEF Delegate
  <2>8. QED BY <1>6, <2>2, <2>4, <2>6, <2>7 DEF Delegate, SomeFile, Phases
<1>7. CASE CannotDelegate
  <2>1. job.files # << >>
    BY <1>7, <1>s DEF CannotDelegate, SomeFile
  <2>2. hist' \in Seq(History) /\ Len(hist') = Len(hist)
    BY <1>7, <2>1, SetKindType DEF CannotDelegate, Kinds
  <2>3. JobOK(job') /\ Len(job'.files) = Len(job.files) /\ job'.files # << >>
    BY <1>7, <2>1, PageFlushOK DEF CannotDelegate, JobOK, Job
  <2>4. enc' \in EncState
    BY <1>7, PageFlushEncType DEF CannotDelegate
  <2>5. QED BY <1>7, <2>2, <2>3, <2>4 DEF CannotDelegate, SomeFile, Phases
<1>8. CASE DelegatedPage
  <2>1. job.files # << >>
    BY <1>8, <1>s DEF DelegatedPage, SomeFile
  <2> DEFINE a == Delegated(job)
             b == SynchronizeSheets(a)
             c == SynchronizePages(b)
  <2>3. job' = c
    BY <1>8 DEF DelegatedPage, Delegated
  <2>5. JobOK(a) /\ a.files = job.files
    BY DelegatedCounts
  <2> HIDE DEF a
  <2>6. JobOK(b) /\ Len(b.files) = Len(job.files) /\ b.files # << >>
    BY <2>1, <2>5, SynchronizeSheetsOK DEF SameButCounters, JobOK, Job
  <2> HIDE DEF b
  <2>7. JobOK(c) /\ Len(c.files) = Len(job.files) /\ c.files # << >>
    BY <2>6, SynchronizePagesOK DEF SameButCounters, JobOK, Job
  <2> HIDE DEF c
  <2>12. hist' \in Seq(History) /\ Len(hist') = Len(hist)
    <3>1. job'.sheets \in Nat
      BY <2>3, <2>7 DEF JobOK, Job
    <3>2. Record(Slots, job'.sheets)
      BY <1>8 DEF DelegatedPage
    <3>3. QED BY <2>1, <3>1, <3>2, RecordType, PageAssumption
  <2>13. QED BY <1>8, <1>s, <2>3, <2>7, <2>12 DEF DelegatedPage, SomeFile
<1>9. CASE EndDelegation
  <2>1. job.files # << >>
    BY <1>9, <1>s DEF EndDelegation, SomeFile
  <2> DEFINE faults == job.faults \cup FaultIf(job.page, "include in a page")
  <2>2. job' = [job EXCEPT !.faults = faults]
    BY <1>9 DEF EndDelegation, JobOK, Job
  <2>4. faults \subseteq PageFaults
    <3>1. job.faults \subseteq PageFaults /\ "include in a page" \in PageFaults
      BY DEF JobOK, Job, PageFaults
    <3>2. QED BY <3>1, FaultIfType
  <2> HIDE DEF faults
  <2>5. job' \in Job /\ job'.files = job.files /\ job'.sheets = job.sheets
        /\ job'.pages = job.pages
    BY <2>2, <2>4 DEF JobOK, Job
  <2>6. FilesBegun(job')
    BY <2>5 DEF JobOK, FilesBegun
  <2>7. QED BY <1>9, <2>1, <2>5, <2>6 DEF EndDelegation, SomeFile, Phases, JobOK
<1>10. CASE FailDelegation
  <2>1. job.files # << >>
    BY <1>10, <1>s DEF FailDelegation, SomeFile
  <2>2. hist' \in Seq(History) /\ Len(hist') = Len(hist)
    BY <1>10, <2>1, SetKindType DEF FailDelegation, Kinds
  <2>3. QED BY <1>10, <2>1, <2>2 DEF FailDelegation, SomeFile, Phases
<1>11. CASE BeginVirtual
  <2>1. job.files # << >>
    BY <1>11, <1>s DEF BeginVirtual, SomeFile
  <2>2. JobOK(job') /\ Len(job'.files) = Len(job.files) /\ job'.files # << >>
    BY <1>11, <2>1, VirtualBeginOK DEF BeginVirtual, JobOK, Job
  <2>3. enc' \in EncState
    BY <1>11, VirtualBeginEncType DEF BeginVirtual
  <2>8. hist' \in Seq(History) /\ Len(hist') = Len(hist)
    <3> DEFINE n == IF job'.toVoid THEN 0 ELSE job'.sheets
    <3>1. n \in Nat
      BY <2>2 DEF JobOK, Job
    <3>2. Record(1, n)
      BY <1>11 DEF BeginVirtual
    <3> HIDE DEF n
    <3>3. QED BY <2>1, <3>1, <3>2, RecordType
  <2>9. QED BY <1>11, <2>2, <2>3, <2>8 DEF BeginVirtual, SomeFile, Phases
<1>12. CASE EndVirtual
  <2>1. job.files # << >>
    BY <1>12, <1>s DEF EndVirtual, SomeFile
  <2>2. JobOK(job') /\ Len(job'.files) = Len(job.files) /\ job'.files # << >>
    BY <1>12, <2>1, VirtualEndOK DEF EndVirtual, JobOK, Job
  <2>3. enc' \in EncState
    BY <1>12, VirtualEndEncType DEF EndVirtual
  <2>4. QED BY <1>12, <2>2, <2>3 DEF EndVirtual, SomeFile, Phases
<1>13. ASSUME NEW x \in Encodings, SwitchEncoding(x) PROVE TypeInv'
  <2>1. enc' \in EncState
    BY <1>13, PsSwitchEncodingType DEF SwitchEncoding
  <2>2. QED BY <1>13, <2>1 DEF SwitchEncoding, SomeFile
<1>14. CASE CloseFile
  <2>1. job.files # << >>
    BY <1>14, <1>s DEF CloseFile, SomeFile
  <2> DEFINE a == IF phase = "virtual" THEN VirtualEnd(job) ELSE job
             b == SynchronizePages(a)
             c == SynchronizeSheets(b)
  <2>2. JobOK(a) /\ Len(a.files) = Len(job.files) /\ a.files # << >>
    BY <2>1, VirtualEndOK DEF JobOK, Job
  <2>3. job' = c
    BY <1>14 DEF CloseFile
  <2> HIDE DEF a
  <2>4. JobOK(b) /\ Len(b.files) = Len(job.files) /\ b.files # << >>
    BY <2>2, SynchronizePagesOK DEF SameButCounters, JobOK, Job
  <2> HIDE DEF b
  <2>5. JobOK(c) /\ Len(c.files) = Len(job.files) /\ c.files # << >>
    BY <2>4, SynchronizeSheetsOK DEF SameButCounters, JobOK, Job
  <2> HIDE DEF c
  <2>6. enc' \in EncState
    BY <1>14, VirtualEndEncType DEF CloseFile
  <2>7. QED BY <1>14, <2>3, <2>5, <2>6 DEF CloseFile, SomeFile, Phases
<1>15. CASE CloseSession
  <2>1. job.files # << >>
    BY <1>15, <1>s DEF CloseSession, NothingPrinted, OfKind
  <2>2. JobOK(job') /\ Len(job'.files) = Len(job.files) /\ job'.files # << >>
    BY <1>15, <2>1, PageFlushOK DEF CloseSession, JobOK, Job
  <2>3. enc' \in EncState
    BY <1>15, PageFlushEncType DEF CloseSession
  <2>4. QED BY <1>15, <2>2, <2>3 DEF CloseSession, SomeFile, Phases
<1>16. CASE AbandonSession
  BY <1>16 DEF AbandonSession, SomeFile, Phases
<1>17. CASE UNCHANGED vars
  BY <1>17 DEF vars, SomeFile
<1>18. QED
  BY <1>1, <1>2, <1>3, <1>4, <1>5, <1>6, <1>7, <1>8, <1>9, <1>10, <1>11, <1>12,
     <1>13, <1>14, <1>15, <1>16, <1>17
  DEF Next, Finished

(* Every variable keeps its type; the differences of fjobs.c never wrap.   *)
THEOREM TypeCorrect == Spec => []TypeOK
<1>1. TypeInv => TypeOK
  BY DEF TypeInv, TypeOK, JobOK
<1>2. QED
  BY InitType, StepType, <1>1, PTL DEF Spec
-----------------------------------------------------------------------------
(* The phantom virtual pages that align ranks.                             *)

(* The remainders of a division.                                           *)
LEMMA Quotient ==
  ASSUME NEW a \in Nat, NEW r \in Nat \ {0}
  PROVE  /\ a = r * (a \div r) + (a % r)
         /\ a % r \in 0 .. r - 1 /\ a \div r \in Nat
OBVIOUS

LEMMA Remainder ==
  ASSUME NEW r \in Nat \ {0}, NEW q \in Nat, NEW m \in 0 .. r - 1
  PROVE  (r * q + m) % r = m
OBVIOUS

LEMMA Product ==
  ASSUME NEW a \in Nat, NEW b \in Nat, NEW r \in Nat
  PROVE  r * (a + b) = r * a + r * b
OBVIOUS

LEMMA MultiplePlus ==
  ASSUME NEW a \in Nat, NEW b \in Nat, NEW r \in Nat \ {0}, a % r = 0
  PROVE  (a + b) % r = b % r
<1> DEFINE p == a \div r
           q == b \div r
           m == b % r
           x == r * p
           y == r * q
           z == r * (p + q)
<1>1. p \in Nat /\ q \in Nat /\ m \in 0 .. r - 1
  BY Quotient
<1>2. a = x + (a % r) /\ b = y + m
  BY Quotient
<1> HIDE DEF m, p, q
<1>3. x \in Nat /\ y \in Nat /\ z = x + y
  BY <1>1, Product
<1>4. p + q \in Nat
  BY <1>1
<1> DEFINE s == p + q
<1> HIDE DEF s
<1>5. (r * s + m) % r = m
  BY <1>1, <1>4, Remainder DEF s
<1>6. (z + m) % r = m
  BY <1>5 DEF s
<1> HIDE DEF x, y, z
<1>7. a + b = z + m
  BY <1>1, <1>2, <1>3
<1>8. QED
  BY <1>6, <1>7 DEF m

LEMMA NextRemainder ==
  ASSUME NEW a \in Nat, NEW r \in Nat \ {0}
  PROVE  (a + 1) % r = IF (a % r) + 1 = r THEN 0 ELSE (a % r) + 1
<1> DEFINE q == a \div r
           m == a % r
           x == r * q
           n == IF m + 1 = r THEN 0 ELSE m + 1
           t == IF m + 1 = r THEN q + 1 ELSE q
<1>1. q \in Nat /\ m \in 0 .. r - 1
  BY Quotient
<1>2. a = x + m
  BY Quotient
<1> HIDE DEF m, q
<1>3. x \in Nat /\ r * (q + 1) = x + r
  BY <1>1, Product
<1>4. n \in 0 .. r - 1 /\ t \in Nat
  BY <1>1
<1>5. a + 1 = r * t + n
  <2>1. CASE m + 1 = r
    <3>1. t = q + 1 /\ n = 0
      BY <2>1
    <3> HIDE DEF x, t, n
    <3>2. a + 1 = x + r
      BY <1>1, <1>2, <1>3, <2>1
    <3>3. r * t = x + r
      BY <1>3, <3>1
    <3>4. QED BY <1>3, <3>1, <3>2, <3>3
  <2>2. CASE m + 1 # r
    <3>1. r * t = x /\ n = m + 1
      BY <2>2
    <3> HIDE DEF x, t, n
    <3>2. QED BY <1>1, <1>2, <1>3, <3>1
  <2>3. QED BY <2>1, <2>2
<1> HIDE DEF n, t
<1>6. (r * t + n) % r = n
  BY <1>4, Remainder
<1>7. QED
  BY <1>5, <1>6 DEF n, m

LEMMA SameRemainder ==
  ASSUME NEW a \in Nat, NEW b \in Nat, NEW r \in Nat \ {0}, a % r = b % r
  PROVE  (a + 1) % r = (b + 1) % r
<1>1. /\ (a + 1) % r = IF (a % r) + 1 = r THEN 0 ELSE (a % r) + 1
      /\ (b + 1) % r = IF (b % r) + 1 = r THEN 0 ELSE (b % r) + 1
  BY NextRemainder
<1>2. QED
  BY <1>1

LEMMA RankType ==
  /\ Rank \in Nat \ {0} /\ Slots \in Nat \ {0} /\ Slots % Rank = 0
  /\ 0 % Rank = 0
<1>1. Rank \in Nat \ {0} /\ Slots \in Nat \ {0} /\ Slots % Rank = 0
  BY PageAssumption
<1>2. (Rank * 0 + 0) % Rank = 0
  BY <1>1, Remainder
<1>3. QED
  BY <1>1, <1>2

(* When every page is selected, nothing is thrown away, and the first      *)
(* virtual page of a file aligned on ranks begins a physical page exactly  *)
(* when no page is begun: a phantom page never comes first on a page.      *)
Ranked(j) == j.pages % Rank = j.virtual % Rank

RankInv ==
  EveryPage =>
    /\ ~job.toVoid
    /\ FileAlign = "rank" =>
         /\ phase # "done" => Ranked(job)
         /\ phase \in {"opened", "delegating", "closing"} => job.pages % Rank = 0
         /\ job.files = << >> => job.pages = 0 /\ job.virtual = 0

LEMMA AllSelected ==
  ASSUME EveryPage, NEW j, NEW p
  PROVE  Selected(j, p)
BY DEF EveryPage, Selected, PrintPage

LEMMA VirtualEndRanked ==
  ASSUME NEW j, JobOK(j), Ranked(j)
  PROVE  Ranked(VirtualEnd(j))
<1>1. j.virtual = Slots => j.virtual % Rank = 0 % Rank
  BY RankType
<1>2. QED
  BY <1>1, VirtualEndCounts DEF Ranked

LEMMA PlusOneRanked ==
  ASSUME NEW j, JobOK(j), Ranked(j)
  PROVE  (j.pages + 1) % Rank = (j.virtual + 1) % Rank
<1>1. j.pages \in Nat /\ j.virtual \in Nat
  BY DEF JobOK, Job
<1>2. QED
  BY <1>1, SameRemainder, RankType DEF Ranked

LEMMA VirtualBeginRanked ==
  ASSUME EveryPage, NEW j, JobOK(j), j.files # << >>, Ranked(j)
  PROVE  Ranked(VirtualBegin(j))
BY VirtualBeginCounts, AllSelected, PlusOneRanked DEF Ranked

LEMMA StepRanks == TypeInv /\ RankInv /\ [Next]_vars => RankInv'
<1> SUFFICES ASSUME TypeInv, RankInv, [Next]_vars, EveryPage PROVE RankInv'
  BY DEF RankInv, EveryPage
<1> DEFINE Rank0 == /\ ~job'.toVoid
                    /\ FileAlign = "rank" =>
                         /\ phase' # "done" => Ranked(job')
                         /\ phase' \in {"opened", "delegating", "closing"} =>
                              job'.pages % Rank = 0
                         /\ job'.files = << >> => job'.pages = 0 /\ job'.virtual = 0
<1>g. Rank0 => RankInv'
  BY DEF RankInv, Ranked
<1>t. TypeInv'
  BY StepType
<1>j. /\ JobOK(job) /\ SomeFile /\ job.files \in Seq(File)
      /\ ~job.toVoid
      /\ FileAlign = "rank" =>
           /\ phase # "done" => Ranked(job)
           /\ phase \in {"opened", "delegating", "closing"} => job.pages % Rank = 0
           /\ job.files = << >> => job.pages = 0 /\ job.virtual = 0
  BY DEF TypeInv, RankInv, JobOK, Job
<1>p. job.pages \in Nat /\ job.virtual \in Nat
  BY <1>j DEF JobOK, Job
(* A file is open, and the page is flushed.                                *)
<1>f. ASSUME phase \in {"opened", "delegating", "closing"}, ~job'.toVoid,
             job'.virtual = 0, job'.pages = job.pages, job'.files # << >>
      PROVE  RankInv'
  <2>1. FileAlign = "rank" => job'.pages % Rank = 0 /\ Ranked(job')
    BY <1>j, <1>f, RankType DEF Ranked
  <2>2. QED BY <1>f, <1>g, <2>1
<1>1. ASSUME NEW isToc \in BOOLEAN, StartFile(isToc) PROVE RankInv'
  <2>1. CASE job.files = << >> \/ FileAlign \in {"virtual", "rank"}
    <3>1. job' = job /\ phase = "idle" /\ phase' \in {"aligning", "tocAligning"}
      BY <1>1, <2>1 DEF StartFile
    <3>2. QED BY <1>g, <1>j, <3>1
  <2>2. CASE ~(job.files = << >> \/ FileAlign \in {"virtual", "rank"})
    <3>1. job' = SheetFlush(job) \/ job' = PageFlush(job)
      BY <1>1, <2>2 DEF StartFile
    <3>2. ~job'.toVoid
      BY <1>j, <2>2, <3>1, SheetFlushCounts, PageFlushCounts
    <3>3. QED BY <1>g, <2>2, <3>2
  <2>3. QED BY <2>1, <2>2
<1>2. CASE AlignStep
  <2>1. job.files # << >> /\ phase' = phase /\ phase \in {"aligning", "tocAligning"}
    BY <1>2 DEF AlignStep, Misaligned
  <2>t. job'.files # << >>
    <3>1. JobOK(job') /\ Len(job'.files) = Len(job.files)
      BY <1>j, <1>2, <2>1, VirtualEmptyOutputOK, PageEmptyOutputEffect DEF AlignStep
    <3>2. QED BY <1>j, <2>1, <3>1 DEF JobOK, Job
  <2>2. CASE FileAlign = "rank" /\ VirtualForce
    <3> DEFINE k == VirtualBegin(job)
    <3>1. job' = VirtualEnd(k)
      BY <1>2, <2>2 DEF AlignStep, VirtualEmptyOutput
    <3>2. JobOK(k) /\ Ranked(k) /\ ~k.toVoid
      BY <1>j, <2>1, <2>2, VirtualBeginCounts, VirtualBeginRanked, AllSelected
    <3> HIDE DEF k
    <3>3. Ranked(job') /\ ~job'.toVoid
      BY <3>1, <3>2, VirtualEndRanked, VirtualEndCounts
    <3>4. QED BY <1>g, <2>1, <2>t, <3>3
  <2>3. CASE FileAlign = "rank" /\ ~VirtualForce
    <3> DEFINE k == [job EXCEPT !.pages = @ + 1, !.virtual = @ + 1]
    <3>1. job' = VirtualEnd(k)
      BY <1>2, <2>3 DEF AlignStep, VirtualEmptyOutput
    <3>2. JobOK(k) /\ k.pages = job.pages + 1 /\ k.virtual = job.virtual + 1
          /\ k.toVoid = job.toVoid
      BY <1>j, PhantomOK
    <3> HIDE DEF k
    <3>3. Ranked(k)
      BY <1>j, <2>1, <2>3, <3>2, PlusOneRanked DEF Ranked
    <3>4. Ranked(job') /\ ~job'.toVoid
      BY <1>j, <3>1, <3>2, <3>3, VirtualEndRanked, VirtualEndCounts
    <3>5. QED BY <1>g, <2>1, <2>t, <3>4
  <2>4. CASE FileAlign # "rank"
    <3>1. job' = PageEmptyOutput(job)
      BY <1>2, <2>4 DEF AlignStep
    <3>2. ~job'.toVoid
      BY <1>j, <2>1, <3>1, PageEmptyOutputEffect
    <3>3. QED BY <1>g, <2>4, <3>2
  <2>5. QED BY <2>2, <2>3, <2>4
<1>3. CASE LinkFile
  <2>1. /\ job' = [job EXCEPT !.files = Append(@, NewFile(phase = "tocAligning"))]
        /\ phase \in {"aligning", "tocAligning"} /\ phase' = "opened" /\ ~Misaligned
    BY <1>3 DEF LinkFile
  <2>2. job'.pages = job.pages /\ job'.virtual = job.virtual /\ job'.toVoid = job.toVoid
        /\ job'.files = Append(job.files, NewFile(phase = "tocAligning"))
    BY <1>j, <2>1 DEF JobOK, Job
  <2>3. job'.files # << >>
    BY <1>t, <2>1 DEF TypeInv, SomeFile
  <2>4. FileAlign = "rank" => job.pages % Rank = 0
    <3>1. CASE job.files = << >>
      BY <1>j, <3>1, RankType
    <3>2. CASE job.files # << >>
      BY <2>1, <3>2 DEF Misaligned
    <3>3. QED BY <3>1, <3>2
  <2>5. FileAlign = "rank" => Ranked(job')
    BY <1>j, <2>1, <2>2 DEF Ranked
  <2>6. QED BY <1>g, <1>j, <2>2, <2>3, <2>4, <2>5
(* The actions that leave the job alone.                                   *)
<1>u. ASSUME UNCHANGED job, phase # "done",
             phase' \in {"opened", "delegating", "closing"} =>
               phase \in {"opened", "delegating", "closing"}
      PROVE  RankInv'
  BY <1>g, <1>j, <1>u
<1>4. CASE PrintNative
  BY <1>4, <1>u DEF PrintNative
<1>5. CASE IgnoreFile
  BY <1>5, <1>u DEF IgnoreFile
<1>6. CASE Delegate
  <2> DEFINE a == PageFlush(job)
  <2>1. job.files # << >> /\ phase = "opened"
    BY <1>6, <1>j DEF Delegate, SomeFile
  <2>2. JobOK(a) /\ a.files = job.files /\ a.pages = job.pages /\ a.virtual = 0
        /\ ~a.toVoid
    BY <1>j, PageFlushCounts
  <2>3. job' = SynchronizePages(SynchronizeSheets(a))
    BY <1>6 DEF Delegate
  <2> HIDE DEF a
  <2>4. SameButCounters(a, job')
    BY <2>1, <2>2, <2>3, SynchronizedState
  <2>5. phase' = "delegating"
    BY <1>6 DEF Delegate
  <2>6. job'.files # << >>
    BY <1>t, <2>5 DEF TypeInv, SomeFile
  <2>7. QED BY <1>f, <2>1, <2>2, <2>4, <2>6 DEF SameButCounters
<1>7. CASE CannotDelegate
  <2>1. job.files # << >> /\ phase = "opened" /\ job' = PageFlush(job)
    BY <1>7, <1>j DEF CannotDelegate, SomeFile
  <2>2. job'.files = job.files /\ job'.pages = job.pages /\ job'.virtual = 0
        /\ ~job'.toVoid
    BY <1>j, <2>1, PageFlushCounts
  <2>3. QED BY <1>f, <2>1, <2>2
<1>8. CASE DelegatedPage
  <2> DEFINE a == Delegated(job)
  <2>1. job.files # << >> /\ phase = "delegating" /\ phase' = "delegating"
    BY <1>8, <1>j DEF DelegatedPage, SomeFile
  <2>2. job' = SynchronizePages(SynchronizeSheets(a))
    BY <1>8 DEF DelegatedPage, Delegated
  <2>3. JobOK(a) /\ a.files = job.files /\ a.pages = job.pages + Slots
        /\ a.virtual = job.virtual /\ a.toVoid = job.toVoid
    BY <1>j, DelegatedCounts
  <2> HIDE DEF a
  <2>4. SameButCounters(a, job')
    BY <2>1, <2>2, <2>3, SynchronizedState
  <2>5. job'.pages = job.pages + Slots /\ job'.virtual = job.virtual
        /\ job'.toVoid = job.toVoid
    BY <2>3, <2>4 DEF SameButCounters
  <2>6. job'.files # << >>
    BY <1>t, <2>1 DEF TypeInv, SomeFile
  <2>7. FileAlign = "rank" => job'.pages % Rank = 0
    <3> SUFFICES ASSUME FileAlign = "rank" PROVE job'.pages % Rank = 0
      OBVIOUS
    <3>1. (job.pages + Slots) % Rank = Slots % Rank
      BY <1>j, <1>p, <2>1, RankType, MultiplePlus
    <3>2. QED BY <2>5, <3>1, RankType
  <2>8. FileAlign = "rank" => Ranked(job')
    BY <1>j, <2>1, <2>5, <2>7 DEF Ranked
  <2>9. QED BY <1>g, <1>j, <2>5, <2>6, <2>7, <2>8
<1>9. CASE EndDelegation
  <2>1. phase = "delegating" /\ phase' = "closing"
        /\ job' = [job EXCEPT !.faults = @ \cup FaultIf(job.page, "include in a page")]
    BY <1>9 DEF EndDelegation
  <2>2. job'.pages = job.pages /\ job'.virtual = job.virtual
        /\ job'.toVoid = job.toVoid /\ job'.files = job.files
    BY <1>j, <2>1 DEF JobOK, Job
  <2>3. QED BY <1>g, <1>j, <2>1, <2>2 DEF Ranked
<1>10. CASE FailDelegation
  BY <1>10, <1>u DEF FailDelegation
<1>11. CASE BeginVirtual
  <2>1. job.files # << >> /\ phase # "done" /\ phase' = "virtual"
        /\ job' = VirtualBegin(job)
    BY <1>11, <1>j DEF BeginVirtual, SomeFile
  <2>2. ~job'.toVoid
    BY <1>j, <2>1, VirtualBeginCounts, AllSelected
  <2>3. FileAlign = "rank" => Ranked(job')
    BY <1>j, <2>1, VirtualBeginRanked
  <2>4. job'.files # << >>
    BY <1>t, <2>1 DEF TypeInv, SomeFile
  <2>5. QED BY <1>g, <2>1, <2>2, <2>3, <2>4
<1>12. CASE EndVirtual
  <2>1. phase = "virtual" /\ phase' = "body" /\ job' = VirtualEnd(job)
    BY <1>12 DEF EndVirtual
  <2>2. ~job'.toVoid
    BY <1>j, <2>1, VirtualEndCounts
  <2>3. FileAlign = "rank" => Ranked(job')
    BY <1>j, <2>1, VirtualEndRanked
  <2>4. job'.files # << >>
    BY <1>t, <2>1 DEF TypeInv, SomeFile
  <2>5. QED BY <1>g, <2>1, <2>2, <2>3, <2>4
<1>13. ASSUME NEW x \in Encodings, SwitchEncoding(x) PROVE RankInv'
  BY <1>13, <1>u DEF SwitchEncoding
<1>14. CASE CloseFile
  <2> DEFINE a == IF phase = "virtual" THEN VirtualEnd(job) ELSE job
  <2>1. job.files # << >> /\ phase # "done" /\ phase' = "idle"
    BY <1>14, <1>j DEF CloseFile, SomeFile
  <2>2. JobOK(a) /\ a.files = job.files /\ ~a.toVoid
    BY <1>j, VirtualEndCounts
  <2>3. FileAlign = "rank" => Ranked(a)
    BY <1>j, <2>1, VirtualEndRanked
  <2>4. job' = SynchronizeSheets(SynchronizePages(a))
    BY <1>14 DEF CloseFile
  <2> HIDE DEF a
  <2>5. SameButCounters(a, job')
    BY <2>1, <2>2, <2>4, SynchronizedState
  <2>6. ~job'.toVoid /\ (FileAlign = "rank" => Ranked(job'))
    BY <2>2, <2>3, <2>5 DEF SameButCounters, Ranked
  <2>7. job'.files # << >>
    BY <1>j, <2>1, <2>2, <2>5, <1>t DEF SameButCounters, TypeInv, JobOK, Job
  <2>8. QED BY <1>g, <2>1, <2>6, <2>7
<1>15. CASE CloseSession
  <2>1. job' = PageFlush(job) /\ phase' = "done"
    BY <1>15 DEF CloseSession
  <2>2. /\ ~job'.toVoid /\ job'.virtual = 0 /\ job'.pages = job.pages
        /\ job'.files = job.files
    BY <1>j, <2>1, PageFlushCounts
  <2>3. QED BY <1>g, <1>j, <2>1, <2>2
<1>16. CASE AbandonSession
  BY <1>16, <1>u DEF AbandonSession
<1>17. CASE UNCHANGED vars
  BY <1>17, <1>j, <1>g DEF vars
<1>18. QED
  BY <1>1, <1>2, <1>3, <1>4, <1>5, <1>6, <1>7, <1>8, <1>9, <1>10, <1>11, <1>12,
     <1>13, <1>14, <1>15, <1>16, <1>17
  DEF Next, Finished
-----------------------------------------------------------------------------
(* The structure of the pages.                                             *)

(* virtual_empty_output, when it does not really begin a virtual page,     *)
(* needs a page to be begun already.                                       *)
RealVirtualPages == FileAlign # "rank" \/ VirtualForce \/ EveryPage

(* job->virtual, the only thing the code looks at, tells whether the       *)
(* printer is inside a page whose label is still to be filled.             *)
PageState(j) ==
  /\ j.faults = {}
  /\ j.page <=> j.label = "pending"
  /\ j.page <=> j.virtual # 0
  /\ j.sheets = j.shown + (IF j.page THEN 1 ELSE 0)

(* Inside a virtual page: the page is never full when the text is skipped, *)
(* so that page_end is never called in the void.                           *)
VirtualState(j) ==
  /\ PageState(j)
  /\ j.virtual <= Slots
  /\ j.toVoid => j.virtual < Slots

PageInv ==
  /\ TypeInv
  /\ RankInv
  /\ VirtualState(job)
  /\ phase # "virtual" => job.virtual < Slots
  /\ phase = "delegating" => job.virtual = 0
  /\ /\ phase \in {"aligning", "tocAligning"} /\ FileAlign = "number"
     /\ job.files # << >>
     => job.virtual = 0 /\ ~job.toVoid

LEMMA SlotsType == Slots \in Nat /\ 0 < Slots
BY PageAssumption

LEMMA NoFault ==
  ASSUME NEW name PROVE FaultIf(FALSE, name) = {}
BY DEF FaultIf

LEMMA SameState ==
  ASSUME NEW j, NEW k, SameButCounters(j, k), PageState(j)
  PROVE  PageState(k)
BY DEF SameButCounters, PageState

LEMMA PageEndState ==
  ASSUME NEW j, JobOK(j), PageState(j), j.virtual # 0, ~j.toVoid
  PROVE  PageState(PageEnd(j)) /\ PageEnd(j).virtual = 0 /\ ~PageEnd(j).toVoid
<1>1. j.page /\ j.label = "pending" /\ j.shown \in Nat /\ j.sheets = j.shown + 1
  BY DEF PageState, JobOK, Job
<1> DEFINE k == PageEnd(j)
<1>2. k.faults = j.faults
  <2>1. k.faults = j.faults \cup FaultIf(j.label = "none", "label not allocated")
                     \cup FaultIf(j.label = "filled", "label overwritten")
                     \cup FaultIf(~j.toVoid /\ ~j.page, "showpage without page")
    BY PageEndEffect
  <2>2. /\ FaultIf(j.label = "none", "label not allocated") = {}
        /\ FaultIf(j.label = "filled", "label overwritten") = {}
        /\ FaultIf(~j.toVoid /\ ~j.page, "showpage without page") = {}
    BY <1>1 DEF FaultIf
  <2>3. QED BY <2>1, <2>2
<1>3. /\ k.sheets = j.sheets /\ k.virtual = 0 /\ k.label = "filled"
      /\ k.shown = j.shown + 1 /\ k.toVoid = j.toVoid /\ k.page = (j.page /\ j.toVoid)
  BY <1>1, PageEndEffect
<1> HIDE DEF k
<1>4. ~k.page
  BY <1>3
<1>5. QED
  BY <1>1, <1>2, <1>3, <1>4 DEF PageState, k

LEMMA PageFlushState ==
  ASSUME NEW j, JobOK(j), PageState(j)
  PROVE  /\ PageState(PageFlush(j))
         /\ PageFlush(j).virtual = 0 /\ ~PageFlush(j).toVoid
<1> DEFINE k == [j EXCEPT !.toVoid = FALSE]
<1>1. JobOK(k) /\ ~k.toVoid /\ k.virtual = j.virtual /\ PageState(k)
  <2>1. /\ JobOK(k) /\ k.toVoid = FALSE /\ k.sheets = j.sheets /\ k.virtual = j.virtual /\ k.page = j.page
        /\ k.label = j.label /\ k.shown = j.shown /\ k.faults = j.faults
    BY UnvoidOK
  <2> HIDE DEF k
  <2>2. QED
    BY <2>1 DEF PageState
<1>2. PageFlush(j) = IF k.virtual # 0 THEN PageEnd(k) ELSE k
  BY DEF PageFlush
<1> HIDE DEF k
<1>3. CASE k.virtual # 0
  BY <1>1, <1>2, <1>3, PageEndState
<1>4. CASE k.virtual = 0
  BY <1>1, <1>2, <1>4
<1>5. QED
  BY <1>3, <1>4

LEMMA PageEmptyOutputState ==
  ASSUME NEW j, JobOK(j), j.files # << >>, PageState(j), j.virtual = 0, ~j.toVoid
  PROVE  /\ PageState(PageEmptyOutput(j))
         /\ PageEmptyOutput(j).virtual = 0 /\ ~PageEmptyOutput(j).toVoid
<1> DEFINE k == PageEmptyOutput(j)
<1>1. ~j.page /\ j.shown \in Nat /\ j.sheets = j.shown
  BY DEF PageState, JobOK, Job
<1>2. FaultIf(j.page, "page not ended") = {}
  BY <1>1 DEF FaultIf
<1>3. k.sheets = j.sheets + 1 /\ k.shown = j.shown + 1 /\ k.virtual = 0
      /\ k.label = j.label /\ k.page = j.page /\ k.toVoid = j.toVoid
  BY PageEmptyOutputEffect
<1>4. k.faults = j.faults
  BY <1>2, PageEmptyOutputEffect
<1> HIDE DEF k
<1>5. PageState(k) /\ k.virtual = 0 /\ ~k.toVoid
  BY <1>1, <1>3, <1>4 DEF PageState
<1>6. QED BY <1>5 DEF k

LEMMA SheetFlushState ==
  ASSUME NEW j, JobOK(j), j.files # << >>, PageState(j)
  PROVE  /\ PageState(SheetFlush(j))
         /\ SheetFlush(j).virtual = 0 /\ ~SheetFlush(j).toVoid
<1> DEFINE k == PageFlush(j)
<1>1. JobOK(k) /\ Len(k.files) = Len(j.files) /\ PageState(k)
      /\ k.virtual = 0 /\ ~k.toVoid
  BY PageFlushOK, PageFlushState
<1>2. k.files # << >>
  BY <1>1 DEF JobOK, Job
<1>3. SheetFlush(j) = k \/ SheetFlush(j) = PageEmptyOutput(k)
  BY DEF SheetFlush
<1> HIDE DEF k
<1>4. QED
  BY <1>1, <1>2, <1>3, PageEmptyOutputState

LEMMA VirtualEndState ==
  ASSUME NEW j, JobOK(j), VirtualState(j)
  PROVE  VirtualState(VirtualEnd(j)) /\ VirtualEnd(j).virtual < Slots
<1>1. CASE j.virtual = Slots
  <2>1. j.virtual # 0 /\ ~j.toVoid /\ PageState(j)
    BY <1>1, SlotsType DEF VirtualState
  <2>2. VirtualEnd(j) = PageEnd(j)
    BY <1>1 DEF VirtualEnd
  <2>3. QED BY <2>1, <2>2, PageEndState, SlotsType DEF VirtualState
<1>2. CASE j.virtual # Slots
  <2>1. VirtualEnd(j) = j
    BY <1>2 DEF VirtualEnd
  <2>2. j.virtual \in Nat
    BY DEF JobOK, Job
  <2>3. QED BY <1>2, <2>1, <2>2, SlotsType DEF VirtualState
<1>3. QED
  BY <1>1, <1>2

(* page_begin is called for a selected virtual page on a fresh page, or    *)
(* again, in the void, on the page already begun.                          *)
LEMMA PageBeginState ==
  ASSUME NEW j, JobOK(j), j.files # << >>, j.virtual = 1,
         j.toVoid = ~Selected(j, j.pages),
         j.faults = {}, j.page <=> j.label = "pending", j.page <=> j.toVoid,
         j.sheets = j.shown + (IF j.page THEN 1 ELSE 0)
  PROVE  PageState(PageBegin(j)) /\ PageBegin(j).virtual = 1
         /\ PageBegin(j).page
<1> DEFINE k == PageBegin(j)
<1>1. j.shown \in Nat /\ j.toVoid \in BOOLEAN /\ j.page \in BOOLEAN
  BY DEF JobOK, Job
<1>2. /\ FaultIf(~j.toVoid /\ j.page, "page not ended") = {}
      /\ FaultIf(~j.toVoid /\ j.label = "pending", "label not filled") = {}
  BY DEF FaultIf
<1>3. k.faults = j.faults
  BY <1>2, PageBeginEffect
<1>4. /\ k.virtual = 1 /\ k.shown = j.shown
      /\ k.sheets = IF Selected(j, j.pages) THEN j.sheets + 1 ELSE j.sheets
      /\ k.label = IF j.toVoid THEN j.label ELSE "pending"
  BY PageBeginEffect
<1>5. k.page = (j.page \/ ~j.toVoid)
  BY PageBeginEffect
<1> HIDE DEF k
<1>6. k.page /\ k.label = "pending"
  BY <1>4, <1>5
<1>7. k.sheets = k.shown + 1
  <2>1. CASE j.toVoid
    BY <1>1, <1>4, <2>1
  <2>2. CASE ~j.toVoid
    <3>1. Selected(j, j.pages)
      BY <2>2
    <3>2. k.sheets = j.sheets + 1
      BY <1>4, <3>1
    <3>3. j.sheets = j.shown
      BY <1>1, <2>2
    <3>4. QED BY <1>4, <3>2, <3>3
  <2>3. QED BY <2>1, <2>2
<1>8. QED
  BY <1>3, <1>4, <1>6, <1>7 DEF PageState, k

LEMMA VirtualBeginState ==
  ASSUME NEW j, JobOK(j), j.files # << >>, VirtualState(j), j.virtual < Slots
  PROVE  VirtualState(VirtualBegin(j))
<1> DEFINE a == Enter(j)
           b == IF a.virtual = 1 THEN PageBegin(a) ELSE a
           d == SynchronizeSheets(SynchronizePages(b))
<1>1. /\ JobOK(a) /\ a.files = j.files
      /\ a.toVoid = ~Selected(a, a.pages)
      /\ a.virtual = IF a.toVoid THEN j.virtual ELSE j.virtual + 1
      /\ a.sheets = j.sheets /\ a.shown = j.shown /\ a.page = j.page
      /\ a.label = j.label /\ a.faults = j.faults
  BY EnterEffect
<1>2. VirtualBegin(j) = d
  BY VirtualBeginIs
<1>3. /\ JobOK(PageBegin(a)) /\ Len(PageBegin(a).files) = Len(a.files)
      /\ PageBegin(a).toVoid = a.toVoid
  BY <1>1, PageBeginEffect
<1> HIDE DEF a
<1>4. j.virtual \in Nat
  BY DEF JobOK, Job
<1>5. PageState(j) /\ (j.page <=> j.virtual # 0)
  BY DEF VirtualState, PageState
<1>6. PageState(b) /\ b.virtual = a.virtual /\ b.toVoid = a.toVoid /\ JobOK(b)
      /\ Len(b.files) = Len(j.files)
  <2>1. CASE a.virtual = 1
    <3>1. a.page <=> a.toVoid
      <4>1. CASE a.toVoid
        BY <1>1, <1>5, <2>1, <4>1
      <4>2. CASE ~a.toVoid
        BY <1>1, <1>4, <1>5, <2>1, <4>2
      <4>3. QED BY <4>1, <4>2
    <3>2. PageState(PageBegin(a)) /\ PageBegin(a).virtual = 1
      BY <1>1, <1>5, <2>1, <3>1, PageBeginState DEF PageState
    <3>3. QED BY <1>1, <1>3, <2>1, <3>2
  <2>2. CASE a.virtual # 1
    <3>1. a.page <=> a.virtual # 0
      BY <1>1, <1>4, <1>5, <2>2
    <3>2. PageState(a)
      BY <1>1, <1>5, <3>1 DEF PageState
    <3>3. QED BY <1>1, <2>2, <3>2
  <2>3. QED BY <2>1, <2>2
<1> HIDE DEF b
<1>7. b.files # << >>
  BY <1>6 DEF JobOK, Job
<1>8. SameButCounters(b, d)
  BY <1>6, <1>7, SynchronizedState
<1> HIDE DEF d
<1>9. PageState(d) /\ d.virtual = a.virtual /\ d.toVoid = a.toVoid
  BY <1>6, <1>8, SameState DEF SameButCounters
<1>10. a.virtual <= Slots /\ (a.toVoid => a.virtual < Slots)
  BY <1>1, <1>4, SlotsType
<1>11. QED
  BY <1>2, <1>9, <1>10 DEF VirtualState

LEMMA InitPages == Init => PageInv
<1> SUFFICES ASSUME Init PROVE PageInv
  OBVIOUS
<1>1. TypeInv
  BY InitType
<1>2. VirtualState(job) /\ job.virtual = 0 /\ phase = "idle"
  BY SlotsType DEF Init, VirtualState, PageState
<1>3. RankInv
  BY RankType DEF Init, RankInv, Ranked
<1>4. QED
  BY <1>1, <1>2, <1>3, SlotsType DEF PageInv

LEMMA StepPages ==
  ASSUME RealVirtualPages
  PROVE  PageInv /\ [Next]_vars => PageInv'
<1> SUFFICES ASSUME PageInv, [Next]_vars PROVE PageInv'
  OBVIOUS
<1>t. TypeInv /\ TypeInv' /\ RankInv'
  BY StepType, StepRanks DEF PageInv
<1>j. JobOK(job) /\ SomeFile /\ VirtualState(job) /\ PageState(job)
      /\ job.virtual \in Nat
  BY <1>t DEF PageInv, TypeInv, VirtualState, JobOK, Job
<1>i. (phase # "virtual" => job.virtual < Slots)
      /\ (phase = "delegating" => job.virtual = 0)
  BY DEF PageInv
(* An action after which the printer is out of any page.                   *)
<1>f. ASSUME PageState(job'), job'.virtual = 0, ~job'.toVoid PROVE PageInv'
  BY <1>t, <1>f, SlotsType DEF PageInv, VirtualState
<1>1. ASSUME NEW isToc \in BOOLEAN, StartFile(isToc) PROVE PageInv'
  <2>1. CASE job.files = << >> \/ FileAlign \in {"virtual", "rank"}
    <3>1. job' = job /\ phase = "idle" /\ phase' \in {"aligning", "tocAligning"}
      BY <1>1, <2>1 DEF StartFile
    <3>2. CASE FileAlign # "number"
      BY <1>t, <1>j, <1>i, <3>1, <3>2 DEF PageInv
    <3>3. CASE FileAlign = "number"
      BY <1>t, <1>j, <1>i, <2>1, <3>1, <3>3 DEF PageInv
    <3>4. QED BY <3>2, <3>3
  <2>2. CASE ~(job.files = << >> \/ FileAlign \in {"virtual", "rank"})
    <3>1. job' = SheetFlush(job) \/ job' = PageFlush(job)
      BY <1>1, <2>2 DEF StartFile
    <3>2. QED BY <1>j, <1>f, <2>2, <3>1, SheetFlushState, PageFlushState
  <2>3. QED BY <2>1, <2>2
<1>2. CASE AlignStep
  <2>1. job.files # << >> /\ phase' = phase /\ phase \in {"aligning", "tocAligning"}
    BY <1>2 DEF AlignStep, Misaligned
  <2>2. CASE FileAlign = "rank" /\ VirtualForce
    <3> DEFINE k == VirtualBegin(job)
    <3>1. job' = VirtualEnd(k)
      BY <1>2, <2>2 DEF AlignStep, VirtualEmptyOutput
    <3>2. JobOK(k) /\ VirtualState(k)
      BY <1>j, <1>i, <2>1, VirtualBeginOK, VirtualBeginState
    <3> HIDE DEF k
    <3>3. VirtualState(job') /\ job'.virtual < Slots
      BY <3>1, <3>2, VirtualEndState
    <3>4. QED BY <1>t, <2>1, <2>2, <3>3 DEF PageInv
  <2>3. CASE FileAlign = "rank" /\ ~VirtualForce
    <3> DEFINE k == [job EXCEPT !.pages = @ + 1, !.virtual = @ + 1]
    <3>1. job' = VirtualEnd(k)
      BY <1>2, <2>3 DEF AlignStep, VirtualEmptyOutput
    <3>2. job.pages % Rank # 0
      BY <1>2, <2>3 DEF AlignStep, Misaligned
    <3>3. job.virtual # 0 /\ ~job.toVoid
      <4>1. EveryPage
        BY <2>3 DEF RealVirtualPages
      <4>2. Ranked(job) /\ ~job.toVoid
        BY <2>1, <2>3, <4>1 DEF PageInv, RankInv
      <4>3. QED BY <3>2, <4>2, RankType DEF Ranked
    <3>4. JobOK(k) /\ k.virtual = job.virtual + 1 /\ k.toVoid = job.toVoid
          /\ k.faults = job.faults /\ k.page = job.page /\ k.label = job.label
          /\ k.sheets = job.sheets /\ k.shown = job.shown
      BY <1>j, PhantomOK
    <3> HIDE DEF k
    <3>5. VirtualState(k)
      BY <1>j, <1>i, <2>1, <3>3, <3>4, SlotsType DEF VirtualState, PageState
    <3>6. VirtualState(job') /\ job'.virtual < Slots
      BY <3>1, <3>4, <3>5, VirtualEndState
    <3>7. QED BY <1>t, <2>1, <2>3, <3>6 DEF PageInv
  <2>4. CASE FileAlign # "rank"
    <3>1. FileAlign = "number" /\ job' = PageEmptyOutput(job)
      BY <1>2, <2>4 DEF AlignStep, Misaligned
    <3>2. job.virtual = 0 /\ ~job.toVoid
      BY <2>1, <3>1 DEF PageInv
    <3>3. QED BY <1>j, <1>f, <2>1, <3>1, <3>2, PageEmptyOutputState
  <2>5. QED BY <2>2, <2>3, <2>4
<1>3. CASE LinkFile
  <2>1. /\ job' = [job EXCEPT !.files = Append(@, NewFile(phase = "tocAligning"))]
        /\ phase \in {"aligning", "tocAligning"} /\ phase' = "opened"
    BY <1>3 DEF LinkFile
  <2>2. VirtualState(job') /\ job'.virtual = job.virtual
    BY <1>j, <2>1 DEF VirtualState, PageState, JobOK, Job
  <2>3. QED BY <1>t, <1>i, <2>1, <2>2 DEF PageInv
(* The actions that leave the job alone, or that print nothing.            *)
<1>u. ASSUME UNCHANGED job, phase' \in {"body", "opened", "closing", "abandoned"},
             phase # "virtual"
      PROVE  PageInv'
  BY <1>t, <1>j, <1>i, <1>u DEF PageInv
<1>4. CASE PrintNative
  BY <1>4, <1>u DEF PrintNative
<1>5. CASE IgnoreFile
  BY <1>5, <1>u DEF IgnoreFile
<1>6. CASE Delegate
  <2> DEFINE a == PageFlush(job)
  <2>1. job.files # << >>
    BY <1>6, <1>j DEF Delegate, SomeFile
  <2>2. JobOK(a) /\ Len(a.files) = Len(job.files)
        /\ PageState(a) /\ a.virtual = 0 /\ ~a.toVoid
    BY <1>j, PageFlushOK, PageFlushState
  <2>3. a.files # << >>
    BY <2>1, <2>2 DEF JobOK, Job
  <2>4. job' = SynchronizePages(SynchronizeSheets(a))
    BY <1>6 DEF Delegate
  <2> HIDE DEF a
  <2>5. SameButCounters(a, job')
    BY <2>2, <2>3, <2>4, SynchronizedState
  <2>6. PageState(job') /\ job'.virtual = 0 /\ ~job'.toVoid
    BY <2>2, <2>5, SameState DEF SameButCounters
  <2>7. QED BY <1>f, <2>6
<1>7. CASE CannotDelegate
  BY <1>7, <1>j, <1>f, PageFlushState DEF CannotDelegate
<1>8. CASE DelegatedPage
  <2> DEFINE a == Delegated(job)
  <2>1. job.files # << >> /\ job.virtual = 0 /\ phase = "delegating"
        /\ phase' = "delegating"
    BY <1>8, <1>j, <1>i DEF DelegatedPage, SomeFile
  <2>3. job' = SynchronizePages(SynchronizeSheets(a))
    BY <1>8 DEF DelegatedPage, Delegated
  <2>4. ~job.page /\ job.sheets = job.shown
    BY <1>j, <2>1 DEF PageState, JobOK, Job
  <2>5. JobOK(a) /\ a.files = job.files /\ a.sheets = job.sheets + 1
        /\ a.shown = job.shown + 1 /\ a.page = job.page /\ a.label = job.label
        /\ a.virtual = 0 /\ a.faults = job.faults
    BY <1>j, <2>1, DelegatedCounts
  <2> HIDE DEF a
  <2>6. job.sheets \in Nat /\ job.shown \in Nat
    BY <1>j DEF JobOK, Job
  <2>7. PageState(a)
    BY <1>j, <2>1, <2>4, <2>5, <2>6 DEF PageState
  <2>8. SameButCounters(a, job')
    BY <2>1, <2>3, <2>5, SynchronizedState
  <2>9. PageState(job') /\ job'.virtual = 0
    BY <2>5, <2>7, <2>8, SameState DEF SameButCounters
  <2>10. QED BY <1>t, <2>1, <2>9, SlotsType DEF PageInv, VirtualState
<1>9. CASE EndDelegation
  <2>1. job.virtual = 0 /\ phase' = "closing" /\ ~job.page
    BY <1>9, <1>j, <1>i DEF EndDelegation, PageState
  <2>2. FaultIf(job.page, "include in a page") = {}
    BY <2>1 DEF FaultIf
  <2>3. job' = [job EXCEPT !.faults = @]
    BY <1>9, <2>2 DEF EndDelegation
  <2>4. PageState(job') /\ job'.virtual = 0
    BY <1>j, <2>1, <2>3 DEF PageState, JobOK, Job
  <2>5. QED BY <1>t, <2>1, <2>4, SlotsType DEF PageInv, VirtualState
<1>10. CASE FailDelegation
  BY <1>10, <1>u DEF FailDelegation
<1>11. CASE BeginVirtual
  <2>1. job.files # << >> /\ phase # "virtual" /\ phase' = "virtual"
        /\ job' = VirtualBegin(job)
    BY <1>11, <1>j DEF BeginVirtual, SomeFile
  <2>2. VirtualState(job')
    BY <1>j, <1>i, <2>1, VirtualBeginState
  <2>3. QED BY <1>t, <2>1, <2>2 DEF PageInv
<1>12. CASE EndVirtual
  <2>1. VirtualState(job') /\ job'.virtual < Slots /\ phase' = "body"
    BY <1>12, <1>j, VirtualEndState DEF EndVirtual
  <2>2. QED BY <1>t, <2>1 DEF PageInv
<1>13. ASSUME NEW x \in Encodings, SwitchEncoding(x) PROVE PageInv'
  <2>1. UNCHANGED <<job, phase>>
    BY <1>13 DEF SwitchEncoding
  <2>2. QED BY <1>t, <2>1 DEF PageInv
<1>14. CASE CloseFile
  <2> DEFINE a == IF phase = "virtual" THEN VirtualEnd(job) ELSE job
  <2>1. job.files # << >> /\ phase' = "idle"
    BY <1>14, <1>j DEF CloseFile, SomeFile
  <2>2. JobOK(a) /\ Len(a.files) = Len(job.files)
        /\ VirtualState(a) /\ a.virtual < Slots
    BY <1>j, <1>i, VirtualEndOK, VirtualEndState
  <2>3. job' = SynchronizeSheets(SynchronizePages(a))
    BY <1>14 DEF CloseFile
  <2> HIDE DEF a
  <2>4. a.files # << >>
    BY <2>1, <2>2 DEF JobOK, Job
  <2>5. SameButCounters(a, job')
    BY <2>2, <2>3, <2>4, SynchronizedState
  <2>6. VirtualState(job') /\ job'.virtual < Slots
    BY <2>2, <2>5, SameState DEF SameButCounters, VirtualState
  <2>7. QED BY <1>t, <2>1, <2>6 DEF PageInv
<1>15. CASE CloseSession
  BY <1>15, <1>j, <1>f, PageFlushState DEF CloseSession
<1>16. CASE AbandonSession
  BY <1>16, <1>u DEF AbandonSession
<1>17. CASE UNCHANGED vars
  BY <1>17, <1>t DEF vars, PageInv
<1>18. QED
  BY <1>1, <1>2, <1>3, <1>4, <1>5, <1>6, <1>7, <1>8, <1>9, <1>10, <1>11, <1>12,
     <1>13, <1>14, <1>15, <1>16, <1>17
  DEF Next, Finished

(* Whatever the pages selected, the files delegated, failed or ignored, the*)
(* printer reads well-formed pages, each with one label filled once, no    *)
(* document is included inside a page, and job->sheets counts the pages.   *)
THEOREM PagesWellFormed ==
  ASSUME RealVirtualPages
  PROVE  Spec => [](PageStructure /\ SheetCount)
<1>1. PageInv => PageStructure /\ SheetCount
  BY DEF PageInv, VirtualState, PageState, PageStructure, SheetCount
<1>2. PageInv /\ [Next]_vars => PageInv'
  BY StepPages
<1>3. QED
  BY InitPages, <1>1, <1>2, PTL DEF Spec
-----------------------------------------------------------------------------
(* A page is begun: the three memories of a2ps and the printer agree on a. *)
Opened(e, a) ==
  /\ e \in EncState /\ e.faults = {}
  /\ e.cur = a /\ e.opened = a /\ e.dict = a

(* No page is begun: a2ps remembers a for the next one.                    *)
Closed(e, a) ==
  /\ e \in EncState /\ e.faults = {}
  /\ e.cur \in {NULL, a} /\ e.opened = NULL /\ e.dict = NULL
  /\ e.saved = a

EncodingOK(e, v, a) ==
  /\ a \in Encodings
  /\ IF v = 0 THEN Closed(e, a) ELSE Opened(e, a)

EncodingInv ==
  /\ PageInv
  /\ EncodingOK(enc, job.virtual, asked)
  /\ phase = "virtual" => job.virtual # 0
-----------------------------------------------------------------------------
(* What the functions on encodings do when nothing is thrown away.         *)

LEMMA SetEffect ==
  ASSUME NEW e \in EncState, e.faults = {}, e.dict = NULL, NEW a \in Encodings
  PROVE  LET d == PsSetEncoding(e, a, FALSE)
         IN Opened(d, a) /\ d.saved = e.saved
<1>1. PsSetEncoding(e, a, FALSE) \in EncState
  BY PsSetEncodingType
<1>2. a # NULL
  BY EncodingAssumption
<1>3. PsSetEncoding(e, a, FALSE) =
        [e EXCEPT !.cur = a, !.opened = a, !.dict = a, !.faults = {}]
  BY <1>2 DEF PsSetEncoding, EncState
<1>4. QED
  BY <1>1, <1>3 DEF Opened, EncState

LEMMA EndEffect ==
  ASSUME NEW e, NEW a \in Encodings, Opened(e, a)
  PROVE  LET d == PsEndEncoding(e, FALSE)
         IN /\ d \in EncState /\ d.faults = {} /\ d.saved = e.saved
            /\ d.cur = NULL /\ d.opened = NULL /\ d.dict = NULL
<1>1. PsEndEncoding(e, FALSE) \in EncState
  BY PsEndEncodingType DEF Opened
<1>2. a # NULL
  BY EncodingAssumption
<1>3. PsEndEncoding(e, FALSE) =
        [e EXCEPT !.cur = NULL, !.opened = NULL, !.dict = NULL, !.faults = {}]
  BY <1>2 DEF PsEndEncoding, EncState, Opened
<1>4. QED
  BY <1>1, <1>3 DEF Opened, EncState

LEMMA InternalSwitchOpened ==
  ASSUME NEW e, NEW a \in Encodings, Opened(e, a), NEW x \in Encodings
  PROVE  LET d == PsInternalSwitch(e, x, FALSE)
         IN Opened(d, x) /\ d.saved = e.saved
<1> DEFINE c == PsEndEncoding(e, FALSE)
<1>1. c \in EncState /\ c.faults = {} /\ c.dict = NULL /\ c.saved = e.saved
  BY EndEffect
<1>2. a # NULL /\ e.opened = a /\ e.cur = a
  BY EncodingAssumption DEF Opened
<1>3. PsInternalSwitch(e, x, FALSE) = IF a = x THEN e ELSE PsSetEncoding(c, x, FALSE)
  BY <1>2 DEF PsInternalSwitch
<1> HIDE DEF c
<1>4. Opened(PsSetEncoding(c, x, FALSE), x)
      /\ PsSetEncoding(c, x, FALSE).saved = c.saved
  BY <1>1, SetEffect
<1>5. QED
  BY <1>1, <1>3, <1>4

LEMMA InternalSwitchClosed ==
  ASSUME NEW e, NEW a \in Encodings, Closed(e, a), NEW x \in Encodings
  PROVE  LET d == PsInternalSwitch(e, x, FALSE)
         IN /\ d \in EncState /\ d.faults = {} /\ d.cur = x
            /\ d.opened = NULL /\ d.dict = NULL
<1>1. PsInternalSwitch(e, x, FALSE) \in EncState
  BY PsInternalSwitchType DEF Closed
<1>2. PsEndEncoding(e, FALSE) = [e EXCEPT !.cur = NULL, !.opened = NULL]
  BY DEF PsEndEncoding, EncState, Closed
<1>3. PsInternalSwitch(e, x, FALSE) =
        IF e.cur = x THEN e ELSE [e EXCEPT !.cur = x, !.opened = NULL]
  BY <1>2 DEF PsInternalSwitch, EncState, Closed
<1>4. QED
  BY <1>1, <1>3 DEF Closed, EncState

LEMMA PushOpened ==
  ASSUME NEW e, NEW a \in Encodings, Opened(e, a)
  PROVE  LET d == PsPushEncoding(e, Requested, FALSE)
         IN Opened(d, Requested) /\ d.saved = a
<1> DEFINE c == [e EXCEPT !.saved = e.cur]
<1>1. Opened(c, a) /\ c.saved = a
  BY DEF Opened, EncState
<1>2. PsPushEncoding(e, Requested, FALSE) = PsInternalSwitch(c, Requested, FALSE)
  BY DEF PsPushEncoding
<1> HIDE DEF c
<1>3. QED
  BY <1>1, <1>2, InternalSwitchOpened, EncodingAssumption

LEMMA PopOpened ==
  ASSUME NEW e, NEW b \in Encodings, Opened(e, b), e.saved \in Encodings
  PROVE  Opened(PsPopEncoding(e, FALSE), e.saved)
BY InternalSwitchOpened DEF PsPopEncoding

LEMMA SwitchOK ==
  ASSUME NEW e, NEW v, NEW a, EncodingOK(e, v, a), NEW x \in Encodings
  PROVE  EncodingOK(PsSwitchEncoding(e, x, FALSE), v, x)
<1> DEFINE d == PsInternalSwitch(e, x, FALSE)
           c == [d EXCEPT !.saved = x]
<1>1. a \in Encodings
  BY DEF EncodingOK
<1>2. PsSwitchEncoding(e, x, FALSE) = IF e.cur = x THEN e ELSE c
  BY DEF PsSwitchEncoding
<1>3. CASE v = 0
  <2>1. Closed(e, a)
    BY <1>3 DEF EncodingOK
  <2>2. /\ d \in EncState /\ d.faults = {} /\ d.cur = x
        /\ d.opened = NULL /\ d.dict = NULL
    BY <1>1, <2>1, InternalSwitchClosed
  <2> HIDE DEF d
  <2>3. Closed(c, x)
    BY <2>2 DEF Closed, EncState
  <2>4. e.cur = x => x = a
    BY <2>1, EncodingAssumption DEF Closed
  <2>5. QED BY <1>2, <1>3, <2>1, <2>3, <2>4 DEF EncodingOK
<1>4. CASE v # 0
  <2>1. Opened(e, a)
    BY <1>4 DEF EncodingOK
  <2>2. Opened(d, x)
    BY <1>1, <2>1, InternalSwitchOpened
  <2> HIDE DEF d
  <2>3. Opened(c, x)
    BY <2>2 DEF Opened, EncState
  <2>4. e.cur = x => x = a
    BY <2>1 DEF Opened
  <2>5. QED BY <1>2, <1>4, <2>1, <2>3, <2>4 DEF EncodingOK
<1>5. QED
  BY <1>3, <1>4

LEMMA PageBeginOpened ==
  ASSUME NEW e, NEW a \in Encodings, Closed(e, a)
  PROVE  Opened(PageBeginEnc(e, FALSE), a)
<1> DEFINE d == PsSetEncoding(e, Requested, FALSE)
<1>1. Opened(d, Requested)
  BY SetEffect, EncodingAssumption DEF Closed
<1>2. PageBeginEnc(e, FALSE) = PsInternalSwitch(d, a, FALSE)
  BY DEF PageBeginEnc, Closed
<1> HIDE DEF d
<1>3. QED
  BY <1>1, <1>2, InternalSwitchOpened, EncodingAssumption

LEMMA PageEndClosed ==
  ASSUME NEW e, NEW a \in Encodings, Opened(e, a)
  PROVE  Closed(PageEndEnc(e, FALSE), a)
<1> DEFINE d == PsPushEncoding(e, Requested, FALSE)
<1>1. Opened(d, Requested) /\ d.saved = a
  BY PushOpened
<1>2. PageEndEnc(e, FALSE) = PsEndEncoding(d, FALSE)
  BY DEF PageEndEnc
<1> HIDE DEF d
<1>3. QED
  BY <1>1, <1>2, EndEffect, EncodingAssumption DEF Closed

LEMMA PageFlushEncoding ==
  ASSUME NEW e, NEW j, NEW a, EncodingOK(e, j.virtual, a)
  PROVE  EncodingOK(PageFlushEnc(e, j), 0, a)
BY PageEndClosed DEF EncodingOK, PageFlushEnc

LEMMA VirtualBeginEncoding ==
  ASSUME EveryPage, NEW j, JobOK(j), j.files # << >>,
         NEW e, NEW a, EncodingOK(e, j.virtual, a)
  PROVE  /\ EncodingOK(VirtualBeginEnc(e, j), VirtualBegin(j).virtual, a)
         /\ VirtualBegin(j).virtual = j.virtual + 1 /\ ~VirtualBegin(j).toVoid
         /\ VirtualBegin(j).virtual # 0
<1> DEFINE k == VirtualBegin(j)
           d == IF k.virtual = 1 THEN PageBeginEnc(e, FALSE) ELSE e
<1>1. k.virtual = j.virtual + 1 /\ k.toVoid = FALSE
  BY VirtualBeginCounts, AllSelected
<1>2. j.virtual \in Nat
  BY DEF JobOK, Job
<1>3. VirtualBeginEnc(e, j) = IF d.cur = NULL THEN PsSetEncoding(d, d.saved, FALSE) ELSE d
  BY <1>1 DEF VirtualBeginEnc
<1> HIDE DEF k
<1>4. a \in Encodings /\ a # NULL
  BY EncodingAssumption DEF EncodingOK
<1>5. Opened(d, a)
  <2>1. CASE j.virtual = 0
    <3>1. k.virtual = 1
      BY <1>1, <2>1
    <3>2. Closed(e, a)
      BY <2>1 DEF EncodingOK
    <3>3. Opened(PageBeginEnc(e, FALSE), a)
      BY <1>4, <3>2, PageBeginOpened
    <3>4. QED BY <3>1, <3>3
  <2>2. CASE j.virtual # 0
    <3>1. k.virtual # 1
      BY <1>1, <1>2, <2>2
    <3>2. Opened(e, a)
      BY <2>2 DEF EncodingOK
    <3>3. QED BY <3>1, <3>2
  <2>3. QED BY <2>1, <2>2
<1> HIDE DEF d
<1>6. d.cur # NULL
  BY <1>4, <1>5 DEF Opened
<1>7. k.virtual # 0
  BY <1>1, <1>2
<1>8. EncodingOK(VirtualBeginEnc(e, j), k.virtual, a)
  BY <1>3, <1>4, <1>5, <1>6, <1>7 DEF EncodingOK
<1>9. QED
  BY <1>1, <1>7, <1>8 DEF k

LEMMA VirtualEndEncoding ==
  ASSUME NEW j, JobOK(j), ~j.toVoid, j.virtual # 0,
         NEW e, NEW a, EncodingOK(e, j.virtual, a)
  PROVE  EncodingOK(VirtualEndEnc(e, j), VirtualEnd(j).virtual, a)
<1> DEFINE c == PsPushEncoding(e, Requested, FALSE)
           d == IF Titles THEN PsPopEncoding(c, FALSE) ELSE e
<1>1. j.toVoid = FALSE
  BY DEF JobOK, Job
<1>2. VirtualEndEnc(e, j) = IF j.virtual = Slots THEN PageEndEnc(d, FALSE) ELSE d
  BY <1>1 DEF VirtualEndEnc
<1>3. a \in Encodings /\ Opened(e, a)
  BY DEF EncodingOK
<1>4. Opened(c, Requested) /\ c.saved = a
  BY <1>3, PushOpened
<1> HIDE DEF c
<1>5. Opened(d, a)
  BY <1>3, <1>4, PopOpened, EncodingAssumption
<1> HIDE DEF d
<1>6. Closed(PageEndEnc(d, FALSE), a)
  BY <1>3, <1>5, PageEndClosed
<1>7. VirtualEnd(j).virtual = IF j.virtual = Slots THEN 0 ELSE j.virtual
  BY VirtualEndCounts
<1>8. QED
  BY <1>2, <1>3, <1>5, <1>6, <1>7 DEF EncodingOK
-----------------------------------------------------------------------------
(* The invariant.                                                          *)

LEMMA InitEncodings == Init => EncodingInv
<1> SUFFICES ASSUME Init PROVE EncodingInv
  OBVIOUS
<1>1. PageInv
  BY InitPages
<1>2. Closed(enc, asked) /\ asked \in Encodings
  BY <1>1, EncodingAssumption DEF Init, EncInit, Closed, PageInv, TypeInv
<1>3. job.virtual = 0 /\ phase = "idle"
  BY DEF Init
<1>4. QED
  BY <1>1, <1>2, <1>3 DEF EncodingInv, EncodingOK

LEMMA StepEncodings ==
  ASSUME EveryPage
  PROVE  EncodingInv /\ [Next]_vars => EncodingInv'
<1> SUFFICES ASSUME EncodingInv, [Next]_vars PROVE EncodingInv'
  OBVIOUS
<1>t. PageInv /\ PageInv'
  BY StepPages DEF EncodingInv, RealVirtualPages
<1>e. EncodingOK(enc, job.virtual, asked) /\ (phase = "virtual" => job.virtual # 0)
  BY DEF EncodingInv
<1>j. JobOK(job) /\ SomeFile /\ ~job.toVoid /\ job.toVoid = FALSE
  BY <1>t DEF PageInv, TypeInv, RankInv, JobOK, Job
<1>g. ASSUME EncodingOK(enc', job'.virtual, asked'), phase' # "virtual"
      PROVE  EncodingInv'
  BY <1>t, <1>g DEF EncodingInv
<1>1. ASSUME NEW isToc \in BOOLEAN, StartFile(isToc) PROVE EncodingInv'
  <2>1. phase' # "virtual" /\ asked' = asked
    BY <1>1 DEF StartFile
  <2>2. CASE job.files = << >> \/ FileAlign \in {"virtual", "rank"}
    BY <1>1, <1>e, <1>g, <2>1, <2>2 DEF StartFile
  <2>3. CASE ~(job.files = << >> \/ FileAlign \in {"virtual", "rank"})
    <3>1. /\ job' = SheetFlush(job) \/ job' = PageFlush(job)
          /\ enc' = PageFlushEnc(enc, job)
      BY <1>1, <2>3 DEF StartFile
    <3>2. job'.virtual = 0
      BY <1>j, <2>3, <3>1, SheetFlushCounts, PageFlushCounts
    <3>3. QED BY <1>e, <1>g, <2>1, <3>1, <3>2, PageFlushEncoding
  <2>4. QED BY <2>2, <2>3
<1>2. CASE AlignStep
  <2>1. job.files # << >> /\ phase' # "virtual" /\ asked' = asked
        /\ phase \in {"aligning", "tocAligning"}
    BY <1>2 DEF AlignStep, Misaligned
  <2>2. CASE FileAlign = "rank" /\ VirtualForce
    <3> DEFINE k == VirtualBegin(job)
               e == VirtualBeginEnc(enc, job)
    <3>1. job' = VirtualEnd(k) /\ enc' = VirtualEndEnc(e, k)
      BY <1>2, <2>2 DEF AlignStep, VirtualEmptyOutput, VirtualEmptyOutputEnc
    <3>2. JobOK(k) /\ EncodingOK(e, k.virtual, asked) /\ k.virtual # 0 /\ ~k.toVoid
      BY <1>e, <1>j, <2>1, VirtualBeginCounts, VirtualBeginEncoding
    <3> HIDE DEF k, e
    <3>3. EncodingOK(enc', job'.virtual, asked)
      BY <3>1, <3>2, VirtualEndEncoding
    <3>4. QED BY <1>g, <2>1, <3>3
  <2>3. CASE FileAlign = "rank" /\ ~VirtualForce
    <3> DEFINE k == [job EXCEPT !.pages = @ + 1, !.virtual = @ + 1]
    <3>1. /\ job' = VirtualEnd(k)
          /\ enc' = IF job.virtual + 1 = Slots THEN PageEndEnc(enc, FALSE) ELSE enc
      BY <1>2, <1>j, <2>3 DEF AlignStep, VirtualEmptyOutput, VirtualEmptyOutputEnc
    <3>2. job.pages % Rank # 0
      BY <1>2, <2>3 DEF AlignStep, Misaligned
    <3>3. job.virtual # 0 /\ job.virtual \in Nat
      <4>1. Ranked(job)
        BY <1>t, <2>1, <2>3 DEF PageInv, RankInv
      <4>2. QED BY <1>j, <3>2, <4>1, RankType DEF Ranked, JobOK, Job
    <3>4. JobOK(k) /\ k.virtual = job.virtual + 1
      BY <1>j, PhantomOK
    <3> HIDE DEF k
    <3>5. job'.virtual = IF job.virtual + 1 = Slots THEN 0 ELSE job.virtual + 1
      BY <3>1, <3>4, VirtualEndCounts
    <3>6. asked \in Encodings /\ Opened(enc, asked)
      BY <1>e, <3>3 DEF EncodingOK
    <3>7. Closed(PageEndEnc(enc, FALSE), asked)
      BY <3>6, PageEndClosed
    <3>8. EncodingOK(enc', job'.virtual, asked)
      <4>1. CASE job.virtual + 1 = Slots
        <5>1. job'.virtual = 0 /\ enc' = PageEndEnc(enc, FALSE)
          BY <3>1, <3>5, <4>1
        <5>2. QED BY <3>6, <3>7, <5>1 DEF EncodingOK
      <4>2. CASE job.virtual + 1 # Slots
        <5>1. job'.virtual # 0 /\ enc' = enc
          BY <3>1, <3>3, <3>5, <4>2
        <5>2. QED BY <3>6, <5>1 DEF EncodingOK
      <4>3. QED BY <4>1, <4>2
    <3>9. QED BY <1>g, <2>1, <3>8
  <2>4. CASE FileAlign # "rank"
    <3>1. job' = PageEmptyOutput(job) /\ enc' = enc
      BY <1>2, <2>4 DEF AlignStep
    <3>2. job'.virtual = job.virtual
      BY <1>j, <2>1, <3>1, PageEmptyOutputEffect
    <3>3. QED BY <1>e, <1>g, <2>1, <3>1, <3>2
  <2>5. QED BY <2>2, <2>3, <2>4
(* The actions that change neither the encodings nor the page.             *)
<1>u. ASSUME UNCHANGED <<enc, asked>>, job'.virtual = job.virtual, phase' # "virtual"
      PROVE  EncodingInv'
  BY <1>e, <1>g, <1>u
<1>3. CASE LinkFile
  <2>1. job' = [job EXCEPT !.files = Append(@, NewFile(phase = "tocAligning"))]
    BY <1>3 DEF LinkFile
  <2>2. job'.virtual = job.virtual
    BY <1>j, <2>1 DEF JobOK, Job
  <2>3. QED BY <1>3, <1>u, <2>2 DEF LinkFile
<1>4. CASE PrintNative
  BY <1>4, <1>u DEF PrintNative
<1>5. CASE IgnoreFile
  BY <1>5, <1>u DEF IgnoreFile
<1>6. CASE Delegate
  <2> DEFINE a == PageFlush(job)
  <2>1. job.files # << >>
    BY <1>6, <1>j DEF Delegate, SomeFile
  <2>2. JobOK(a) /\ a.files = job.files /\ a.virtual = 0
    BY <1>j, PageFlushCounts
  <2>3. job' = SynchronizePages(SynchronizeSheets(a))
    BY <1>6 DEF Delegate
  <2> HIDE DEF a
  <2>4. job'.virtual = 0
    BY <2>1, <2>2, <2>3, SynchronizedState DEF SameButCounters
  <2>5. EncodingOK(enc', 0, asked)
    BY <1>6, <1>e, PageFlushEncoding DEF Delegate
  <2>6. QED BY <1>6, <1>g, <2>4, <2>5 DEF Delegate
<1>7. CASE CannotDelegate
  <2>1. job'.virtual = 0
    BY <1>7, <1>j, PageFlushCounts DEF CannotDelegate
  <2>2. EncodingOK(enc', 0, asked)
    BY <1>7, <1>e, PageFlushEncoding DEF CannotDelegate
  <2>3. QED BY <1>7, <1>g, <2>1, <2>2 DEF CannotDelegate
<1>8. CASE DelegatedPage
  <2> DEFINE a == Delegated(job)
  <2>1. job.files # << >> /\ phase' # "virtual"
    BY <1>8, <1>j DEF DelegatedPage, SomeFile
  <2>2. JobOK(a) /\ a.files = job.files /\ a.virtual = job.virtual
    BY <1>j, DelegatedCounts
  <2>3. job' = SynchronizePages(SynchronizeSheets(a))
    BY <1>8 DEF DelegatedPage, Delegated
  <2> HIDE DEF a
  <2>4. job'.virtual = job.virtual
    BY <2>1, <2>2, <2>3, SynchronizedState DEF SameButCounters
  <2>5. QED BY <1>8, <1>u, <2>1, <2>4 DEF DelegatedPage
<1>9. CASE EndDelegation
  <2>1. job'.virtual = job.virtual
    BY <1>9, <1>j DEF EndDelegation, JobOK, Job
  <2>2. QED BY <1>9, <1>u, <2>1 DEF EndDelegation
<1>10. CASE FailDelegation
  BY <1>10, <1>u DEF FailDelegation
<1>11. CASE BeginVirtual
  <2>1. job.files # << >> /\ job' = VirtualBegin(job) /\ asked' = asked
        /\ enc' = VirtualBeginEnc(enc, job)
    BY <1>11, <1>j DEF BeginVirtual, SomeFile
  <2>2. EncodingOK(enc', job'.virtual, asked) /\ job'.virtual # 0
    BY <1>e, <1>j, <2>1, VirtualBeginEncoding
  <2>3. QED BY <1>t, <2>1, <2>2 DEF EncodingInv
<1>12. CASE EndVirtual
  <2>1. job.virtual # 0 /\ job' = VirtualEnd(job) /\ asked' = asked
        /\ enc' = VirtualEndEnc(enc, job) /\ phase' # "virtual"
    BY <1>12, <1>e DEF EndVirtual
  <2>2. EncodingOK(enc', job'.virtual, asked)
    BY <1>e, <1>j, <2>1, VirtualEndEncoding
  <2>3. QED BY <1>g, <2>1, <2>2
<1>13. ASSUME NEW x \in Encodings, SwitchEncoding(x) PROVE EncodingInv'
  <2>1. enc' = PsSwitchEncoding(enc, x, FALSE) /\ asked' = x
        /\ UNCHANGED <<job, phase>>
    BY <1>13, <1>j DEF SwitchEncoding
  <2>2. EncodingOK(enc', job'.virtual, asked')
    BY <1>e, <2>1, SwitchOK
  <2>3. QED BY <1>t, <1>e, <2>1, <2>2 DEF EncodingInv
<1>14. CASE CloseFile
  <2> DEFINE a == IF phase = "virtual" THEN VirtualEnd(job) ELSE job
  <2>1. job.files # << >> /\ phase' = "idle" /\ asked' = asked
    BY <1>14, <1>j DEF CloseFile, SomeFile
  <2>2. JobOK(a) /\ a.files = job.files
    BY <1>j, VirtualEndCounts
  <2>3. job' = SynchronizeSheets(SynchronizePages(a))
    BY <1>14 DEF CloseFile
  <2>4. EncodingOK(enc', a.virtual, asked)
    BY <1>14, <1>e, <1>j, VirtualEndEncoding DEF CloseFile
  <2> HIDE DEF a
  <2>5. job'.virtual = a.virtual
    BY <2>1, <2>2, <2>3, SynchronizedState DEF SameButCounters
  <2>6. QED BY <1>g, <2>1, <2>4, <2>5
<1>15. CASE CloseSession
  <2>1. job'.virtual = 0
    BY <1>15, <1>j, PageFlushCounts DEF CloseSession
  <2>2. EncodingOK(enc', 0, asked)
    BY <1>15, <1>e, PageFlushEncoding DEF CloseSession
  <2>3. QED BY <1>15, <1>g, <2>1, <2>2 DEF CloseSession
<1>16. CASE AbandonSession
  BY <1>16, <1>u DEF AbandonSession
<1>17. CASE UNCHANGED vars
  BY <1>17, <1>t, <1>e DEF vars, EncodingInv
<1>18. QED
  BY <1>1, <1>2, <1>3, <1>4, <1>5, <1>6, <1>7, <1>8, <1>9, <1>10, <1>11, <1>12,
     <1>13, <1>14, <1>15, <1>16, <1>17
  DEF Next, Finished

(* When no page is skipped, the dictionaries of the encodings are opened   *)
(* and closed one at a time, and every character is printed inside a page, *)
(* under the encoding that the documents asked for last, whatever the      *)
(* headers used since then and whatever the alignment of the files.        *)
THEOREM TextUnderItsEncoding ==
  ASSUME EveryPage
  PROVE  Spec => []EncodingsSound
<1>1. EncodingInv => EncodingsSound
  <2> SUFFICES ASSUME EncodingInv PROVE EncodingsSound
    OBVIOUS
  <2>1. EncodingOK(enc, job.virtual, asked) /\ (phase = "virtual" => job.virtual # 0)
    BY DEF EncodingInv
  <2>2. enc.faults = {}
    BY <2>1 DEF EncodingOK, Opened, Closed
  <2>3. phase = "virtual" => enc.dict = enc.cur /\ enc.cur = asked
    BY <2>1 DEF EncodingOK, Opened
  <2>4. phase = "virtual" => job.page
    BY <2>1 DEF EncodingInv, PageInv, VirtualState, PageState
  <2>5. QED BY <2>2, <2>3, <2>4 DEF EncodingsSound, EncodingStructure, TextEncoding
<1>2. EncodingInv /\ [Next]_vars => EncodingInv'
  BY StepEncodings
<1>3. QED
  BY InitEncodings, <1>1, <1>2, PTL DEF Spec
-----------------------------------------------------------------------------
(* What the functions do to the files.                                     *)

First(a, b) == IF a = 0 THEN b ELSE a

(* Only the current file may differ.                                       *)
OtherFiles(j, k) ==
  /\ Len(k.files) = Len(j.files)
  /\ \A i \in 1 .. Len(j.files) - 1 : k.files[i] = j.files[i]

SameFile(f, g) ==
  /\ g.firstSheet = f.firstSheet /\ g.lastSheet = f.lastSheet
  /\ g.firstPage = f.firstPage /\ g.pages = f.pages

(* k is j once its file was told the sheets and the pages of k.            *)
Synchronized(j, k) ==
  /\ OtherFiles(j, k)
  /\ CurrentFile(k).firstSheet = First(CurrentFile(j).firstSheet, k.sheets)
  /\ CurrentFile(k).lastSheet = k.sheets
  /\ CurrentFile(k).firstPage = First(CurrentFile(j).firstPage, k.pages)
  /\ CurrentFile(k).pages = k.pages - First(CurrentFile(j).firstPage, k.pages) + 1

LEMMA SetCurrentEffect ==
  ASSUME NEW j, JobOK(j), j.files # << >>, NEW g,
         NEW k, k = [j EXCEPT !.files[Len(j.files)] = g]
  PROVE  OtherFiles(j, k) /\ CurrentFile(k) = g
<1> DEFINE t == [j.files EXCEPT ![Len(j.files)] = g]
<1>1. j.files \in Seq(File) /\ Len(j.files) \in DOMAIN j.files
      /\ DOMAIN j.files = 1 .. Len(j.files) /\ Len(j.files) \in Nat
  BY DEF JobOK, Job
<1>2. k.files = t
  BY DEF JobOK, Job
<1>3. t \in Seq(File \cup {g}) /\ Len(t) = Len(j.files)
  BY <1>1
<1>4. t[Len(j.files)] = g
  BY <1>1
<1>5. \A i \in 1 .. Len(j.files) - 1 : t[i] = j.files[i]
  BY <1>1
<1> HIDE DEF t
<1>6. OtherFiles(j, k)
  BY <1>2, <1>3, <1>5 DEF OtherFiles
<1>7. k.files[Len(k.files)] = g
  BY <1>2, <1>3, <1>4
<1>8. QED
  BY <1>6, <1>7 DEF CurrentFile

LEMMA SynchronizeSheetsEffect ==
  ASSUME NEW j, JobOK(j), j.files # << >>
  PROVE  LET k == SynchronizeSheets(j)
             f == CurrentFile(j)
             g == CurrentFile(k)
         IN /\ OtherFiles(j, k)
            /\ g.firstSheet = First(f.firstSheet, j.sheets) /\ g.lastSheet = j.sheets
            /\ g.firstPage = f.firstPage /\ g.pages = f.pages
<1> DEFINE c == CurrentFile(j)
           first == First(c.firstSheet, j.sheets)
           d == [c EXCEPT !.firstSheet = first, !.lastSheet = j.sheets,
                          !.sheets = j.sheets - first + 1]
<1>1. c \in File
  BY CurrentFileOK
<1>2. SynchronizeSheets(j) = [j EXCEPT !.files[Len(j.files)] = d]
  BY DEF SynchronizeSheets, CurrentIndex, First
<1> HIDE DEF c
<1>3. d.firstSheet = first /\ d.lastSheet = j.sheets
      /\ d.firstPage = c.firstPage /\ d.pages = c.pages
  BY <1>1 DEF File
<1> HIDE DEF d
<1>4. OtherFiles(j, SynchronizeSheets(j)) /\ CurrentFile(SynchronizeSheets(j)) = d
  BY <1>2, SetCurrentEffect
<1>5. QED
  BY <1>3, <1>4 DEF c

LEMMA SynchronizePagesEffect ==
  ASSUME NEW j, JobOK(j), j.files # << >>
  PROVE  LET k == SynchronizePages(j)
             f == CurrentFile(j)
             g == CurrentFile(k)
         IN /\ OtherFiles(j, k)
            /\ g.firstPage = First(f.firstPage, j.pages)
            /\ g.pages = j.pages - First(f.firstPage, j.pages) + 1
            /\ g.firstSheet = f.firstSheet /\ g.lastSheet = f.lastSheet
<1> DEFINE c == CurrentFile(j)
           first == First(c.firstPage, j.pages)
           top == IF c.topPage = 0 THEN 1 ELSE c.topPage
           d == [c EXCEPT !.firstPage = first, !.topPage = top,
                          !.lastPage = j.pages, !.pages = j.pages - first + 1]
<1>1. c \in File
  BY CurrentFileOK
<1>2. SynchronizePages(j) = [j EXCEPT !.files[Len(j.files)] = d]
  BY DEF SynchronizePages, CurrentIndex, First
<1> HIDE DEF c
<1>3. d.firstPage = first /\ d.pages = j.pages - first + 1
      /\ d.firstSheet = c.firstSheet /\ d.lastSheet = c.lastSheet
  BY <1>1 DEF File
<1> HIDE DEF d
<1>4. OtherFiles(j, SynchronizePages(j)) /\ CurrentFile(SynchronizePages(j)) = d
  BY <1>2, SetCurrentEffect
<1>5. QED
  BY <1>3, <1>4 DEF c

LEMMA SynchronizedEffect ==
  ASSUME NEW j, JobOK(j), j.files # << >>
  PROVE  /\ Synchronized(j, SynchronizeSheets(SynchronizePages(j)))
         /\ Synchronized(j, SynchronizePages(SynchronizeSheets(j)))
<1> DEFINE a == SynchronizePages(j)
           b == SynchronizeSheets(j)
<1>1. JobOK(a) /\ SameButCounters(j, a) /\ JobOK(b) /\ SameButCounters(j, b)
  BY SynchronizePagesOK, SynchronizeSheetsOK
<1>2. a.files # << >> /\ b.files # << >>
  BY <1>1 DEF SameButCounters, JobOK, Job
<1>3. /\ OtherFiles(j, a) /\ OtherFiles(j, b)
      /\ CurrentFile(a).firstPage = First(CurrentFile(j).firstPage, j.pages)
      /\ CurrentFile(a).pages = j.pages - First(CurrentFile(j).firstPage, j.pages) + 1
      /\ CurrentFile(a).firstSheet = CurrentFile(j).firstSheet
      /\ CurrentFile(b).firstSheet = First(CurrentFile(j).firstSheet, j.sheets)
      /\ CurrentFile(b).lastSheet = j.sheets
      /\ CurrentFile(b).firstPage = CurrentFile(j).firstPage
  BY SynchronizePagesEffect, SynchronizeSheetsEffect
<1> HIDE DEF a, b
<1>4. Synchronized(j, SynchronizeSheets(a))
  <2> DEFINE k == SynchronizeSheets(a)
  <2>1. SameButCounters(a, k) /\ OtherFiles(a, k)
        /\ CurrentFile(k).firstSheet = First(CurrentFile(a).firstSheet, a.sheets)
        /\ CurrentFile(k).lastSheet = a.sheets
        /\ CurrentFile(k).firstPage = CurrentFile(a).firstPage
        /\ CurrentFile(k).pages = CurrentFile(a).pages
    BY <1>1, <1>2, SynchronizeSheetsOK, SynchronizeSheetsEffect
  <2> HIDE DEF k
  <2>2. k.sheets = j.sheets /\ k.pages = j.pages /\ a.sheets = j.sheets
    BY <1>1, <2>1 DEF SameButCounters
  <2>3. OtherFiles(j, k)
    BY <1>3, <2>1 DEF OtherFiles
  <2>4. QED BY <1>3, <2>1, <2>2, <2>3 DEF Synchronized, k
<1>5. Synchronized(j, SynchronizePages(b))
  <2> DEFINE k == SynchronizePages(b)
  <2>1. SameButCounters(b, k) /\ OtherFiles(b, k)
        /\ CurrentFile(k).firstPage = First(CurrentFile(b).firstPage, b.pages)
        /\ CurrentFile(k).pages = b.pages - First(CurrentFile(b).firstPage, b.pages) + 1
        /\ CurrentFile(k).firstSheet = CurrentFile(b).firstSheet
        /\ CurrentFile(k).lastSheet = CurrentFile(b).lastSheet
    BY <1>1, <1>2, SynchronizePagesOK, SynchronizePagesEffect
  <2> HIDE DEF k
  <2>2. k.sheets = j.sheets /\ k.pages = j.pages /\ b.pages = j.pages
    BY <1>1, <2>1 DEF SameButCounters
  <2>3. OtherFiles(j, k)
    BY <1>3, <2>1 DEF OtherFiles
  <2>4. QED BY <1>3, <2>1, <2>2, <2>3 DEF Synchronized, k
<1>6. QED
  BY <1>4, <1>5 DEF a, b

LEMMA PageBeginFiles ==
  ASSUME NEW j, JobOK(j), j.files # << >>
  PROVE  /\ OtherFiles(j, PageBegin(j))
         /\ SameFile(CurrentFile(j), CurrentFile(PageBegin(j)))
<1> DEFINE f == CurrentFile(j)
           d == f.pages + 1
           g == [f EXCEPT !.topPage = d]
           k == [j EXCEPT !.files[Len(j.files)] = g]
<1>1. f \in File
  BY CurrentFileOK
<1>2. PageBegin(j).files = k.files
  BY DEF PageBegin, CurrentIndex, CurrentFile, JobOK, Job
<1> HIDE DEF f, d
<1>4. SameFile(f, g)
  BY <1>1 DEF File, SameFile
<1> HIDE DEF g
<1>5. k = [j EXCEPT !.files[Len(j.files)] = g]
  OBVIOUS
<1> HIDE DEF k
<1>3. OtherFiles(j, k) /\ CurrentFile(k) = g
  BY <1>5, SetCurrentEffect
<1>6. QED
  BY <1>2, <1>3, <1>4 DEF OtherFiles, CurrentFile, f

LEMMA VirtualBeginFiles ==
  ASSUME NEW j, JobOK(j), j.files # << >>
  PROVE  Synchronized(j, VirtualBegin(j))
<1> DEFINE a == Enter(j)
           b == IF a.virtual = 1 THEN PageBegin(a) ELSE a
           d == SynchronizeSheets(SynchronizePages(b))
<1>1. JobOK(a) /\ a.files = j.files
  BY EnterEffect
<1>2. VirtualBegin(j) = d
  BY VirtualBeginIs
<1> HIDE DEF a
<1>3. JobOK(b) /\ OtherFiles(j, b) /\ SameFile(CurrentFile(j), CurrentFile(b))
  <2>1. JobOK(PageBegin(a)) /\ OtherFiles(a, PageBegin(a))
        /\ SameFile(CurrentFile(a), CurrentFile(PageBegin(a)))
    BY <1>1, PageBeginEffect, PageBeginFiles
  <2>2. OtherFiles(j, a) /\ SameFile(CurrentFile(j), CurrentFile(a))
        /\ CurrentFile(a) = CurrentFile(j)
    BY <1>1 DEF OtherFiles, SameFile, CurrentFile
  <2>3. OtherFiles(j, PageBegin(a))
    BY <1>1, <2>1 DEF OtherFiles
  <2>4. QED BY <1>1, <2>1, <2>2, <2>3
<1> HIDE DEF b
<1>4. b.files # << >>
  BY <1>3 DEF OtherFiles, JobOK, Job
<1>5. Synchronized(b, d)
  BY <1>3, <1>4, SynchronizedEffect
<1> HIDE DEF d
<1>6. OtherFiles(j, d)
  BY <1>3, <1>5 DEF OtherFiles, Synchronized
<1>7. QED
  BY <1>2, <1>3, <1>5, <1>6 DEF Synchronized, SameFile

LEMMA PageEmptyOutputFiles ==
  ASSUME NEW j, JobOK(j), j.files # << >>
  PROVE  LET k == PageEmptyOutput(j)
             f == CurrentFile(j)
             g == CurrentFile(k)
         IN /\ OtherFiles(j, k)
            /\ g.firstSheet = First(f.firstSheet, k.sheets) /\ g.lastSheet = k.sheets
            /\ g.firstPage = f.firstPage /\ g.pages = f.pages
<1> DEFINE a == [j EXCEPT !.sheets = @ + 1]
           b == SynchronizeSheets(a)
           c == PageEmptyOutput(j)
<1>1. JobOK(a) /\ a.files = j.files /\ a.sheets = j.sheets + 1
  BY OneMoreSheet
<1> HIDE DEF a
<1>2. /\ OtherFiles(a, b)
      /\ CurrentFile(b).firstSheet = First(CurrentFile(a).firstSheet, a.sheets)
      /\ CurrentFile(b).lastSheet = a.sheets
      /\ CurrentFile(b).firstPage = CurrentFile(a).firstPage
      /\ CurrentFile(b).pages = CurrentFile(a).pages
      /\ JobOK(b)
  BY <1>1, SynchronizeSheetsEffect, SynchronizeSheetsOK
<1>3. c.files = b.files
  <2> DEFINE shown == b.shown + 1
             faults == b.faults \cup FaultIf(b.page, "page not ended")
  <2>1. c = IF b.toVoid THEN b ELSE [b EXCEPT !.shown = shown, !.faults = faults]
    BY <1>2 DEF PageEmptyOutput, a, JobOK, Job
  <2> HIDE DEF b, c, shown, faults
  <2>2. QED BY <1>2, <2>1 DEF JobOK, Job
<1>4. c.sheets = j.sheets + 1
  BY PageEmptyOutputEffect
<1> HIDE DEF b, c
<1>5. CurrentFile(c) = CurrentFile(b) /\ CurrentFile(a) = CurrentFile(j)
  BY <1>1, <1>3 DEF CurrentFile
<1>6. OtherFiles(j, c)
  BY <1>1, <1>2, <1>3 DEF OtherFiles
<1>7. QED
  BY <1>1, <1>2, <1>4, <1>5, <1>6 DEF c
-----------------------------------------------------------------------------
(* What the actions do to the history.                                     *)

Latest(h) == h[Len(h)]

(* Only the record of the current file may differ.                         *)
OtherRecords(h, g) ==
  /\ h \in Seq(History) /\ h # << >>
  /\ g \in Seq(History) /\ Len(g) = Len(h)
  /\ \A i \in 1 .. Len(h) - 1 : g[i] = h[i]

LEMMA HistoryEffect ==
  ASSUME NEW h \in Seq(History), h # << >>, NEW r \in History,
         NEW g, g = [h EXCEPT ![Len(h)] = r]
  PROVE  OtherRecords(h, g) /\ Latest(g) = r
<1>1. g \in Seq(History) /\ Len(g) = Len(h)
  BY HistoryUpdate
<1>2. Len(h) \in DOMAIN h /\ DOMAIN h = 1 .. Len(h) /\ Len(h) \in Nat
  OBVIOUS
<1>3. g[Len(h)] = r
  BY <1>2
<1>4. \A i \in 1 .. Len(h) - 1 : g[i] = h[i]
  <2>0. \A n \in Nat : \A i \in 1 .. n - 1 : i \in 1 .. n /\ i # n
    OBVIOUS
  <2>1. \A i \in 1 .. Len(h) - 1 : i \in 1 .. Len(h) /\ i # Len(h)
    BY <1>2, <2>0
  <2>2. \A i \in DOMAIN h \ {Len(h)} : g[i] = h[i]
    OBVIOUS
  <2>3. QED BY <1>2, <2>1, <2>2
<1>5. OtherRecords(h, g)
  BY <1>1, <1>4 DEF OtherRecords
<1>6. QED
  BY <1>1, <1>3, <1>5 DEF Latest

LEMMA SameRecords ==
  ASSUME TypeInv, job.files # << >>
  PROVE  OtherRecords(hist, hist)
BY DEF TypeInv, JobOK, Job, OtherRecords

LEMMA SetKindEffect ==
  ASSUME TypeInv, job.files # << >>, NEW k \in Kinds, SetKind(k)
  PROVE  /\ OtherRecords(hist, hist')
         /\ Latest(hist').kind = k
         /\ Latest(hist').virtuals = Latest(hist).virtuals
         /\ Latest(hist').sheet = Latest(hist).sheet
<1> DEFINE r == [Latest(hist) EXCEPT !.kind = k]
<1>1. hist \in Seq(History) /\ hist # << >>
  BY DEF TypeInv, JobOK, Job
<1>2. Latest(hist) \in History
  BY <1>1, CurrentType DEF Latest
<1>3. r \in History /\ r.kind = k /\ r.virtuals = Latest(hist).virtuals
      /\ r.sheet = Latest(hist).sheet
  BY <1>2 DEF History
<1>4. hist' = [hist EXCEPT ![Len(hist)] = r]
  BY DEF SetKind, Current, Latest
<1> HIDE DEF r
<1>5. OtherRecords(hist, hist') /\ Latest(hist') = r
  BY <1>1, <1>3, <1>4, HistoryEffect
<1>6. QED
  BY <1>3, <1>5

LEMMA RecordEffect ==
  ASSUME TypeInv, job.files # << >>, NEW n \in Nat, NEW sheet \in Nat,
         Record(n, sheet)
  PROVE  /\ OtherRecords(hist, hist')
         /\ Latest(hist').kind = Latest(hist).kind
         /\ Latest(hist').virtuals = Latest(hist).virtuals + n
         /\ Latest(hist').sheet = First(Latest(hist).sheet, sheet)
<1> DEFINE c == Latest(hist)
           v == c.virtuals + n
           u == First(c.sheet, sheet)
           r == [c EXCEPT !.virtuals = v, !.sheet = u]
<1>1. hist \in Seq(History) /\ hist # << >>
  BY DEF TypeInv, JobOK, Job
<1>2. c \in History
  BY <1>1, CurrentType DEF Latest
<1>3. hist' = [hist EXCEPT ![Len(hist)] = r]
  BY DEF Record, Current, Latest, First
<1> HIDE DEF c
<1>4. v \in Nat /\ u \in Nat
  BY <1>2 DEF History, First
<1> HIDE DEF v, u
<1>5. r \in History /\ r.kind = c.kind /\ r.virtuals = v /\ r.sheet = u
  BY <1>2, <1>4 DEF History
<1> HIDE DEF r
<1>6. OtherRecords(hist, hist') /\ Latest(hist') = r
  BY <1>1, <1>3, <1>5, HistoryEffect
<1>7. QED
  BY <1>5, <1>6 DEF c, v, u
-----------------------------------------------------------------------------
(* Files do not share sheets, and begin where their alignment says.        *)

(* Files are aligned on physical pages.                                    *)
Blocked == FileAlign \notin {"virtual", "rank"}

InFile == {"opened", "body", "virtual", "delegating", "closing"}

(* A file that is not the first may begin on the sheet n; n sheets were    *)
(* begun, and it may begin on the next one.                                *)
AlignedAt(n) ==
  /\ FileAlign = "sheet" /\ Duplex => n % 2 = 1
  /\ FileAlign = "number" => n % AlignTo = 1 % AlignTo

AlignedNext(n) ==
  /\ FileAlign = "sheet" /\ Duplex => n % 2 = 0
  /\ FileAlign = "number" => n % AlignTo = 0

LEMMA NextAligned ==
  ASSUME NEW n \in Nat, AlignedNext(n)
  PROVE  AlignedAt(n + 1)
<1>1. AlignTo \in Nat \ {0}
  BY PageAssumption
<1>2. FileAlign = "number" => (n + 1) % AlignTo = 1 % AlignTo
  BY <1>1, MultiplePlus DEF AlignedNext
<1>3. n % 2 = 0 => (n + 1) % 2 = 1
  OBVIOUS
<1>4. QED
  BY <1>2, <1>3 DEF AlignedAt, AlignedNext

(* No file has printed on a sheet to come, nor on one where a later file   *)
(* begins; and the files began where they may.                             *)
Sheets(j, h) ==
  /\ \A i \in DOMAIN h : j.files[i].lastSheet <= j.sheets
  /\ \A i \in DOMAIN h : \A k \in DOMAIN h :
       i < k /\ h[k].sheet # 0 => j.files[i].lastSheet < h[k].sheet
  /\ \A k \in DOMAIN h \ {1} : h[k].sheet # 0 => AlignedAt(h[k].sheet)

(* A file that has no sheet yet: the next one begins a page, aligned.      *)
Ready(j, n) == j.virtual = 0 /\ (n > 1 => AlignedNext(j.sheets))

ApartInv ==
  /\ TypeInv
  /\ Blocked =>
       /\ Sheets(job, hist)
       /\ phase \in InFile /\ Latest(hist).sheet = 0 => Ready(job, Len(hist))
       /\ job.files = << >> => job.virtual = 0
       /\ phase \in {"aligning", "tocAligning"} =>
            /\ job.virtual = 0
            /\ job.files # << >> /\ FileAlign = "sheet" => AlignedNext(job.sheets)

(* The sheets advance, and the current file may be told.                   *)
Advance(j, k) ==
  /\ OtherFiles(j, k)
  /\ j.sheets <= k.sheets
  /\ CurrentFile(k).lastSheet \in {CurrentFile(j).lastSheet, k.sheets}

LEMMA KeepSheets ==
  ASSUME NEW j, JobOK(j), j.files # << >>, NEW k, JobOK(k), Advance(j, k),
         NEW h, NEW g, OtherRecords(h, g), Len(h) = Len(j.files),
         Latest(g).sheet = Latest(h).sheet \/ Latest(g).sheet = j.sheets + 1,
         Latest(g).sheet # Latest(h).sheet /\ Len(h) > 1 => AlignedAt(j.sheets + 1),
         Sheets(j, h)
  PROVE  Sheets(k, g)
<1> DEFINE n == Len(h)
<1>1. /\ n \in Nat /\ n # 0 /\ Len(g) = n /\ Len(j.files) = n /\ Len(k.files) = n
      /\ DOMAIN g = 1 .. n /\ DOMAIN h = 1 .. n
      /\ j.sheets \in Nat /\ k.sheets \in Nat /\ j.sheets <= k.sheets
  BY DEF OtherRecords, Advance, OtherFiles, JobOK, Job
<1>2. /\ \A i \in 1 .. n : j.files[i].lastSheet \in Nat /\ k.files[i].lastSheet \in Nat
  <2>1. \A i \in 1 .. n : j.files[i] \in File /\ k.files[i] \in File
    BY <1>1 DEF JobOK, Job
  <2>2. QED BY <2>1 DEF File
<1>3. \A i \in 1 .. n : h[i].sheet \in Nat /\ g[i].sheet \in Nat
  <2>1. \A i \in 1 .. n : h[i] \in History /\ g[i] \in History
    BY <1>1 DEF OtherRecords
  <2>2. QED BY <2>1 DEF History
<1>4. /\ \A i \in 1 .. n - 1 : k.files[i] = j.files[i] /\ g[i] = h[i]
      /\ k.files[n].lastSheet \in {j.files[n].lastSheet, k.sheets}
      /\ g[n].sheet = h[n].sheet \/ g[n].sheet = j.sheets + 1
      /\ g[n].sheet # h[n].sheet /\ n > 1 => AlignedAt(j.sheets + 1)
  BY <1>1 DEF OtherRecords, Advance, OtherFiles, CurrentFile, Latest
<1>5. /\ \A i \in 1 .. n : j.files[i].lastSheet <= j.sheets
      /\ \A i \in 1 .. n : \A m \in 1 .. n :
           i < m /\ h[m].sheet # 0 => j.files[i].lastSheet < h[m].sheet
      /\ \A m \in 1 .. n : m # 1 /\ h[m].sheet # 0 => AlignedAt(h[m].sheet)
  BY <1>1 DEF Sheets
<1> HIDE DEF n
<1>6. \A i \in 1 .. n : i = n \/ i \in 1 .. n - 1
  BY <1>1
<1>7. ASSUME NEW i \in 1 .. n PROVE k.files[i].lastSheet <= k.sheets
  BY <1>1, <1>2, <1>4, <1>5, <1>6, <1>7
<1>8. ASSUME NEW i \in 1 .. n, NEW m \in 1 .. n, i < m, g[m].sheet # 0
      PROVE  k.files[i].lastSheet < g[m].sheet
  <2>1. i \in 1 .. n - 1 /\ k.files[i].lastSheet = j.files[i].lastSheet
    BY <1>1, <1>4, <1>8
  <2>2. CASE g[m].sheet = h[m].sheet
    BY <1>5, <1>8, <2>1, <2>2
  <2>3. CASE g[m].sheet # h[m].sheet
    <3>1. g[m].sheet = j.sheets + 1
      BY <1>4, <1>6, <2>3
    <3>2. j.files[i].lastSheet <= j.sheets /\ j.files[i].lastSheet \in Nat
      BY <1>2, <1>5
    <3>3. QED BY <1>1, <2>1, <3>1, <3>2
  <2>4. QED BY <2>2, <2>3
<1>9. ASSUME NEW m \in 1 .. n, m # 1, g[m].sheet # 0 PROVE AlignedAt(g[m].sheet)
  <2>1. CASE g[m].sheet = h[m].sheet
    BY <1>5, <1>9, <2>1
  <2>2. CASE g[m].sheet # h[m].sheet
    <3>1. m = n /\ n > 1
      BY <1>1, <1>4, <1>6, <1>9, <2>2
    <3>2. QED BY <1>4, <2>2, <3>1
  <2>3. QED BY <2>1, <2>2
<1>10. QED
  BY <1>1, <1>7, <1>8, <1>9 DEF Sheets

(* Each function of the page engine, as far as the sheets are concerned.   *)
LEMMA SameFilesAdvance ==
  ASSUME NEW j, JobOK(j), NEW k, k.files = j.files, k.sheets = j.sheets
  PROVE  Advance(j, k)
BY DEF Advance, OtherFiles, CurrentFile, JobOK, Job

LEMMA SynchronizedAdvance ==
  ASSUME NEW j, NEW a, NEW k, JobOK(j), a.files = j.files, j.sheets <= a.sheets,
         Synchronized(a, k), k.sheets = a.sheets
  PROVE  Advance(j, k)
BY DEF Advance, Synchronized, OtherFiles

LEMMA PageEmptyOutputAdvance ==
  ASSUME NEW j, JobOK(j), j.files # << >>
  PROVE  Advance(j, PageEmptyOutput(j))
<1>1. j.sheets \in Nat /\ PageEmptyOutput(j).sheets = j.sheets + 1
  BY PageEmptyOutputEffect DEF JobOK, Job
<1>2. QED
  BY <1>1, PageEmptyOutputFiles DEF Advance

LEMMA SheetFlushAdvance ==
  ASSUME NEW j, JobOK(j), j.files # << >>
  PROVE  /\ Advance(j, SheetFlush(j))
         /\ Duplex => SheetFlush(j).sheets % 2 = 0
<1> DEFINE k == PageFlush(j)
<1>1. JobOK(k) /\ k.files = j.files /\ k.sheets = j.sheets
  BY PageFlushCounts
<1>2. SheetFlush(j) = IF Duplex /\ k.sheets % 2 # 0 THEN PageEmptyOutput(k) ELSE k
  BY DEF SheetFlush
<1> HIDE DEF k
<1>3. Advance(j, k)
  BY <1>1, SameFilesAdvance
<1>4. Advance(j, PageEmptyOutput(k))
  BY <1>1, PageEmptyOutputAdvance DEF Advance, OtherFiles, CurrentFile
<1>5. j.sheets \in Nat /\ (j.sheets % 2 # 0 => (j.sheets + 1) % 2 = 0)
  BY DEF JobOK, Job
<1>6. Duplex => SheetFlush(j).sheets % 2 = 0
  BY <1>5, SheetFlushCounts
<1>7. QED
  BY <1>2, <1>3, <1>4, <1>6

LEMMA VirtualBeginAdvance ==
  ASSUME NEW j, JobOK(j), j.files # << >>
  PROVE  Advance(j, VirtualBegin(j))
<1>1. j.sheets \in Nat /\ j.sheets <= VirtualBegin(j).sheets
  BY VirtualBeginCounts DEF JobOK, Job
<1>2. QED
  BY <1>1, VirtualBeginFiles DEF Advance, Synchronized

LEMMA InitApart == Init => ApartInv
<1> SUFFICES ASSUME Init PROVE ApartInv
  OBVIOUS
<1>1. TypeInv
  BY InitType
<1>2. job.virtual = 0 /\ phase = "idle" /\ DOMAIN hist = {}
  BY DEF Init
<1>3. Sheets(job, hist)
  BY <1>2 DEF Sheets
<1>4. QED
  BY <1>1, <1>2, <1>3 DEF ApartInv, InFile

LEMMA StepApart == ApartInv /\ [Next]_vars => ApartInv'
<1> SUFFICES ASSUME ApartInv, [Next]_vars, Blocked PROVE ApartInv'
  BY StepType DEF ApartInv, Blocked
<1>t. TypeInv /\ TypeInv' /\ JobOK(job) /\ JobOK(job') /\ SomeFile
  BY StepType DEF ApartInv, TypeInv
<1>h. /\ Len(hist) = Len(job.files) /\ Len(hist') = Len(job'.files)
      /\ job.sheets \in Nat /\ job.virtual \in Nat
      /\ job.files # << >> => hist # << >>
  BY <1>t DEF TypeInv, JobOK, Job
<1>a. /\ Sheets(job, hist)
      /\ phase \in InFile /\ Latest(hist).sheet = 0 => Ready(job, Len(hist))
      /\ job.files = << >> => job.virtual = 0
      /\ phase \in {"aligning", "tocAligning"} =>
            /\ job.virtual = 0
            /\ job.files # << >> /\ FileAlign = "sheet" => AlignedNext(job.sheets)
  BY DEF ApartInv
(* What is left to show, according to the phase that the step leads to.    *)
<1>f. ASSUME Sheets(job', hist'), phase' \in InFile,
             Latest(hist').sheet = 0 => Ready(job', Len(hist'))
      PROVE  ApartInv'
  <2>1. phase' \notin {"aligning", "tocAligning"} /\ job'.files # << >>
    BY <1>t, <1>f DEF InFile, TypeInv, SomeFile
  <2>2. QED BY <1>t, <1>f, <2>1 DEF ApartInv
<1>o. ASSUME Sheets(job', hist'), phase' \in {"idle", "done", "abandoned"},
             job'.files # << >>
      PROVE  ApartInv'
  <2>1. phase' \notin {"aligning", "tocAligning"} /\ phase' \notin InFile
    BY <1>o DEF InFile
  <2>2. QED BY <1>t, <1>o, <2>1 DEF ApartInv
<1>l. ASSUME Sheets(job', hist'), phase' \in {"aligning", "tocAligning"},
             job'.virtual = 0,
             job'.files # << >> /\ FileAlign = "sheet" => AlignedNext(job'.sheets)
      PROVE  ApartInv'
  <2>1. phase' \notin InFile
    BY <1>l DEF InFile
  <2>2. QED BY <1>t, <1>l, <2>1 DEF ApartInv
(* A step that advances without giving the current file its first sheet.   *)
<1>k. ASSUME job.files # << >>, Advance(job, job'), OtherRecords(hist, hist'),
             Latest(hist').sheet = Latest(hist).sheet
      PROVE  Sheets(job', hist')
  BY <1>t, <1>h, <1>a, <1>k, KeepSheets
<1>1. ASSUME NEW isToc \in BOOLEAN, StartFile(isToc) PROVE ApartInv'
  <2>1. phase' \in {"aligning", "tocAligning"} /\ hist' = hist
    BY <1>1 DEF StartFile
  <2>2. CASE job.files = << >>
    <3>1. job' = job
      BY <1>1, <2>2 DEF StartFile
    <3>2. QED BY <1>a, <1>l, <2>1, <2>2, <3>1
  <2>3. CASE job.files # << >>
    <3>1. job' = IF FileAlign = "sheet" THEN SheetFlush(job) ELSE PageFlush(job)
      BY <1>1, <2>3 DEF StartFile, Blocked
    <3>2. Advance(job, job') /\ job'.virtual = 0
      BY <1>t, <2>3, <3>1, PageFlushCounts, SheetFlushCounts, SameFilesAdvance,
         SheetFlushAdvance
    <3>3. FileAlign = "sheet" => AlignedNext(job'.sheets)
      BY <1>t, <2>3, <3>1, SheetFlushAdvance DEF AlignedNext
    <3>4. Sheets(job', hist')
      BY <1>t, <1>k, <2>1, <2>3, <3>2, SameRecords
    <3>5. QED BY <1>l, <2>1, <3>2, <3>3, <3>4
  <2>4. QED BY <2>2, <2>3
<1>2. CASE AlignStep
  <2>1. /\ phase \in {"aligning", "tocAligning"} /\ phase' = phase /\ hist' = hist
        /\ job.files # << >> /\ FileAlign = "number" /\ job' = PageEmptyOutput(job)
    BY <1>2 DEF AlignStep, Misaligned, Blocked
  <2>2. Sheets(job', hist')
    BY <1>t, <1>k, <2>1, PageEmptyOutputAdvance, SameRecords
  <2>3. job'.virtual = 0
    BY <1>t, <1>a, <2>1, PageEmptyOutputEffect
  <2>4. FileAlign # "sheet"
    BY <2>1
  <2>5. QED BY <1>l, <2>1, <2>2, <2>3, <2>4
<1>3. CASE LinkFile
  <2> DEFINE f == NewFile(phase = "tocAligning")
             r == [kind |-> "unread", virtuals |-> 0, sheet |-> 0]
             n == Len(hist)
  <2>1. /\ job' = [job EXCEPT !.files = Append(@, f)] /\ hist' = Append(hist, r)
        /\ phase' = "opened" /\ phase \in {"aligning", "tocAligning"} /\ ~Misaligned
    BY <1>3 DEF LinkFile
  <2>2. job'.files = Append(job.files, f) /\ job'.sheets = job.sheets
        /\ job'.virtual = job.virtual
    BY <1>t, <2>1 DEF JobOK, Job
  <2>3. f.lastSheet = 0 /\ f \in File
    BY DEF NewFile, File
  <2> HIDE DEF f
  <2>4. hist \in Seq(History) /\ r \in History /\ r.sheet = 0 /\ job.files \in Seq(File)
        /\ n \in Nat
    BY <1>t DEF TypeInv, History, Kinds, JobOK, Job
  <2> HIDE DEF r
  <2>5. /\ Len(hist') = n + 1 /\ hist'[n + 1] = r
        /\ DOMAIN hist' = 1 .. n + 1 /\ DOMAIN hist = 1 .. n
        /\ \A i \in 1 .. n : hist'[i] = hist[i]
    BY <2>1, <2>4
  <2>6. /\ job'.files[n + 1] = f
        /\ \A i \in 1 .. n : job'.files[i] = job.files[i]
    BY <1>h, <2>2, <2>3, <2>4
  <2>7. \A i \in 1 .. n + 1 : i \in 1 .. n \/ i = n + 1
    BY <2>4
  <2>8. Sheets(job', hist')
    <3>1. \A i \in DOMAIN hist' : job'.files[i].lastSheet <= job'.sheets
      BY <1>a, <1>h, <2>2, <2>3, <2>5, <2>6, <2>7 DEF Sheets
    <3>2. ASSUME NEW i \in DOMAIN hist', NEW k \in DOMAIN hist',
                 i < k, hist'[k].sheet # 0
          PROVE  job'.files[i].lastSheet < hist'[k].sheet
      <4>1. k \in 1 .. n /\ i \in 1 .. n
        BY <2>4, <2>5, <2>7, <3>2
      <4>2. QED BY <1>a, <2>5, <2>6, <3>2, <4>1 DEF Sheets
    <3>3. \A k \in DOMAIN hist' \ {1} : hist'[k].sheet # 0 => AlignedAt(hist'[k].sheet)
      BY <1>a, <2>4, <2>5, <2>7 DEF Sheets
    <3>4. QED BY <3>1, <3>2, <3>3 DEF Sheets
  <2>9. Ready(job', Len(hist'))
    <3>1. job'.virtual = 0
      BY <1>a, <2>1, <2>2
    <3>2. ASSUME Len(hist') > 1 PROVE AlignedNext(job'.sheets)
      <4>1. job.files # << >>
        BY <1>h, <2>4, <2>5, <3>2
      <4>2. FileAlign = "number" => job.sheets % AlignTo = 0
        BY <2>1, <4>1 DEF Misaligned
      <4>3. FileAlign = "sheet" => AlignedNext(job.sheets)
        BY <1>a, <2>1, <4>1
      <4>4. QED BY <2>2, <4>2, <4>3 DEF AlignedNext
    <3>3. QED BY <3>1, <3>2 DEF Ready
  <2>10. QED BY <1>f, <2>1, <2>8, <2>9 DEF InFile
(* A step that leaves the sheets, and the page if one is begun.            *)
<1>q. ASSUME phase \in InFile, phase' \in InFile, job.files # << >>,
             Advance(job, job'), OtherRecords(hist, hist'),
             Latest(hist').sheet = Latest(hist).sheet,
             job'.sheets = job.sheets, job'.virtual = 0 \/ job'.virtual = job.virtual
      PROVE  ApartInv'
  <2>1. Sheets(job', hist')
    BY <1>k, <1>q
  <2>2. Latest(hist').sheet = 0 => Ready(job', Len(hist'))
    BY <1>a, <1>q DEF Ready, OtherRecords
  <2>3. QED BY <1>f, <1>q, <2>1, <2>2
<1>r. ASSUME NEW k \in Kinds, SetKind(k), job.files # << >>
      PROVE  OtherRecords(hist, hist') /\ Latest(hist').sheet = Latest(hist).sheet
  BY <1>t, <1>r, SetKindEffect
<1>s. phase \in InFile => job.files # << >>
  BY <1>t DEF SomeFile, InFile
<1>u. job' = job => Advance(job, job') /\ job'.sheets = job.sheets
  BY <1>t, SameFilesAdvance
<1>4. CASE PrintNative
  BY <1>4, <1>q, <1>r, <1>s, <1>u DEF PrintNative, InFile, Kinds
<1>5. CASE IgnoreFile
  BY <1>5, <1>q, <1>r, <1>s, <1>u DEF IgnoreFile, InFile, Kinds
<1>6. CASE Delegate
  <2> DEFINE a == PageFlush(job)
  <2>1. job.files # << >> /\ phase \in InFile /\ phase' \in InFile /\ SetKind("delegated")
    BY <1>6, <1>s DEF Delegate, InFile
  <2>2. JobOK(a) /\ a.files = job.files /\ a.sheets = job.sheets /\ a.virtual = 0
    BY <1>t, PageFlushCounts
  <2>3. job' = SynchronizePages(SynchronizeSheets(a))
    BY <1>6 DEF Delegate
  <2> HIDE DEF a
  <2>4. Synchronized(a, job') /\ job'.sheets = job.sheets /\ job'.virtual = 0
    BY <2>1, <2>2, <2>3, SynchronizedEffect, SynchronizedState DEF SameButCounters
  <2>5. Advance(job, job')
    BY <1>t, <1>h, <2>2, <2>4, SynchronizedAdvance
  <2>6. OtherRecords(hist, hist') /\ Latest(hist').sheet = Latest(hist).sheet
    BY <1>r, <2>1 DEF Kinds
  <2>7. QED BY <1>q, <2>1, <2>4, <2>5, <2>6
<1>7. CASE CannotDelegate
  <2>1. job.files # << >> /\ phase \in InFile /\ phase' \in InFile /\ SetKind("failed")
        /\ job' = PageFlush(job)
    BY <1>7, <1>s DEF CannotDelegate, InFile
  <2>2. job'.files = job.files /\ job'.sheets = job.sheets /\ job'.virtual = 0
    BY <1>t, <2>1, PageFlushCounts
  <2>3. OtherRecords(hist, hist') /\ Latest(hist').sheet = Latest(hist).sheet
    BY <1>r, <2>1 DEF Kinds
  <2>4. Advance(job, job')
    BY <1>t, <2>2, SameFilesAdvance
  <2>5. QED BY <1>q, <2>1, <2>2, <2>3, <2>4
<1>8. CASE DelegatedPage
  <2> DEFINE a == Delegated(job)
  <2>1. job.files # << >> /\ phase \in InFile /\ phase' = phase
    BY <1>8, <1>s DEF DelegatedPage, InFile
  <2>2. JobOK(a) /\ a.files = job.files /\ a.sheets = job.sheets + 1
    BY <1>t, DelegatedCounts
  <2>3. job' = SynchronizePages(SynchronizeSheets(a))
    BY <1>8 DEF DelegatedPage, Delegated
  <2> HIDE DEF a
  <2>4. Synchronized(a, job') /\ job'.sheets = job.sheets + 1
    BY <2>1, <2>2, <2>3, SynchronizedEffect, SynchronizedState DEF SameButCounters
  <2>5. Advance(job, job')
    <3>1. job.sheets <= a.sheets /\ job'.sheets = a.sheets
      BY <1>h, <2>2, <2>4
    <3>2. QED BY <1>t, <2>2, <2>4, <3>1, SynchronizedAdvance
  <2>6. /\ OtherRecords(hist, hist')
        /\ Latest(hist').sheet = First(Latest(hist).sheet, job.sheets + 1)
    <3>1. Record(Slots, job.sheets + 1)
      BY <1>8, <2>4 DEF DelegatedPage
    <3>2. QED BY <1>t, <1>h, <2>1, <3>1, RecordEffect, SlotsType
  <2>7. Latest(hist').sheet # 0
    BY <1>h, <2>6 DEF First
  <2>8. Latest(hist).sheet = 0 /\ Len(hist) > 1 => AlignedAt(job.sheets + 1)
    BY <1>a, <1>h, <2>1, NextAligned DEF Ready
  <2>9. Sheets(job', hist')
    BY <1>t, <1>h, <1>a, <2>1, <2>5, <2>6, <2>8, KeepSheets DEF First
  <2>10. QED BY <1>f, <2>1, <2>7, <2>9
<1>9. CASE EndDelegation
  <2> DEFINE faults == job.faults \cup FaultIf(job.page, "include in a page")
  <2>1. job' = [job EXCEPT !.faults = faults]
    BY <1>9, <1>t DEF EndDelegation, JobOK, Job
  <2> HIDE DEF faults
  <2>2. job'.files = job.files /\ job'.sheets = job.sheets /\ job'.virtual = job.virtual
    BY <1>t, <2>1 DEF JobOK, Job
  <2>3. Advance(job, job')
    BY <1>t, <2>2, SameFilesAdvance
  <2>4. phase \in InFile /\ phase' \in InFile /\ hist' = hist
    BY <1>9 DEF EndDelegation, InFile
  <2>5. QED BY <1>t, <1>q, <1>s, <2>2, <2>3, <2>4, SameRecords
<1>10. CASE FailDelegation
  BY <1>10, <1>q, <1>r, <1>s, <1>u DEF FailDelegation, InFile, Kinds
<1>11. CASE BeginVirtual
  <2> DEFINE sheet == IF job'.toVoid THEN 0 ELSE job'.sheets
  <2>1. job.files # << >> /\ phase \in InFile /\ phase' \in InFile
        /\ job' = VirtualBegin(job) /\ Record(1, sheet)
    BY <1>11, <1>s DEF BeginVirtual, InFile
  <2>2. /\ Advance(job, job')
        /\ job'.virtual = IF job'.toVoid THEN job.virtual ELSE job.virtual + 1
        /\ job'.sheets = IF ~job'.toVoid /\ job.virtual = 0 THEN job.sheets + 1
                                                            ELSE job.sheets
    BY <1>t, <2>1, VirtualBeginAdvance, VirtualBeginCounts
  <2>3. sheet \in Nat
    BY <1>h, <2>2
  <2>4. /\ OtherRecords(hist, hist')
        /\ Latest(hist').sheet = First(Latest(hist).sheet, sheet)
    <3> HIDE DEF sheet
    <3>1. QED BY <1>t, <2>1, <2>3, RecordEffect
  <2>5. CASE Latest(hist).sheet # 0 \/ job'.toVoid
    <3>1. Latest(hist').sheet = Latest(hist).sheet
      BY <2>4, <2>5 DEF First
    <3>2. Sheets(job', hist')
      BY <1>k, <2>1, <2>2, <2>4, <3>1
    <3>3. Latest(hist').sheet = 0 => Ready(job', Len(hist'))
      BY <1>a, <2>1, <2>2, <2>4, <2>5, <3>1 DEF Ready, OtherRecords
    <3>4. QED BY <1>f, <2>1, <3>2, <3>3
  <2>6. CASE Latest(hist).sheet = 0 /\ ~job'.toVoid
    <3>1. Ready(job, Len(hist))
      BY <1>a, <2>1, <2>6
    <3>2. Latest(hist').sheet = job.sheets + 1
      BY <2>2, <2>4, <2>6, <3>1 DEF First, Ready
    <3>3. Len(hist) > 1 => AlignedAt(job.sheets + 1)
      BY <1>h, <3>1, NextAligned DEF Ready
    <3>4. Sheets(job', hist')
      BY <1>t, <1>h, <1>a, <2>1, <2>2, <2>4, <3>2, <3>3, KeepSheets
    <3>5. Latest(hist').sheet # 0
      BY <1>h, <3>2
    <3>6. QED BY <1>f, <2>1, <3>4, <3>5
  <2>7. QED BY <2>5, <2>6
<1>12. CASE EndVirtual
  <2>1. job.files # << >> /\ phase \in InFile /\ phase' \in InFile
        /\ job' = VirtualEnd(job) /\ hist' = hist
    BY <1>12, <1>s DEF EndVirtual, InFile
  <2>2. job'.files = job.files /\ job'.sheets = job.sheets
        /\ (job'.virtual = 0 \/ job'.virtual = job.virtual)
    BY <1>t, <2>1, VirtualEndCounts
  <2>3. Advance(job, job')
    BY <1>t, <2>2, SameFilesAdvance
  <2>4. QED BY <1>t, <1>q, <2>1, <2>2, <2>3, SameRecords
<1>13. ASSUME NEW x \in Encodings, SwitchEncoding(x) PROVE ApartInv'
  <2>1. UNCHANGED <<job, phase, hist>>
    BY <1>13 DEF SwitchEncoding
  <2>2. QED BY <1>t, <1>a, <2>1 DEF ApartInv
<1>14. CASE CloseFile
  <2> DEFINE a == IF phase = "virtual" THEN VirtualEnd(job) ELSE job
  <2>1. job.files # << >> /\ phase' = "idle" /\ hist' = hist
    BY <1>14, <1>s DEF CloseFile, InFile
  <2>2. JobOK(a) /\ a.files = job.files /\ a.sheets = job.sheets
    BY <1>t, VirtualEndCounts
  <2>3. job' = SynchronizeSheets(SynchronizePages(a))
    BY <1>14 DEF CloseFile
  <2> HIDE DEF a
  <2>4. Synchronized(a, job') /\ job'.sheets = job.sheets
    BY <2>1, <2>2, <2>3, SynchronizedEffect, SynchronizedState DEF SameButCounters
  <2>5. Advance(job, job')
    BY <1>t, <1>h, <2>2, <2>4, SynchronizedAdvance
  <2>6. Sheets(job', hist') /\ job'.files # << >>
    BY <1>t, <1>k, <2>1, <2>5, SameRecords DEF Advance, OtherFiles, JobOK, Job
  <2>7. QED BY <1>o, <2>1, <2>6
<1>15. CASE CloseSession
  <2>1. job' = PageFlush(job) /\ hist' = hist /\ phase' = "done"
    BY <1>15 DEF CloseSession
  <2>2. job.files # << >>
    BY <1>15, <1>t DEF CloseSession, NothingPrinted, OfKind, TypeInv
  <2>3. job'.files = job.files /\ job'.sheets = job.sheets
    BY <1>t, <2>1, PageFlushCounts
  <2>4. Sheets(job', hist')
    BY <1>t, <1>k, <2>1, <2>2, <2>3, SameFilesAdvance, SameRecords
  <2>5. QED BY <1>o, <2>1, <2>2, <2>3, <2>4
<1>16. CASE AbandonSession
  BY <1>16, <1>a, <1>o DEF AbandonSession
<1>17. CASE UNCHANGED vars
  BY <1>17, <1>t, <1>a DEF vars, ApartInv
<1>18. QED
  BY <1>1, <1>2, <1>3, <1>4, <1>5, <1>6, <1>7, <1>8, <1>9, <1>10, <1>11, <1>12,
     <1>13, <1>14, <1>15, <1>16, <1>17
  DEF Next, Finished

LEMMA ApartAlways == Spec => []ApartInv
<1>1. ApartInv /\ [Next]_vars => ApartInv'
  BY StepApart
<1>2. QED
  BY InitApart, <1>1, PTL DEF Spec

(* A file that is not the first begins on a front side, or on a page whose *)
(* number is a multiple plus one, when its alignment says so: whatever the *)
(* pages selected, and the files delegated, failed or ignored before it.   *)
THEOREM FilesStartAligned == Spec => []AlignedStart
<1>1. ApartInv => AlignedStart
  BY DEF ApartInv, Sheets, AlignedAt, AlignedStart, Blocked
<1>2. QED
  BY ApartAlways, <1>1, PTL

(* And, unless files are aligned on virtual pages or ranks, no file is     *)
(* printed on a physical page that an earlier file occupies.               *)
THEOREM FilesStartApart == Spec => []FilesApart
<1>1. ApartInv => FilesShareNoSheet /\ AlignedStart
  BY DEF ApartInv, Sheets, FilesShareNoSheet, AlignedAt, AlignedStart, Blocked
<1>2. ApartInv => FilesApart
  BY <1>1 DEF FilesApart
<1>3. QED
  BY ApartAlways, <1>2, PTL
-----------------------------------------------------------------------------
(* The counters of the files count the virtual pages that were begun.      *)

(* The counters f of a file whose history is r.                            *)
Counted(f, r) ==
  r.kind = "native" /\ r.virtuals > 0 =>
    /\ f.firstPage # 0
    /\ VirtualForce \/ f.pages = r.virtuals
    /\ EveryPage => f.firstSheet # 0 /\ f.firstSheet = r.sheet

Counters(j, h) == \A i \in DOMAIN h : Counted(j.files[i], h[i])

(* While the file is printed, its last virtual page is that of the job.    *)
Counting(j, c) ==
  /\ IF c.virtuals = 0
     THEN CurrentFile(j).firstPage = 0
     ELSE /\ CurrentFile(j).firstPage # 0
          /\ j.pages + 1 = CurrentFile(j).firstPage + c.virtuals
  /\ EveryPage => CurrentFile(j).firstSheet = c.sheet

CountInv ==
  /\ TypeInv
  /\ EveryPage => PageInv
  /\ Counters(job, hist)
  /\ phase \in {"opened", "body", "virtual"} => Counting(job, Latest(hist))
  /\ phase = "opened" => Latest(hist).virtuals = 0
  /\ phase \in {"body", "virtual"} => Latest(hist).kind = "native"
  /\ phase \in {"delegating", "closing"} => Latest(hist).kind # "native"

LEMMA KeepCounters ==
  ASSUME NEW j, NEW k, OtherFiles(j, k), NEW h, NEW g, OtherRecords(h, g),
         Len(h) = Len(j.files), Counters(j, h),
         Counted(CurrentFile(k), Latest(g))
  PROVE  Counters(k, g)
<1> DEFINE n == Len(h)
<1>1. /\ n \in Nat /\ Len(g) = n /\ Len(k.files) = n
      /\ DOMAIN g = 1 .. n /\ DOMAIN h = 1 .. n
  BY DEF OtherRecords, OtherFiles
<1>2. /\ \A i \in 1 .. n - 1 : k.files[i] = j.files[i] /\ g[i] = h[i]
      /\ Counted(k.files[n], g[n])
  BY <1>1 DEF OtherRecords, OtherFiles, CurrentFile, Latest
<1> HIDE DEF n
<1>3. \A i \in 1 .. n : i = n \/ i \in 1 .. n - 1
  BY <1>1
<1>4. QED
  BY <1>1, <1>2, <1>3 DEF Counters

LEMMA CurrentCounted ==
  ASSUME TypeInv, job.files # << >>, Counters(job, hist)
  PROVE  Counted(CurrentFile(job), Latest(hist))
<1>1. Len(hist) \in DOMAIN hist /\ Len(hist) = Len(job.files)
  BY DEF TypeInv, JobOK, Job
<1>2. QED
  BY <1>1 DEF Counters, CurrentFile, Latest

(* Empty sheets leave the counters of a file that has printed.             *)
LEMMA SheetFlushFiles ==
  ASSUME NEW j, JobOK(j), j.files # << >>
  PROVE  LET k == SheetFlush(j)
         IN /\ OtherFiles(j, k)
            /\ \A r : Counted(CurrentFile(j), r) => Counted(CurrentFile(k), r)
<1> DEFINE k == PageFlush(j)
           m == PageEmptyOutput(k)
<1>1. JobOK(k) /\ k.files = j.files
  BY PageFlushCounts
<1>2. SheetFlush(j) = IF Duplex /\ k.sheets % 2 # 0 THEN m ELSE k
  BY DEF SheetFlush
<1> HIDE DEF k
<1>3. /\ OtherFiles(k, m)
      /\ CurrentFile(m).firstSheet = First(CurrentFile(k).firstSheet, m.sheets)
      /\ CurrentFile(m).firstPage = CurrentFile(k).firstPage
      /\ CurrentFile(m).pages = CurrentFile(k).pages
  BY <1>1, PageEmptyOutputFiles
<1> HIDE DEF m
<1>4. OtherFiles(j, k) /\ OtherFiles(j, m) /\ CurrentFile(k) = CurrentFile(j)
  BY <1>1, <1>3 DEF OtherFiles, CurrentFile
<1>5. QED
  BY <1>2, <1>3, <1>4 DEF Counted, First

LEMMA PageEmptyOutputCounted ==
  ASSUME NEW j, JobOK(j), j.files # << >>, NEW r, Counted(CurrentFile(j), r)
  PROVE  /\ OtherFiles(j, PageEmptyOutput(j))
         /\ Counted(CurrentFile(PageEmptyOutput(j)), r)
BY PageEmptyOutputFiles DEF Counted, First

LEMMA SameFilesKept ==
  ASSUME NEW j, JobOK(j), NEW k, k.files = j.files
  PROVE  OtherFiles(j, k) /\ CurrentFile(k) = CurrentFile(j)
BY DEF OtherFiles, CurrentFile

LEMMA InitCounts == Init => CountInv
<1> SUFFICES ASSUME Init PROVE CountInv
  OBVIOUS
<1>1. PageInv /\ TypeInv
  BY InitPages, InitType
<1>2. phase = "idle" /\ DOMAIN hist = {}
  BY DEF Init
<1>3. QED
  BY <1>1, <1>2 DEF CountInv, Counters

LEMMA StepCounts == CountInv /\ [Next]_vars => CountInv'
<1> SUFFICES ASSUME CountInv, [Next]_vars PROVE CountInv'
  OBVIOUS
<1>t. TypeInv /\ TypeInv' /\ JobOK(job) /\ JobOK(job') /\ SomeFile
      /\ (EveryPage => PageInv) /\ (EveryPage => PageInv)'
  BY StepType, StepPages DEF CountInv, TypeInv, RealVirtualPages, EveryPage
<1>h. /\ Len(hist) = Len(job.files) /\ hist \in Seq(History)
      /\ job.sheets \in Nat /\ job.virtual \in Nat /\ job.pages \in Nat
      /\ job.files # << >> => hist # << >>
  BY <1>t DEF TypeInv, JobOK, Job
<1>a. /\ Counters(job, hist)
      /\ phase \in {"opened", "body", "virtual"} => Counting(job, Latest(hist))
      /\ phase = "opened" => Latest(hist).virtuals = 0
      /\ phase \in {"body", "virtual"} => Latest(hist).kind = "native"
      /\ phase \in {"delegating", "closing"} => Latest(hist).kind # "native"
  BY DEF CountInv
<1>c. job.files # << >> => Counted(CurrentFile(job), Latest(hist))
  BY <1>t, <1>a, CurrentCounted
<1>n. job.files # << >> => Latest(hist) \in History
  BY <1>h, CurrentType DEF Latest
(* What is left to show, according to the phase that the step leads to.    *)
<1>o. ASSUME Counters(job', hist'),
             phase' \in {"idle", "aligning", "tocAligning", "done", "abandoned"}
      PROVE  CountInv'
  BY <1>t, <1>o DEF CountInv
<1>d. ASSUME Counters(job', hist'), phase' \in {"delegating", "closing"},
             Latest(hist').kind # "native"
      PROVE  CountInv'
  BY <1>t, <1>d DEF CountInv
<1>v. ASSUME Counters(job', hist'), phase' \in {"body", "virtual"},
             Latest(hist').kind = "native", Counting(job', Latest(hist'))
      PROVE  CountInv'
  BY <1>t, <1>v DEF CountInv
<1>k. ASSUME OtherFiles(job, job'), OtherRecords(hist, hist'),
             Counted(CurrentFile(job'), Latest(hist'))
      PROVE  Counters(job', hist')
  BY <1>h, <1>a, <1>k, KeepCounters
<1>s. phase \in {"opened", "body", "virtual", "delegating", "closing"} => job.files # << >>
  BY <1>t DEF SomeFile
<1>1. ASSUME NEW isToc \in BOOLEAN, StartFile(isToc) PROVE CountInv'
  <2>1. phase' \in {"aligning", "tocAligning"} /\ hist' = hist
    BY <1>1 DEF StartFile
  <2>2. CASE job.files = << >> \/ FileAlign \in {"virtual", "rank"}
    BY <1>1, <1>a, <1>o, <2>1, <2>2 DEF StartFile
  <2>3. CASE ~(job.files = << >> \/ FileAlign \in {"virtual", "rank"})
    <3>1. job' = SheetFlush(job) \/ job' = PageFlush(job)
      BY <1>1, <2>3 DEF StartFile
    <3>2. OtherFiles(job, job') /\ Counted(CurrentFile(job'), Latest(hist))
      <4>1. CASE job' = SheetFlush(job)
        BY <1>t, <1>c, <2>3, <4>1, SheetFlushFiles
      <4>2. CASE job' = PageFlush(job)
        BY <1>t, <1>c, <2>3, <4>2, PageFlushCounts, SameFilesKept
      <4>3. QED BY <3>1, <4>1, <4>2
    <3>3. Counters(job', hist')
      BY <1>t, <1>k, <2>1, <2>3, <3>2, SameRecords
    <3>4. QED BY <1>o, <2>1, <3>3
  <2>4. QED BY <2>2, <2>3
<1>2. CASE AlignStep
  <2>1. job.files # << >> /\ phase' = phase /\ hist' = hist
        /\ phase \in {"aligning", "tocAligning"}
    BY <1>2 DEF AlignStep, Misaligned
  <2>2. OtherFiles(job, job') /\ Counted(CurrentFile(job'), Latest(hist))
    <3>1. CASE FileAlign = "rank" /\ VirtualForce
      <4> DEFINE k == VirtualBegin(job)
      <4>1. job' = VirtualEnd(k)
        BY <1>2, <3>1 DEF AlignStep, VirtualEmptyOutput
      <4>2. JobOK(k) /\ Synchronized(job, k)
        BY <1>t, <2>1, VirtualBeginCounts, VirtualBeginFiles
      <4> HIDE DEF k
      <4>3. job'.files = k.files
        BY <4>1, <4>2, VirtualEndCounts
      <4>4. OtherFiles(job, job') /\ CurrentFile(job') = CurrentFile(k)
        BY <4>2, <4>3 DEF Synchronized, OtherFiles, CurrentFile
      <4>5. Counted(CurrentFile(k), Latest(hist))
        BY <1>c, <2>1, <3>1, <4>2 DEF Counted, Synchronized, First
      <4>6. QED BY <4>4, <4>5
    <3>2. CASE FileAlign = "rank" /\ ~VirtualForce
      <4> DEFINE k == [job EXCEPT !.pages = @ + 1, !.virtual = @ + 1]
      <4>1. job' = VirtualEnd(k)
        BY <1>2, <3>2 DEF AlignStep, VirtualEmptyOutput
      <4>2. JobOK(k) /\ k.files = job.files
        BY <1>t, PhantomOK
      <4> HIDE DEF k
      <4>3. job'.files = job.files
        BY <4>1, <4>2, VirtualEndCounts
      <4>4. QED BY <1>t, <1>c, <2>1, <4>3, SameFilesKept
    <3>3. CASE FileAlign # "rank"
      <4>1. job' = PageEmptyOutput(job)
        BY <1>2, <3>3 DEF AlignStep
      <4>2. QED BY <1>t, <1>c, <2>1, <4>1, PageEmptyOutputCounted
    <3>4. QED BY <3>1, <3>2, <3>3
  <2>3. Counters(job', hist')
    BY <1>t, <1>k, <2>1, <2>2, SameRecords
  <2>4. QED BY <1>o, <2>1, <2>3
<1>3. CASE LinkFile
  <2> DEFINE f == NewFile(phase = "tocAligning")
             r == [kind |-> "unread", virtuals |-> 0, sheet |-> 0]
             n == Len(hist)
  <2>1. /\ job' = [job EXCEPT !.files = Append(@, f)] /\ hist' = Append(hist, r)
        /\ phase' = "opened"
    BY <1>3 DEF LinkFile
  <2>2. job'.files = Append(job.files, f)
    BY <1>t, <2>1 DEF JobOK, Job
  <2>3. f.firstPage = 0 /\ f.firstSheet = 0 /\ f \in File
    BY DEF NewFile, File
  <2> HIDE DEF f
  <2>4. /\ hist \in Seq(History) /\ r \in History /\ job.files \in Seq(File)
        /\ n \in Nat /\ r.virtuals = 0 /\ r.sheet = 0 /\ r.kind = "unread"
    BY <1>t DEF TypeInv, History, Kinds, JobOK, Job
  <2> HIDE DEF r
  <2>5. /\ Len(hist') = n + 1 /\ hist'[n + 1] = r
        /\ DOMAIN hist' = 1 .. n + 1 /\ DOMAIN hist = 1 .. n
        /\ \A i \in 1 .. n : hist'[i] = hist[i]
    BY <2>1, <2>4
  <2>6. /\ Len(job'.files) = n + 1 /\ job'.files[n + 1] = f
        /\ \A i \in 1 .. n : job'.files[i] = job.files[i]
    BY <1>h, <2>2, <2>3, <2>4
  <2>7. \A i \in 1 .. n + 1 : i \in 1 .. n \/ i = n + 1
    BY <2>4
  <2>8. Counted(f, r)
    BY <2>4 DEF Counted
  <2>9. Counters(job', hist')
    BY <1>a, <2>5, <2>6, <2>7, <2>8 DEF Counters
  <2>10. Latest(hist') = r /\ CurrentFile(job') = f
    BY <2>5, <2>6 DEF Latest, CurrentFile
  <2>11. Counting(job', Latest(hist'))
    BY <2>3, <2>4, <2>10 DEF Counting
  <2>12. QED BY <1>t, <2>1, <2>4, <2>9, <2>10, <2>11 DEF CountInv
<1>r. ASSUME NEW k \in Kinds, SetKind(k), job.files # << >>
      PROVE  /\ OtherRecords(hist, hist') /\ Latest(hist').kind = k
             /\ Latest(hist').virtuals = Latest(hist).virtuals
             /\ Latest(hist').sheet = Latest(hist).sheet
  BY <1>t, <1>r, SetKindEffect
<1>4. CASE PrintNative
  <2>1. phase = "opened" /\ phase' = "body" /\ job' = job /\ SetKind("native")
        /\ job.files # << >>
    BY <1>4, <1>s DEF PrintNative
  <2>2. /\ OtherRecords(hist, hist') /\ Latest(hist').kind = "native"
        /\ Latest(hist').virtuals = 0 /\ Latest(hist').sheet = Latest(hist).sheet
        /\ Latest(hist).virtuals = 0
    BY <1>a, <1>r, <2>1 DEF Kinds
  <2>3. Counted(CurrentFile(job'), Latest(hist'))
    BY <2>2 DEF Counted
  <2>4. Counters(job', hist')
    BY <1>t, <1>k, <2>1, <2>2, <2>3, SameFilesKept
  <2>5. Counting(job', Latest(hist'))
    BY <1>a, <2>1, <2>2 DEF Counting
  <2>6. QED BY <1>v, <2>1, <2>2, <2>4, <2>5
(* A step of a file that a2ps does not print itself.                       *)
<1>x. ASSUME NEW k \in Kinds, SetKind(k), k # "native", job.files # << >>,
             OtherFiles(job, job'), phase' \in {"delegating", "closing"}
      PROVE  CountInv'
  <2>1. OtherRecords(hist, hist') /\ Latest(hist').kind # "native"
    BY <1>r, <1>x
  <2>2. Counted(CurrentFile(job'), Latest(hist'))
    BY <2>1 DEF Counted
  <2>3. QED BY <1>d, <1>k, <1>x, <2>1, <2>2
<1>u. job'.files = job.files => OtherFiles(job, job')
  BY <1>t, SameFilesKept
<1>5. CASE IgnoreFile
  BY <1>5, <1>s, <1>u, <1>x DEF IgnoreFile, Kinds
<1>6. CASE Delegate
  <2> DEFINE a == PageFlush(job)
  <2>1. job.files # << >> /\ phase' = "delegating" /\ SetKind("delegated")
    BY <1>6, <1>s DEF Delegate
  <2>2. JobOK(a) /\ a.files = job.files
    BY <1>t, PageFlushCounts
  <2>3. job' = SynchronizePages(SynchronizeSheets(a))
    BY <1>6 DEF Delegate
  <2> HIDE DEF a
  <2>4. OtherFiles(job, job')
    BY <2>1, <2>2, <2>3, SynchronizedEffect DEF Synchronized, OtherFiles
  <2>5. QED BY <1>x, <2>1, <2>4 DEF Kinds
<1>7. CASE CannotDelegate
  <2>1. job.files # << >> /\ phase' = "closing" /\ SetKind("failed")
        /\ job' = PageFlush(job)
    BY <1>7, <1>s DEF CannotDelegate
  <2>2. OtherFiles(job, job')
    BY <1>t, <1>u, <2>1, PageFlushCounts
  <2>3. QED BY <1>x, <2>1, <2>2 DEF Kinds
<1>8. CASE DelegatedPage
  <2> DEFINE a == Delegated(job)
  <2>1. job.files # << >> /\ phase = "delegating" /\ phase' = phase
    BY <1>8, <1>s DEF DelegatedPage
  <2>2. JobOK(a) /\ a.files = job.files
    BY <1>t, DelegatedCounts
  <2>3. job' = SynchronizePages(SynchronizeSheets(a))
    BY <1>8 DEF DelegatedPage, Delegated
  <2> HIDE DEF a
  <2>4. OtherFiles(job, job')
    BY <2>1, <2>2, <2>3, SynchronizedEffect DEF Synchronized, OtherFiles
  <2>5. OtherRecords(hist, hist') /\ Latest(hist').kind = Latest(hist).kind
    <3>1. Record(Slots, job'.sheets) /\ job'.sheets \in Nat
      BY <1>8, <1>t DEF DelegatedPage, JobOK, Job
    <3>2. QED BY <1>t, <2>1, <3>1, RecordEffect, SlotsType
  <2>6. Latest(hist').kind # "native"
    BY <1>a, <2>1, <2>5
  <2>7. Counters(job', hist')
    BY <1>k, <2>4, <2>5, <2>6 DEF Counted
  <2>8. QED BY <1>d, <2>1, <2>6, <2>7
<1>9. CASE EndDelegation
  <2> DEFINE faults == job.faults \cup FaultIf(job.page, "include in a page")
  <2>1. job' = [job EXCEPT !.faults = faults]
    BY <1>9, <1>t DEF EndDelegation, JobOK, Job
  <2> HIDE DEF faults
  <2>2. job'.files = job.files
    BY <1>t, <2>1 DEF JobOK, Job
  <2>3. phase = "delegating" /\ phase' = "closing" /\ hist' = hist
    BY <1>9 DEF EndDelegation
  <2>4. Counters(job', hist')
    BY <1>t, <1>a, <1>c, <1>k, <1>s, <2>2, <2>3, SameFilesKept, SameRecords
  <2>5. QED BY <1>a, <1>d, <2>3, <2>4
<1>10. CASE FailDelegation
  BY <1>10, <1>s, <1>u, <1>x DEF FailDelegation, Kinds
<1>11. CASE BeginVirtual
  <2> DEFINE sheet == IF job'.toVoid THEN 0 ELSE job'.sheets
             c == Latest(hist)
             d == Latest(hist')
             f == CurrentFile(job)
             g == CurrentFile(job')
  <2>1. job.files # << >> /\ phase = "body" /\ phase' = "virtual"
        /\ job' = VirtualBegin(job) /\ Record(1, sheet)
    BY <1>11, <1>s DEF BeginVirtual
  <2>2. /\ Synchronized(job, job') /\ job'.pages = job.pages + 1
        /\ EveryPage => ~job'.toVoid
        /\ job'.sheets = IF ~job'.toVoid /\ job.virtual = 0 THEN job.sheets + 1
                                                            ELSE job.sheets
    BY <1>t, <2>1, VirtualBeginFiles, VirtualBeginCounts, AllSelected
  <2>3. sheet \in Nat
    BY <1>h, <2>2
  <2>4. /\ OtherRecords(hist, hist') /\ d.kind = c.kind
        /\ d.virtuals = c.virtuals + 1 /\ d.sheet = First(c.sheet, sheet)
    <3> HIDE DEF sheet
    <3>1. QED BY <1>t, <2>1, <2>3, RecordEffect
  <2>5. /\ g.firstPage = First(f.firstPage, job.pages + 1)
        /\ g.pages = job'.pages - g.firstPage + 1
        /\ g.firstSheet = First(f.firstSheet, job'.sheets)
    BY <2>2 DEF Synchronized
  <2>6. Counting(job, c) /\ c.kind = "native"
    BY <1>a, <2>1
  <2>7. c.virtuals \in Nat /\ f.firstPage \in Nat
    <3>1. c \in History
      BY <1>n, <2>1
    <3>2. f \in File
      BY <1>t, <2>1, CurrentFileOK
    <3>3. QED BY <3>1, <3>2 DEF History, File
  <2>8. EveryPage => g.firstSheet # 0 /\ g.firstSheet = d.sheet
    <3>1. ASSUME EveryPage PROVE job'.sheets # 0
      <4>1. CASE job.virtual = 0
        BY <1>h, <2>2, <3>1, <4>1
      <4>2. CASE job.virtual # 0
        <5>1. job.page /\ job.sheets = job.shown + (IF job.page THEN 1 ELSE 0)
          BY <1>t, <3>1, <4>2 DEF PageInv, VirtualState, PageState
        <5>2. job.shown \in Nat
          BY <1>t DEF JobOK, Job
        <5>3. QED BY <1>h, <2>2, <4>2, <5>1, <5>2
      <4>3. QED BY <4>1, <4>2
    <3>2. EveryPage => sheet = job'.sheets /\ f.firstSheet = c.sheet
      BY <2>2, <2>6 DEF Counting
    <3> HIDE DEF sheet, c, d, f, g
    <3>3. QED BY <2>4, <2>5, <3>1, <3>2 DEF First
  <2>9. /\ g.firstPage # 0 /\ g.pages = d.virtuals /\ d.virtuals # 0
        /\ job'.pages + 1 = g.firstPage + d.virtuals
    <3>1. IF c.virtuals = 0 THEN f.firstPage = 0
          ELSE f.firstPage # 0 /\ job.pages + 1 = f.firstPage + c.virtuals
      BY <2>6 DEF Counting
    <3>2. g.firstPage = IF f.firstPage = 0 THEN job.pages + 1 ELSE f.firstPage
      BY <2>5 DEF First
    <3> HIDE DEF sheet, c, d, f, g
    <3>3. CASE c.virtuals = 0
      BY <1>h, <2>2, <2>4, <2>5, <2>7, <3>1, <3>2, <3>3
    <3>4. CASE c.virtuals # 0
      BY <1>h, <2>2, <2>4, <2>5, <2>7, <3>1, <3>2, <3>4
    <3>5. QED BY <3>3, <3>4
  <2>10. Counted(g, d)
    BY <2>8, <2>9 DEF Counted
  <2>11. Counting(job', d)
    BY <2>8, <2>9 DEF Counting
  <2>12. Counters(job', hist')
    BY <1>k, <2>2, <2>4, <2>10 DEF Synchronized
  <2>13. QED BY <1>v, <2>1, <2>4, <2>6, <2>11, <2>12
<1>12. CASE EndVirtual
  <2>1. job.files # << >> /\ phase = "virtual" /\ phase' = "body"
        /\ job' = VirtualEnd(job) /\ hist' = hist
    BY <1>12, <1>s DEF EndVirtual
  <2>2. job'.files = job.files /\ job'.pages = job.pages
    BY <1>t, <2>1, VirtualEndCounts
  <2>3. OtherFiles(job, job') /\ CurrentFile(job') = CurrentFile(job)
    BY <1>t, <2>2, SameFilesKept
  <2>4. Counters(job', hist')
    BY <1>t, <1>c, <1>k, <2>1, <2>3, SameRecords
  <2>5. Counting(job', Latest(hist'))
    BY <1>a, <2>1, <2>2, <2>3 DEF Counting
  <2>6. QED BY <1>a, <1>v, <2>1, <2>4, <2>5
<1>13. ASSUME NEW x \in Encodings, SwitchEncoding(x) PROVE CountInv'
  <2>1. UNCHANGED <<job, phase, hist>>
    BY <1>13 DEF SwitchEncoding
  <2>2. QED BY <1>t, <1>a, <2>1 DEF CountInv
<1>14. CASE CloseFile
  <2> DEFINE a == IF phase = "virtual" THEN VirtualEnd(job) ELSE job
             c == Latest(hist)
             f == CurrentFile(job)
             g == CurrentFile(job')
  <2>1. job.files # << >> /\ phase' = "idle" /\ hist' = hist
        /\ phase \in {"body", "virtual", "closing"}
    BY <1>14, <1>s DEF CloseFile
  <2>2. JobOK(a) /\ a.files = job.files /\ a.pages = job.pages
    BY <1>t, VirtualEndCounts
  <2>3. job' = SynchronizeSheets(SynchronizePages(a))
    BY <1>14 DEF CloseFile
  <2> HIDE DEF a
  <2>4. Synchronized(a, job') /\ job'.pages = job.pages
    BY <2>1, <2>2, <2>3, SynchronizedEffect, SynchronizedState DEF SameButCounters
  <2>5. /\ OtherFiles(job, job')
        /\ g.firstPage = First(f.firstPage, job.pages)
        /\ g.pages = job.pages - g.firstPage + 1
        /\ g.firstSheet = First(f.firstSheet, job'.sheets)
    BY <2>2, <2>4 DEF Synchronized, OtherFiles, CurrentFile
  <2>6. Counted(g, c)
    <3>1. SUFFICES ASSUME c.kind = "native", c.virtuals > 0
                   PROVE  /\ g.firstPage # 0 /\ g.pages = c.virtuals
                          /\ EveryPage => g.firstSheet # 0 /\ g.firstSheet = c.sheet
      BY DEF Counted
    <3>2. c.virtuals \in Nat /\ f.firstPage \in Nat
      <4>1. c \in History /\ f \in File
        BY <1>t, <1>n, <2>1, CurrentFileOK
      <4>2. QED BY <4>1 DEF History, File
    <3>3. phase \in {"body", "virtual"}
      BY <1>a, <2>1, <3>1
    <3>4. f.firstPage # 0 /\ job.pages + 1 = f.firstPage + c.virtuals
      BY <1>a, <3>1, <3>2, <3>3 DEF Counting
    <3>5. EveryPage => f.firstSheet # 0 /\ f.firstSheet = c.sheet
      BY <1>c, <2>1, <3>1 DEF Counted
    <3> HIDE DEF c, f, g
    <3>6. g.firstPage = f.firstPage
      BY <2>5, <3>4 DEF First
    <3>7. g.pages = c.virtuals
      BY <1>h, <2>5, <3>2, <3>4, <3>6
    <3>8. QED BY <2>5, <3>4, <3>5, <3>6, <3>7 DEF First
  <2>7. Counters(job', hist')
    BY <1>t, <1>k, <2>1, <2>5, <2>6, SameRecords
  <2>8. QED BY <1>o, <2>1, <2>7
<1>15. CASE CloseSession
  <2>1. job' = PageFlush(job) /\ hist' = hist /\ phase' = "done"
    BY <1>15 DEF CloseSession
  <2>2. job'.files = job.files
    BY <1>t, <2>1, PageFlushCounts
  <2>3. Counters(job', hist')
    BY <1>a, <2>1, <2>2 DEF Counters
  <2>4. QED BY <1>o, <2>1, <2>3
<1>16. CASE AbandonSession
  BY <1>16, <1>a, <1>o DEF AbandonSession
<1>17. CASE UNCHANGED vars
  BY <1>17, <1>t, <1>a DEF vars, CountInv
<1>18. QED
  BY <1>1, <1>2, <1>3, <1>4, <1>5, <1>6, <1>7, <1>8, <1>9, <1>10, <1>11, <1>12,
     <1>13, <1>14, <1>15, <1>16, <1>17
  DEF Next, Finished

(* For a natively printed file, the markers and the table of contents tell *)
(* the virtual pages that it filled and, when every page is selected, the  *)
(* physical page where it starts; and job->sheets counts the pages that    *)
(* the printer shows.                                                      *)
THEOREM CountersAreTrue ==
  ASSUME RealVirtualPages
  PROVE  Spec => []CountersTrue
<1>1. CountInv => FileCounters
  BY DEF CountInv, Counters, Counted, FileCounters
<1>2. PageInv => SheetCount
  BY DEF PageInv, VirtualState, PageState, SheetCount
<1>3. CountInv /\ PageInv => CountersTrue
  BY <1>1, <1>2 DEF CountersTrue
<1>4. CountInv /\ [Next]_vars => CountInv'
  BY StepCounts
<1>5. PageInv /\ [Next]_vars => PageInv'
  BY StepPages
<1>6. QED
  BY InitCounts, InitPages, <1>3, <1>4, <1>5, PTL DEF Spec
=============================================================================
