----------------------------- MODULE PageEngine -----------------------------
(***************************************************************************)
(* The page engine of the PostScript generator: physical pages ("sheets"   *)
(* in the code), virtual pages, page selection, alignment of files, and    *)
(* the page counters of each file (liba2ps/psgen.c, liba2ps/fjobs.c,       *)
(* liba2ps/gen.c; the delegation loop of src/delegate.c and the print      *)
(* loop of src/generate.c and src/main.c drive it).                        *)
(*                                                                         *)
(* The diverted output is observed through the state of a printer that     *)
(* would read it: whether a page is open, how many were shown, and what it *)
(* could not make sense of ("faults").                                     *)
(***************************************************************************)
EXTENDS EncodingSwitch, PageRange, Integers, Sequences, FiniteSetsExt

CONSTANTS
  Slots,        (* job->rows * job->columns                                *)
  Rank,         (* virtual pages in a rank: columns or rows, see madir     *)
  FileAlign,    (* job->file_align                                         *)
  AlignTo,      (* ... and its value when it is a number                   *)
  Duplex,       (* job->duplex is duplex or tumble                         *)
  Titles,       (* PRINT_TITLE                                             *)
  VirtualForce, (* VAR_OPT_VIRTUAL_FORCE is defined                        *)
  Intervals,    (* job->page_range->intervals                              *)
  TocOnly,      (* job->page_range->toc                                    *)
  MaxPages,     (* bound of the model: virtual pages                       *)
  MaxFiles      (* bound of the model: input files                         *)

FileAlignments == {"virtual", "rank", "page", "sheet", "number"}

ASSUME PageAssumption ==
  /\ Slots \in Nat \ {0} /\ Rank \in 1 .. Slots /\ Slots % Rank = 0
  /\ AlignTo \in Nat \ {0}
  /\ FileAlign \in FileAlignments
  /\ {Duplex, Titles, VirtualForce, TocOnly} \subseteq BOOLEAN
  /\ Intervals \subseteq Interval
  /\ MaxPages \in Nat /\ MaxFiles \in Nat

VARIABLES
  job,    (* the counters of a2ps_job, its files, and the printer's view   *)
  enc,    (* the encoding state, see EncodingSwitch                        *)
  phase,  (* where the caller stands in the current file                   *)
  hist,   (* history: what really happened to each file                    *)
  asked   (* history: the encoding the documents asked for last            *)

vars == <<job, enc, phase, hist, asked>>

(* What a printer reading the diversion cannot accept, and what breaks the *)
(* handler of the page label.                                              *)
PageFaults == {"page not ended", "showpage without page", "label not filled",
               "label overwritten", "label not allocated", "include in a page"}

File == [ isToc : BOOLEAN, firstSheet : Nat, lastSheet : Nat, sheets : Nat,
          firstPage : Nat, lastPage : Nat, pages : Nat, topPage : Nat ]

Job == [ pages : Nat, sheets : Nat, virtual : Nat, toVoid : BOOLEAN,
         files : Seq(File),
         page   : BOOLEAN,                        \* %%Page begun, not shown
         label  : {"none", "pending", "filled"},  \* latest page label handler
         shown  : Nat,                            \* pages out of the printer
         faults : SUBSET PageFaults ]

(* _a2ps_file_job_new                                                      *)
NewFile(isToc) ==
  [ isToc |-> isToc, firstSheet |-> 0, lastSheet |-> 0, sheets |-> 0,
    firstPage |-> 0, lastPage |-> 0, pages |-> 0, topPage |-> 0 ]

CurrentIndex(j) == Len(j.files)
CurrentFile(j)  == j.files[Len(j.files)]
Selected(j, p)  == PrintPage(Intervals, TocOnly, CurrentFile(j).isToc, p)

FaultIf(cond, name) == IF cond THEN {name} ELSE {}
-----------------------------------------------------------------------------
(* Counters of the current file.                                           *)

(* Mutant: the difference is taken before last_sheet is updated.           *)
SynchronizeSheetsTooEarly(j) ==
  LET f     == CurrentFile(j)
      first == IF f.firstSheet = 0 THEN j.sheets ELSE f.firstSheet
  IN [j EXCEPT !.files[CurrentIndex(j)] =
        [f EXCEPT !.firstSheet = first,
                  !.lastSheet  = j.sheets,
                  !.sheets     = f.lastSheet - first + 1]]

SynchronizeSheets(j) ==
  LET f     == CurrentFile(j)
      first == IF f.firstSheet = 0 THEN j.sheets ELSE f.firstSheet
  IN [j EXCEPT !.files[CurrentIndex(j)] =
        [f EXCEPT !.firstSheet = first,
                  !.lastSheet  = j.sheets,
                  !.sheets     = j.sheets - first + 1]]

(* Mutant: the last page is not counted.                                   *)
SynchronizePagesOffByOne(j) ==
  LET f     == CurrentFile(j)
      first == IF f.firstPage = 0 THEN j.pages ELSE f.firstPage
  IN [j EXCEPT !.files[CurrentIndex(j)] =
        [f EXCEPT !.firstPage = first,
                  !.topPage   = IF @ = 0 THEN 1 ELSE @,
                  !.lastPage  = j.pages,
                  !.pages     = j.pages - first]]

SynchronizePages(j) ==
  LET f     == CurrentFile(j)
      first == IF f.firstPage = 0 THEN j.pages ELSE f.firstPage
  IN [j EXCEPT !.files[CurrentIndex(j)] =
        [f EXCEPT !.firstPage = first,
                  !.topPage   = IF @ = 0 THEN 1 ELSE @,
                  !.lastPage  = j.pages,
                  !.pages     = j.pages - first + 1]]
-----------------------------------------------------------------------------
(* Physical pages.                                                         *)

(* page_begin, as virtual_begin calls it.  Called again on a page already  *)
(* begun (a skipped virtual page after the first printed one) it prints    *)
(* nothing, but still moves top_page.                                      *)
PageBegin(j) ==
  LET n == CurrentIndex(j)
  IN [j EXCEPT
        !.virtual = 1,
        !.sheets  = IF Selected(j, j.pages) THEN @ + 1 ELSE @,
        !.files[n].topPage = j.files[n].pages + 1,
        !.page    = j.page \/ ~j.toVoid,
        !.label   = IF j.toVoid THEN @ ELSE "pending",
        !.faults  = @ \cup FaultIf(~j.toVoid /\ j.page, "page not ended")
                      \cup FaultIf(~j.toVoid /\ j.label = "pending", "label not filled")]

(* Mutant: job->virtual is not reset.                                      *)
PageEndKeepsVirtual(j) ==
  [j EXCEPT
     !.label   = IF @ = "none" THEN @ ELSE "filled",
     !.page    = j.page /\ j.toVoid,
     !.shown   = IF j.toVoid THEN @ ELSE @ + 1,
     !.faults  = @ \cup FaultIf(j.label = "none", "label not allocated")
                   \cup FaultIf(j.label = "filled", "label overwritten")
                   \cup FaultIf(~j.toVoid /\ ~j.page, "showpage without page")]

(* page_end: fill the handler of the label, restore, showpage.             *)
PageEnd(j) ==
  [j EXCEPT
     !.virtual = 0,
     !.label   = IF @ = "none" THEN @ ELSE "filled",
     !.page    = j.page /\ j.toVoid,
     !.shown   = IF j.toVoid THEN @ ELSE @ + 1,
     !.faults  = @ \cup FaultIf(j.label = "none", "label not allocated")
                   \cup FaultIf(j.label = "filled", "label overwritten")
                   \cup FaultIf(~j.toVoid /\ ~j.page, "showpage without page")]

PageFlush(j) ==
  LET k == [j EXCEPT !.toVoid = FALSE]
  IN IF k.virtual # 0 THEN PageEnd(k) ELSE k

(* Mutant: only done when a page is waiting.                               *)
PageEmptyOutputIfWaiting(j) ==
  IF j.virtual = 0 THEN j ELSE SynchronizeSheets([j EXCEPT !.sheets = @ + 1])

PageEmptyOutput(j) ==
  LET k == SynchronizeSheets([j EXCEPT !.sheets = @ + 1])
  IN IF k.toVoid THEN k
     ELSE [k EXCEPT !.shown  = @ + 1,
                    !.faults = @ \cup FaultIf(k.page, "page not ended")]

(* Mutant: the wrong side.                                                 *)
SheetFlushWrongSide(j) ==
  LET k == PageFlush(j)
  IN IF Duplex /\ k.sheets % 2 = 0 THEN PageEmptyOutput(k) ELSE k

SheetFlush(j) ==
  LET k == PageFlush(j)
  IN IF Duplex /\ k.sheets % 2 # 0 THEN PageEmptyOutput(k) ELSE k
-----------------------------------------------------------------------------
(* Virtual pages.                                                          *)

VirtualBegin(j) ==
  LET p  == j.pages + 1
      ok == Selected(j, p)
      k  == [j EXCEPT !.pages = p, !.toVoid = ~ok,
                      !.virtual = IF ok THEN @ + 1 ELSE @]
  IN SynchronizeSheets(SynchronizePages(IF k.virtual = 1 THEN PageBegin(k) ELSE k))

VirtualEnd(j) == IF j.virtual = Slots THEN PageEnd(j) ELSE j

VirtualEmptyOutput(j) ==
  IF VirtualForce THEN VirtualEnd(VirtualBegin(j))
  ELSE VirtualEnd([j EXCEPT !.pages = @ + 1, !.virtual = @ + 1])
-----------------------------------------------------------------------------
(* The same functions, as the encoding state sees them; j is the job state *)
(* in which the function is called.                                        *)

(* Mutant: the encoding of the text is not restored after the headers.     *)
PageBeginEncKeepsRequested(e, void) == PsSetEncoding(e, Requested, void)

PageBeginEnc(e, void) ==
  PsInternalSwitch(PsSetEncoding(e, Requested, void), e.saved, void)

PageEndEnc(e, void) == PsEndEncoding(PsPushEncoding(e, Requested, void), void)

PageFlushEnc(e, j) == IF j.virtual # 0 THEN PageEndEnc(e, FALSE) ELSE e

VirtualBeginEnc(e, j) ==
  LET k == VirtualBegin(j)
      d == IF k.virtual = 1 THEN PageBeginEnc(e, k.toVoid) ELSE e
  IN IF d.cur = NULL THEN PsSetEncoding(d, d.saved, k.toVoid) ELSE d

VirtualEndEnc(e, j) ==
  LET d == IF Titles
           THEN PsPopEncoding(PsPushEncoding(e, Requested, j.toVoid), j.toVoid)
           ELSE e
  IN IF j.virtual = Slots THEN PageEndEnc(d, j.toVoid) ELSE d

VirtualEmptyOutputEnc(e, j) ==
  IF VirtualForce THEN VirtualEndEnc(VirtualBeginEnc(e, j), VirtualBegin(j))
  ELSE IF j.virtual + 1 = Slots THEN PageEndEnc(e, j.toVoid) ELSE e
-----------------------------------------------------------------------------
(* phase:                                                                  *)
(*   "idle"       between two files                                        *)
(*   "aligning"   in ps_begin_file; "tocAligning" when the file is the toc *)
(*   "opened"     the input session is open, nothing was read              *)
(*   "body"       in a natively printed file, status->start_page is true   *)
(*   "virtual"    in a natively printed file, inside a virtual page        *)
(*   "delegating" reading what the delegated application prints            *)
(*   "closing"    the file is over, its input session is still open        *)
(*   "done"       the output session is closed                             *)
(*   "abandoned"  the program ended without closing it                     *)
Phases == {"idle", "aligning", "tocAligning", "opened", "body", "virtual",
           "delegating", "closing", "done", "abandoned"}

Kinds == {"unread", "native", "delegated", "failed", "ignored"}
History == [kind : Kinds, virtuals : Nat, sheet : Nat]

Init ==
  /\ job = [ pages |-> 0, sheets |-> 0, virtual |-> 0, toVoid |-> FALSE,
             files |-> << >>, page |-> FALSE, label |-> "none", shown |-> 0,
             faults |-> {} ]
  /\ enc = EncInit
  /\ phase = "idle"
  /\ hist = << >>
  /\ asked = Requested

Current == hist[Len(hist)]

(* n virtual pages of the current file begin, on a physical page (unless   *)
(* they are skipped: 0).                                                   *)
Record(n, sheet) ==
  hist' = [hist EXCEPT ![Len(hist)] =
             [Current EXCEPT !.virtuals = @ + n,
                             !.sheet = IF @ = 0 THEN sheet ELSE @]]

(* a2ps_open_input_session up to the loops of ps_begin_file.  The main     *)
(* program prints its files, at least one, then the table of contents.     *)
StartFile(isToc) ==
  /\ phase = "idle"
  /\ Len(job.files) < MaxFiles
  /\ IF job.files = << >> THEN ~isToc ELSE ~CurrentFile(job).isToc
  /\ phase' = IF isToc THEN "tocAligning" ELSE "aligning"
  /\ IF job.files = << >> \/ FileAlign \in {"virtual", "rank"}
     THEN UNCHANGED <<job, enc>>
     ELSE /\ job' = IF FileAlign = "sheet" THEN SheetFlush(job) ELSE PageFlush(job)
          /\ enc' = PageFlushEnc(enc, job)
  /\ UNCHANGED <<hist, asked>>

(* Mutant: aligned on the number of the last page, not on the next one's.  *)
MisalignedOffByOne ==
  /\ job.files # << >>
  /\ \/ FileAlign = "rank" /\ job.pages % Rank # 0
     \/ FileAlign = "number" /\ (job.sheets + 1) % AlignTo # 0

Misaligned ==
  /\ job.files # << >>
  /\ \/ FileAlign = "rank" /\ job.pages % Rank # 0
     \/ FileAlign = "number" /\ job.sheets % AlignTo # 0

(* One turn of a loop of ps_begin_file.                                    *)
AlignStep ==
  /\ phase \in {"aligning", "tocAligning"}
  /\ Misaligned
  /\ IF FileAlign = "rank"
     THEN /\ job' = VirtualEmptyOutput(job)
          /\ enc' = VirtualEmptyOutputEnc(enc, job)
     ELSE /\ job' = PageEmptyOutput(job)
          /\ UNCHANGED enc
  /\ UNCHANGED <<phase, hist, asked>>

(* The end of a2ps_open_input_session: the new file becomes the current    *)
(* one.  print_toc marks it as the table of contents right after.          *)
LinkFile ==
  /\ phase \in {"aligning", "tocAligning"}
  /\ ~Misaligned
  /\ job' = [job EXCEPT !.files = Append(@, NewFile(phase = "tocAligning"))]
  /\ hist' = Append(hist, [kind |-> "unread", virtuals |-> 0, sheet |-> 0])
  /\ phase' = "opened"
  /\ UNCHANGED <<enc, asked>>

SetKind(k) == hist' = [hist EXCEPT ![Len(hist)] = [Current EXCEPT !.kind = k]]

(* print: the file is typeset by a2ps itself.                              *)
PrintNative ==
  /\ phase = "opened"
  /\ SetKind("native")
  /\ phase' = "body"
  /\ UNCHANGED <<job, enc, asked>>

(* print: unprintable and binary files are not read at all.                *)
IgnoreFile ==
  /\ phase = "opened"
  /\ ~CurrentFile(job).isToc
  /\ SetKind("ignored")
  /\ phase' = "closing"
  /\ UNCHANGED <<job, enc, asked>>

(* print, then subcontract up to its reading loop.                         *)
Delegate ==
  /\ phase = "opened"
  /\ ~CurrentFile(job).isToc
  /\ SetKind("delegated")
  /\ job' = SynchronizePages(SynchronizeSheets(PageFlush(job)))
  /\ enc' = PageFlushEnc(enc, job)
  /\ phase' = "delegating"
  /\ UNCHANGED asked

(* subcontract cannot create its file or open the pipe.                    *)
CannotDelegate ==
  /\ phase = "opened"
  /\ ~CurrentFile(job).isToc
  /\ SetKind("failed")
  /\ job' = PageFlush(job)
  /\ enc' = PageFlushEnc(enc, job)
  /\ phase' = "closing"
  /\ UNCHANGED asked

(* The delegated application prints a line "%%Page: ".  The page itself is *)
(* printed with the document, see EndDelegation.                           *)
DelegatedPage ==
  /\ phase = "delegating"
  /\ job.pages + Slots <= MaxPages
  /\ job' = SynchronizePages(SynchronizeSheets(
              [job EXCEPT !.pages = @ + Slots, !.sheets = @ + 1, !.shown = @ + 1]))
  /\ Record(Slots, job'.sheets)
  /\ UNCHANGED <<enc, phase, asked>>

(* The end of subcontract: the document is included, whatever the pages    *)
(* selected.                                                               *)
EndDelegation ==
  /\ phase = "delegating"
  /\ job' = [job EXCEPT !.faults = @ \cup FaultIf(job.page, "include in a page")]
  /\ phase' = "closing"
  /\ UNCHANGED <<enc, hist, asked>>

(* The application printed nothing: subcontract returns false.             *)
FailDelegation ==
  /\ phase = "delegating"
  /\ Current.virtuals = 0
  /\ SetKind("failed")
  /\ phase' = "closing"
  /\ UNCHANGED <<job, enc, asked>>

(* The first character of a virtual page.                                  *)
BeginVirtual ==
  /\ phase = "body"
  /\ job.pages < MaxPages
  /\ job' = VirtualBegin(job)
  /\ enc' = VirtualBeginEnc(enc, job)
  /\ Record(1, IF job'.toVoid THEN 0 ELSE job'.sheets)
  /\ phase' = "virtual"
  /\ UNCHANGED asked

(* A form feed, or a line that fills the virtual page.                     *)
EndVirtual ==
  /\ phase = "virtual"
  /\ job' = VirtualEnd(job)
  /\ enc' = VirtualEndEnc(enc, job)
  /\ phase' = "body"
  /\ UNCHANGED <<hist, asked>>

(* The style sheet grabbed the name of an encoding (ssh_print_postscript). *)
SwitchEncoding(x) ==
  /\ phase \in {"body", "virtual"}
  /\ enc' = PsSwitchEncoding(enc, x, job.toVoid)
  /\ asked' = x
  /\ UNCHANGED <<job, phase, hist>>

(* a2ps_close_input_session: ps_end_file.                                  *)
CloseFile ==
  /\ phase \in {"body", "virtual", "closing"}
  /\ job' = SynchronizeSheets(SynchronizePages(
              IF phase = "virtual" THEN VirtualEnd(job) ELSE job))
  /\ enc' = IF phase = "virtual" THEN VirtualEndEnc(enc, job) ELSE enc
  /\ phase' = "idle"
  /\ UNCHANGED <<hist, asked>>

OfKind(k) == {i \in DOMAIN hist : hist[i].kind = k}

(* The only output is one delegated document, which needs no prologue: the *)
(* diversion is not used at all.                                           *)
DelegatedAlone == OfKind("native") = {} /\ \E i \in DOMAIN hist : OfKind("delegated") = {i}

NothingPrinted == OfKind("native") = {} /\ OfKind("delegated") = {}

(* a2ps_close_output_session: ps_end.                                      *)
CloseSession ==
  /\ phase = "idle"
  /\ ~DelegatedAlone /\ ~NothingPrinted
  /\ job' = PageFlush(job)
  /\ enc' = PageFlushEnc(enc, job)
  /\ phase' = "done"
  /\ UNCHANGED <<hist, asked>>

(* Then the output of the last file that has a delegation_tmpname is sent; *)
(* subcontract gives one to every file it handles.                         *)
DumpedFile == Max(OfKind("delegated") \cup OfKind("failed"))

(* The program ends without using the diversion.                           *)
AbandonSession ==
  /\ phase = "idle"
  /\ job.files # << >>
  /\ DelegatedAlone \/ NothingPrinted
  /\ phase' = "abandoned"
  /\ UNCHANGED <<job, enc, hist, asked>>

Finished == phase \in {"done", "abandoned"} /\ UNCHANGED vars

Next ==
  \/ \E isToc \in BOOLEAN : StartFile(isToc)
  \/ AlignStep
  \/ LinkFile
  \/ PrintNative
  \/ IgnoreFile
  \/ Delegate
  \/ CannotDelegate
  \/ DelegatedPage
  \/ EndDelegation
  \/ FailDelegation
  \/ BeginVirtual
  \/ EndVirtual
  \/ \E x \in Encodings : SwitchEncoding(x)
  \/ CloseFile
  \/ CloseSession
  \/ AbandonSession
  \/ Finished

Spec == Init /\ [][Next]_vars

(* a2ps is sequential: a loop of ps_begin_file runs until its condition    *)
(* fails.                                                                  *)
FairSpec == Spec /\ WF_vars(AlignStep) /\ WF_vars(LinkFile)
-----------------------------------------------------------------------------
(* Properties.                                                             *)

(* Every variable keeps its type; in particular the differences of fjobs.c *)
(* (last - first + 1), computed on size_t, never wrap.                     *)
TypeOK ==
  /\ job \in Job
  /\ enc \in EncState
  /\ phase \in Phases
  /\ hist \in Seq(History) /\ Len(hist) = Len(job.files)
  /\ asked \in Encodings

(* What the printer reads is a well-formed sequence of pages, each shown   *)
(* once, with one page label handler that page_end fills exactly once,     *)
(* and no delegated document in the middle of a page (psgen.c page_begin,  *)
(* page_end, page_flush).                                                  *)
PageStructure == job.faults = {}

(* The dictionaries of the encodings are opened and closed one at a time,  *)
(* and a2ps never asks for the key of a null encoding.                     *)
EncodingStructure == enc.faults = {}

(* Text printed in a virtual page that is not skipped is read by the       *)
(* printer inside a page, under the dictionary of job->encoding, which is  *)
(* the encoding the documents asked for last, whatever the headers of the  *)
(* pages since then used (psgen.c, ps_internal_switch_encoding).           *)
TextEncoding ==
  phase = "virtual" /\ ~job.toVoid =>
    job.page /\ enc.dict = enc.cur /\ enc.cur = asked

(* job->sheets counts the physical pages: the number in "%%Page:", and the *)
(* number of sheets of the final message.                                  *)
SheetCount == job.sheets = job.shown + (IF job.page THEN 1 ELSE 0)

(* Unless files are aligned on virtual pages or ranks, no file is printed  *)
(* on a physical page that an earlier file occupies (ps_begin_file).       *)
FilesShareNoSheet ==
  FileAlign \notin {"virtual", "rank"} =>
    \A i, k \in DOMAIN hist :
      i < k /\ hist[k].sheet # 0 => job.files[i].lastSheet < hist[k].sheet

(* "We must issue as many pages as needed to have a page number which is a *)
(* multiple of FILE_ALIGN plus one" (ps_begin_file); with --file-align=    *)
(* sheet and two-sided printing, files start on a front side.              *)
AlignedStart ==
  \A k \in DOMAIN hist \ {1} : hist[k].sheet # 0 =>
    /\ FileAlign = "sheet" /\ Duplex => hist[k].sheet % 2 = 1
    /\ FileAlign = "number" => hist[k].sheet % AlignTo = 1 % AlignTo

(* No --pages was given.                                                   *)
EveryPage == Intervals = {} /\ ~TocOnly

(* The counters that the markers and the table of contents print for a     *)
(* natively printed file: the pages it filled, and, when every page is     *)
(* selected, the physical page where it starts (fjobs.c).                  *)
FileCounters ==
  \A i \in DOMAIN hist : hist[i].kind = "native" /\ hist[i].virtuals > 0 =>
    /\ VirtualForce \/ job.files[i].pages = hist[i].virtuals
    /\ EveryPage => job.files[i].firstSheet = hist[i].sheet

(* What the printer reads is set under the encodings that were asked for:  *)
(* they open and close properly, and text is sent under the right one.     *)
EncodingsSound == EncodingStructure /\ TextEncoding

(* The counters of the job and of each file agree with what is printed.    *)
CountersTrue == FileCounters /\ SheetCount

(* No two files share a sheet, and a file that prints begins where its     *)
(* alignment says.                                                         *)
FilesApart == FilesShareNoSheet /\ AlignedStart

(* "num of the first sheet for this file" (fjobs.h), for every file. Not   *)
(* checked: it does not hold, see the README.                              *)
FirstSheetIsFirst ==
  \A i \in DOMAIN hist :
    hist[i].sheet # 0 => job.files[i].firstSheet = hist[i].sheet

(* "We test to one, since it has just been incremented above"              *)
(* (virtual_begin): page_begin is entered only when no page is begun. Not  *)
(* checked: it does not hold, see the README.                              *)
PageBegunOnce ==
  [][phase = "body" /\ phase' = "virtual" /\ job'.virtual = 1
       => job.virtual = 0]_vars

(* The only delegated file is the one that is sent: "'delegation_tmpname'  *)
(* is necessary not null else it is a failed job and we ignore it". Not    *)
(* checked: it does not hold, see the README.                              *)
DumpedFileIsDelegated ==
  phase = "abandoned" /\ DelegatedAlone => hist[DumpedFile].kind = "delegated"

(* The alignment of a file comes to an end, whatever was printed before.   *)
AlignmentEnds ==
  phase \in {"aligning", "tocAligning"} ~> phase = "opened"
=============================================================================
