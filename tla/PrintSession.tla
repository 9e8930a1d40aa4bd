---------------------------- MODULE PrintSession ----------------------------
(***************************************************************************)
(* A run of a2ps that prints: main and print, with what they leave on the  *)
(* disk.  The files are opened, typed, printed into the diversion or given *)
(* to a delegation, whose result waits in a temporary file until the       *)
(* diversion is sent to the destination; signals and failures end the run  *)
(* anywhere, and the functions given to atexit remove what is temporary.   *)
(*                                                                         *)
(* The typing of a file and the pages it makes are modelled elsewhere      *)
(* (FileTyping, PageEngine): here a file is printed, delegated or ignored, *)
(* and gives one piece of the document.  A content is a sequence of pieces.*)
(***************************************************************************)
EXTENDS Integers, Sequences, FiniteSets, SequencesExt, TLC

CONSTANTS
  NULL,
  Requests,   (* what the command line may ask for: see MCPrintSession     *)
  MaxSignals  (* bound: the signals that a run receives                    *)

VARIABLES
  request,    (* one of Requests                                           *)
  phase,      (* the next step of the program                              *)
  made,       (* the file that safe_tempnam has made but not yet recorded  *)
  tempfiles,  (* the files it has recorded                                 *)
  names,      (* the variables that hold the name of a temporary file      *)
  handlers,   (* what was given to atexit                                  *)
  jobs,       (* the files met so far                                      *)
  native, delegated,  (* the counters of main                              *)
  to_void,    (* whether the diversion forgets what it receives            *)
  divertion,
  queue,      (* what is still to be sent                                  *)
  stream,     (* what was sent to a pipe or to the standard output         *)
  backup_name,
  disk,       (* the content of each file                                  *)
  job,        (* FALSE when the pointer job is NULL                        *)
  result,     (* history: how the run ended                                *)
  caught      (* history: where signals came                               *)

temps == <<made, tempfiles, names>>
work == <<jobs, native, delegated, to_void, divertion>>
output == <<queue, stream, backup_name>>
process == <<handlers, job, result, caught>>
vars == <<request, phase, temps, work, output, process, disk>>

Put(map, k, v) == [f \in DOMAIN map \cup {k} |-> IF f = k THEN v ELSE map[f]]
Without(map, keys) == [k \in DOMAIN map \ keys |-> map[k]]
NameOf(slot) == IF slot \in DOMAIN names THEN names[slot] ELSE NULL

File(name) == <<"file", name>>
Backup(n) == <<"backup", n>>
Numbers == 1 .. 9   (* bound of the model: the numbers of backups          *)
Out == File("out")
Stdin == "-"
Original(f) == <<<<"old", f>>>>
Content(name) == IF name = Stdin THEN Original(File(Stdin)) ELSE disk[File(name)]
Readable(name) == name = Stdin \/ File(name) \in DOMAIN disk

(* What safe_tempnam makes, for the variable that will hold its name, and  *)
(* where the program goes on.                                              *)
Temps == {"temp"} \X Nat
Slots == {"sample", "f", "stdin", "result"} \X Nat
Nexts == {"sample it", "save", "result", "popen", "spy"}
Made  == [file : Temps, slot : Slots, next : Nexts]

(* A null pointer is not a file, nor what became of one, nothing temporary *)
(* is there at first, and there is a number left for one more backup.      *)
ASSUME SessionAssumption ==
  /\ NULL \notin Temps /\ NULL \notin Made /\ NULL \notin {"backup"} \X Nat /\ NULL # Out /\ NULL \notin {"text", "result", "failed"}
  /\ \A r \in Requests : Backup(9) \notin r.present /\ \A f \in r.present : f[1] # "temp"

Init ==
  /\ request \in Requests
  /\ phase = "next" /\ made = NULL /\ tempfiles = << >> /\ names = [s \in {} |-> NULL]
  /\ handlers = <<"exit_handler">>
  /\ jobs = << >> /\ native = 0 /\ delegated = 0 /\ to_void = FALSE
  /\ divertion = IF request.debug THEN <<<<"spy", << >>>>>> ELSE << >>
  /\ queue = << >> /\ stream = << >> /\ backup_name = NULL
  /\ disk = [f \in request.present |-> Original(f)]
  /\ job = TRUE /\ result = "running" /\ caught = {}

Go(next) == phase' = next
Exit(how) == phase' = "exiting" /\ result' = how /\ UNCHANGED <<handlers, job, caught>>
Current == Len(jobs)
Type == jobs[Current].type
SetFate(fate) == jobs' = [jobs EXCEPT ![Current].fate = fate]

-----------------------------------------------------------------------------
(* tempname_ensure: a variable that has a name keeps it.  safe_tempnam     *)
(* makes the file first, then records it; the first record registers the   *)
(* function that removes the files.                                        *)
Ensure(slot, next) ==
  /\ IF NameOf(slot) # NULL THEN Go(next) /\ UNCHANGED <<made, disk>>
     ELSE LET file == <<"temp", Len(tempfiles) + 1>>
          IN /\ made' = [file |-> file, slot |-> slot, next |-> next]
             /\ disk' = Put(disk, file, << >>)
             /\ Go("record")
  /\ UNCHANGED <<tempfiles, names>>

RegisteredNever == handlers

Registered == IF tempfiles = << >> THEN Append(handlers, "cleanup_tempfiles") ELSE handlers

Record ==
  /\ phase = "record"
  /\ tempfiles' = Append(tempfiles, made.file)
  /\ names' = Put(names, made.slot, made.file)
  /\ handlers' = Registered
  /\ Go(made.next) /\ made' = NULL
  /\ UNCHANGED <<request, work, output, disk, job, result, caught>>

SampleSlot == <<"sample", 0>>
MacroSlot == <<"f", 0>>
StdinSlot(i) == <<"stdin", i>>
ResultSlot(i) == <<"result", i>>

(* A file opened for writing, or the end of the run.                       *)
Write(slot, content, next) ==
  \/ disk' = Put(disk, names[slot], content) /\ Go(next) /\ UNCHANGED process
  \/ Exit("failed") /\ UNCHANGED disk

-----------------------------------------------------------------------------
(* input_new: the sample of the standard input is removed as soon as the   *)
(* file is typed, its name stays.                                          *)
NextFile ==
  /\ phase = "next" /\ Current < request.max
  /\ \E name \in request.names :
       /\ jobs' = Append(jobs, [name |-> name, type |-> NULL, fate |-> NULL, read |-> << >>])
       /\ Go(IF name = Stdin THEN "sample" ELSE "type")
  /\ UNCHANGED <<request, temps, output, process, disk, native, delegated, to_void, divertion>>

SampleName == phase = "sample" /\ Ensure(SampleSlot, "sample it") /\ UNCHANGED <<request, work, output, process>>
SampleGet ==
  /\ phase = "sample it" /\ Write(SampleSlot, Original(File(Stdin)), "type")
  /\ UNCHANGED <<request, temps, work, output>>

InputType ==
  /\ phase = "type"
  /\ \E type \in IF Readable(jobs[Current].name) THEN {"plain", "delegate", "unprintable"} ELSE {"unprintable"} :
       jobs' = [jobs EXCEPT ![Current].type = type,
                            ![Current].read = IF type = "unprintable" THEN << >> ELSE Content(jobs[Current].name)]
  /\ disk' = Without(disk, {NameOf(SampleSlot)})
  /\ Go("print")
  /\ UNCHANGED <<request, temps, output, process, native, delegated, to_void, divertion>>

-----------------------------------------------------------------------------
(* print.  The pages may be out of the range that was asked for; the last  *)
(* one decides whether the diversion forgets.                              *)
Kept == IF request.pages THEN BOOLEAN ELSE {TRUE}
PrintNative ==
  /\ phase = "print" /\ Type = "plain"
  /\ \E kept \in Kept :
       /\ divertion' = IF kept THEN Append(divertion, <<"text", jobs[Current].read>>) ELSE divertion
       /\ to_void' = ~kept
       /\ SetFate(IF kept THEN "text" ELSE "skipped")
  /\ native' = native + 1
  /\ Go("next")
  /\ UNCHANGED <<request, temps, output, process, disk, delegated>>

Ignore ==
  /\ phase = "print" /\ Type = "unprintable"
  /\ SetFate("ignored") /\ Go("next")
  /\ UNCHANGED <<request, temps, output, process, disk, native, delegated, to_void, divertion>>

(* The page is flushed, which opens the diversion again.                   *)
PrintDelegated ==
  /\ phase = "print" /\ Type = "delegate"
  /\ to_void' = FALSE
  /\ Go(IF jobs[Current].name = Stdin THEN "stdin" ELSE "command")
  /\ UNCHANGED <<request, temps, output, process, disk, jobs, native, delegated, divertion>>

(* subcontract: the standard input is saved for the command, which may use *)
(* a temporary name of its own (#f0).                                      *)
StdinName == phase = "stdin" /\ Ensure(StdinSlot(Current), "save") /\ UNCHANGED <<request, work, output, process>>
BufferSave ==
  /\ phase = "save" /\ Write(StdinSlot(Current), jobs[Current].read, "command")
  /\ UNCHANGED <<request, temps, work, output>>
Command ==
  /\ phase = "command"
  /\ IF request.macro THEN Ensure(MacroSlot, "result") ELSE Go("result") /\ UNCHANGED <<temps, disk>>
  /\ UNCHANGED <<request, work, output, process>>
ResultName == phase = "result" /\ Ensure(ResultSlot(Current), "popen") /\ UNCHANGED <<request, work, output, process>>

(* Neither the file nor the pipe is sure to open.                          *)
Popen ==
  /\ phase = "popen"
  /\ \/ Go("read") /\ UNCHANGED jobs
     \/ SetFate("failed") /\ Go("next")
  /\ UNCHANGED <<request, temps, output, process, disk, native, delegated, to_void, divertion>>

(* A command that answers nothing has failed: its file is kept.            *)
Subcontract ==
  /\ phase = "read"
  /\ LET file == names[ResultSlot(Current)]
         without == Without(disk, {NameOf(StdinSlot(Current))})
     IN \/ /\ disk' = Put(without, file, <<<<"result", jobs[Current].read>>>>)
           /\ divertion' = divertion \o <<<<"dump", file>>, <<"unlink", file>>>>
           /\ delegated' = delegated + 1
           /\ SetFate("result")
        \/ /\ disk' = Put(without, file, << >>)
           /\ SetFate("failed")
           /\ UNCHANGED <<divertion, delegated>>
  /\ Go("next")
  /\ UNCHANGED <<request, temps, output, process, native, to_void>>

-----------------------------------------------------------------------------
(* main, when the files are done.  The table of contents is one more file. *)
PrintToc ==
  /\ phase = "next" /\ Current >= 1 /\ request.toc
  /\ jobs' = Append(jobs, [name |-> "toc", type |-> "plain", fate |-> "text", read |-> <<<<"toc", << >>>>>>])
  /\ divertion' = Append(divertion, <<"text", <<<<"toc", << >>>>>>>>)
  /\ native' = native + 1 /\ to_void' = FALSE
  /\ Go("end")
  /\ UNCHANGED <<request, temps, output, process, disk, delegated>>
EndFiles ==
  /\ phase = "next" /\ Current >= 1 /\ ~request.toc
  /\ Go("end")
  /\ UNCHANGED <<request, temps, work, output, process, disk>>

(* The only delegation is sent alone: the last file that has the name of a *)
(* result.                                                                 *)
Alone == native = 0 /\ delegated = 1
NothingToSend == native = 0 /\ delegated = 0

Delegation ==
  LET named == {i \in 1..Current : NameOf(ResultSlot(i)) # NULL}
  IN names[ResultSlot(CHOOSE i \in named : \A k \in named : k <= i)]

(* ps_end: the trailer is sent whatever pages were asked for.              *)
Trailer == <<"text", <<<<"trailer", << >>>>>>>>
EndDocumentCut == IF to_void THEN divertion ELSE Append(divertion, Trailer)

EndDocument == Append(divertion, Trailer)

SendAlone ==
  /\ phase = "end" /\ Alone
  /\ queue' = <<<<"dump", Delegation>>, <<"unlink", Delegation>>>>
  /\ Go("output")
  /\ UNCHANGED <<request, temps, work, stream, backup_name, process, disk>>
SendAll ==
  /\ phase = "end" /\ ~Alone /\ ~NothingToSend
  /\ queue' = EndDocument
  /\ to_void' = FALSE
  /\ Go("output")
  /\ UNCHANGED <<request, temps, jobs, native, delegated, divertion, stream, backup_name, process, disk>>
SendNothing ==
  /\ phase = "end" /\ NothingToSend
  /\ job' = FALSE /\ result' = "nothing" /\ phase' = "exiting"
  /\ UNCHANGED <<request, temps, work, output, handlers, caught, disk>>

-----------------------------------------------------------------------------
(* a2ps_open_output_stream and fopen_backup.  A regular file that may be   *)
(* written is renamed first, when backups are asked for.                   *)
OpenStream ==
  /\ phase = "output" /\ request.to \in {"stdout", "pipe"}
  /\ \/ Go("dump") /\ UNCHANGED process
     \/ request.to = "pipe" /\ Exit("failed")
  /\ UNCHANGED <<request, temps, work, output, disk>>

Numbered == {n \in Numbers : Backup(n) \in DOMAIN disk}
BackupLast == Backup(IF Numbered = {} THEN 1 ELSE CHOOSE n \in Numbered : \A k \in Numbered : k <= n)

BackupNext == Backup(CHOOSE n \in Numbers : n \notin Numbered /\ \A k \in Numbered : k < n)

BackupName ==
  IF request.backup = "numbered" \/ (request.backup = "existing" /\ Numbered # {}) THEN BackupNext ELSE Backup(0)
BackupWanted == request.backup # "none" /\ Out \in DOMAIN disk
Renamed(from, to) == IF from \in DOMAIN disk THEN Put(Without(disk, {from}), to, disk[from]) ELSE disk

MakeBackup ==
  /\ phase = "output" /\ request.to = "file"
  /\ \/ BackupWanted /\ disk' = Renamed(Out, BackupName) /\ backup_name' = BackupName /\ Go("create") /\ UNCHANGED process
     \/ ~BackupWanted /\ Go("create") /\ UNCHANGED <<disk, backup_name, process>>
     \/ BackupWanted /\ Exit("failed") /\ UNCHANGED <<disk, backup_name>>
  /\ UNCHANGED <<request, temps, work, queue, stream>>

(* When the file cannot be created, the rename that should bring the old   *)
(* one back has the arguments of the first.                                *)
Create ==
  /\ phase = "create"
  /\ \/ disk' = Put(disk, Out, << >>) /\ Go("dump") /\ UNCHANGED process
     \/ disk' = (IF backup_name # NULL THEN Renamed(Out, backup_name) ELSE disk) /\ Exit("not created")
  /\ UNCHANGED <<request, temps, work, output>>

-----------------------------------------------------------------------------
(* output_dump: the text and the delayed routines, in order.               *)
NextQueued == Head(queue)
Send(pieces) ==
  IF request.to = "file" THEN disk' = [disk EXCEPT ![Out] = @ \o pieces] /\ UNCHANGED stream
  ELSE stream' = stream \o pieces /\ UNCHANGED disk
Dumping(kind) == phase = "dump" /\ queue # << >> /\ NextQueued[1] = kind
Sent == queue' = Tail(queue) /\ UNCHANGED <<request, phase, temps, work, backup_name, process>>

DumpText == Dumping("text") /\ Send(<<NextQueued>>) /\ Sent
StreamDump == Dumping("dump") /\ NextQueued[2] \in DOMAIN disk /\ Send(disk[NextQueued[2]]) /\ Sent
StreamDumpFails ==
  /\ Dumping("dump")
  /\ Exit("failed") /\ UNCHANGED <<request, temps, work, output, disk>>
Unlink2 == Dumping("unlink") /\ disk' = Without(disk, {NextQueued[2]}) /\ UNCHANGED stream /\ Sent

(* spy_user: what is reported goes through the first temporary file of the *)
(* job, which is removed at once.                                          *)
SpyName == Dumping("spy") /\ Ensure(MacroSlot, "spy") /\ UNCHANGED <<request, work, output, process>>
SpyUser ==
  /\ phase = "spy"
  /\ \/ /\ disk' = Without(IF request.to = "file" THEN [disk EXCEPT ![Out] = Append(@, <<"spy", << >>>>)] ELSE disk, {names[MacroSlot]})
        /\ stream' = IF request.to = "file" THEN stream ELSE Append(stream, <<"spy", << >>>>)
        /\ queue' = Tail(queue) /\ Go("dump")
        /\ UNCHANGED process
     \/ Exit("failed") /\ UNCHANGED <<disk, stream, queue>>
  /\ UNCHANGED <<request, temps, work, backup_name>>

Close ==
  /\ phase = "dump" /\ queue = << >>
  /\ job' = FALSE /\ result' = "sent" /\ phase' = "exiting"
  /\ UNCHANGED <<request, temps, work, output, handlers, caught, disk>>

-----------------------------------------------------------------------------
(* exit runs the handlers, the last registered first.  A signal meanwhile  *)
(* gives up the one that runs: exit goes on with the others.               *)
Held == {names[s] : s \in DOMAIN names \ {SampleSlot}}
ExitHandler ==
  /\ phase = "exiting" /\ handlers # << >> /\ Last(handlers) = "exit_handler"
  /\ disk' = Without(disk, (IF job THEN Held ELSE {}) \cup {NameOf(SampleSlot)})
  /\ handlers' = Front(handlers)
  /\ UNCHANGED <<request, phase, temps, work, output, job, result, caught>>
StartCleanup ==
  /\ phase = "exiting" /\ handlers # << >> /\ Last(handlers) = "cleanup_tempfiles"
  /\ handlers' = Front(handlers) /\ phase' = "cleaning"
  /\ UNCHANGED <<request, temps, work, output, job, result, caught, disk>>
CleanedButFirst == Len(tempfiles) <= 1

Cleaned == tempfiles = << >>

CleanupTempfiles ==
  /\ phase = "cleaning"
  /\ IF Cleaned THEN Go("exiting") /\ UNCHANGED <<tempfiles, disk>>
     ELSE tempfiles' = Front(tempfiles) /\ disk' = Without(disk, {Last(tempfiles)}) /\ UNCHANGED phase
  /\ UNCHANGED <<request, made, names, work, output, process>>
Exited ==
  /\ phase = "exiting" /\ handlers = << >>
  /\ Go("exited")
  /\ UNCHANGED <<request, temps, work, output, process, disk>>

(* signal_handler: error, hence exit.  SIGPIPE is caught like the others.  *)
Signal ==
  /\ phase # "exited" /\ Cardinality(caught) < MaxSignals
  /\ caught' = caught \cup {phase}
  /\ phase' = "exiting"
  /\ result' = IF result = "running" THEN "signal" ELSE result
  /\ UNCHANGED <<request, temps, work, output, handlers, job, disk>>

Stopped == phase = "exited" /\ UNCHANGED vars

Next ==
  \/ Record \/ NextFile \/ SampleName \/ SampleGet \/ InputType
  \/ PrintNative \/ Ignore \/ PrintDelegated \/ StdinName \/ BufferSave \/ Command \/ ResultName \/ Popen \/ Subcontract
  \/ PrintToc \/ EndFiles \/ SendAlone \/ SendAll \/ SendNothing
  \/ OpenStream \/ MakeBackup \/ Create
  \/ DumpText \/ StreamDump \/ StreamDumpFails \/ Unlink2 \/ SpyName \/ SpyUser \/ Close
  \/ ExitHandler \/ StartCleanup \/ CleanupTempfiles \/ Exited \/ Signal \/ Stopped

Spec == Init /\ [][Next]_vars
-----------------------------------------------------------------------------
(* Properties.                                                             *)

Temporary == {f \in DOMAIN disk : f[1] = "temp"}
Old(f) == f \in DOMAIN disk /\ disk[f] = Original(f)

(* Whatever safe_tempnam has made is recorded, but for the one being made, *)
(* and as soon as one is recorded its removal is registered.               *)
SessionTypeOK ==
  /\ phase \notin {"exiting", "cleaning", "exited"} =>
       /\ Temporary \subseteq Range(tempfiles) \cup (IF made = NULL THEN {} ELSE {made.file})
       /\ tempfiles # << >> <=> "cleanup_tempfiles" \in Range(handlers)
  /\ {names[s] : s \in DOMAIN names} \cap {NULL} = {}
  /\ queue # << >> => native + delegated > 0

(* No temporary file is left behind, whatever ended the run, but for a     *)
(* signal in the middle of safe_tempnam, or during the removal itself when *)
(* the job is already given up.                                            *)
TempFilesRemoved ==
  phase = "exited" /\ "record" \notin caught /\ ~("cleaning" \in caught /\ ~job) => Temporary = {}

(* When the diversion is sent, the result of each delegation is still      *)
(* there, and it is the one of the file that it was put in the place of.   *)
DumpsReadable ==
  \A i \in DOMAIN queue : phase = "dump" /\ queue[i][1] = "dump" =>
    /\ queue[i][2] \in DOMAIN disk
    /\ \E k \in DOMAIN jobs : /\ NameOf(ResultSlot(k)) = queue[i][2]
                              /\ (jobs[k].fate = "result" => disk[queue[i][2]] = <<<<"result", jobs[k].read>>>>)

(* With backups, the file that the output replaces is under some name at   *)
(* any moment, and no numbered backup is lost.                             *)
OldOutputKept ==
  /\ request.backup # "none" /\ Out \in request.present => \E f \in DOMAIN disk : disk[f] = Original(Out)
  /\ \A n \in Numbers : Backup(n) \in request.present => Old(Backup(n))

(* The previous output is untouched as long as there are files to read,    *)
(* and when nothing is printed; what is read of it is what it was.         *)
UntouchedBefore ==
  /\ native + delegated = 0 \/ phase \in {"next", "sample", "type", "print", "command", "popen", "read", "end"}
       => (Out \in request.present => Old(Out))
  /\ \A i \in DOMAIN jobs : jobs[i].name = "out" /\ jobs[i].read # << >> => jobs[i].read = Original(Out)

(* The old output is safe: as long as nothing is to be sent under its own  *)
(* name, afterwards under that of its backup.                              *)
OldOutputSafe == OldOutputKept /\ UntouchedBefore

(* What is sent is what each file gave, in the order of the command line,  *)
(* then the trailer; or the only result, when a2ps only delegated.         *)
Received == IF request.to = "file" THEN disk[Out] ELSE stream
Given(fates) ==
  FlattenSeq([i \in DOMAIN jobs |-> IF jobs[i].fate \in fates THEN <<<<jobs[i].fate, jobs[i].read>>>> ELSE << >>])
NoneFailed == \A i \in DOMAIN jobs : jobs[i].fate # "failed"
DocumentComplete ==
  result = "sent" =>
    IF Alone THEN NoneFailed => Received = Given({"result"})
    ELSE Received = (IF request.debug THEN <<<<"spy", << >>>>>> ELSE << >>) \o Given({"text", "result"}) \o <<Trailer>>

(* The whole document is sent, the results of the delegations included.    *)
DocumentWhole == DocumentComplete /\ DumpsReadable

(* "'delegation_tmpname' is necessary not null else it is a failed job and *)
(* we ignore it" (src/main.c:1161): the file that is sent alone is that of *)
(* a delegation that succeeded.                                            *)
FailedIgnored == result = "sent" /\ Alone => Received = Given({"result"})

(* "restored file" (liba2ps/xbackupfile.c:178): when the output cannot be  *)
(* created, the file that was there has its name again.                    *)
Restored == result = "not created" /\ Out \in request.present => Old(Out)
=============================================================================
