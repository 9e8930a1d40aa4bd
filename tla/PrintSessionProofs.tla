------------------------- MODULE PrintSessionProofs -------------------------
(***************************************************************************)
(* Proofs about PrintSession: whatever is asked for, whatever fails, and   *)
(* wherever signals arrive, temporary files are removed, the file that the *)
(* output replaces is safe, and what is sent is the whole document.        *)
(***************************************************************************)
EXTENDS PrintSession, SequenceTheorems, NaturalsInduction, WellFoundedInduction, TLAPS

(* The program works: exit was not called.                                 *)
Active == phase \notin {"exiting", "cleaning", "exited"}

(* The output is opened, or was.                                           *)
Sending == phase \in {"output", "create", "dump", "spy"} \/ (phase = "record" /\ made.next = "spy")
Reading == Active /\ ~Sending

MadeFile == IF made = NULL THEN {} ELSE {made.file}
Named    == {names[s] : s \in DOMAIN names}
IsSeq(s) == \E S : s \in Seq(S)

(* A step of a delayed routine is about a temporary file.                  *)
Entry(e) == e[1] \in {"dump", "unlink"} => e[2] \in Temps

IsJob(j) == j = [name |-> j.name, type |-> j.type, fate |-> j.fate, read |-> j.read]

AreJobs(s) == IsSeq(s) /\ \A i \in DOMAIN s : IsJob(s[i])

TypeInv ==
  /\ request \in Requests
  /\ made \in Made \cup {NULL}
  /\ tempfiles \in Seq(Temps)
  /\ \A s \in DOMAIN names : names[s] \in Temps
  /\ handlers \in {<< >>, <<"exit_handler">>, <<"exit_handler", "cleanup_tempfiles">>}
  /\ AreJobs(jobs) /\ native \in Nat /\ delegated \in Nat
  /\ IsSeq(divertion) /\ \A i \in DOMAIN divertion : Entry(divertion[i])
  /\ IsSeq(queue) /\ \A i \in DOMAIN queue : Entry(queue[i])
  /\ job \in BOOLEAN

(* Where the program goes on when a variable has got its name.             *)
NamedFor(next, slot) ==
  \/ next = "sample it" /\ slot = SampleSlot
  \/ next = "save" /\ slot = StdinSlot(Current)
  \/ next = "popen" /\ slot = ResultSlot(Current)
  \/ next \in {"result", "spy"} /\ slot = MacroSlot

(* A step that uses the name of a file comes after one that has given it.  *)
NameInv ==
  /\ phase = "sample it" => SampleSlot \in DOMAIN names
  /\ phase = "save" => StdinSlot(Current) \in DOMAIN names
  /\ phase \in {"popen", "read"} => ResultSlot(Current) \in DOMAIN names
  /\ phase = "spy" => MacroSlot \in DOMAIN names
  /\ phase = "record" =>
       made # NULL /\ made.slot \notin DOMAIN names /\ NamedFor(made.next, made.slot)
  /\ Active /\ phase # "next" => Current >= 1
  /\ delegated > 0 => \E i \in 1 .. Current : ResultSlot(i) \in DOMAIN names
  /\ Active => Named \subseteq Range(tempfiles)
  /\ made # NULL => phase = "record" \/ "record" \in caught
  /\ caught # {} => ~Active

(* The handlers, and the files that are left for each of them to remove.   *)
TempInv ==
  /\ Active => handlers = IF tempfiles = << >> THEN <<"exit_handler">>
                          ELSE <<"exit_handler", "cleanup_tempfiles">>
  /\ phase = "cleaning" => handlers = <<"exit_handler">>
  /\ phase = "exited" => handlers = << >>
  /\ Temporary \subseteq Named \cup MadeFile
  /\ Active \/ phase = "cleaning" \/ Len(handlers) = 2 => Temporary \subseteq Range(tempfiles) \cup MadeFile
  /\ phase = "exiting" /\ Len(handlers) = 1 => Temporary \subseteq MadeFile \/ "cleaning" \in caught
  /\ handlers = << >> => Temporary \subseteq MadeFile \/ ("cleaning" \in caught /\ ~job)

(* Where the file that the output replaces is.                             *)
Saved ==
  /\ backup_name \in {"backup"} \X Nat
  /\ backup_name \in DOMAIN disk /\ disk[backup_name] = Original(Out)

OutInv ==
  /\ Sending \/ queue # << >> => native + delegated > 0
  /\ phase = "spy" \/ (phase = "record" /\ made.next = "spy") => queue # << >>
  /\ Reading \/ phase = "output" =>
       /\ backup_name = NULL
       /\ Out \in request.present => Old(Out)
       /\ \A f \in DOMAIN disk : f \in request.present \/ f[1] = "temp"
  /\ native + delegated = 0 /\ Out \in request.present => Old(Out)
  /\ \A n \in Numbers : Backup(n) \in request.present => Old(Backup(n))
  /\ phase = "create" => request.to = "file" /\ (backup_name # NULL => Out \notin DOMAIN disk)
  /\ Out \in request.present /\ request.backup # "none" =>
       /\ Old(Out) \/ Saved
       /\ Sending /\ phase # "output" /\ request.to = "file" => Saved
  /\ \A i \in DOMAIN jobs : jobs[i].name = "out" /\ jobs[i].read # << >> => jobs[i].read = Original(Out)

SessionInv == TypeInv /\ NameInv /\ TempInv /\ OutInv
-----------------------------------------------------------------------------
(* Sequences of anything.                                                  *)
LEMMA SeqFacts ==
  ASSUME NEW s, IsSeq(s)
  PROVE  /\ Len(s) \in Nat /\ DOMAIN s = 1 .. Len(s) /\ (s = << >> <=> Len(s) = 0)
         /\ \A e : /\ IsSeq(Append(s, e)) /\ DOMAIN Append(s, e) = 1 .. Len(s) + 1
                   /\ Len(Append(s, e)) = Len(s) + 1
                   /\ \A i \in 1 .. Len(s) : Append(s, e)[i] = s[i]
                   /\ Append(s, e)[Len(s) + 1] = e
         /\ s # << >> => /\ IsSeq(Tail(s)) /\ DOMAIN Tail(s) = 1 .. Len(s) - 1
                         /\ \A i \in 1 .. Len(s) - 1 : Tail(s)[i] = s[i + 1]
<1>1. PICK S : s \in Seq(S)
  BY DEF IsSeq
<1>2. Len(s) \in Nat /\ DOMAIN s = 1 .. Len(s) /\ (s = << >> <=> Len(s) = 0)
  BY <1>1
<1>3. ASSUME NEW e
      PROVE  /\ IsSeq(Append(s, e)) /\ DOMAIN Append(s, e) = 1 .. Len(s) + 1
             /\ Len(Append(s, e)) = Len(s) + 1
             /\ \A i \in 1 .. Len(s) : Append(s, e)[i] = s[i]
             /\ Append(s, e)[Len(s) + 1] = e
  <2>1. s \in Seq(S \cup {e}) /\ e \in S \cup {e}
    BY <1>1
  <2>2. Append(s, e) \in Seq(S \cup {e})
    BY <2>1
  <2>3. QED
    BY <1>2, <2>1, <2>2 DEF IsSeq
<1>4. ASSUME s # << >>
      PROVE  /\ IsSeq(Tail(s)) /\ DOMAIN Tail(s) = 1 .. Len(s) - 1
             /\ \A i \in 1 .. Len(s) - 1 : Tail(s)[i] = s[i + 1]
  <2>1. Tail(s) \in Seq(S) /\ Len(Tail(s)) = Len(s) - 1
    BY <1>1, <1>4
  <2>2. QED
    BY <1>1, <1>2, <1>4, <2>1 DEF IsSeq
<1>5. QED
  BY <1>2, <1>3, <1>4

(* The current file is filled in, or a file is added.                      *)
LEMMA JobSet ==
  ASSUME NEW s, AreJobs(s), NEW n, NEW r, IsJob(r), NEW u, u = [s EXCEPT ![n] = r]
  PROVE  /\ AreJobs(u) /\ Len(u) = Len(s) /\ DOMAIN u = DOMAIN s
         /\ \A i \in DOMAIN s : u[i] = IF i = n THEN r ELSE s[i]
<1>1. PICK S : s \in Seq(S)
  BY DEF AreJobs, IsSeq
<1>2. u \in Seq(S \cup {r}) /\ Len(u) = Len(s) /\ DOMAIN u = DOMAIN s
  <2>1. s \in [1 .. Len(s) -> S] /\ Len(s) \in Nat
    BY <1>1
  <2>2. u \in [1 .. Len(s) -> S \cup {r}]
    BY <2>1
  <2>3. u \in Seq(S \cup {r}) /\ Len(u) = Len(s)
    BY <2>1, <2>2
  <2>4. QED
    BY <2>1, <2>2, <2>3
<1>3. \A i \in DOMAIN s : u[i] = IF i = n THEN r ELSE s[i]
  BY <1>1
<1>4. QED
  BY <1>2, <1>3 DEF AreJobs, IsSeq

LEMMA FateSet ==
  ASSUME AreJobs(jobs), NEW fate, SetFate(fate)
  PROVE  /\ AreJobs(jobs') /\ Len(jobs') = Len(jobs) /\ DOMAIN jobs' = DOMAIN jobs
         /\ \A i \in DOMAIN jobs :
              /\ jobs'[i].name = jobs[i].name /\ jobs'[i].read = jobs[i].read
              /\ jobs'[i].fate = IF i = Current THEN fate ELSE jobs[i].fate
<1> DEFINE j == jobs[Current]
           r == [name |-> j.name, type |-> j.type, fate |-> fate, read |-> j.read]
           n == Current
<1>1. CASE n \in DOMAIN jobs
  <2>1. j = [name |-> j.name, type |-> j.type, fate |-> j.fate, read |-> j.read]
    BY <1>1 DEF AreJobs, IsJob
  <2>2. [j EXCEPT !.fate = fate] = r
    BY <2>1
  <2>3. jobs' = [jobs EXCEPT ![n] = r]
    BY <2>2 DEF SetFate
  <2>4. IsJob(r)
    BY DEF IsJob
  <2>5. r.name = j.name /\ r.read = j.read /\ r.fate = fate
    OBVIOUS
  <2> HIDE DEF r, n
  <2>6. /\ AreJobs(jobs') /\ Len(jobs') = Len(jobs) /\ DOMAIN jobs' = DOMAIN jobs
        /\ \A i \in DOMAIN jobs : jobs'[i] = IF i = n THEN r ELSE jobs[i]
    BY <2>3, <2>4, JobSet
  <2>7. QED
    BY <2>5, <2>6 DEF n
<1>2. CASE n \notin DOMAIN jobs
  <2>1. jobs' = jobs
    <3>1. PICK S : jobs \in Seq(S)
      BY DEF AreJobs, IsSeq
    <3>2. QED
      BY <1>2, <3>1 DEF SetFate
  <2>2. QED
    BY <1>2, <2>1
<1>3. QED
  BY <1>1, <1>2

LEMMA TypeSet ==
  ASSUME AreJobs(jobs), NEW type, NEW read,
         jobs' = [jobs EXCEPT ![Current].type = type, ![Current].read = read]
  PROVE  /\ AreJobs(jobs') /\ Len(jobs') = Len(jobs) /\ DOMAIN jobs' = DOMAIN jobs
         /\ \A i \in DOMAIN jobs :
              /\ jobs'[i].name = jobs[i].name /\ jobs'[i].fate = jobs[i].fate
              /\ jobs'[i].read = IF i = Current THEN read ELSE jobs[i].read
<1> DEFINE j == jobs[Current]
           r == [name |-> j.name, type |-> type, fate |-> j.fate, read |-> read]
           n == Current
<1>1. CASE n \in DOMAIN jobs
  <2>1. j = [name |-> j.name, type |-> j.type, fate |-> j.fate, read |-> j.read]
    BY <1>1 DEF AreJobs, IsJob
  <2>2. [[j EXCEPT !.type = type] EXCEPT !.read = read] = r
    <3> HIDE DEF j
    <3> DEFINE q == [j EXCEPT !.type = type]
    <3>1. q = [name |-> j.name, type |-> type, fate |-> j.fate, read |-> j.read]
      BY <2>1
    <3> HIDE DEF q
    <3>2. [q EXCEPT !.read = read] = r
      BY <3>1
    <3>3. QED
      BY <3>2 DEF q
  <2>3. jobs' = [jobs EXCEPT ![n] = r]
    <3>1. PICK S : jobs \in Seq(S)
      BY DEF AreJobs, IsSeq
    <3> DEFINE u == [jobs EXCEPT ![n] = [j EXCEPT !.type = type]]
    <3>2. jobs' = [u EXCEPT ![n] = [u[n] EXCEPT !.read = read]]
      OBVIOUS
    <3>3. u[n] = [j EXCEPT !.type = type]
      BY <1>1, <3>1
    <3> HIDE DEF r, j, n
    <3>4. QED
      BY <2>2, <3>1, <3>2, <3>3
  <2>4. IsJob(r)
    BY DEF IsJob
  <2>5. r.name = j.name /\ r.read = read /\ r.fate = j.fate
    OBVIOUS
  <2> HIDE DEF r, n
  <2>6. /\ AreJobs(jobs') /\ Len(jobs') = Len(jobs) /\ DOMAIN jobs' = DOMAIN jobs
        /\ \A i \in DOMAIN jobs : jobs'[i] = IF i = n THEN r ELSE jobs[i]
    BY <2>3, <2>4, JobSet
  <2>7. QED
    BY <2>5, <2>6 DEF n
<1>2. CASE n \notin DOMAIN jobs
  <2>1. jobs' = jobs
    <3>1. PICK S : jobs \in Seq(S)
      BY DEF AreJobs, IsSeq
    <3>2. QED
      BY <1>2, <3>1
  <2>2. QED
    BY <1>2, <2>1
<1>3. QED
  BY <1>1, <1>2

LEMMA JobAdded ==
  ASSUME NEW s, AreJobs(s), NEW r, IsJob(r), NEW u, u = Append(s, r)
  PROVE  /\ AreJobs(u) /\ Len(u) = Len(s) + 1 /\ DOMAIN u = 1 .. Len(s) + 1
         /\ DOMAIN s = 1 .. Len(s)
         /\ \A i \in DOMAIN s : u[i] = s[i]
         /\ u[Len(s) + 1] = r
<1>1. IsSeq(s)
  BY DEF AreJobs
<1>2. /\ IsSeq(u) /\ Len(u) = Len(s) + 1 /\ DOMAIN u = 1 .. Len(s) + 1
      /\ DOMAIN s = 1 .. Len(s) /\ Len(s) \in Nat
      /\ \A i \in DOMAIN s : u[i] = s[i]
      /\ u[Len(s) + 1] = r
  BY <1>1, SeqFacts
<1>3. \A i \in DOMAIN u : i \in DOMAIN s \/ i = Len(s) + 1
  BY <1>2
<1>4. QED
  BY <1>2, <1>3 DEF AreJobs
-----------------------------------------------------------------------------
LEMMA InitSession ==
  ASSUME Init
  PROVE  SessionInv
<1>1. /\ request \in Requests
      /\ phase = "next" /\ made = NULL /\ tempfiles = << >> /\ DOMAIN names = {}
      /\ handlers = <<"exit_handler">>
      /\ jobs = << >> /\ native = 0 /\ delegated = 0
      /\ divertion = IF request.debug THEN <<<<"spy", << >>>>>> ELSE << >>
      /\ queue = << >> /\ backup_name = NULL
      /\ disk = [f \in request.present |-> Original(f)]
      /\ job = TRUE /\ caught = {}
  BY DEF Init
<1>2. TypeInv
  <2>1. IsSeq(divertion) /\ \A i \in DOMAIN divertion : Entry(divertion[i])
    <3>1. IsSeq(<< >>) /\ IsSeq(<<<<"spy", << >>>>>>)
      <4>1. << >> \in Seq({0}) /\ <<<<"spy", << >>>>>> \in Seq({<<"spy", << >>>>})
        OBVIOUS
      <4>2. QED
        BY <4>1 DEF IsSeq
    <3>2. \A i \in DOMAIN <<<<"spy", << >>>>>> : <<<<"spy", << >>>>>>[i] = <<"spy", << >>>>
      OBVIOUS
    <3>3. Entry(<<"spy", << >>>>)
      BY DEF Entry
    <3>4. QED
      BY <1>1, <3>1, <3>2, <3>3
  <2>2. IsSeq(<< >>)
    <3>1. << >> \in Seq({0})
      OBVIOUS
    <3>2. QED
      BY <3>1 DEF IsSeq
  <2>3. QED
    BY <1>1, <2>1, <2>2 DEF TypeInv, AreJobs
<1>3. NameInv
  BY <1>1 DEF NameInv, Active, Named
<1>4. \A f \in DOMAIN disk : f \in request.present /\ f[1] # "temp" /\ disk[f] = Original(f)
  BY <1>1, SessionAssumption
<1>5. TempInv
  BY <1>1, <1>4 DEF TempInv, Active, Temporary
<1>6. OutInv
  BY <1>1, <1>4 DEF OutInv, Sending, Reading, Active, Old
<1>7. QED
  BY <1>2, <1>3, <1>5, <1>6 DEF SessionInv
-----------------------------------------------------------------------------
(* tempname_ensure gives a file to a variable that has none.               *)
LEMMA EnsureFacts ==
  ASSUME SessionInv, NEW slot \in Slots, NEW next \in Nexts, Ensure(slot, next)
  PROVE  /\ tempfiles' = tempfiles /\ names' = names
         /\ \/ /\ slot \in DOMAIN names /\ phase' = next /\ made' = made /\ disk' = disk
            \/ /\ slot \notin DOMAIN names /\ phase' = "record" /\ made' \in Made
               /\ made'.slot = slot /\ made'.next = next
               /\ DOMAIN disk' = DOMAIN disk \cup {made'.file}
               /\ \A f \in DOMAIN disk : f # made'.file => disk'[f] = disk[f]
<1> DEFINE file == <<"temp", Len(tempfiles) + 1>>
<1>1. tempfiles' = tempfiles /\ names' = names
  BY DEF Ensure
<1>2. file \in Temps
  BY DEF SessionInv, TypeInv, Temps
<1>3. NameOf(slot) # NULL <=> slot \in DOMAIN names
  BY SessionAssumption DEF SessionInv, TypeInv, NameOf
<1>4. CASE slot \in DOMAIN names
  BY <1>1, <1>3, <1>4 DEF Ensure, Go
<1>5. CASE slot \notin DOMAIN names
  <2>1. /\ made' = [file |-> file, slot |-> slot, next |-> next]
        /\ disk' = Put(disk, file, << >>) /\ phase' = "record"
    BY <1>3, <1>5 DEF Ensure, Go
  <2>2. /\ made' \in Made /\ made'.file = file /\ made'.slot = slot /\ made'.next = next
    BY <1>2, <2>1 DEF Made
  <2> HIDE DEF file
  <2>3. DOMAIN disk' = DOMAIN disk \cup {file} /\ \A f \in DOMAIN disk : f # file => disk'[f] = disk[f]
    BY <2>1 DEF Put
  <2>4. QED
    BY <1>1, <1>5, <2>1, <2>2, <2>3
<1>6. QED
  BY <1>4, <1>5

(* The steps that need a temporary file.                                   *)
Naming(slot, next) == Active /\ phase # "record" /\ Ensure(slot, next)

LEMMA Namings ==
  ASSUME SessionInv
  PROVE  /\ SampleName => Naming(SampleSlot, "sample it") /\ phase = "sample"
         /\ StdinName => Naming(StdinSlot(Current), "save") /\ phase = "stdin"
         /\ Command /\ request.macro => Naming(MacroSlot, "result") /\ phase = "command"
         /\ ResultName => Naming(ResultSlot(Current), "popen") /\ phase = "result"
         /\ SpyName => Naming(MacroSlot, "spy") /\ phase = "dump" /\ queue # << >>
         /\ {SampleSlot, MacroSlot, StdinSlot(Current), ResultSlot(Current)} \subseteq Slots
<1>1. Current \in Nat
  BY SeqFacts DEF SessionInv, TypeInv, AreJobs, Current
<1>2. {SampleSlot, MacroSlot, StdinSlot(Current), ResultSlot(Current)} \subseteq Slots
  BY <1>1 DEF Slots, SampleSlot, MacroSlot, StdinSlot, ResultSlot
<1>3. /\ SampleName => Naming(SampleSlot, "sample it") /\ phase = "sample"
      /\ StdinName => Naming(StdinSlot(Current), "save") /\ phase = "stdin"
      /\ ResultName => Naming(ResultSlot(Current), "popen") /\ phase = "result"
  BY DEF SampleName, StdinName, ResultName, Naming, Active
<1>4. Command /\ request.macro => Naming(MacroSlot, "result") /\ phase = "command"
  BY DEF Command, Naming, Active
<1>5. SpyName => Naming(MacroSlot, "spy") /\ phase = "dump" /\ queue # << >>
  BY DEF SpyName, Naming, Dumping, Active
<1>6. QED
  BY <1>2, <1>3, <1>4, <1>5
-----------------------------------------------------------------------------
(* The other steps, but for those of the end, may fill or remove a         *)
(* temporary file, and make none.                                          *)
Quiet ==
  /\ Active /\ phase # "record" /\ (Active' \/ phase' = "exiting") /\ phase' # "record"
  /\ UNCHANGED <<request, made, tempfiles, names, handlers, caught>>
  /\ Temporary' \subseteq Temporary \cup Named

FileSteps ==
  \/ NextFile \/ SampleGet \/ InputType
  \/ PrintNative \/ Ignore \/ PrintDelegated \/ BufferSave \/ (Command /\ ~request.macro) \/ Popen \/ Subcontract
  \/ PrintToc \/ EndFiles

SendSteps ==
  \/ SendAlone \/ SendAll \/ SendNothing \/ OpenStream \/ MakeBackup \/ Create
  \/ DumpText \/ StreamDump \/ StreamDumpFails \/ Unlink2 \/ SpyUser \/ Close

LEMMA DiskFacts ==
  /\ \A f, c : /\ DOMAIN Put(disk, f, c) = DOMAIN disk \cup {f} /\ Put(disk, f, c)[f] = c
               /\ \A g \in DOMAIN disk : g # f => Put(disk, f, c)[g] = disk[g]
  /\ \A F : /\ DOMAIN Without(disk, F) = DOMAIN disk \ F
            /\ \A g \in DOMAIN disk \ F : Without(disk, F)[g] = disk[g]
BY DEF Put, Without

LEMMA QuietDisk ==
  /\ disk' = disk => Temporary' = Temporary
  /\ \A F : disk' = Without(disk, F) => Temporary' \subseteq Temporary
  /\ \A s \in DOMAIN names : \A c : disk' = Put(disk, names[s], c) => Temporary' \subseteq Temporary \cup Named
  /\ \A F : \A s \in DOMAIN names : \A c : disk' = Put(Without(disk, F), names[s], c) => Temporary' \subseteq Temporary \cup Named
BY DEF Put, Without, Temporary, Named

LEMMA FilesQuiet ==
  ASSUME SessionInv, FileSteps
  PROVE  Quiet
<1>1. CASE NextFile
  BY <1>1, QuietDisk DEF NextFile, Quiet, Active, Go, temps, process
<1>2. CASE SampleGet
  <2>1. SampleSlot \in DOMAIN names
    BY <1>2 DEF SampleGet, SessionInv, NameInv
  <2>2. QED
    BY <1>2, <2>1, QuietDisk DEF SampleGet, Write, Exit, Quiet, Active, Go, temps, process
<1>3. CASE InputType
  BY <1>3, QuietDisk DEF InputType, Quiet, Active, Go, temps, process
<1>4. CASE PrintNative
  BY <1>4, QuietDisk DEF PrintNative, Quiet, Active, Go, temps, process
<1>5. CASE Ignore \/ PrintDelegated
  BY <1>5, QuietDisk DEF Ignore, PrintDelegated, Quiet, Active, Go, temps, process
<1>6. CASE BufferSave
  <2>1. StdinSlot(Current) \in DOMAIN names
    BY <1>6 DEF BufferSave, SessionInv, NameInv
  <2>2. QED
    BY <1>6, <2>1, QuietDisk DEF BufferSave, Write, Exit, Quiet, Active, Go, temps, process
<1>7. CASE Command /\ ~request.macro
  BY <1>7, QuietDisk DEF Command, Quiet, Active, Go, temps, process
<1>8. CASE Popen
  BY <1>8, QuietDisk DEF Popen, Quiet, Active, Go, temps, process
<1>9. CASE Subcontract
  <2>1. ResultSlot(Current) \in DOMAIN names
    BY <1>9 DEF Subcontract, SessionInv, NameInv
  <2>2. Temporary' \subseteq Temporary \cup Named
    BY <1>9, <2>1, QuietDisk DEF Subcontract
  <2>3. QED
    BY <1>9, <2>2 DEF Subcontract, Quiet, Active, Go, temps, process
<1>10. CASE PrintToc \/ EndFiles
  BY <1>10, QuietDisk DEF PrintToc, EndFiles, Quiet, Active, Go, temps, process
<1>11. QED
  BY <1>1, <1>2, <1>3, <1>4, <1>5, <1>6, <1>7, <1>8, <1>9, <1>10 DEF FileSteps

(* The output and its backup are not temporary.                            *)
LEMMA OutFacts ==
  /\ Out[1] = "file" /\ \A n : Backup(n)[1] = "backup" /\ Backup(n) # Out
  /\ Renamed(Out, BackupName) = disk \/ Renamed(Out, BackupName) = Put(Without(disk, {Out}), BackupName, disk[Out])
  /\ \E n : BackupName = Backup(n)
<1>1. Out[1] = "file" /\ \A n : Backup(n)[1] = "backup" /\ Backup(n) # Out
  BY DEF Out, File, Backup
<1>2. \E n : BackupName = Backup(n)
  BY DEF BackupName, BackupNext
<1>3. QED
  BY <1>1, <1>2 DEF Renamed

LEMMA SendQuiet ==
  ASSUME SessionInv, SendSteps
  PROVE  Quiet
<1>1. CASE SendAlone \/ SendAll \/ SendNothing
  BY <1>1, QuietDisk DEF SendAlone, SendAll, SendNothing, Quiet, Active, Go, temps, process
<1>2. CASE OpenStream
  BY <1>2, QuietDisk DEF OpenStream, Exit, Quiet, Active, Go, temps, process
<1>3. CASE MakeBackup
  <2>1. Temporary' \subseteq Temporary
    <3>1. PICK n : BackupName = Backup(n)
      BY OutFacts
    <3>2. CASE disk' = disk
      BY <3>2, QuietDisk
    <3>3. CASE disk' = Put(Without(disk, {Out}), BackupName, disk[Out])
      BY <3>1, <3>3, OutFacts DEF Put, Without, Temporary
    <3>4. QED
      BY <1>3, <3>2, <3>3, OutFacts DEF MakeBackup
  <2>2. QED
    BY <1>3, <2>1 DEF MakeBackup, Exit, Quiet, Active, Go, temps, process
<1>4. CASE Create
  <2>1. Temporary' \subseteq Temporary
    <3>1. CASE disk' = Put(disk, Out, << >>)
      BY <3>1, OutFacts DEF Put, Temporary
    <3>2. CASE disk' = disk
      BY <3>2, QuietDisk
    <3>3. CASE disk' = Renamed(Out, backup_name) /\ backup_name # NULL
      <4>1. Out \notin DOMAIN disk
        BY <1>4, <3>3 DEF SessionInv, OutInv, Create
      <4>2. QED
        BY <3>3, <4>1, QuietDisk DEF Renamed
    <3>4. QED
      BY <1>4, <3>1, <3>2, <3>3 DEF Create
  <2>2. QED
    BY <1>4, <2>1 DEF Create, Exit, Quiet, Active, Go, temps, process
<1>5. CASE DumpText \/ StreamDump
  <2>1. Temporary' = Temporary
    BY <1>5, QuietDisk DEF DumpText, StreamDump, Send, Temporary
  <2>2. QED
    BY <1>5, <2>1 DEF DumpText, StreamDump, Dumping, Sent, Quiet, Active, temps, process
<1>6. CASE StreamDumpFails
  BY <1>6, QuietDisk DEF StreamDumpFails, Dumping, Exit, Quiet, Active, temps
<1>7. CASE Unlink2
  BY <1>7, QuietDisk DEF Unlink2, Dumping, Sent, Quiet, Active, temps, process
<1>8. CASE SpyUser
  <2>1. Temporary' \subseteq Temporary
    BY <1>8, QuietDisk DEF SpyUser, Temporary, Without
  <2>2. QED
    BY <1>8, <2>1 DEF SpyUser, Exit, Quiet, Active, Go, temps, process
<1>9. CASE Close
  BY <1>9, QuietDisk DEF Close, Quiet, Active, temps
<1>10. QED
  BY <1>1, <1>2, <1>3, <1>4, <1>5, <1>6, <1>7, <1>8, <1>9 DEF SendSteps

-----------------------------------------------------------------------------
(* Temporary files.                                                        *)
LEMMA HandlersFacts ==
  /\ Len(<< >>) = 0 /\ Len(<<"exit_handler">>) = 1 /\ Len(<<"exit_handler", "cleanup_tempfiles">>) = 2
  /\ Range(<< >>) = {}
  /\ Last(<<"exit_handler">>) = "exit_handler" /\ Last(<<"exit_handler", "cleanup_tempfiles">>) = "cleanup_tempfiles"
  /\ Front(<<"exit_handler">>) = << >> /\ Front(<<"exit_handler", "cleanup_tempfiles">>) = <<"exit_handler">>
  /\ Append(<<"exit_handler">>, "cleanup_tempfiles") = <<"exit_handler", "cleanup_tempfiles">>
<1>1. /\ Len(<< >>) = 0 /\ Len(<<"exit_handler">>) = 1 /\ Len(<<"exit_handler", "cleanup_tempfiles">>) = 2
  OBVIOUS
<1>2. Range(<< >>) = {}
  BY DEF Range
<1>3. Last(<<"exit_handler">>) = "exit_handler" /\ Last(<<"exit_handler", "cleanup_tempfiles">>) = "cleanup_tempfiles"
  BY DEF Last
<1>4. Front(<<"exit_handler">>) = << >> /\ Front(<<"exit_handler", "cleanup_tempfiles">>) = <<"exit_handler">>
  <2>1. Front(<<"exit_handler">>) = << >>
    BY <1>1, SubSeqEmpty DEF Front
  <2> DEFINE s == <<"exit_handler", "cleanup_tempfiles">>
             S == {"exit_handler", "cleanup_tempfiles"}
  <2>2. Front(s) \in Seq(S) /\ Len(Front(s)) = 1 /\ Front(s)[1] = "exit_handler"
    <3>1. s \in Seq(S) /\ Len(s) = 2 /\ s[1] = "exit_handler"
      OBVIOUS
    <3> HIDE DEF s
    <3>2. Front(s) = SubSeq(s, 1, 1)
      BY <3>1 DEF Front
    <3>3. QED
      BY <3>1, <3>2, SubSeqProperties
  <2>3. <<"exit_handler">> \in Seq(S) /\ Len(<<"exit_handler">>) = 1 /\ <<"exit_handler">>[1] = "exit_handler"
    OBVIOUS
  <2> HIDE DEF s
  <2>4. Front(s) = <<"exit_handler">>
    BY <2>2, <2>3, SeqEqual
  <2>5. QED
    BY <2>1, <2>4 DEF s
<1>5. Append(<<"exit_handler">>, "cleanup_tempfiles") = <<"exit_handler", "cleanup_tempfiles">>
  <2> DEFINE S == {"exit_handler", "cleanup_tempfiles"}
             s == <<"exit_handler">>
             t == <<"exit_handler", "cleanup_tempfiles">>
             u == Append(s, "cleanup_tempfiles")
  <2>1. s \in Seq(S) /\ Len(s) = 1 /\ s[1] = "exit_handler"
    OBVIOUS
  <2>2. t \in Seq(S) /\ Len(t) = 2 /\ t[1] = "exit_handler" /\ t[2] = "cleanup_tempfiles"
    OBVIOUS
  <2> HIDE DEF s, t
  <2>3. u \in Seq(S) /\ Len(u) = 2 /\ u[1] = "exit_handler" /\ u[2] = "cleanup_tempfiles"
    <3>1. "cleanup_tempfiles" \in S
      OBVIOUS
    <3> HIDE DEF S, u
    <3>2. u = Append(s, "cleanup_tempfiles")
      BY DEF u
    <3>3. u \in Seq(S) /\ Len(u) = Len(s) + 1 /\ u[Len(s) + 1] = "cleanup_tempfiles" /\ \A i \in 1 .. Len(s) : u[i] = s[i]
      <4> DEFINE e == "cleanup_tempfiles"
      <4>1. s \in Seq(S) /\ e \in S /\ u = Append(s, e)
        BY <2>1, <3>1, <3>2
      <4> HIDE DEF e
      <4>2. u \in Seq(S) /\ Len(u) = Len(s) + 1 /\ u[Len(s) + 1] = e /\ \A i \in 1 .. Len(s) : u[i] = s[i]
        BY <4>1, AppendProperties
      <4>3. QED
        BY <4>2 DEF e
    <3>4. QED
      BY <2>1, <3>3
  <2> HIDE DEF u
  <2>4. \A i \in 1 .. Len(u) : u[i] = t[i]
    <3>1. \A i \in 1 .. 2 : i = 1 \/ i = 2
      OBVIOUS
    <3>2. QED
      BY <2>2, <2>3, <3>1
  <2>5. u = t
    BY <2>2, <2>3, <2>4, SeqEqual
  <2>6. QED
    BY <2>5 DEF s, t, u
<1>6. QED
  BY <1>1, <1>2, <1>3, <1>4, <1>5

(* While the program works, what is temporary was recorded, or is being    *)
(* made.                                                                   *)
LEMMA ActiveFiles ==
  ASSUME SessionInv, Active
  PROVE  /\ Temporary \cup Named \subseteq Range(tempfiles) \cup MadeFile
         /\ Named \subseteq Range(tempfiles)
         /\ handlers # << >>
         /\ handlers = IF tempfiles = << >> THEN <<"exit_handler">> ELSE <<"exit_handler", "cleanup_tempfiles">>
         /\ Len(handlers) = 1 => tempfiles = << >> /\ Range(tempfiles) = {}
<1>1. Named \subseteq Range(tempfiles)
  BY DEF SessionInv, NameInv
<1>2. Temporary \subseteq Range(tempfiles) \cup MadeFile
  BY DEF SessionInv, TempInv
<1>3. handlers = IF tempfiles = << >> THEN <<"exit_handler">> ELSE <<"exit_handler", "cleanup_tempfiles">>
  BY DEF SessionInv, TempInv
<1>4. handlers # << >> /\ (Len(handlers) = 1 => tempfiles = << >>)
  BY <1>3, HandlersFacts
<1>5. QED
  BY <1>1, <1>2, <1>3, <1>4, HandlersFacts

LEMMA QuietKeepsTemp ==
  ASSUME SessionInv, Quiet
  PROVE  TempInv'
<1>1. Active /\ (Active' \/ phase' = "exiting")
  BY DEF Quiet
<1>2. made' = made /\ tempfiles' = tempfiles /\ names' = names /\ handlers' = handlers /\ caught' = caught
  BY DEF Quiet
<1>3. Named' = Named /\ MadeFile' = MadeFile
  BY <1>2 DEF Named, MadeFile
<1>4. Temporary' \subseteq Temporary \cup Named
  BY DEF Quiet
<1>5. phase' # "cleaning" /\ phase' # "exited"
  BY <1>1 DEF Active
<1>6. /\ Temporary \subseteq Named \cup MadeFile
  BY DEF SessionInv, TempInv
<1>7. Temporary' \subseteq Named' \cup MadeFile' /\ Temporary' \subseteq Range(tempfiles') \cup MadeFile'
  BY <1>1, <1>2, <1>3, <1>4, <1>6, ActiveFiles
<1>8. Len(handlers') = 1 => Temporary' \subseteq MadeFile'
  BY <1>1, <1>2, <1>7, ActiveFiles
<1>9. handlers' # << >>
  BY <1>1, <1>2, ActiveFiles
<1>10. Active' => handlers' = IF tempfiles' = << >> THEN <<"exit_handler">> ELSE <<"exit_handler", "cleanup_tempfiles">>
  BY <1>1, <1>2, ActiveFiles
<1>11. QED
  BY <1>5, <1>7, <1>8, <1>9, <1>10 DEF TempInv

LEMMA NamingKeepsTemp ==
  ASSUME SessionInv, NEW slot \in Slots, NEW next \in Nexts,
         Naming(slot, next), UNCHANGED process
  PROVE  TempInv'
<1>1. Active /\ phase # "record" /\ handlers' = handlers /\ caught' = caught
  BY DEF Naming, process
<1>2. made = NULL
  BY <1>1 DEF SessionInv, NameInv
<1>3. /\ tempfiles' = tempfiles /\ names' = names /\ Named' = Named
      /\ Active' /\ phase' \notin {"exiting", "cleaning", "exited"}
      /\ Temporary' \subseteq Temporary \cup MadeFile'
  <2>1. tempfiles' = tempfiles /\ names' = names
    BY EnsureFacts DEF Naming
  <2>2. CASE slot \in DOMAIN names
    <3>1. phase' = next /\ made' = made /\ disk' = disk
      BY <2>2, EnsureFacts DEF Naming
    <3>2. QED
      BY <2>1, <3>1 DEF Nexts, Active, Temporary, Named
  <2>3. CASE slot \notin DOMAIN names
    <3>1. phase' = "record" /\ made' \in Made /\ DOMAIN disk' = DOMAIN disk \cup {made'.file}
      BY <2>3, EnsureFacts DEF Naming
    <3>2. MadeFile' = {made'.file}
      BY <3>1, SessionAssumption DEF MadeFile
    <3>3. QED
      BY <2>1, <3>1, <3>2 DEF Active, Temporary, Named
  <2>4. QED
    BY <2>2, <2>3
<1>4. MadeFile = {}
  BY <1>2 DEF MadeFile
<1>5. Temporary \subseteq Named
  BY <1>4 DEF SessionInv, TempInv
<1>6. Named \subseteq Range(tempfiles)
  BY <1>1, ActiveFiles
<1>7. handlers' = IF tempfiles' = << >> THEN <<"exit_handler">> ELSE <<"exit_handler", "cleanup_tempfiles">>
  BY <1>1, <1>3, ActiveFiles
<1>8. handlers' # << >>
  BY <1>1, ActiveFiles
<1>9. Temporary' \subseteq Named' \cup MadeFile' /\ Temporary' \subseteq Range(tempfiles') \cup MadeFile'
  BY <1>3, <1>5, <1>6
<1>10. QED
  BY <1>3, <1>7, <1>8, <1>9 DEF TempInv

LEMMA AppendRange ==
  \A S : \A s \in Seq(S), e \in S :
    Append(s, e) \in Seq(S) /\ Append(s, e) # << >> /\ Range(Append(s, e)) = Range(s) \cup {e}
<1> SUFFICES ASSUME NEW S, NEW s \in Seq(S), NEW e \in S
             PROVE  Append(s, e) \in Seq(S) /\ Append(s, e) # << >> /\ Range(Append(s, e)) = Range(s) \cup {e}
  OBVIOUS
<1> DEFINE u == Append(s, e)
<1>1. /\ Len(s) \in Nat /\ DOMAIN s = 1 .. Len(s)
      /\ u \in Seq(S) /\ u # << >> /\ DOMAIN u = 1 .. Len(s) + 1
      /\ u[Len(s) + 1] = e /\ \A i \in 1 .. Len(s) : u[i] = s[i]
  OBVIOUS
<1> HIDE DEF u
<1>2. \A i \in DOMAIN u : i \in DOMAIN s \/ i = Len(s) + 1
  BY <1>1
<1>3. DOMAIN s \subseteq DOMAIN u /\ Len(s) + 1 \in DOMAIN u
  BY <1>1
<1>4. Range(u) = Range(s) \cup {e}
  BY <1>1, <1>2, <1>3 DEF Range
<1>5. QED
  BY <1>1, <1>4 DEF u

LEMMA FrontRange ==
  ASSUME NEW S, NEW s \in Seq(S), s # << >>
  PROVE  Front(s) \in Seq(S) /\ Last(s) \in S /\ Range(s) = Range(Front(s)) \cup {Last(s)}
<1>0. Len(s) \in Nat /\ DOMAIN s = 1 .. Len(s) /\ \A i \in 1 .. Len(s) : s[i] \in S
  OBVIOUS
<1> DEFINE n == Len(s)
           u == Front(s)
<1>1. n \in Nat \ {0}
  OBVIOUS
<1>2. u = SubSeq(s, 1, n - 1)
  BY DEF Front
<1>3. u \in Seq(S) /\ Len(u) = n - 1 /\ \A i \in 1 .. n - 1 : u[i] = s[i]
  <2> HIDE DEF n, u
  <2>1. \A i \in 1 .. n - 1 : s[i] \in S
    BY <1>0, <1>1 DEF n
  <2>2. /\ u \in Seq(S) /\ Len(u) = IF 1 <= n - 1 THEN n - 1 ELSE 0
        /\ \A i \in 1 .. n - 1 : u[i] = s[1 + i - 1]
    BY <1>1, <1>2, <2>1, SubSeqProperties
  <2>3. \A i \in 1 .. n - 1 : 1 + i - 1 = i
    BY <1>1
  <2>4. QED
    BY <1>1, <2>2, <2>3
<1>4. DOMAIN u = 1 .. n - 1 /\ DOMAIN s = 1 .. n
  BY <1>0, <1>3
<1>5. \A i \in DOMAIN s : i \in DOMAIN u \/ i = n
  BY <1>1, <1>4
<1>6. DOMAIN u \subseteq DOMAIN s /\ n \in DOMAIN s
  BY <1>1, <1>4
<1>7. Last(s) = s[n]
  BY DEF Last
<1> HIDE DEF n, u
<1>8. Range(s) = Range(u) \cup {Last(s)}
  BY <1>3, <1>4, <1>5, <1>6, <1>7 DEF Range
<1>9. Last(s) \in S
  BY <1>0, <1>6, <1>7, <1>4 DEF n
<1>10. QED
  BY <1>3, <1>8, <1>9 DEF u

LEMMA RecordFacts ==
  ASSUME SessionInv, Record
  PROVE  /\ made \in Made /\ made.file \in Temps
         /\ tempfiles' \in Seq(Temps) /\ tempfiles' # << >> /\ Range(tempfiles') = Range(tempfiles) \cup {made.file}
<1>1. made \in Made
  BY DEF Record, SessionInv, NameInv, TypeInv
<1>2. made.file \in Temps /\ tempfiles \in Seq(Temps)
  BY <1>1 DEF Made, SessionInv, TypeInv
<1>3. tempfiles' = Append(tempfiles, made.file)
  BY DEF Record
<1>4. tempfiles' \in Seq(Temps) /\ tempfiles' # << >> /\ Range(tempfiles') = Range(tempfiles) \cup {made.file}
  BY <1>2, <1>3, AppendRange
<1>5. QED
  BY <1>1, <1>2, <1>4

LEMMA RecordKeepsTemp ==
  ASSUME SessionInv, Record
  PROVE  TempInv'
<1>1. phase = "record" /\ Active /\ made # NULL /\ made \in Made /\ made.slot \notin DOMAIN names
  BY DEF Record, Active, SessionInv, NameInv, TypeInv
<1>3. tempfiles' # << >> /\ Range(tempfiles') = Range(tempfiles) \cup {made.file}
  BY RecordFacts
<1>4. Active' /\ made' = NULL /\ Temporary' = Temporary
  <2>1. made.next \in {"sample it", "save", "popen", "result", "spy"}
    BY <1>1 DEF Made, Nexts
  <2>2. QED
    BY <2>1 DEF Record, Go, Active, Temporary
<1>5. Named' = Named \cup {made.file}
  BY <1>1 DEF Record, Put, Named
<1>6. MadeFile = {made.file} /\ MadeFile' = {}
  BY <1>1, <1>4 DEF MadeFile
<1>7. Temporary' \subseteq Named' /\ Temporary' \subseteq Range(tempfiles')
  BY <1>1, <1>3, <1>4, <1>5, <1>6, ActiveFiles DEF SessionInv, TempInv
<1>8. handlers' = <<"exit_handler", "cleanup_tempfiles">>
  <2>1. CASE tempfiles = << >>
    <3>1. handlers = <<"exit_handler">>
      BY <1>1, <2>1, ActiveFiles
    <3>2. handlers' = Append(<<"exit_handler">>, "cleanup_tempfiles")
      BY <2>1, <3>1 DEF Record, Registered
    <3>3. QED
      BY <3>2, HandlersFacts
  <2>2. CASE tempfiles # << >>
    BY <1>1, <2>2, ActiveFiles DEF Record, Registered
  <2>3. QED
    BY <2>1, <2>2
<1>9. phase' \notin {"exiting", "cleaning", "exited"}
  BY <1>4 DEF Active
<1>10. QED
  BY <1>3, <1>4, <1>7, <1>8, <1>9, HandlersFacts DEF TempInv

EndSteps == ExitHandler \/ StartCleanup \/ CleanupTempfiles \/ Exited \/ Signal \/ Stopped \/ UNCHANGED vars

(* Each handler removes what is left to it, unless a signal interrupts the *)
(* first one: then the second removes what still has a name.               *)
LEMMA EndKeepsTemp ==
  ASSUME SessionInv, EndSteps
  PROVE  TempInv'
<1>1. TempInv /\ handlers \in {<< >>, <<"exit_handler">>, <<"exit_handler", "cleanup_tempfiles">>} /\ tempfiles \in Seq(Temps)
  BY DEF SessionInv, TypeInv
<1>2. CASE ExitHandler
  <2>1. phase = "exiting" /\ phase' = "exiting" /\ handlers = <<"exit_handler">> /\ handlers' = << >>
    BY <1>1, <1>2, HandlersFacts DEF ExitHandler
  <2>2. made' = made /\ tempfiles' = tempfiles /\ names' = names /\ job' = job /\ caught' = caught
    BY <1>2 DEF ExitHandler, temps
  <2>3. Named' = Named /\ MadeFile' = MadeFile
    BY <2>2 DEF Named, MadeFile
  <2>4. Temporary' \subseteq Temporary /\ (job => Temporary' \cap Named = {})
    <3>1. disk' = Without(disk, (IF job THEN Held ELSE {}) \cup {NameOf(SampleSlot)})
      BY <1>2 DEF ExitHandler
    <3>2. Named \subseteq Held \cup {NameOf(SampleSlot)}
      BY DEF Named, Held, NameOf
    <3>3. Temporary' \subseteq Temporary
      BY <3>1, QuietDisk
    <3>4. job => DOMAIN disk' \cap Named = {}
      BY <3>1, <3>2 DEF Without
    <3>5. QED
      BY <3>3, <3>4 DEF Temporary
  <2>5. Temporary' \subseteq Named \cup MadeFile
    BY <1>1, <2>4 DEF TempInv
  <2>6. Temporary' \subseteq MadeFile \/ ("cleaning" \in caught /\ ~job)
    BY <1>1, <2>1, <2>4, <2>5, HandlersFacts DEF TempInv
  <2>7. QED
    BY <2>1, <2>2, <2>3, <2>5, <2>6, HandlersFacts DEF TempInv, Active
<1>3. CASE StartCleanup
  <2>1. /\ phase = "exiting" /\ phase' = "cleaning"
        /\ handlers = <<"exit_handler", "cleanup_tempfiles">> /\ handlers' = <<"exit_handler">>
    BY <1>1, <1>3, HandlersFacts DEF StartCleanup
  <2>2. tempfiles' = tempfiles /\ Named' = Named /\ MadeFile' = MadeFile /\ Temporary' = Temporary
    BY <1>3 DEF StartCleanup, temps, Named, MadeFile, Temporary
  <2>3. QED
    BY <1>1, <2>1, <2>2, HandlersFacts DEF TempInv, Active
<1>4. CASE CleanupTempfiles
  <2>1. phase = "cleaning" /\ phase' \in {"cleaning", "exiting"} /\ handlers = <<"exit_handler">> /\ handlers' = handlers
    BY <1>1, <1>4 DEF CleanupTempfiles, Go, TempInv, process
  <2>2. Named' = Named /\ MadeFile' = MadeFile
    BY <1>4 DEF CleanupTempfiles, Named, MadeFile
  <2>3. Temporary \subseteq Range(tempfiles) \cup MadeFile /\ Temporary \subseteq Named \cup MadeFile
    BY <1>1, <2>1 DEF TempInv
  <2>4. Temporary' \subseteq Named \cup MadeFile /\ Temporary' \subseteq Range(tempfiles') \cup MadeFile
    <3>1. CASE tempfiles = << >>
      BY <1>4, <2>3, <3>1 DEF CleanupTempfiles, Cleaned, Temporary
    <3>2. CASE tempfiles # << >>
      <4>1. tempfiles' = Front(tempfiles) /\ disk' = Without(disk, {Last(tempfiles)})
        BY <1>4, <3>2 DEF CleanupTempfiles, Cleaned
      <4>2. Temporary' \subseteq Temporary \ {Last(tempfiles)}
        BY <4>1 DEF Without, Temporary
      <4>3. Range(tempfiles) = Range(tempfiles') \cup {Last(tempfiles)}
        BY <1>1, <3>2, <4>1, FrontRange
      <4>4. QED
        BY <2>3, <4>2, <4>3
    <3>3. QED
      BY <3>1, <3>2
  <2>5. phase' = "exiting" => Temporary' \subseteq MadeFile
    <3>1. phase' = "exiting" => tempfiles = << >> /\ Temporary' = Temporary
      BY <1>4, <2>1 DEF CleanupTempfiles, Cleaned, Temporary
    <3>2. QED
      BY <2>3, <3>1, HandlersFacts
  <2>6. QED
    BY <2>1, <2>2, <2>4, <2>5, HandlersFacts DEF TempInv, Active
<1>5. CASE Exited
  <2>1. phase = "exiting" /\ phase' = "exited" /\ handlers = << >> /\ handlers' = << >>
    BY <1>5 DEF Exited, Go, process
  <2>2. /\ tempfiles' = tempfiles /\ Named' = Named /\ MadeFile' = MadeFile /\ Temporary' = Temporary
        /\ job' = job /\ caught' = caught
    BY <1>5 DEF Exited, temps, process, Named, MadeFile, Temporary
  <2>3. QED
    BY <1>1, <2>1, <2>2, HandlersFacts DEF TempInv, Active
<1>6. CASE Signal
  <2>1. phase # "exited" /\ phase' = "exiting" /\ caught' = caught \cup {phase} /\ handlers' = handlers /\ job' = job
    BY <1>6 DEF Signal
  <2>2. tempfiles' = tempfiles /\ Named' = Named /\ MadeFile' = MadeFile /\ Temporary' = Temporary
    BY <1>6 DEF Signal, temps, Named, MadeFile, Temporary
  <2>3. Temporary \subseteq Named \cup MadeFile
    BY <1>1 DEF TempInv
  <2>4. Len(handlers) = 2 => Temporary \subseteq Range(tempfiles) \cup MadeFile
    BY <1>1 DEF TempInv
  <2>5. Len(handlers) = 1 => Temporary \subseteq MadeFile \/ "cleaning" \in caught'
    <3>1. CASE Active
      BY <2>3, <3>1, ActiveFiles
    <3>2. CASE phase = "cleaning"
      BY <2>1, <3>2
    <3>3. CASE phase = "exiting"
      BY <1>1, <2>1, <3>3 DEF TempInv
    <3>4. QED
      BY <2>1, <3>1, <3>2, <3>3 DEF Active
  <2>6. handlers = << >> => Temporary \subseteq MadeFile \/ ("cleaning" \in caught' /\ ~job)
    BY <1>1, <2>1 DEF TempInv
  <2>7. QED
    BY <2>1, <2>2, <2>3, <2>4, <2>5, <2>6 DEF TempInv, Active
<1>7. CASE Stopped \/ UNCHANGED vars
  BY <1>1, <1>7 DEF Stopped, vars, temps, work, output, process, TempInv, Active, Temporary, Named, MadeFile
<1>8. QED
  BY <1>2, <1>3, <1>4, <1>5, <1>6, <1>7 DEF EndSteps

NamingSteps == SampleName \/ StdinName \/ (Command /\ request.macro) \/ ResultName \/ SpyName

LEMMA Steps ==
  ASSUME [Next]_vars
  PROVE  Record \/ NamingSteps \/ FileSteps \/ SendSteps \/ EndSteps
BY DEF Next, NamingSteps, FileSteps, SendSteps, EndSteps

(* What each of the steps that name a file wants, and what they have in    *)
(* common.                                                                 *)
Wanted(slot, next) ==
  /\ NamedFor(next, slot)
  /\ phase # "next" /\ (next = "spy" => phase = "dump" /\ queue # << >>)
  /\ next # "spy" => phase \in {"sample", "stdin", "command", "result"}

LEMMA NamingCases ==
  ASSUME SessionInv, NamingSteps
  PROVE  /\ UNCHANGED <<request, work, output, process>> /\ Active
         /\ \E slot \in Slots, next \in Nexts : Naming(slot, next) /\ Wanted(slot, next)
<1>1. UNCHANGED <<request, work, output, process>>
  BY DEF NamingSteps, SampleName, StdinName, Command, ResultName, SpyName
<1>2. Active
  BY DEF NamingSteps, SampleName, StdinName, Command, ResultName, SpyName, Dumping, Active
<1>3. {SampleSlot, MacroSlot, StdinSlot(Current), ResultSlot(Current)} \subseteq Slots
  BY Namings
<1>4. /\ SampleName => Naming(SampleSlot, "sample it") /\ Wanted(SampleSlot, "sample it")
      /\ StdinName => Naming(StdinSlot(Current), "save") /\ Wanted(StdinSlot(Current), "save")
      /\ Command /\ request.macro => Naming(MacroSlot, "result") /\ Wanted(MacroSlot, "result")
      /\ ResultName => Naming(ResultSlot(Current), "popen") /\ Wanted(ResultSlot(Current), "popen")
      /\ SpyName => Naming(MacroSlot, "spy") /\ Wanted(MacroSlot, "spy")
  BY Namings DEF Wanted, NamedFor
<1>5. \E slot \in Slots, next \in Nexts : Naming(slot, next) /\ Wanted(slot, next)
  <2> DEFINE P(slot, next) == Naming(slot, next) /\ Wanted(slot, next)
  <2>1. \/ P(SampleSlot, "sample it") \/ P(StdinSlot(Current), "save") \/ P(MacroSlot, "result")
        \/ P(ResultSlot(Current), "popen") \/ P(MacroSlot, "spy")
    BY <1>4 DEF NamingSteps
  <2>2. {"sample it", "save", "result", "popen", "spy"} \subseteq Nexts
    BY DEF Nexts
  <2> HIDE DEF P
  <2>3. \E slot \in Slots, next \in Nexts : P(slot, next)
    BY <1>3, <2>1, <2>2
  <2>4. QED
    BY <2>3 DEF P
<1>6. QED
  BY <1>1, <1>2, <1>5

LEMMA TempStep ==
  ASSUME SessionInv, [Next]_vars
  PROVE  TempInv'
<1>1. CASE Record
  BY <1>1, RecordKeepsTemp
<1>2. CASE NamingSteps
  <2>1. PICK slot \in Slots, next \in Nexts : Naming(slot, next)
    BY <1>2, NamingCases
  <2>2. UNCHANGED process
    BY <1>2, NamingCases
  <2>3. QED
    BY <2>1, <2>2, NamingKeepsTemp
<1>3. CASE FileSteps \/ SendSteps
  BY <1>3, FilesQuiet, SendQuiet, QuietKeepsTemp
<1>4. CASE EndSteps
  BY <1>4, EndKeepsTemp
<1>5. QED
  BY <1>1, <1>2, <1>3, <1>4, Steps

-----------------------------------------------------------------------------
(* The names of temporary files are known to the steps that use them.      *)
LEMMA PhaseFacts ==
  ASSUME SessionInv, FileSteps \/ SendSteps
  PROVE  /\ phase' \notin {"sample it", "save", "popen", "spy", "record"}
         /\ phase' = "read" => phase = "popen" /\ jobs' = jobs
         /\ Current \in Nat /\ Current' \in Nat /\ AreJobs(jobs') /\ Current' >= Current
         /\ Active' /\ phase' # "next" => Current' >= 1
         /\ delegated' > 0 => delegated > 0 \/ phase = "read"
<1>1. AreJobs(jobs) /\ Current \in Nat
  BY SeqFacts DEF SessionInv, TypeInv, AreJobs, Current
<1>2. Active /\ (phase # "next" => Current >= 1)
  BY FilesQuiet, SendQuiet DEF Quiet, SessionInv, NameInv
<1>3. CASE NextFile
  <2> DEFINE r(name) == [name |-> name, type |-> NULL, fate |-> NULL, read |-> << >>]
  <2>1. PICK name : jobs' = Append(jobs, r(name))
    BY <1>3 DEF NextFile
  <2>2. IsJob(r(name))
    BY DEF IsJob
  <2> HIDE DEF r
  <2>3. AreJobs(jobs') /\ Current' = Current + 1
    BY <1>1, <2>1, <2>2, JobAdded DEF Current
  <2>4. phase' \notin {"sample it", "save", "popen", "spy", "record", "read", "next"} /\ delegated' = delegated
    BY <1>3 DEF NextFile, Go
  <2>5. Current' \in Nat /\ Current' >= Current /\ Current' >= 1
    BY <1>1, <2>3
  <2>6. QED
    BY <1>1, <2>3, <2>4, <2>5
<1>4. CASE PrintToc
  <2> DEFINE r == [name |-> "toc", type |-> "plain", fate |-> "text", read |-> <<<<"toc", << >>>>>>]
  <2>1. jobs' = Append(jobs, r)
    BY <1>4 DEF PrintToc
  <2>2. IsJob(r)
    BY DEF IsJob
  <2> HIDE DEF r
  <2>3. AreJobs(jobs') /\ Current' = Current + 1
    BY <1>1, <2>1, <2>2, JobAdded DEF Current
  <2>4. phase' = "end" /\ delegated' = delegated
    BY <1>4 DEF PrintToc, Go
  <2>5. QED
    BY <1>1, <2>3, <2>4
<1>5. CASE InputType
  <2>1. PICK type, read : jobs' = [jobs EXCEPT ![Current].type = type, ![Current].read = read]
    BY <1>5 DEF InputType
  <2>2. AreJobs(jobs') /\ Current' = Current
    BY <1>1, <2>1, TypeSet DEF Current
  <2>3. phase' = "print" /\ phase = "type" /\ delegated' = delegated
    BY <1>5 DEF InputType, Go
  <2>4. QED
    BY <1>1, <1>2, <2>2, <2>3
<1>6. CASE PrintNative \/ Ignore
  <2>1. PICK fate : SetFate(fate)
    BY <1>6 DEF PrintNative, Ignore
  <2>2. AreJobs(jobs') /\ Current' = Current
    BY <1>1, <2>1, FateSet DEF Current
  <2>3. phase' = "next" /\ delegated' = delegated
    BY <1>6 DEF PrintNative, Ignore, Go
  <2>4. QED
    BY <1>1, <1>2, <2>2, <2>3
<1>7. CASE Popen
  <2>1. AreJobs(jobs') /\ Current' = Current
    <3>1. CASE jobs' = jobs
      BY <1>1, <3>1 DEF Current
    <3>2. CASE SetFate("failed")
      BY <1>1, <3>2, FateSet DEF Current
    <3>3. QED
      BY <1>7, <3>1, <3>2 DEF Popen
  <2>2. phase' \notin {"sample it", "save", "popen", "spy", "record"} /\ phase = "popen" /\ delegated' = delegated /\ (phase' = "read" => jobs' = jobs)
    BY <1>7 DEF Popen, Go
  <2>3. Current' \in Nat /\ Current' >= Current /\ Current' >= 1
    <3>1. Current >= 1
      BY <1>2, <2>2
    <3>2. QED
      BY <1>1, <2>1, <3>1
  <2>4. QED
    BY <1>1, <2>1, <2>2, <2>3
<1>8. CASE Subcontract
  <2>1. PICK fate : SetFate(fate)
    BY <1>8 DEF Subcontract
  <2>2. AreJobs(jobs') /\ Current' = Current
    BY <1>1, <2>1, FateSet DEF Current
  <2>3. phase' = "next" /\ phase = "read"
    BY <1>8 DEF Subcontract, Go
  <2>4. QED
    BY <1>1, <1>2, <2>2, <2>3
<1>9. CASE SampleGet \/ PrintDelegated \/ BufferSave \/ (Command /\ ~request.macro) \/ EndFiles
  <2>1. jobs' = jobs /\ delegated' = delegated /\ Current' = Current
    BY <1>9 DEF SampleGet, PrintDelegated, BufferSave, Command, EndFiles, work, Current
  <2>2. /\ phase' \notin {"sample it", "save", "popen", "spy", "record", "read", "next"}
        /\ phase # "next" \/ Current >= 1
    BY <1>9 DEF SampleGet, PrintDelegated, BufferSave, Command, EndFiles, Write, Exit, Go
  <2>3. Current' \in Nat /\ Current' >= Current /\ Current' >= 1 /\ AreJobs(jobs')
    <3>1. Current >= 1
      BY <1>2, <2>2
    <3>2. QED
      BY <1>1, <2>1, <3>1
  <2>4. QED
    BY <1>1, <2>1, <2>2, <2>3
<1>10. CASE SendSteps
  <2>1. jobs' = jobs /\ delegated' = delegated /\ Current' = Current
    BY <1>10 DEF SendSteps, SendAlone, SendAll, SendNothing, OpenStream, MakeBackup, Create, DumpText, StreamDump,
       StreamDumpFails, Unlink2, SpyUser, Close, Sent, work, Current
  <2>2. phase' \notin {"sample it", "save", "popen", "spy", "record", "read", "next"} /\ phase # "next"
    <3>1. CASE SendAlone \/ SendAll \/ SendNothing \/ OpenStream \/ MakeBackup \/ Create
      BY <3>1 DEF SendAlone, SendAll, SendNothing, OpenStream, MakeBackup, Create, Exit, Go
    <3>2. CASE DumpText \/ StreamDump \/ StreamDumpFails \/ Unlink2 \/ SpyUser \/ Close
      BY <3>2 DEF DumpText, StreamDump, StreamDumpFails, Unlink2, SpyUser, Close, Sent, Dumping, Exit, Go
    <3>3. QED
      BY <1>10, <3>1, <3>2 DEF SendSteps
  <2>3. Current' \in Nat /\ Current' >= Current /\ Current' >= 1 /\ AreJobs(jobs')
    <3>1. Current >= 1
      BY <1>2, <2>2
    <3>2. QED
      BY <1>1, <2>1, <3>1
  <2>4. QED
    BY <1>1, <2>1, <2>2, <2>3
<1>11. QED
  BY <1>3, <1>4, <1>5, <1>6, <1>7, <1>8, <1>9, <1>10 DEF FileSteps

LEMMA NameStep ==
  ASSUME SessionInv, [Next]_vars
  PROVE  NameInv'
<1>1. CASE Record
  <2>1. phase = "record" /\ Active /\ made # NULL /\ made \in Made /\ NamedFor(made.next, made.slot) /\ caught = {}
    BY <1>1 DEF Record, Active, SessionInv, NameInv, TypeInv
  <2>2. phase' = made.next /\ made.next \in Nexts /\ made' = NULL /\ caught' = caught
    BY <1>1, <2>1 DEF Record, Go, Made
  <2>3. Current' = Current /\ delegated' = delegated
    BY <1>1 DEF Record, work, Current
  <2>4. DOMAIN names' = DOMAIN names \cup {made.slot} /\ Named' \subseteq Named \cup {made.file}
    BY <1>1 DEF Record, Put, Named
  <2>5. Named' \subseteq Range(tempfiles')
    <3>1. Range(tempfiles') = Range(tempfiles) \cup {made.file}
      BY <1>1, RecordFacts
    <3>2. Named \subseteq Range(tempfiles)
      BY <2>1, ActiveFiles
    <3>3. QED
      BY <2>4, <3>1, <3>2
  <2>6. Current >= 1 /\ (delegated > 0 => \E i \in 1 .. Current : ResultSlot(i) \in DOMAIN names)
    BY <2>1 DEF SessionInv, NameInv
  <2>7. /\ phase' = "sample it" => SampleSlot \in DOMAIN names'
        /\ phase' = "save" => StdinSlot(Current) \in DOMAIN names'
        /\ phase' = "popen" => ResultSlot(Current) \in DOMAIN names'
        /\ phase' = "spy" => MacroSlot \in DOMAIN names'
        /\ phase' # "record" /\ phase' # "read"
    <3>1. phase' # "record" /\ phase' # "read"
      BY <2>2 DEF Nexts
    <3>2. QED
      BY <2>1, <2>2, <2>4, <3>1 DEF NamedFor
  <2>8. StdinSlot(Current)' = StdinSlot(Current) /\ ResultSlot(Current)' = ResultSlot(Current)
    BY <2>3 DEF StdinSlot, ResultSlot
  <2>9. delegated' > 0 => \E i \in 1 .. Current' : ResultSlot(i) \in DOMAIN names'
    BY <2>3, <2>4, <2>6
  <2>10. Current' >= 1
    BY <2>3, <2>6
  <2>11. QED
    BY <2>1, <2>2, <2>5, <2>7, <2>8, <2>9, <2>10 DEF NameInv
<1>2. CASE NamingSteps
  <2>1. PICK slot \in Slots, next \in Nexts : Naming(slot, next) /\ Wanted(slot, next)
    BY <1>2, NamingCases
  <2>2. caught' = caught /\ Current' = Current /\ delegated' = delegated /\ jobs' = jobs
    BY <1>2, NamingCases DEF process, work, Current
  <2>3. Active /\ caught = {} /\ phase # "record" /\ made = NULL /\ NamedFor(next, slot)
    BY <2>1 DEF Naming, Wanted, SessionInv, NameInv
  <2>4. /\ Current >= 1 /\ (delegated > 0 => \E i \in 1 .. Current : ResultSlot(i) \in DOMAIN names)
        /\ Named \subseteq Range(tempfiles)
    BY <2>1, <2>3 DEF Wanted, SessionInv, NameInv
  <2>5. tempfiles' = tempfiles /\ names' = names /\ Named' = Named
    BY <2>1, EnsureFacts DEF Naming, Named
  <2>6. StdinSlot(Current)' = StdinSlot(Current) /\ ResultSlot(Current)' = ResultSlot(Current)
    BY <2>2 DEF StdinSlot, ResultSlot
  <2>7. Current' >= 1 /\ (delegated' > 0 => \E i \in 1 .. Current' : ResultSlot(i) \in DOMAIN names')
    BY <2>2, <2>4, <2>5
  <2>8. CASE slot \in DOMAIN names
    <3>1. phase' = next /\ made' = made
      BY <2>1, <2>8, EnsureFacts DEF Naming
    <3>2. phase' # "record" /\ phase' # "read"
      BY <3>1 DEF Nexts
    <3>3. /\ phase' = "sample it" => SampleSlot \in DOMAIN names'
          /\ phase' = "save" => StdinSlot(Current) \in DOMAIN names'
          /\ phase' = "popen" => ResultSlot(Current) \in DOMAIN names'
          /\ phase' = "spy" => MacroSlot \in DOMAIN names'
      BY <2>3, <2>5, <2>8, <3>1 DEF NamedFor
    <3>4. QED
      BY <2>2, <2>3, <2>4, <2>5, <2>6, <2>7, <3>1, <3>2, <3>3 DEF NameInv
  <2>9. CASE slot \notin DOMAIN names
    <3>1. phase' = "record" /\ made' \in Made /\ made'.slot = slot /\ made'.next = next
      BY <2>1, <2>9, EnsureFacts DEF Naming
    <3>2. made' # NULL
      BY <3>1, SessionAssumption
    <3>3. NamedFor(made.next, made.slot)'
      BY <2>2, <2>3, <3>1 DEF NamedFor, StdinSlot, ResultSlot, SampleSlot, MacroSlot, Current
    <3>4. QED
      BY <2>2, <2>3, <2>4, <2>5, <2>7, <2>9, <3>1, <3>2, <3>3 DEF NameInv
  <2>10. QED
    BY <2>8, <2>9
<1>3. CASE FileSteps \/ SendSteps
  <2>1. Quiet
    BY <1>3, FilesQuiet, SendQuiet
  <2>2. /\ Active /\ phase # "record" /\ phase' # "record" /\ made' = made /\ tempfiles' = tempfiles /\ names' = names
        /\ caught' = caught
    BY <2>1 DEF Quiet
  <2>3. Named' = Named /\ Named \subseteq Range(tempfiles) /\ made = NULL /\ caught = {}
    BY <2>2 DEF Named, SessionInv, NameInv
  <2>4. phase' = "read" => ResultSlot(Current)' \in DOMAIN names'
    <3>1. phase' = "read" => phase = "popen" /\ jobs' = jobs
      BY <1>3, PhaseFacts
    <3>2. phase = "popen" => ResultSlot(Current) \in DOMAIN names
      BY DEF SessionInv, NameInv
    <3>3. QED
      BY <2>2, <3>1, <3>2 DEF ResultSlot, Current
  <2>5. delegated' > 0 => \E i \in 1 .. Current' : ResultSlot(i) \in DOMAIN names'
    <3>1. Current \in Nat /\ Current' \in Nat /\ Current' >= Current
      BY <1>3, PhaseFacts
    <3>2. delegated' > 0 => \E i \in 1 .. Current : ResultSlot(i) \in DOMAIN names
      <4>1. delegated > 0 => \E i \in 1 .. Current : ResultSlot(i) \in DOMAIN names
        BY DEF SessionInv, NameInv
      <4>2. CASE phase = "read"
        <5>1. ResultSlot(Current) \in DOMAIN names
          BY <4>2 DEF SessionInv, NameInv
        <5>2. Current >= 1
          BY <2>2, <4>2 DEF SessionInv, NameInv
        <5>3. Current \in 1 .. Current
          BY <3>1, <5>2
        <5>4. QED
          BY <5>1, <5>3
      <4>3. delegated' > 0 => delegated > 0 \/ phase = "read"
        BY <1>3, PhaseFacts
      <4>4. QED
        BY <4>1, <4>2, <4>3
    <3>3. \A i \in 1 .. Current : i \in 1 .. Current'
      BY <3>1
    <3>4. QED
      BY <2>2, <3>2, <3>3
  <2>6. /\ phase' \notin {"sample it", "save", "popen", "spy", "record"}
        /\ Active' /\ phase' # "next" => Current' >= 1
    BY <1>3, PhaseFacts
  <2>7. QED
    BY <2>2, <2>3, <2>4, <2>5, <2>6 DEF NameInv
<1>4. CASE EndSteps
  <2>1. /\ Current' = Current /\ delegated' = delegated /\ made' = made /\ names' = names
        /\ StdinSlot(Current)' = StdinSlot(Current) /\ ResultSlot(Current)' = ResultSlot(Current)
    BY <1>4 DEF EndSteps, ExitHandler, StartCleanup, CleanupTempfiles, Exited, Signal, Stopped, vars, temps, work,
       Current, StdinSlot, ResultSlot
  <2>2. CASE UNCHANGED vars
    BY <2>2 DEF vars, temps, work, output, process, SessionInv, NameInv, NamedFor, Current, Active, Named,
       SampleSlot, MacroSlot, StdinSlot, ResultSlot
  <2>3. CASE ~UNCHANGED vars
    <3>1. phase' \in {"exiting", "cleaning", "exited"}
      BY <1>4, <2>3 DEF EndSteps, ExitHandler, StartCleanup, CleanupTempfiles, Exited, Signal, Stopped, Go
    <3>2. made' # NULL => "record" \in caught'
      <4>1. made # NULL => phase = "record" \/ "record" \in caught
        BY DEF SessionInv, NameInv
      <4>2. Signal \/ (phase # "record" /\ caught' = caught)
        BY <1>4, <2>3 DEF EndSteps, ExitHandler, StartCleanup, CleanupTempfiles, Exited, Stopped, process
      <4>3. Signal => caught' = caught \cup {phase}
        BY DEF Signal
      <4>4. QED
        BY <2>1, <4>1, <4>2, <4>3
    <3>3. delegated > 0 => \E i \in 1 .. Current : ResultSlot(i) \in DOMAIN names
      BY DEF SessionInv, NameInv
    <3>4. ~Active' /\ phase' \notin {"sample it", "save", "popen", "read", "spy", "record"}
      BY <3>1 DEF Active
    <3>5. delegated' > 0 => \E i \in 1 .. Current' : ResultSlot(i) \in DOMAIN names'
      BY <2>1, <3>3
    <3>6. QED
      BY <3>2, <3>4, <3>5 DEF NameInv
  <2>4. QED
    BY <2>2, <2>3
<1>5. QED
  BY <1>1, <1>2, <1>3, <1>4, Steps

-----------------------------------------------------------------------------
(* Types.                                                                  *)
LEMMA FilesTypeStep ==
  ASSUME SessionInv, [Next]_vars
  PROVE  /\ request' \in Requests /\ made' \in Made \cup {NULL} /\ tempfiles' \in Seq(Temps)
         /\ \A s \in DOMAIN names' : names'[s] \in Temps
         /\ handlers' \in {<< >>, <<"exit_handler">>, <<"exit_handler", "cleanup_tempfiles">>}
<1>1. /\ request \in Requests /\ made \in Made \cup {NULL} /\ tempfiles \in Seq(Temps)
      /\ \A s \in DOMAIN names : names[s] \in Temps
      /\ handlers \in {<< >>, <<"exit_handler">>, <<"exit_handler", "cleanup_tempfiles">>}
  BY DEF SessionInv, TypeInv
<1>2. CASE Record
  <2>1. request' = request /\ made' = NULL /\ names' = Put(names, made.slot, made.file)
    BY <1>2 DEF Record
  <2>2. made.file \in Temps /\ tempfiles' \in Seq(Temps)
    BY <1>2, RecordFacts
  <2>3. \A s \in DOMAIN names' : names'[s] \in Temps
    BY <1>1, <2>1, <2>2 DEF Put
  <2>4. handlers' \in {<<"exit_handler">>, <<"exit_handler", "cleanup_tempfiles">>}
    <3>1. Active
      BY <1>2 DEF Record, Active
    <3>2. handlers = IF tempfiles = << >> THEN <<"exit_handler">> ELSE <<"exit_handler", "cleanup_tempfiles">>
      BY <3>1, ActiveFiles
    <3>3. handlers' = IF tempfiles = << >> THEN Append(handlers, "cleanup_tempfiles") ELSE handlers
      BY <1>2 DEF Record, Registered
    <3>4. QED
      BY <3>2, <3>3, HandlersFacts
  <2>5. QED
    BY <1>1, <2>1, <2>2, <2>3, <2>4
<1>3. CASE NamingSteps
  <2>1. PICK slot \in Slots, next \in Nexts : Naming(slot, next)
    BY <1>3, NamingCases
  <2>2. tempfiles' = tempfiles /\ names' = names /\ (made' = made \/ made' \in Made)
    BY <2>1, EnsureFacts DEF Naming
  <2>3. request' = request /\ handlers' = handlers
    BY <1>3, NamingCases DEF process
  <2>4. QED
    BY <1>1, <2>2, <2>3
<1>4. CASE FileSteps \/ SendSteps
  BY <1>1, <1>4, FilesQuiet, SendQuiet DEF Quiet
<1>5. CASE EndSteps
  <2>1. request' = request /\ made' = made /\ names' = names
    BY <1>5 DEF EndSteps, ExitHandler, StartCleanup, CleanupTempfiles, Exited, Signal, Stopped, vars, temps
  <2>2. handlers' = handlers \/ (handlers # << >> /\ handlers' = Front(handlers))
    BY <1>5 DEF EndSteps, ExitHandler, StartCleanup, CleanupTempfiles, Exited, Signal, Stopped, vars, process
  <2>3. tempfiles' = tempfiles \/ (tempfiles # << >> /\ tempfiles' = Front(tempfiles))
    BY <1>5 DEF EndSteps, ExitHandler, StartCleanup, CleanupTempfiles, Cleaned, Exited, Signal, Stopped, vars, temps
  <2>4. tempfiles' \in Seq(Temps)
    BY <1>1, <2>3, FrontRange
  <2>5. handlers' \in {<< >>, <<"exit_handler">>, <<"exit_handler", "cleanup_tempfiles">>}
    BY <1>1, <2>2, HandlersFacts
  <2>6. QED
    BY <1>1, <2>1, <2>4, <2>5
<1>6. QED
  BY <1>2, <1>3, <1>4, <1>5, Steps

(* The greatest of the numbers of the files.                               *)
LEMMA Greatest ==
  ASSUME NEW n \in Nat, NEW T \in SUBSET (1 .. n), T # {}
  PROVE  \E i \in T : \A k \in T : k <= i
<1> DEFINE R == OpToRel(<, Nat)
           S == {n - k : k \in T}
<1>1. S \in SUBSET Nat /\ S # {}
  <2>1. \A k \in 1 .. n : n - k \in Nat
    OBVIOUS
  <2>2. QED
    BY <2>1
<1>2. IsWellFoundedOn(R, Nat)
  BY NatLessThanWellFounded
<1> HIDE DEF R
<1>3. PICK x \in S : \A y \in S : <<y, x>> \notin R
  BY <1>1, <1>2, WFMin
<1>4. PICK i \in T : x = n - i
  BY <1>3
<1>5. ASSUME NEW k \in T
      PROVE  k <= i
  <2>1. <<n - k, x>> \notin R
    BY <1>3
  <2>2. n - k \in Nat /\ x \in Nat /\ ~(n - k < x)
    BY <1>1, <2>1 DEF R, OpToRel
  <2>3. QED
    BY <1>4, <2>2
<1>6. QED
  BY <1>4, <1>5

(* The file of the only delegation.                                        *)
LEMMA DelegationFile ==
  ASSUME SessionInv, delegated > 0
  PROVE  Delegation \in Temps
<1> DEFINE T == {i \in 1 .. Current : NameOf(ResultSlot(i)) # NULL}
           L == CHOOSE i \in T : \A k \in T : k <= i
<1>1. Current \in Nat
  BY SeqFacts DEF SessionInv, TypeInv, AreJobs, Current
<1>2. PICK j \in 1 .. Current : ResultSlot(j) \in DOMAIN names
  BY DEF SessionInv, NameInv
<1>3. \A slot \in DOMAIN names : names[slot] \in Temps
  BY DEF SessionInv, TypeInv
<1>4. j \in T
  BY <1>2, <1>3, SessionAssumption DEF NameOf
<1>5. T \in SUBSET (1 .. Current) /\ T # {}
  BY <1>4
<1> HIDE DEF T
<1>6. \E i \in T : \A k \in T : k <= i
  BY <1>1, <1>5, Greatest
<1>7. L \in T
  BY <1>6
<1>8. ResultSlot(L) \in DOMAIN names
  BY <1>7 DEF T, NameOf
<1>9. Delegation = names[ResultSlot(L)]
  BY DEF Delegation, T
<1>10. QED
  BY <1>3, <1>8, <1>9

Entries(s) == IsSeq(s) /\ \A i \in DOMAIN s : Entry(s[i])

LEMMA EntryFacts ==
  /\ \A x : Entry(<<"text", x>>) /\ Entry(<<"spy", x>>)
  /\ \A x \in Temps : Entry(<<"dump", x>>) /\ Entry(<<"unlink", x>>)
  /\ Entry(Trailer) /\ Entries(<< >>)
  /\ \A x \in Temps : Entries(<<<<"dump", x>>, <<"unlink", x>>>>)
<1>1. \A x : Entry(<<"text", x>>) /\ Entry(<<"spy", x>>)
  BY DEF Entry
<1>2. \A x \in Temps : Entry(<<"dump", x>>) /\ Entry(<<"unlink", x>>)
  BY DEF Entry
<1>3. Entry(Trailer)
  BY <1>1 DEF Trailer
<1>4. Entries(<< >>)
  <2>1. << >> \in Seq({}) /\ DOMAIN << >> = {}
    OBVIOUS
  <2>2. QED
    BY <2>1 DEF Entries, IsSeq
<1>5. ASSUME NEW x \in Temps
      PROVE  Entries(<<<<"dump", x>>, <<"unlink", x>>>>)
  <2> DEFINE a == <<"dump", x>>
             b == <<"unlink", x>>
  <2>1. Entry(a) /\ Entry(b)
    BY <1>2, <1>5
  <2> HIDE DEF a, b
  <2>2. <<a, b>> \in Seq({a, b}) /\ DOMAIN <<a, b>> = 1 .. 2 /\ <<a, b>>[1] = a /\ <<a, b>>[2] = b
    OBVIOUS
  <2>3. \A i \in 1 .. 2 : i = 1 \/ i = 2
    OBVIOUS
  <2>4. Entries(<<a, b>>)
    BY <2>1, <2>2, <2>3 DEF Entries, IsSeq
  <2>5. QED
    BY <2>4 DEF a, b
<1>6. QED
  BY <1>1, <1>2, <1>3, <1>4, <1>5

LEMMA EntriesFacts ==
  ASSUME NEW s, Entries(s)
  PROVE  /\ \A e : Entry(e) => Entries(Append(s, e))
         /\ \A t : Entries(t) => Entries(s \o t)
         /\ s # << >> => Entries(Tail(s)) /\ Entry(Head(s)) /\ Head(s) = s[1] /\ 1 \in DOMAIN s
<1>1. IsSeq(s) /\ \A i \in DOMAIN s : Entry(s[i])
  BY DEF Entries
<1>2. Len(s) \in Nat /\ DOMAIN s = 1 .. Len(s) /\ (s = << >> <=> Len(s) = 0)
  BY <1>1, SeqFacts
<1>3. ASSUME NEW e, Entry(e)
      PROVE  Entries(Append(s, e))
  <2>1. /\ IsSeq(Append(s, e)) /\ DOMAIN Append(s, e) = 1 .. Len(s) + 1
        /\ \A i \in 1 .. Len(s) : Append(s, e)[i] = s[i]
        /\ Append(s, e)[Len(s) + 1] = e
    BY <1>1, SeqFacts
  <2>2. \A i \in 1 .. Len(s) + 1 : i \in 1 .. Len(s) \/ i = Len(s) + 1
    BY <1>2
  <2>3. QED
    BY <1>1, <1>2, <1>3, <2>1, <2>2 DEF Entries
<1>4. ASSUME NEW t, Entries(t)
      PROVE  Entries(s \o t)
  <2>1. PICK S : s \in Seq(S)
    BY <1>1 DEF IsSeq
  <2>2. PICK T : t \in Seq(T)
    BY <1>4 DEF Entries, IsSeq
  <2> DEFINE A == S \cup T
             c == s \o t
             m == Len(s)
             n == Len(t)
  <2>3. s \in Seq(A) /\ t \in Seq(A)
    BY <2>1, <2>2, SeqMonotonic
  <2>4. m \in Nat /\ n \in Nat /\ DOMAIN s = 1 .. m /\ DOMAIN t = 1 .. n
    BY <2>1, <2>2
  <2>5. c \in Seq(A) /\ Len(c) = m + n /\ \A i \in 1 .. m + n : c[i] = IF i <= m THEN s[i] ELSE t[i - m]
    BY <2>3, ConcatProperties
  <2>6. DOMAIN c = 1 .. m + n
    BY <2>5
  <2> HIDE DEF A, c, m, n
  <2>7. ASSUME NEW i \in 1 .. m + n
        PROVE  Entry(c[i])
    <3>1. CASE i <= m
      <4>1. i \in DOMAIN s /\ c[i] = s[i]
        BY <2>4, <2>5, <3>1
      <4>2. QED
        BY <1>1, <4>1
    <3>2. CASE ~(i <= m)
      <4>1. i - m \in DOMAIN t /\ c[i] = t[i - m]
        BY <2>4, <2>5, <3>2
      <4>2. QED
        BY <1>4, <4>1 DEF Entries
    <3>3. QED
      BY <3>1, <3>2
  <2>8. QED
    BY <2>5, <2>6, <2>7 DEF Entries, IsSeq, c
<1>5. ASSUME s # << >>
      PROVE  Entries(Tail(s)) /\ Entry(Head(s)) /\ Head(s) = s[1] /\ 1 \in DOMAIN s
  <2>1. /\ IsSeq(Tail(s)) /\ DOMAIN Tail(s) = 1 .. Len(s) - 1
        /\ \A i \in 1 .. Len(s) - 1 : Tail(s)[i] = s[i + 1]
    BY <1>1, <1>5, SeqFacts
  <2>2. 1 \in DOMAIN s /\ \A i \in 1 .. Len(s) - 1 : i + 1 \in DOMAIN s
    BY <1>2, <1>5
  <2>3. Head(s) = s[1]
    BY <1>1, <1>5 DEF IsSeq
  <2>4. QED
    BY <1>1, <2>1, <2>2, <2>3 DEF Entries
<1>6. QED
  BY <1>3, <1>4, <1>5

LEMMA WorkTypeStep ==
  ASSUME SessionInv, [Next]_vars
  PROVE  /\ AreJobs(jobs') /\ native' \in Nat /\ delegated' \in Nat
         /\ Entries(divertion') /\ Entries(queue') /\ job' \in BOOLEAN
<1>1. /\ AreJobs(jobs) /\ native \in Nat /\ delegated \in Nat /\ Entries(divertion) /\ Entries(queue) /\ job \in BOOLEAN
  BY DEF SessionInv, TypeInv, Entries
<1>2. CASE Record \/ EndSteps \/ NamingSteps
  <2>1. UNCHANGED <<jobs, native, delegated, divertion, queue, job>>
    BY <1>2, NamingCases DEF Record, EndSteps, ExitHandler, StartCleanup, CleanupTempfiles, Exited, Signal, Stopped,
       vars, work, output, process
  <2>2. QED
    BY <1>1, <2>1
<1>3. CASE FileSteps
  <2>1. queue' = queue /\ job' = job
    <3>1. CASE SampleGet \/ BufferSave
      BY <3>1 DEF SampleGet, BufferSave, Write, Exit, output, process
    <3>2. CASE ~(SampleGet \/ BufferSave)
      BY <1>3, <3>2 DEF FileSteps, NextFile, InputType, PrintNative, Ignore, PrintDelegated, Command, Popen, Subcontract,
         PrintToc, EndFiles, output, process
    <3>3. QED
      BY <3>1, <3>2
  <2>2. AreJobs(jobs')
    BY <1>3, PhaseFacts
  <2>3. native' \in Nat /\ delegated' \in Nat
    <3>1. native' \in {native, native + 1} /\ delegated' \in {delegated, delegated + 1}
      BY <1>3 DEF FileSteps, NextFile, SampleGet, InputType, PrintNative, Ignore, PrintDelegated, BufferSave, Command,
         Popen, Subcontract, PrintToc, EndFiles, work
    <3>2. QED
      BY <1>1, <3>1
  <2>4. Entries(divertion')
    <3>1. CASE PrintNative
      <4>1. divertion' = divertion \/ \E x : divertion' = Append(divertion, <<"text", x>>)
        BY <3>1 DEF PrintNative
      <4>2. QED
        BY <1>1, <4>1, EntryFacts, EntriesFacts
    <3>2. CASE PrintToc
      <4>1. \E x : divertion' = Append(divertion, <<"text", x>>)
        BY <3>2 DEF PrintToc
      <4>2. QED
        BY <1>1, <4>1, EntryFacts, EntriesFacts
    <3>3. CASE Subcontract
      <4> DEFINE f == names[ResultSlot(Current)]
      <4>1. f \in Temps
        BY <3>3 DEF Subcontract, SessionInv, NameInv, TypeInv
      <4>2. divertion' = divertion \/ divertion' = divertion \o <<<<"dump", f>>, <<"unlink", f>>>>
        BY <3>3 DEF Subcontract
      <4> HIDE DEF f
      <4>3. Entries(<<<<"dump", f>>, <<"unlink", f>>>>)
        BY <4>1, EntryFacts
      <4>4. QED
        BY <1>1, <4>2, <4>3, EntriesFacts
    <3>4. CASE ~(PrintNative \/ PrintToc \/ Subcontract)
      <4>1. divertion' = divertion
        BY <1>3, <3>4 DEF FileSteps, NextFile, SampleGet, InputType, Ignore, PrintDelegated, BufferSave, Command,
           Popen, EndFiles, work
      <4>2. QED
        BY <1>1, <4>1
    <3>5. QED
      BY <3>1, <3>2, <3>3, <3>4
  <2>5. QED
    BY <1>1, <2>1, <2>2, <2>3, <2>4
<1>4. CASE SendSteps
  <2>1. UNCHANGED <<jobs, native, delegated, divertion>>
    BY <1>4 DEF SendSteps, SendAlone, SendAll, SendNothing, OpenStream, MakeBackup, Create, DumpText, StreamDump,
       StreamDumpFails, Unlink2, SpyUser, Close, Sent, work
  <2>2. job' \in {job, FALSE}
    <3>1. CASE OpenStream \/ MakeBackup \/ Create \/ SpyUser \/ StreamDumpFails
      BY <3>1 DEF OpenStream, MakeBackup, Create, SpyUser, StreamDumpFails, Exit, process
    <3>2. CASE ~(OpenStream \/ MakeBackup \/ Create \/ SpyUser \/ StreamDumpFails)
      BY <1>4, <3>2 DEF SendSteps, SendAlone, SendAll, SendNothing, DumpText, StreamDump, Unlink2, Close, Sent, process
    <3>3. QED
      BY <3>1, <3>2
  <2>3. Entries(queue')
    <3>1. CASE SendAlone
      <4>1. delegated > 0
        BY <3>1 DEF SendAlone, Alone
      <4>2. queue' = <<<<"dump", Delegation>>, <<"unlink", Delegation>>>>
        BY <3>1 DEF SendAlone
      <4>3. QED
        BY <4>1, <4>2, DelegationFile, EntryFacts
    <3>2. CASE SendAll
      BY <1>1, <3>2, EntryFacts, EntriesFacts DEF SendAll, EndDocument
    <3>3. CASE DumpText \/ StreamDump \/ Unlink2 \/ SpyUser
      <4>1. queue' = queue \/ (queue # << >> /\ queue' = Tail(queue))
        <5>1. CASE DumpText \/ StreamDump \/ Unlink2
          BY <5>1 DEF DumpText, StreamDump, Unlink2, Sent, Dumping
        <5>2. CASE SpyUser
          <6>1. queue # << >>
            BY <5>2 DEF SpyUser, SessionInv, OutInv
          <6>2. QED
            BY <5>2, <6>1 DEF SpyUser
        <5>3. QED
          BY <3>3, <5>1, <5>2
      <4>2. QED
        BY <1>1, <4>1, EntriesFacts
    <3>4. CASE ~(SendAlone \/ SendAll \/ DumpText \/ StreamDump \/ Unlink2 \/ SpyUser)
      <4>1. queue' = queue
        BY <1>4, <3>4 DEF SendSteps, SendNothing, OpenStream, MakeBackup, Create, StreamDumpFails, Close, output
      <4>2. QED
        BY <1>1, <4>1
    <3>5. QED
      BY <3>1, <3>2, <3>3, <3>4
  <2>4. QED
    BY <1>1, <2>1, <2>2, <2>3
<1>5. QED
  BY <1>2, <1>3, <1>4, Steps

LEMMA TypeStep ==
  ASSUME SessionInv, [Next]_vars
  PROVE  TypeInv'
BY FilesTypeStep, WorkTypeStep DEF TypeInv, Entries

-----------------------------------------------------------------------------
(* The file that the output replaces, and what is read.                    *)
LEMMA Counters ==
  ASSUME SessionInv, [Next]_vars
  PROVE  /\ native + delegated > 0 => native' + delegated' > 0
         /\ NamingSteps \/ Record \/ EndSteps \/ SendSteps => native' = native /\ delegated' = delegated
<1>1. native \in Nat /\ delegated \in Nat
  BY DEF SessionInv, TypeInv
<1>2. CASE Record \/ EndSteps
  BY <1>1, <1>2 DEF Record, EndSteps, ExitHandler, StartCleanup, CleanupTempfiles, Exited, Signal, Stopped, vars, work
<1>3. CASE NamingSteps
  BY <1>1, <1>3, NamingCases DEF work
<1>4. CASE FileSteps
  <2>1. native' \in {native, native + 1} /\ delegated' \in {delegated, delegated + 1}
    BY <1>4 DEF FileSteps, NextFile, SampleGet, InputType, PrintNative, Ignore, PrintDelegated, BufferSave, Command,
       Popen, Subcontract, PrintToc, EndFiles, work
  <2>2. native + delegated > 0 => native' + delegated' > 0
    <3>1. native' \in Nat /\ native' >= native
      BY <1>1, <2>1
    <3>2. delegated' \in Nat /\ delegated' >= delegated
      BY <1>1, <2>1
    <3>3. \A a, b, c, d \in Nat : c >= a /\ d >= b /\ a + b > 0 => c + d > 0
      OBVIOUS
    <3>4. QED
      BY <1>1, <3>1, <3>2, <3>3
  <2>3. CASE NamingSteps \/ Record \/ EndSteps \/ SendSteps
    <3>1. CASE SendSteps
      BY <3>1, <2>2 DEF SendSteps, SendAlone, SendAll, SendNothing, OpenStream, MakeBackup, Create, DumpText, StreamDump,
       StreamDumpFails, Unlink2, SpyUser, Close, Sent, work
    <3>2. CASE Record \/ EndSteps
      BY <3>2, <2>2 DEF Record, EndSteps, ExitHandler, StartCleanup, CleanupTempfiles, Exited, Signal, Stopped, vars, work
    <3>3. CASE NamingSteps
      BY <3>3, <2>2, NamingCases DEF work
    <3>4. QED
      BY <2>3, <3>1, <3>2, <3>3
  <2>4. QED
    BY <2>2, <2>3
<1>5. CASE SendSteps
  BY <1>1, <1>5 DEF SendSteps, SendAlone, SendAll, SendNothing, OpenStream, MakeBackup, Create, DumpText, StreamDump,
     StreamDumpFails, Unlink2, SpyUser, Close, Sent, work
<1>6. QED
  BY <1>2, <1>3, <1>4, <1>5, Steps

Read(s) == \A i \in DOMAIN s : s[i].name = "out" /\ s[i].read # << >> => s[i].read = Original(Out)

(* The output is not created before all the files are read: under its name *)
(* is still what was there at first, if anything.                          *)
LEMMA ReadStep ==
  ASSUME SessionInv, [Next]_vars
  PROVE  Read(jobs')
<1>1. Read(jobs) /\ AreJobs(jobs) /\ Len(jobs) \in Nat
  BY SeqFacts DEF SessionInv, OutInv, Read, TypeInv, AreJobs
<1>2. ASSUME NEW r, jobs' = Append(jobs, r), IsJob(r), r.name = "out" => r.read = << >>
      PROVE  Read(jobs')
  <2>1. /\ DOMAIN jobs' = 1 .. Len(jobs) + 1 /\ DOMAIN jobs = 1 .. Len(jobs)
        /\ \A i \in DOMAIN jobs : jobs'[i] = jobs[i]
        /\ jobs'[Len(jobs) + 1] = r
    BY <1>1, <1>2, JobAdded
  <2>2. \A i \in DOMAIN jobs' : i \in DOMAIN jobs \/ i = Len(jobs) + 1
    BY <1>1, <2>1
  <2>3. QED
    BY <1>1, <1>2, <2>1, <2>2 DEF Read
<1>3. CASE NextFile
  <2> DEFINE r(name) == [name |-> name, type |-> NULL, fate |-> NULL, read |-> << >>]
  <2>1. PICK name : jobs' = Append(jobs, r(name))
    BY <1>3 DEF NextFile
  <2>2. IsJob(r(name)) /\ r(name).read = << >>
    BY DEF IsJob
  <2> HIDE DEF r
  <2>3. QED
    BY <1>2, <2>1, <2>2
<1>4. CASE PrintToc
  <2> DEFINE r == [name |-> "toc", type |-> "plain", fate |-> "text", read |-> <<<<"toc", << >>>>>>]
  <2>1. jobs' = Append(jobs, r)
    BY <1>4 DEF PrintToc
  <2>2. IsJob(r) /\ r.name # "out"
    BY DEF IsJob
  <2> HIDE DEF r
  <2>3. QED
    BY <1>2, <2>1, <2>2
<1>5. CASE InputType
  <2>1. PICK type \in IF Readable(jobs[Current].name) THEN {"plain", "delegate", "unprintable"} ELSE {"unprintable"} :
          jobs' = [jobs EXCEPT ![Current].type = type,
                               ![Current].read = IF type = "unprintable" THEN << >> ELSE Content(jobs[Current].name)]
    BY <1>5 DEF InputType
  <2> DEFINE read == IF type = "unprintable" THEN << >> ELSE Content(jobs[Current].name)
  <2>2. jobs[Current].name = "out" => read = << >> \/ read = Original(Out)
    <3>1. SUFFICES ASSUME jobs[Current].name = "out", type # "unprintable"
                   PROVE  Content("out") = Original(Out)
      OBVIOUS
    <3>2. Readable("out")
      BY <2>1, <3>1
    <3>3. "out" # Stdin /\ Out = File("out")
      BY DEF Stdin, Out
    <3>4. Out \in DOMAIN disk
      BY <3>2, <3>3 DEF Readable
    <3>5. Reading
      BY <1>5 DEF InputType, Reading, Active, Sending
    <3>6. Out \in request.present \/ Out[1] = "temp"
      BY <3>4, <3>5 DEF SessionInv, OutInv
    <3>7. Out \in request.present
      BY <3>6, OutFacts
    <3>8. disk[Out] = Original(Out)
      BY <3>5, <3>7 DEF SessionInv, OutInv, Old
    <3>9. QED
      BY <3>3, <3>8 DEF Content
  <2>3. jobs' = [jobs EXCEPT ![Current].type = type, ![Current].read = read]
    BY <2>1
  <2> HIDE DEF read
  <2>4. /\ DOMAIN jobs' = DOMAIN jobs
        /\ \A i \in DOMAIN jobs : jobs'[i].name = jobs[i].name /\ jobs'[i].read = IF i = Current THEN read ELSE jobs[i].read
    BY <1>1, <2>3, TypeSet
  <2>5. QED
    BY <1>1, <2>2, <2>4 DEF Read
<1>6. ASSUME NEW fate, SetFate(fate)
      PROVE  Read(jobs')
  <2>1. /\ DOMAIN jobs' = DOMAIN jobs
        /\ \A i \in DOMAIN jobs : jobs'[i].name = jobs[i].name /\ jobs'[i].read = jobs[i].read
    BY <1>1, <1>6, FateSet
  <2>2. QED
    BY <1>1, <2>1 DEF Read
<1>7. CASE PrintNative \/ Ignore \/ Popen \/ Subcontract
  <2>1. jobs' = jobs \/ \E fate : SetFate(fate)
    BY <1>7 DEF PrintNative, Ignore, Popen, Subcontract
  <2>2. QED
    BY <1>1, <1>6, <2>1
<1>8. CASE SampleGet \/ PrintDelegated \/ BufferSave \/ (Command /\ ~request.macro) \/ EndFiles
  <2>1. jobs' = jobs
    BY <1>8 DEF SampleGet, PrintDelegated, BufferSave, Command, EndFiles, work
  <2>2. QED
    BY <1>1, <2>1
<1>9. CASE SendSteps
  <2>1. jobs' = jobs
    BY <1>9 DEF SendSteps, SendAlone, SendAll, SendNothing, OpenStream, MakeBackup, Create, DumpText, StreamDump,
       StreamDumpFails, Unlink2, SpyUser, Close, Sent, work
  <2>2. QED
    BY <1>1, <2>1
<1>10. CASE Record \/ EndSteps \/ NamingSteps
  <2>1. jobs' = jobs
    BY <1>10, NamingCases DEF Record, EndSteps, ExitHandler, StartCleanup, CleanupTempfiles, Exited, Signal, Stopped,
       vars, work
  <2>2. QED
    BY <1>1, <2>1
<1>11. QED
  BY <1>3, <1>4, <1>5, <1>7, <1>8, <1>9, <1>10, Steps DEF FileSteps

(* What is not temporary stays as it is.                                   *)
Lasting == {Out} \cup {"backup"} \X Nat

FilesKept ==
  /\ backup_name' = backup_name
  /\ \A f \in Lasting : (f \in DOMAIN disk' <=> f \in DOMAIN disk) /\ (f \in DOMAIN disk => disk'[f] = disk[f])
  /\ \A f \in DOMAIN disk' : f \in DOMAIN disk \/ f[1] = "temp"

LEMMA LastingFacts ==
  /\ Out \in Lasting /\ \A n \in Nat : Backup(n) \in {"backup"} \X Nat /\ Backup(n) \in Lasting
  /\ \A f \in Temps : f \notin Lasting /\ f[1] = "temp"
  /\ NULL \notin Lasting
<1>1. Out \in Lasting /\ \A n \in Nat : Backup(n) \in {"backup"} \X Nat /\ Backup(n) \in Lasting
  BY DEF Lasting, Backup
<1>2. \A f \in Lasting : f[1] # "temp"
  BY OutFacts DEF Lasting
<1>3. \A f \in Temps : f[1] = "temp"
  BY DEF Temps
<1>4. NULL \notin Lasting
  BY SessionAssumption DEF Lasting
<1>5. QED
  BY <1>1, <1>2, <1>3, <1>4

LEMMA KeptDisk ==
  ASSUME backup_name' = backup_name
  PROVE  /\ disk' = disk => FilesKept
         /\ \A F : F \cap Lasting = {} /\ disk' = Without(disk, F) => FilesKept
         /\ \A f \in Temps : \A c : disk' = Put(disk, f, c) => FilesKept
         /\ \A F : \A f \in Temps : \A c : F \cap Lasting = {} /\ disk' = Put(Without(disk, F), f, c) => FilesKept
<1>1. disk' = disk => FilesKept
  BY DEF FilesKept
<1>2. ASSUME NEW F, F \cap Lasting = {}, disk' = Without(disk, F)
      PROVE  FilesKept
  BY <1>2, DiskFacts DEF FilesKept
<1>3. ASSUME NEW f \in Temps, NEW c, disk' = Put(disk, f, c)
      PROVE  FilesKept
  <2>1. f \notin Lasting /\ f[1] = "temp"
    BY <1>3, LastingFacts
  <2>2. DOMAIN disk' = DOMAIN disk \cup {f} /\ \A g \in DOMAIN disk : g # f => disk'[g] = disk[g]
    BY <1>3 DEF Put
  <2>3. /\ \A g \in Lasting : (g \in DOMAIN disk' <=> g \in DOMAIN disk) /\ (g \in DOMAIN disk => disk'[g] = disk[g])
        /\ \A g \in DOMAIN disk' : g \in DOMAIN disk \/ g[1] = "temp"
    BY <2>1, <2>2
  <2>4. QED
    BY <2>3 DEF FilesKept
<1>4. ASSUME NEW F, NEW f \in Temps, NEW c, F \cap Lasting = {}, disk' = Put(Without(disk, F), f, c)
      PROVE  FilesKept
  <2>1. f \notin Lasting /\ f[1] = "temp"
    BY <1>4, LastingFacts
  <2>2. /\ DOMAIN disk' = (DOMAIN disk \ F) \cup {f}
        /\ \A g \in DOMAIN disk \ F : g # f => disk'[g] = disk[g]
    BY <1>4 DEF Put, Without
  <2>3. \A g \in Lasting : g \notin F /\ g # f
    BY <1>4, <2>1
  <2>4. /\ \A g \in Lasting : (g \in DOMAIN disk' <=> g \in DOMAIN disk) /\ (g \in DOMAIN disk => disk'[g] = disk[g])
        /\ \A g \in DOMAIN disk' : g \in DOMAIN disk \/ g[1] = "temp"
    BY <2>1, <2>2, <2>3
  <2>5. QED
    BY <2>4 DEF FilesKept
<1>5. QED
  BY <1>1, <1>2, <1>3, <1>4

LEMMA NameOfNotLasting ==
  ASSUME SessionInv
  PROVE  \A slot : {NameOf(slot)} \cap Lasting = {}
BY LastingFacts DEF SessionInv, TypeInv, NameOf

LEMMA FilesStepKept ==
  ASSUME SessionInv, Record \/ NamingSteps \/ FileSteps \/ EndSteps
  PROVE  FilesKept /\ request' = request
<1>1. CASE Record
  BY <1>1, KeptDisk DEF Record, output
<1>2. CASE NamingSteps
  <2>1. PICK slot \in Slots, next \in Nexts : Naming(slot, next)
    BY <1>2, NamingCases
  <2>2. backup_name' = backup_name /\ request' = request
    BY <1>2, NamingCases DEF output
  <2>3. CASE disk' = disk
    BY <2>2, <2>3, KeptDisk
  <2>4. CASE /\ made' \in Made /\ DOMAIN disk' = DOMAIN disk \cup {made'.file}
             /\ \A f \in DOMAIN disk : f # made'.file => disk'[f] = disk[f]
    <3>1. made'.file \in Temps
      BY <2>4 DEF Made
    <3>2. made'.file \notin Lasting /\ made'.file[1] = "temp"
      BY <3>1, LastingFacts
    <3>3. QED
      BY <2>2, <2>4, <3>2 DEF FilesKept
  <2>5. QED
    BY <2>1, <2>3, <2>4, EnsureFacts DEF Naming
<1>3. CASE FileSteps
  <2>1. backup_name' = backup_name /\ request' = request
    BY <1>3 DEF FileSteps, NextFile, SampleGet, InputType, PrintNative, Ignore, PrintDelegated, BufferSave, Command,
       Popen, Subcontract, PrintToc, EndFiles, output
  <2>2. \A s \in DOMAIN names : names[s] \in Temps
    BY DEF SessionInv, TypeInv
  <2>3. CASE SampleGet
    <3>1. SampleSlot \in DOMAIN names
      BY <2>3 DEF SampleGet, SessionInv, NameInv
    <3>2. QED
      BY <2>1, <2>2, <2>3, <3>1, KeptDisk DEF SampleGet, Write
  <2>4. CASE BufferSave
    <3>1. StdinSlot(Current) \in DOMAIN names
      BY <2>4 DEF BufferSave, SessionInv, NameInv
    <3>2. QED
      BY <2>1, <2>2, <2>4, <3>1, KeptDisk DEF BufferSave, Write
  <2>5. CASE Subcontract
    <3>1. names[ResultSlot(Current)] \in Temps
      BY <2>2, <2>5 DEF Subcontract, SessionInv, NameInv
    <3>2. {NameOf(StdinSlot(Current))} \cap Lasting = {}
      BY NameOfNotLasting
    <3>3. \E c : disk' = Put(Without(disk, {NameOf(StdinSlot(Current))}), names[ResultSlot(Current)], c)
      BY <2>5 DEF Subcontract
    <3>4. QED
      BY <2>1, <3>1, <3>2, <3>3, KeptDisk
  <2>6. CASE InputType
    <3>1. disk' = Without(disk, {NameOf(SampleSlot)}) /\ {NameOf(SampleSlot)} \cap Lasting = {}
      BY <2>6, NameOfNotLasting DEF InputType
    <3>2. QED
      BY <2>1, <3>1, KeptDisk
  <2>7. CASE ~(SampleGet \/ BufferSave \/ Subcontract \/ InputType)
    <3>1. disk' = disk
      BY <1>3, <2>7 DEF FileSteps, NextFile, PrintNative, Ignore, PrintDelegated, Command, Popen, PrintToc, EndFiles
    <3>2. QED
      BY <2>1, <3>1, KeptDisk
  <2>8. QED
    BY <2>3, <2>4, <2>5, <2>6, <2>7
<1>4. CASE EndSteps
  <2>1. backup_name' = backup_name /\ request' = request
    BY <1>4 DEF EndSteps, ExitHandler, StartCleanup, CleanupTempfiles, Exited, Signal, Stopped, vars, output
  <2>2. CASE ExitHandler
    <3> DEFINE F == (IF job THEN Held ELSE {}) \cup {NameOf(SampleSlot)}
    <3>1. disk' = Without(disk, F)
      BY <2>2 DEF ExitHandler
    <3>2. Held \subseteq Temps
      BY DEF Held, SessionInv, TypeInv
    <3>3. F \cap Lasting = {}
      BY <3>2, NameOfNotLasting, LastingFacts
    <3> HIDE DEF F
    <3>4. QED
      BY <2>1, <3>1, <3>3, KeptDisk
  <2>3. CASE CleanupTempfiles
    <3>1. CASE tempfiles = << >>
      BY <2>1, <2>3, <3>1, KeptDisk DEF CleanupTempfiles, Cleaned
    <3>2. CASE tempfiles # << >>
      <4>1. tempfiles \in Seq(Temps) /\ disk' = Without(disk, {Last(tempfiles)})
        BY <2>3, <3>2 DEF CleanupTempfiles, Cleaned, SessionInv, TypeInv
      <4>2. Last(tempfiles) \in Temps
        BY <3>2, <4>1, FrontRange
      <4>3. {Last(tempfiles)} \cap Lasting = {}
        BY <4>2, LastingFacts
      <4>4. QED
        BY <2>1, <4>1, <4>3, KeptDisk
    <3>3. QED
      BY <3>1, <3>2
  <2>4. CASE ~(ExitHandler \/ CleanupTempfiles)
    <3>1. disk' = disk
      BY <1>4, <2>4 DEF EndSteps, StartCleanup, Exited, Signal, Stopped, vars
    <3>2. QED
      BY <2>1, <3>1, KeptDisk
  <2>5. QED
    BY <2>2, <2>3, <2>4
<1>5. QED
  BY <1>1, <1>2, <1>3, <1>4

(* Steps that send, and write to the file when there is one.               *)
OutWritten ==
  /\ phase \in {"create", "dump", "spy"} /\ phase' = "dump" /\ request.to = "file"
  /\ backup_name' = backup_name
  /\ \A f \in Lasting \ {Out} : (f \in DOMAIN disk' <=> f \in DOMAIN disk) /\ (f \in DOMAIN disk => disk'[f] = disk[f])

LEMMA SendStepKept ==
  ASSUME SessionInv, SendSteps, ~MakeBackup
  PROVE  request' = request /\ (FilesKept \/ OutWritten)
<1>1. backup_name' = backup_name /\ request' = request
  BY DEF SendSteps, SendAlone, SendAll, SendNothing, OpenStream, Create, DumpText, StreamDump, StreamDumpFails, Unlink2,
     SpyUser, Close, Sent, output
<1>2. ASSUME NEW pieces, Send(pieces), phase = "dump", phase' = "dump"
      PROVE  FilesKept \/ OutWritten
  <2>1. CASE request.to = "file"
    <3>1. disk' = [disk EXCEPT ![Out] = @ \o pieces]
      BY <1>2, <2>1 DEF Send
    <3>2. DOMAIN disk' = DOMAIN disk /\ \A f \in DOMAIN disk : f # Out => disk'[f] = disk[f]
      BY <3>1
    <3>3. QED
      BY <1>1, <1>2, <2>1, <3>2 DEF OutWritten
  <2>2. CASE request.to # "file"
    BY <1>1, <1>2, <2>2, KeptDisk DEF Send
  <2>3. QED
    BY <2>1, <2>2
<1>3. CASE DumpText
  <2>1. phase = "dump" /\ phase' = "dump" /\ Send(<<NextQueued>>)
    BY <1>3 DEF DumpText, Dumping, Sent
  <2>2. QED
    BY <1>1, <1>2, <2>1
<1>4. CASE StreamDump
  <2>1. phase = "dump" /\ phase' = "dump" /\ Send(disk[NextQueued[2]])
    BY <1>4 DEF StreamDump, Dumping, Sent
  <2>2. QED
    BY <1>1, <1>2, <2>1
<1>5. CASE Unlink2
  <2>1. queue # << >> /\ Head(queue)[1] = "unlink" /\ disk' = Without(disk, {Head(queue)[2]})
    BY <1>5 DEF Unlink2, Dumping, NextQueued
  <2>2. Entries(queue)
    BY DEF SessionInv, TypeInv, Entries
  <2>3. Entry(Head(queue))
    BY <2>1, <2>2, EntriesFacts
  <2>4. Head(queue)[2] \in Temps
    BY <2>1, <2>3 DEF Entry
  <2>5. {Head(queue)[2]} \cap Lasting = {}
    BY <2>4, LastingFacts
  <2>6. QED
    BY <1>1, <2>1, <2>5, KeptDisk
<1>6. CASE SpyUser
  <2>1. {names[MacroSlot]} \cap Lasting = {}
    BY <1>6, LastingFacts DEF SpyUser, SessionInv, NameInv, TypeInv
  <2>2. CASE disk' = disk
    BY <1>1, <2>2, KeptDisk
  <2>3. CASE request.to # "file" /\ disk' # disk
    <3>1. disk' = Without(disk, {names[MacroSlot]})
      BY <1>6, <2>3 DEF SpyUser
    <3>2. QED
      BY <1>1, <2>1, <3>1, KeptDisk
  <2>4. CASE request.to = "file" /\ disk' # disk
    <3> DEFINE d == [disk EXCEPT ![Out] = Append(@, <<"spy", << >>>>)]
    <3>1. disk' = Without(d, {names[MacroSlot]}) /\ phase = "spy" /\ phase' = "dump"
      BY <1>6, <2>4 DEF SpyUser, Go
    <3>2. DOMAIN d = DOMAIN disk /\ \A f \in DOMAIN disk : f # Out => d[f] = disk[f]
      OBVIOUS
    <3> HIDE DEF d
    <3>3. DOMAIN disk' = DOMAIN disk \ {names[MacroSlot]} /\ \A f \in DOMAIN disk' : f # Out => disk'[f] = disk[f]
      BY <3>1, <3>2 DEF Without
    <3>4. \A f \in Lasting : f # names[MacroSlot]
      BY <2>1
    <3>5. QED
      BY <1>1, <2>4, <3>1, <3>3, <3>4 DEF OutWritten
  <2>5. QED
    BY <2>2, <2>3, <2>4
<1>7. CASE Create
  <2>1. CASE disk' = Put(disk, Out, << >>) /\ phase' = "dump"
    <3>1. phase = "create" /\ request.to = "file"
      BY <1>7 DEF Create, SessionInv, OutInv
    <3>2. DOMAIN disk' = DOMAIN disk \cup {Out} /\ \A f \in DOMAIN disk : f # Out => disk'[f] = disk[f]
      BY <2>1 DEF Put
    <3>3. QED
      BY <1>1, <2>1, <3>1, <3>2 DEF OutWritten
  <2>2. CASE disk' = disk
    BY <1>1, <2>2, KeptDisk
  <2>3. CASE disk' = Renamed(Out, backup_name) /\ backup_name # NULL
    <3>1. Out \notin DOMAIN disk
      BY <1>7, <2>3 DEF Create, SessionInv, OutInv
    <3>2. QED
      BY <1>1, <2>3, <3>1, KeptDisk DEF Renamed
  <2>4. QED
    BY <1>7, <2>1, <2>2, <2>3 DEF Create, Go
<1>8. CASE ~(DumpText \/ StreamDump \/ Unlink2 \/ SpyUser \/ Create)
  <2>1. disk' = disk
    BY <1>8 DEF SendSteps, SendAlone, SendAll, SendNothing, OpenStream, StreamDumpFails, Close
  <2>2. QED
    BY <1>1, <2>1, KeptDisk
<1>9. QED
  BY <1>1, <1>3, <1>4, <1>5, <1>6, <1>7, <1>8

(* The program never goes back to reading, and what it sends, something    *)
(* has given.                                                              *)
LEMMA OutPhases ==
  ASSUME SessionInv, [Next]_vars
  PROVE  /\ Sending' \/ queue' # << >> => native' + delegated' > 0
         /\ phase' = "spy" \/ (phase' = "record" /\ made'.next = "spy") => queue' # << >>
         /\ Reading' \/ phase' = "output" => Reading \/ phase = "output"
         /\ phase' = "create" => MakeBackup \/ UNCHANGED vars
         /\ Sending' /\ phase' # "output" /\ request.to = "file" => (Sending /\ phase # "output") \/ MakeBackup
<1>1. /\ Sending \/ queue # << >> => native + delegated > 0
      /\ phase = "spy" \/ (phase = "record" /\ made.next = "spy") => queue # << >>
  BY DEF SessionInv, OutInv
<1>2. CASE Record
  <2>1. phase = "record" /\ phase' = made.next /\ queue' = queue
    BY <1>2 DEF Record, Go, output
  <2>2. made.next \in Nexts
    BY <1>2, RecordFacts DEF Made
  <2>3. phase' \notin {"record", "output", "create", "dump"} /\ (phase' = "spy" <=> made.next = "spy")
    BY <2>1, <2>2 DEF Nexts
  <2>4. (Sending' <=> made.next = "spy") /\ (Sending <=> made.next = "spy") /\ Active
    BY <2>1, <2>3 DEF Sending, Active
  <2>5. Sending' \/ queue' # << >> => native' + delegated' > 0
    BY <1>1, <1>2, <2>1, <2>4, Counters
  <2>6. QED
    BY <1>1, <2>1, <2>3, <2>4, <2>5 DEF Reading
<1>3. CASE NamingSteps
  <2>1. PICK slot \in Slots, next \in Nexts : Naming(slot, next) /\ Wanted(slot, next)
    BY <1>3, NamingCases
  <2>2. queue' = queue /\ Active
    BY <1>3, NamingCases DEF output
  <2>3. phase' = next \/ (phase' = "record" /\ made'.next = next)
    BY <2>1, EnsureFacts DEF Naming
  <2>4. phase' \notin {"output", "create", "dump"} /\ (Sending' => next = "spy")
    BY <2>3 DEF Nexts, Sending
  <2>5. next = "spy" => Sending /\ phase # "output" /\ queue # << >>
    BY <2>1 DEF Wanted, Sending
  <2>6. next # "spy" => Reading
    BY <2>1, <2>2 DEF Wanted, Sending, Reading, Active
  <2>7. Reading' => next # "spy"
    BY <2>3 DEF Reading, Sending
  <2>8. (phase' = "spy" \/ (phase' = "record" /\ made'.next = "spy")) => next = "spy"
    BY <2>3 DEF Nexts
  <2>9. Sending' \/ queue' # << >> => native' + delegated' > 0
    BY <1>1, <1>3, <2>2, <2>4, <2>5, Counters
  <2>10. QED
    BY <2>2, <2>4, <2>5, <2>6, <2>7, <2>8, <2>9
<1>4. CASE FileSteps
  <2>1. phase \notin {"record", "output", "create", "dump", "spy"} /\ phase' \notin {"record", "output", "create", "dump", "spy"}
    BY <1>4 DEF FileSteps, NextFile, SampleGet, InputType, PrintNative, Ignore, PrintDelegated, BufferSave, Command,
       Popen, Subcontract, PrintToc, EndFiles, Write, Exit, Go
  <2>2. queue' = queue
    <3>1. CASE SampleGet \/ BufferSave
      BY <3>1 DEF SampleGet, BufferSave, output
    <3>2. CASE ~(SampleGet \/ BufferSave)
      BY <1>4, <3>2 DEF FileSteps, NextFile, InputType, PrintNative, Ignore, PrintDelegated, Command, Popen, Subcontract,
         PrintToc, EndFiles, output
    <3>3. QED
      BY <3>1, <3>2
  <2>3. Active
    BY <1>4, FilesQuiet DEF Quiet
  <2>4. ~Sending' /\ Reading
    BY <2>1, <2>3 DEF Sending, Reading
  <2>5. queue' # << >> => native' + delegated' > 0
    BY <1>1, <2>2, Counters
  <2>6. QED
    BY <2>1, <2>4, <2>5
<1>5. CASE SendSteps
  <2>1. native' = native /\ delegated' = delegated
    BY <1>5, Counters
  <2>2. CASE SendAlone \/ SendAll
    <3>1. phase = "end" /\ phase' = "output" /\ Reading
      BY <2>2 DEF SendAlone, SendAll, Go, Reading, Sending, Active
    <3>2. native + delegated > 0
      <4>1. native \in Nat /\ delegated \in Nat
        BY DEF SessionInv, TypeInv
      <4>2. delegated = 1 \/ ~(native = 0 /\ delegated = 0)
        BY <2>2 DEF SendAlone, SendAll, Alone, NothingToSend
      <4>3. QED
        BY <4>1, <4>2
    <3>3. QED
      BY <2>1, <3>1, <3>2
  <2>3. CASE SendNothing
    <3>1. phase' = "exiting" /\ queue' = queue
      BY <2>3 DEF SendNothing, output
    <3>2. QED
      BY <1>1, <2>1, <3>1 DEF Sending, Reading, Active
  <2>4. CASE OpenStream \/ MakeBackup \/ Create
    <3>1. /\ phase \in {"output", "create"} /\ phase' \in {"create", "dump", "exiting"} /\ queue' = queue
          /\ OpenStream => request.to # "file"
          /\ phase' = "create" => MakeBackup
          /\ Create => phase = "create"
      BY <2>4 DEF OpenStream, MakeBackup, Create, Exit, Go, output
    <3>2. Sending /\ ~Reading'
      BY <3>1 DEF Sending, Reading, Active
    <3>3. QED
      BY <1>1, <2>1, <2>4, <3>1, <3>2
  <2>5. CASE DumpText \/ StreamDump \/ StreamDumpFails \/ Unlink2 \/ SpyUser \/ Close
    <3>1. phase \in {"dump", "spy"} /\ phase' \in {"dump", "exiting"}
      BY <2>5 DEF DumpText, StreamDump, StreamDumpFails, Unlink2, SpyUser, Close, Dumping, Sent, Exit, Go
    <3>2. Sending /\ ~Reading'
      BY <3>1 DEF Sending, Reading, Active
    <3>3. native + delegated > 0
      BY <1>1, <3>2
    <3>4. phase # "output" /\ phase' \notin {"output", "spy", "record", "create"}
      BY <3>1
    <3>5. QED
      BY <2>1, <3>2, <3>3, <3>4
  <2>6. QED
    BY <1>5, <2>2, <2>3, <2>4, <2>5 DEF SendSteps
<1>6. CASE EndSteps
  <2>1. native' = native /\ delegated' = delegated
    BY <1>6, Counters
  <2>2. CASE UNCHANGED vars
    BY <1>1, <2>1, <2>2 DEF vars, temps, output, Sending, Reading, Active
  <2>3. CASE ~UNCHANGED vars
    <3>1. phase' \in {"exiting", "cleaning", "exited"} /\ queue' = queue
      BY <1>6, <2>3 DEF EndSteps, ExitHandler, StartCleanup, CleanupTempfiles, Exited, Signal, Stopped, Go, output
    <3>2. ~Sending' /\ ~Reading'
      BY <3>1 DEF Sending, Reading, Active
    <3>3. QED
      BY <1>1, <2>1, <3>1, <3>2
  <2>4. QED
    BY <2>2, <2>3
<1>7. QED
  BY <1>2, <1>3, <1>4, <1>5, <1>6, Steps

LEMMA KeptOld ==
  ASSUME FilesKept
  PROVE  /\ \A f \in Lasting : Old(f)' <=> Old(f)
         /\ Old(Out)' <=> Old(Out)
         /\ Saved => Saved'
<1>1. \A f \in Lasting : (f \in DOMAIN disk' <=> f \in DOMAIN disk) /\ (f \in DOMAIN disk => disk'[f] = disk[f])
  BY DEF FilesKept
<1>2. \A f \in Lasting : Old(f)' <=> Old(f)
  BY <1>1 DEF Old, Original
<1>3. Old(Out)' <=> Old(Out)
  BY <1>1, LastingFacts DEF Old, Original, Out, File
<1>4. ASSUME Saved
      PROVE  Saved'
  <2>1. backup_name' = backup_name /\ backup_name \in {"backup"} \X Nat /\ backup_name \in DOMAIN disk /\ disk[backup_name] = Original(Out)
    BY <1>4 DEF Saved, FilesKept
  <2>2. backup_name \in Lasting
    BY <2>1 DEF Lasting
  <2>3. backup_name \in DOMAIN disk' /\ disk'[backup_name] = Original(Out)
    BY <1>1, <2>1, <2>2
  <2>4. QED
    BY <2>1, <2>3 DEF Saved, Original, Out, File
<1>5. QED
  BY <1>2, <1>3, <1>4

LEMMA KeptOut ==
  ASSUME SessionInv, [Next]_vars, FilesKept, request' = request, ~MakeBackup
  PROVE  OutInv'
<1>1. OutInv
  BY DEF SessionInv
<1>2. /\ Sending' \/ queue' # << >> => native' + delegated' > 0
      /\ phase' = "spy" \/ (phase' = "record" /\ made'.next = "spy") => queue' # << >>
  BY OutPhases
<1>3. ASSUME Reading' \/ phase' = "output"
      PROVE  /\ backup_name' = NULL
             /\ Out \in request'.present => Old(Out)'
             /\ \A f \in DOMAIN disk' : f \in request'.present \/ f[1] = "temp"
  <2>1. Reading \/ phase = "output"
    BY <1>3, OutPhases
  <2>2. /\ backup_name = NULL /\ (Out \in request.present => Old(Out))
        /\ \A f \in DOMAIN disk : f \in request.present \/ f[1] = "temp"
    BY <1>1, <2>1 DEF OutInv
  <2>3. backup_name' = backup_name /\ \A f \in DOMAIN disk' : f \in DOMAIN disk \/ f[1] = "temp"
    BY DEF FilesKept
  <2>4. QED
    BY <2>2, <2>3, KeptOld
<1>4. native' + delegated' = 0 /\ Out \in request'.present => Old(Out)'
  <2>1. native \in Nat /\ delegated \in Nat
    BY DEF SessionInv, TypeInv
  <2>2. native + delegated = 0 \/ native' + delegated' > 0
    <3>1. native + delegated = 0 \/ native + delegated > 0
      BY <2>1
    <3>2. QED
      BY <3>1, Counters
  <2>3. native' \in Nat /\ delegated' \in Nat
    BY WorkTypeStep
  <2>4. native' + delegated' = 0 => native + delegated = 0
    <3>1. \A a, b \in Nat : a + b = 0 => ~(a + b > 0)
      OBVIOUS
    <3>2. QED
      BY <2>2, <2>3, <3>1
  <2>5. QED
    BY <1>1, <2>4, KeptOld DEF OutInv
<1>5. \A n \in Numbers : Backup(n) \in request'.present => Old(Backup(n))'
  <2>1. \A n \in Numbers : Backup(n) \in Lasting
    BY LastingFacts DEF Numbers
  <2>2. \A n \in Numbers : Backup(n) \in request.present => Old(Backup(n))
    BY <1>1 DEF OutInv
  <2>3. ASSUME NEW n \in Numbers, Backup(n) \in request.present
        PROVE  Backup(n) \in DOMAIN disk' /\ disk'[Backup(n)] = Original(Backup(n))
    BY <2>1, <2>2, <2>3 DEF Old, FilesKept
  <2>4. QED
    BY <2>3 DEF Old, Backup, Original
<1>6. phase' = "create" => request'.to = "file" /\ (backup_name' # NULL => Out \notin DOMAIN disk')
  <2>1. phase' = "create" => phase = "create"
    BY OutPhases DEF vars
  <2>2. phase = "create" => request.to = "file" /\ (backup_name # NULL => Out \notin DOMAIN disk)
    BY <1>1 DEF OutInv
  <2>3. (Out \in DOMAIN disk' <=> Out \in DOMAIN disk) /\ backup_name' = backup_name
    BY LastingFacts DEF FilesKept
  <2>4. QED
    BY <2>1, <2>2, <2>3
<1>7. ASSUME Out \in request'.present, request'.backup # "none"
      PROVE  /\ Old(Out)' \/ Saved'
             /\ Sending' /\ phase' # "output" /\ request'.to = "file" => Saved'
  <2>1. /\ Old(Out) \/ Saved
        /\ Sending /\ phase # "output" /\ request.to = "file" => Saved
    BY <1>1, <1>7 DEF OutInv
  <2>2. Sending' /\ phase' # "output" /\ request.to = "file" => Sending /\ phase # "output"
    BY OutPhases
  <2>3. QED
    BY <2>1, <2>2, KeptOld
<1>8. Read(jobs')
  BY ReadStep
<1>9. Out' = Out
  BY DEF Out, File
<1>10. QED
  BY <1>2, <1>3, <1>4, <1>5, <1>6, <1>7, <1>8 DEF OutInv, Read, Original, Out, File, Backup

(* The number that a numbered backup gets is not taken.                    *)
LEMMA BackupFree ==
  ASSUME SessionInv, phase = "output"
  PROVE  \E n \in Nat : BackupName = Backup(n) /\ (n \in Numbers => Backup(n) \notin request.present)
<1>1. request \in Requests /\ \A f \in DOMAIN disk : f \in request.present \/ f[1] = "temp"
  BY DEF SessionInv, TypeInv, OutInv
<1>2. \A n \in Numbers : Backup(n) \in request.present => Backup(n) \in DOMAIN disk
  BY DEF SessionInv, OutInv, Old
<1>3. 9 \in Numbers /\ 9 \notin Numbered
  <2>1. Backup(9) \notin request.present /\ Backup(9)[1] # "temp"
    BY <1>1, SessionAssumption, OutFacts
  <2>2. QED
    BY <1>1, <2>1 DEF Numbers, Numbered
<1>4. \A k \in Numbered : k < 9
  BY <1>3 DEF Numbered, Numbers
<1> DEFINE N == CHOOSE n \in Numbers : n \notin Numbered /\ \A k \in Numbered : k < n
<1>5. N \in Numbers /\ N \notin Numbered
  BY <1>3, <1>4
<1>6. BackupNext = Backup(N)
  BY DEF BackupNext
<1> HIDE DEF N
<1>7. N \in Nat /\ Backup(N) \notin request.present
  BY <1>2, <1>5 DEF Numbered, Numbers
<1>8. 0 \in Nat /\ 0 \notin Numbers
  BY DEF Numbers
<1>9. BackupName = Backup(N) \/ BackupName = Backup(0)
  BY <1>6 DEF BackupName
<1>10. QED
  BY <1>7, <1>8, <1>9

LEMMA MakeBackupOut ==
  ASSUME SessionInv, MakeBackup
  PROVE  OutInv'
<1>1. phase = "output" /\ request.to = "file" /\ request' = request /\ queue' = queue /\ Sending
  BY DEF MakeBackup, Sending
<1>2. native' = native /\ delegated' = delegated /\ jobs' = jobs
  BY DEF MakeBackup, work
<1>3. /\ native + delegated > 0 /\ backup_name = NULL
      /\ Out \in request.present => Old(Out)
      /\ \A n \in Numbers : Backup(n) \in request.present => Old(Backup(n))
      /\ Read(jobs)
  BY <1>1 DEF SessionInv, OutInv, Read
<1>4. phase' \in {"create", "exiting"}
  BY DEF MakeBackup, Go, Exit
<1>5. ~Reading' /\ phase' \notin {"output", "spy", "record"}
  BY <1>4 DEF Reading, Active, Sending
<1>6. CASE disk' = disk /\ backup_name' = backup_name
  <2>1. \A f : Old(f)' <=> Old(f)
    BY <1>6 DEF Old, Original
  <2>2. Out \in request.present /\ request.backup # "none" /\ phase' = "create" => FALSE
    <3>1. SUFFICES ASSUME Out \in request.present, request.backup # "none", phase' = "create"
                   PROVE  FALSE
      OBVIOUS
    <3>2. BackupWanted
      BY <1>3, <3>1 DEF BackupWanted, Old
    <3>3. backup_name' = BackupName
      BY <3>1, <3>2 DEF MakeBackup, Exit
    <3>4. PICK n \in Nat : BackupName = Backup(n)
      BY <1>1, BackupFree
    <3>5. BackupName # NULL
      BY <3>4, LastingFacts
    <3>6. QED
      BY <1>3, <1>6, <3>3, <3>5
  <2>3. Out \in request.present => Old(Out)'
    BY <1>3, <1>6 DEF Old, Original, Out, File
  <2>4. \A n \in Numbers : Backup(n) \in request'.present => Old(Backup(n))'
    BY <1>1, <1>3, <1>6 DEF Old, Original, Backup
  <2>5. Sending' => phase' = "create"
    BY <1>5, <1>4 DEF Sending
  <2>6. phase' = "create" => request'.to = "file" /\ backup_name' = NULL
    BY <1>1, <1>3, <1>6
  <2>7. Out' = Out
    BY DEF Out, File
  <2>8. QED
    BY <1>1, <1>2, <1>3, <1>5, <2>2, <2>3, <2>4, <2>5, <2>6, <2>7 DEF OutInv, Read, Out, File, Original, Backup
<1>7. CASE BackupWanted /\ disk' = Renamed(Out, BackupName) /\ backup_name' = BackupName
  <2>1. PICK n \in Nat : BackupName = Backup(n) /\ (n \in Numbers => Backup(n) \notin request.present)
    BY <1>1, BackupFree
  <2>2. Out \in DOMAIN disk
    BY <1>7 DEF BackupWanted
  <2>3. /\ DOMAIN disk' = (DOMAIN disk \ {Out}) \cup {Backup(n)}
        /\ disk'[Backup(n)] = disk[Out]
        /\ \A f \in DOMAIN disk \ {Out} : f # Backup(n) => disk'[f] = disk[f]
    BY <1>7, <2>1, <2>2 DEF Renamed, Put, Without
  <2>4. backup_name' = Backup(n) /\ Backup(n) \in {"backup"} \X Nat /\ Backup(n) # Out
    BY <1>7, <2>1, LastingFacts, OutFacts
  <2>5. Out \in request.present => Saved'
    <3>1. Out \in request.present => disk'[Backup(n)] = Original(Out)
      BY <1>3, <2>3 DEF Old
    <3>2. QED
      BY <2>3, <2>4, <3>1 DEF Saved, Original, Out, File
  <2>6. ASSUME NEW k \in Numbers, Backup(k) \in request.present
        PROVE  Old(Backup(k))'
    <3>1. Backup(k) \in DOMAIN disk /\ disk[Backup(k)] = Original(Backup(k))
      BY <1>3, <2>6 DEF Old
    <3>2. Backup(k) # Out /\ Backup(k) # Backup(n)
      BY <2>1, <2>6, OutFacts DEF Backup
    <3>3. Backup(k) \in DOMAIN disk' /\ disk'[Backup(k)] = Original(Backup(k))
      BY <2>3, <3>1, <3>2
    <3>4. QED
      BY <3>3 DEF Old, Original, Backup
  <2>7. Out \notin DOMAIN disk'
    BY <2>3, <2>4
  <2>8. \A k \in Numbers : Backup(k) \in request'.present => Old(Backup(k))'
    BY <1>1, <2>6
  <2>9. Out' = Out
    BY DEF Out, File
  <2>10. QED
    BY <1>1, <1>2, <1>3, <1>5, <2>5, <2>7, <2>8, <2>9 DEF OutInv, Read, Out, File, Original, Backup
<1>8. QED
  BY <1>6, <1>7 DEF MakeBackup

LEMMA WrittenOut ==
  ASSUME SessionInv, [Next]_vars, SendSteps, OutWritten, request' = request
  PROVE  OutInv'
<1>1. /\ phase \in {"create", "dump", "spy"} /\ phase' = "dump" /\ request.to = "file"
      /\ backup_name' = backup_name
      /\ \A f \in Lasting \ {Out} : (f \in DOMAIN disk' <=> f \in DOMAIN disk) /\ (f \in DOMAIN disk => disk'[f] = disk[f])
  BY DEF OutWritten
<1>2. Sending /\ phase # "output" /\ ~Reading'
  BY <1>1 DEF Sending, Reading
<1>3. /\ native + delegated > 0
      /\ \A n \in Numbers : Backup(n) \in request.present => Old(Backup(n))
      /\ Out \in request.present /\ request.backup # "none" => Saved
  BY <1>1, <1>2 DEF SessionInv, OutInv
<1>4. native' + delegated' > 0 /\ ~(native' + delegated' = 0)
  <2>1. native \in Nat /\ delegated \in Nat
    BY DEF SessionInv, TypeInv
  <2>2. \A a, b \in Nat : a + b > 0 => ~(a + b = 0)
    OBVIOUS
  <2>3. native' = native /\ delegated' = delegated
    BY Counters
  <2>4. QED
    BY <1>3, <2>1, <2>2, <2>3
<1>5. Saved => Saved'
  <2>1. SUFFICES ASSUME Saved
                 PROVE  Saved'
    OBVIOUS
  <2>2. backup_name \in {"backup"} \X Nat /\ backup_name \in DOMAIN disk /\ disk[backup_name] = Original(Out)
    BY <2>1 DEF Saved
  <2>3. backup_name \in Lasting /\ backup_name # Out
    BY <2>2, OutFacts DEF Lasting
  <2>4. backup_name \in DOMAIN disk' /\ disk'[backup_name] = Original(Out)
    BY <1>1, <2>2, <2>3
  <2>5. QED
    BY <1>1, <2>2, <2>4 DEF Saved, Original, Out, File
<1>6. ASSUME NEW k \in Numbers, Backup(k) \in request.present
      PROVE  Old(Backup(k))'
  <2>1. Backup(k) \in DOMAIN disk /\ disk[Backup(k)] = Original(Backup(k))
    BY <1>3, <1>6 DEF Old
  <2>2. Backup(k) \in Lasting /\ Backup(k) # Out
    BY LastingFacts, OutFacts DEF Numbers
  <2>3. Backup(k) \in DOMAIN disk' /\ disk'[Backup(k)] = Original(Backup(k))
    BY <1>1, <2>1, <2>2
  <2>4. QED
    BY <2>3 DEF Old, Original, Backup
<1>7. \A k \in Numbers : Backup(k) \in request'.present => Old(Backup(k))'
  BY <1>6
<1>8. Read(jobs')
  BY ReadStep
<1>9. Out' = Out
  BY DEF Out, File
<1>10. QED
  BY <1>1, <1>2, <1>3, <1>4, <1>5, <1>7, <1>8, <1>9 DEF OutInv, Read, Original, Out, File, Backup

LEMMA OutStep ==
  ASSUME SessionInv, [Next]_vars
  PROVE  OutInv'
<1>1. CASE MakeBackup
  BY <1>1, MakeBackupOut
<1>2. CASE ~MakeBackup /\ SendSteps
  BY <1>2, SendStepKept, KeptOut, WrittenOut
<1>3. CASE ~MakeBackup /\ ~SendSteps
  BY <1>3, Steps, FilesStepKept, KeptOut
<1>4. QED
  BY <1>1, <1>2, <1>3

LEMMA SessionStep ==
  ASSUME SessionInv, [Next]_vars
  PROVE  SessionInv'
BY TypeStep, NameStep, TempStep, OutStep DEF SessionInv
-----------------------------------------------------------------------------
(* The results of the delegations.  A variable that names a temporary file *)
(* names it alone.                                                         *)
HasResult(k) == ResultSlot(k) \in DOMAIN names
Result(k)    == names[ResultSlot(k)]
Contents(k)  == <<<<"result", jobs[k].read>>>>

(* The file of a result is there, and it is that of its job.               *)
Waiting(k) == Result(k) \in DOMAIN disk /\ (jobs[k].fate = "result" => disk[Result(k)] = Contents(k))

(* What is delayed is about the result of a delegation that succeeded, and *)
(* nothing that was removed is dumped.                                     *)
Results == {Result(k) : k \in {i \in DOMAIN jobs : jobs[i].fate = "result" /\ HasResult(i)}}
Ordered(s) ==
  \A i, j \in DOMAIN s : i < j /\ s[i][1] = "unlink" /\ s[j][1] = "dump" => s[i][2] # s[j][2]
Delayed(s, files) ==
  /\ \A i \in DOMAIN s : s[i][1] \in {"dump", "unlink"} => s[i][2] \in files
  /\ Ordered(s)
Ready == {Result(k) : k \in {i \in DOMAIN jobs : HasResult(i) /\ Waiting(i)}}
Sendable(s, files) == (\A i \in DOMAIN s : s[i][1] = "dump" => s[i][2] \in files) /\ Ordered(s)

(* The current file has not given anything yet.                            *)
Unfinished ==
  \/ phase \in {"sample", "sample it", "type", "print", "stdin", "save", "command", "result", "popen", "read"}
  \/ phase = "record" /\ made.next # "spy"

NamesApart ==
  /\ \A s, t \in DOMAIN names : names[s] = names[t] => s = t
  /\ \A i : HasResult(i) => i \in DOMAIN jobs
  /\ Active => \A f \in Range(tempfiles) : f[2] <= Len(tempfiles)
  /\ phase = "record" => made.file[2] = Len(tempfiles) + 1 /\ made.file \in DOMAIN disk

ResultInv ==
  /\ NamesApart
  /\ Unfinished => jobs[Current].fate # "result"
  /\ Reading =>
       /\ \A k \in DOMAIN jobs : HasResult(k) => Waiting(k)
       /\ Delayed(divertion, Results)
  /\ Sending => Sendable(queue, Ready)

-----------------------------------------------------------------------------
LEMMA SlotFacts ==
  /\ \A i : ResultSlot(i) # SampleSlot /\ ResultSlot(i) # MacroSlot
  /\ \A i, k : ResultSlot(i) # StdinSlot(k) /\ (ResultSlot(i) = ResultSlot(k) => i = k)
BY DEF ResultSlot, SampleSlot, MacroSlot, StdinSlot

(* A file that is made now has no name yet.                                *)
LEMMA EnsureFresh ==
  ASSUME SessionInv, NamesApart, NEW slot \in Slots, NEW next \in Nexts, Naming(slot, next), slot \notin DOMAIN names
  PROVE  /\ made'.file[2] = Len(tempfiles) + 1 /\ made'.file \in DOMAIN disk'
         /\ made'.file \notin Named
<1> DEFINE file == <<"temp", Len(tempfiles) + 1>>
<1>1. Active /\ tempfiles \in Seq(Temps)
  BY DEF Naming, SessionInv, TypeInv
<1>2. NameOf(slot) = NULL
  BY DEF NameOf
<1>3. made' = [file |-> file, slot |-> slot, next |-> next] /\ disk' = Put(disk, file, << >>)
  BY <1>2 DEF Naming, Ensure
<1>4. made'.file = file
  BY <1>3
<1>5. file \in DOMAIN disk'
  BY <1>3 DEF Put
<1>6. file[2] = Len(tempfiles) + 1
  OBVIOUS
<1> HIDE DEF file
<1>7. file \notin Range(tempfiles)
  <2>1. \A f \in Range(tempfiles) : f[2] <= Len(tempfiles)
    BY <1>1 DEF NamesApart
  <2>2. Len(tempfiles) \in Nat
    BY <1>1
  <2>3. \A n \in Nat : ~(n + 1 <= n)
    OBVIOUS
  <2>4. QED
    BY <1>6, <2>1, <2>2, <2>3
<1>8. Named \subseteq Range(tempfiles)
  BY <1>1 DEF SessionInv, NameInv
<1>9. QED
  BY <1>4, <1>5, <1>6, <1>7, <1>8

LEMMA RecordNames ==
  ASSUME SessionInv, NamesApart, Record
  PROVE  /\ made.file \notin Named /\ made.slot \notin DOMAIN names
         /\ DOMAIN names' = DOMAIN names \cup {made.slot} /\ names'[made.slot] = made.file
         /\ \A s \in DOMAIN names : names'[s] = names[s]
         /\ made.file[2] = Len(tempfiles) + 1 /\ made.file \in DOMAIN disk
<1>1. phase = "record" /\ Active /\ made.slot \notin DOMAIN names
  BY DEF Record, Active, SessionInv, NameInv
<1>2. made.file[2] = Len(tempfiles) + 1 /\ made.file \in DOMAIN disk
  BY <1>1 DEF NamesApart
<1>3. Named \subseteq Range(tempfiles) /\ \A f \in Range(tempfiles) : f[2] <= Len(tempfiles)
  BY <1>1 DEF SessionInv, NameInv, NamesApart
<1>4. made.file \notin Named
  <2>1. Len(tempfiles) \in Nat
    BY DEF SessionInv, TypeInv
  <2>2. \A n \in Nat : ~(n + 1 <= n)
    OBVIOUS
  <2>3. QED
    BY <1>2, <1>3, <2>1, <2>2
<1>5. names' = Put(names, made.slot, made.file)
  BY DEF Record
<1>6. QED
  BY <1>1, <1>2, <1>4, <1>5 DEF Put

(* How the files met so far change.                                        *)
FatesKept ==
  /\ DOMAIN jobs \subseteq DOMAIN jobs'
  /\ \A k \in DOMAIN jobs :
       /\ jobs'[k].fate = "result" <=> jobs[k].fate = "result"
       /\ jobs[k].fate = "result" => jobs'[k].read = jobs[k].read

LEMMA FatesStep ==
  ASSUME SessionInv, ResultInv, [Next]_vars, ~Subcontract
  PROVE  FatesKept
<1>0. AreJobs(jobs)
  BY DEF SessionInv, TypeInv
<1>1. CASE jobs' = jobs
  BY <1>1 DEF FatesKept
<1>2. ASSUME jobs[Current].fate # "result", NEW fate, fate # "result", SetFate(fate)
      PROVE  FatesKept
  BY <1>0, <1>2, FateSet DEF FatesKept
<1>3. ASSUME NEW r, IsJob(r), jobs' = Append(jobs, r)
      PROVE  FatesKept
  <2>1. DOMAIN jobs' = 1 .. Len(jobs) + 1 /\ DOMAIN jobs = 1 .. Len(jobs) /\ \A i \in DOMAIN jobs : jobs'[i] = jobs[i]
    BY <1>0, <1>3, JobAdded
  <2>2. Len(jobs) \in Nat
    BY <1>0, SeqFacts DEF AreJobs
  <2>3. QED
    BY <2>1, <2>2 DEF FatesKept
<1>4. CASE NextFile
  <2>1. PICK name \in request.names : jobs' = Append(jobs, [name |-> name, type |-> NULL, fate |-> NULL, read |-> << >>])
    BY <1>4 DEF NextFile
  <2>2. IsJob([name |-> name, type |-> NULL, fate |-> NULL, read |-> << >>])
    BY DEF IsJob
  <2>3. QED
    BY <1>3, <2>1, <2>2
<1>5. CASE PrintToc
  <2>1. jobs' = Append(jobs, [name |-> "toc", type |-> "plain", fate |-> "text", read |-> <<<<"toc", << >>>>>>])
    BY <1>5 DEF PrintToc
  <2>2. IsJob([name |-> "toc", type |-> "plain", fate |-> "text", read |-> <<<<"toc", << >>>>>>])
    BY DEF IsJob
  <2>3. QED
    BY <1>3, <2>1, <2>2
<1>6. CASE InputType
  <2>1. phase = "type"
    BY <1>6 DEF InputType
  <2>2. jobs[Current].fate # "result"
    BY <2>1 DEF ResultInv, Unfinished
  <2>3. PICK type, read : jobs' = [jobs EXCEPT ![Current].type = type, ![Current].read = read]
    BY <1>6 DEF InputType
  <2>4. /\ DOMAIN jobs' = DOMAIN jobs
        /\ \A i \in DOMAIN jobs : /\ jobs'[i].fate = jobs[i].fate
                                  /\ jobs'[i].read = IF i = Current THEN read ELSE jobs[i].read
    BY <1>0, <2>3, TypeSet
  <2>5. QED
    BY <2>2, <2>4 DEF FatesKept
<1>7. CASE PrintNative \/ Ignore \/ Popen
  <2>1. phase \in {"print", "popen"}
    BY <1>7 DEF PrintNative, Ignore, Popen
  <2>2. jobs[Current].fate # "result"
    BY <2>1 DEF ResultInv, Unfinished
  <2>3. jobs' = jobs \/ \E fate \in {"text", "skipped", "ignored", "failed"} : SetFate(fate)
    BY <1>7 DEF PrintNative, Ignore, Popen
  <2>4. QED
    BY <1>1, <1>2, <2>2, <2>3
<1>8. CASE Record \/ NamingSteps
  BY <1>1, <1>8 DEF Record, NamingSteps, SampleName, StdinName, Command, ResultName, SpyName, work
<1>9. CASE EndSteps
  BY <1>1, <1>9 DEF EndSteps, ExitHandler, StartCleanup, CleanupTempfiles, Exited, Signal, Stopped, vars, work
<1>10. CASE SendSteps
  BY <1>1, <1>10 DEF SendSteps, SendAlone, SendAll, SendNothing, OpenStream, MakeBackup, Create, DumpText, StreamDump,
     StreamDumpFails, Unlink2, SpyUser, Close, Sent, work, output
<1>11. CASE SampleGet \/ PrintDelegated \/ BufferSave \/ (Command /\ ~request.macro) \/ EndFiles
  BY <1>1, <1>11 DEF SampleGet, PrintDelegated, BufferSave, Command, EndFiles, work
<1>12. QED
  BY <1>4, <1>5, <1>6, <1>7, <1>8, <1>9, <1>10, <1>11, Steps DEF FileSteps
(* The results that are there stay as they are.                            *)
ResultsKept ==
  \A k : HasResult(k) /\ Result(k) \in DOMAIN disk => Result(k) \in DOMAIN disk' /\ disk'[Result(k)] = disk[Result(k)]

LEMMA OtherFiles ==
  ASSUME SessionInv, NamesApart
  PROVE  \A k : HasResult(k) =>
           /\ Result(k) \in Temps /\ Result(k) \in Named /\ Result(k)[1] = "temp"
           /\ Result(k) # Out /\ Result(k) # NameOf(SampleSlot) /\ \A n : Result(k) # Backup(n)
           /\ \A s \in DOMAIN names : s # ResultSlot(k) => names[s] # Result(k)
<1> SUFFICES ASSUME NEW k, HasResult(k)
             PROVE  /\ Result(k) \in Temps /\ Result(k) \in Named /\ Result(k)[1] = "temp"
                    /\ Result(k) # Out /\ Result(k) # NameOf(SampleSlot) /\ \A n : Result(k) # Backup(n)
                    /\ \A s \in DOMAIN names : s # ResultSlot(k) => names[s] # Result(k)
  OBVIOUS
<1>1. Result(k) \in Temps /\ Result(k) \in Named
  BY DEF SessionInv, TypeInv, HasResult, Result, Named
<1>2. Result(k)[1] = "temp" /\ Result(k) # NULL
  BY <1>1, SessionAssumption DEF Temps
<1>3. \A s \in DOMAIN names : s # ResultSlot(k) => names[s] # Result(k)
  BY DEF NamesApart, HasResult, Result
<1>4. Result(k) # NameOf(SampleSlot)
  BY <1>2, <1>3, SlotFacts DEF NameOf
<1>5. QED
  BY <1>1, <1>2, <1>3, <1>4, OutFacts

LEMMA ResultsStep ==
  ASSUME SessionInv, ResultInv, [Next]_vars, Active', ~Subcontract, ~Unlink2
  PROVE  ResultsKept
<1>0. NamesApart
  BY DEF ResultInv
<1>1. CASE disk' = disk
  BY <1>1 DEF ResultsKept
<1>2. ASSUME NEW f, \A k : HasResult(k) => f # Result(k), NEW c, disk' = Put(disk, f, c)
      PROVE  ResultsKept
  <2>1. DOMAIN disk' = DOMAIN disk \cup {f} /\ \A g \in DOMAIN disk : g # f => disk'[g] = disk[g]
    BY <1>2 DEF Put
  <2>2. QED
    BY <1>2, <2>1 DEF ResultsKept
<1>3. ASSUME NEW f, \A k : HasResult(k) => f # Result(k), disk' = Without(disk, {f})
      PROVE  ResultsKept
  <2>1. DOMAIN disk' = DOMAIN disk \ {f} /\ \A g \in DOMAIN disk \ {f} : disk'[g] = disk[g]
    BY <1>3, DiskFacts
  <2>2. QED
    BY <1>3, <2>1 DEF ResultsKept
<1>4. CASE NamingSteps
  <2>1. PICK slot \in Slots, next \in Nexts : Naming(slot, next)
    BY <1>4, NamingCases
  <2>2. CASE slot \in DOMAIN names
    BY <1>1, <2>1, <2>2, EnsureFacts DEF Naming
  <2>3. CASE slot \notin DOMAIN names
    <3>1. made'.file \notin Named /\ \A f \in DOMAIN disk : f # made'.file => disk'[f] = disk[f]
      BY <1>0, <2>1, <2>3, EnsureFacts, EnsureFresh DEF Naming
    <3>2. DOMAIN disk \subseteq DOMAIN disk'
      BY <2>1, <2>3, EnsureFacts DEF Naming
    <3>3. QED
      BY <1>0, <3>1, <3>2, OtherFiles DEF ResultsKept
  <2>4. QED
    BY <2>2, <2>3
<1>5. CASE SampleGet
  <2>1. SampleSlot \in DOMAIN names /\ disk' = Put(disk, names[SampleSlot], Original(File(Stdin)))
    BY <1>5 DEF SampleGet, Write, Exit, SessionInv, NameInv, Active
  <2>2. \A k : HasResult(k) => names[SampleSlot] # Result(k)
    BY <1>0, <2>1, OtherFiles, SlotFacts
  <2>3. QED
    BY <1>2, <2>1, <2>2
<1>6. CASE BufferSave
  <2>1. StdinSlot(Current) \in DOMAIN names /\ disk' = Put(disk, names[StdinSlot(Current)], jobs[Current].read)
    BY <1>6 DEF BufferSave, Write, Exit, SessionInv, NameInv, Active
  <2>2. \A k : HasResult(k) => names[StdinSlot(Current)] # Result(k)
    BY <1>0, <2>1, OtherFiles, SlotFacts
  <2>3. QED
    BY <1>2, <2>1, <2>2
<1>7. CASE InputType
  <2>1. disk' = Without(disk, {NameOf(SampleSlot)})
    BY <1>7 DEF InputType
  <2>2. QED
    BY <1>0, <1>3, <2>1, OtherFiles
<1>8. CASE MakeBackup
  <2>1. disk' = disk \/ disk' = Put(Without(disk, {Out}), BackupName, disk[Out])
    BY <1>8, OutFacts DEF MakeBackup
  <2>2. PICK n : BackupName = Backup(n)
    BY OutFacts
  <2>3. ASSUME disk' = Put(Without(disk, {Out}), BackupName, disk[Out]), NEW k, HasResult(k), Result(k) \in DOMAIN disk
        PROVE  Result(k) \in DOMAIN disk' /\ disk'[Result(k)] = disk[Result(k)]
    BY <1>0, <2>2, <2>3, OtherFiles DEF Put, Without
  <2>4. QED
    BY <1>1, <2>1, <2>3 DEF ResultsKept
<1>9. CASE Create
  <2>1. disk' = Put(disk, Out, << >>)
    BY <1>9 DEF Create, Exit, Active
  <2>2. QED
    BY <1>0, <1>2, <2>1, OtherFiles
<1>10. ASSUME NEW c, disk' = [disk EXCEPT ![Out] = c]
       PROVE  ResultsKept
  BY <1>0, <1>10, OtherFiles DEF ResultsKept
<1>11. CASE DumpText \/ StreamDump
  <2>1. disk' = disk \/ \E c : disk' = [disk EXCEPT ![Out] = c]
    BY <1>11 DEF DumpText, StreamDump, Send
  <2>2. QED
    BY <1>1, <1>10, <2>1
<1>12. CASE SpyUser
  <2>1. MacroSlot \in DOMAIN names
    BY <1>12 DEF SpyUser, SessionInv, NameInv
  <2>2. PICK d : /\ disk' = Without(d, {names[MacroSlot]})
                 /\ d = disk \/ \E c : d = [disk EXCEPT ![Out] = c]
    BY <1>12 DEF SpyUser, Exit, Active
  <2>3. ASSUME NEW k, HasResult(k), Result(k) \in DOMAIN disk
        PROVE  Result(k) \in DOMAIN disk' /\ disk'[Result(k)] = disk[Result(k)]
    <3>1. Result(k) # Out /\ Result(k) # names[MacroSlot]
      BY <1>0, <2>1, <2>3, OtherFiles, SlotFacts
    <3>2. Result(k) \in DOMAIN d /\ d[Result(k)] = disk[Result(k)]
      BY <2>2, <2>3, <3>1
    <3>3. QED
      BY <2>2, <3>1, <3>2 DEF Without
  <2>4. QED
    BY <2>3 DEF ResultsKept
<1>13. CASE \/ Record \/ NextFile \/ PrintNative \/ Ignore \/ PrintDelegated \/ (Command /\ ~request.macro) \/ Popen \/ PrintToc \/ EndFiles
  BY <1>1, <1>13 DEF Record, NextFile, PrintNative, Ignore, PrintDelegated, Command, Popen, PrintToc, EndFiles
<1>14. CASE SendAlone \/ SendAll \/ SendNothing \/ OpenStream \/ StreamDumpFails \/ Close
  BY <1>1, <1>14 DEF SendAlone, SendAll, SendNothing, OpenStream, StreamDumpFails, Close
<1>15. CASE EndSteps
  <2>1. UNCHANGED vars
    BY <1>15 DEF EndSteps, ExitHandler, StartCleanup, CleanupTempfiles, Exited, Signal, Stopped, Active, Go, vars
  <2>2. QED
    BY <1>1, <2>1 DEF vars
<1>16. QED
  BY <1>4, <1>5, <1>6, <1>7, <1>8, <1>9, <1>11, <1>12, <1>13, <1>14, <1>15, Steps DEF FileSteps, SendSteps

(* No variable gets a name that another one has.                           *)
LEMMA NamesApartStep ==
  ASSUME SessionInv, ResultInv, [Next]_vars
  PROVE  NamesApart'
<1>0. NamesApart /\ AreJobs(jobs)
  BY DEF ResultInv, SessionInv, TypeInv
<1>1. DOMAIN jobs \subseteq DOMAIN jobs'
  <2>1. CASE Subcontract
    <3>1. \E fate : SetFate(fate)
      BY <2>1 DEF Subcontract
    <3>2. QED
      BY <1>0, <3>1, FateSet
  <2>2. CASE ~Subcontract
    BY <2>2, FatesStep DEF FatesKept
  <2>3. QED
    BY <2>1, <2>2
<1>2. ASSUME names' = names, tempfiles' = tempfiles, Active' => Active, phase' # "record"
      PROVE  NamesApart'
  BY <1>0, <1>1, <1>2 DEF NamesApart, HasResult
<1>3. CASE FileSteps \/ SendSteps
  <2>1. Quiet
    BY <1>3, FilesQuiet, SendQuiet
  <2>2. QED
    BY <1>2, <2>1 DEF Quiet
<1>4. CASE NamingSteps
  <2>1. PICK slot \in Slots, next \in Nexts : Naming(slot, next)
    BY <1>4, NamingCases
  <2>2. names' = names /\ tempfiles' = tempfiles /\ Active
    BY <2>1, EnsureFacts DEF Naming
  <2>3. CASE slot \in DOMAIN names
    <3>1. phase' # "record"
      BY <2>1, <2>3, EnsureFacts DEF Naming, Nexts
    <3>2. QED
      BY <1>2, <2>2, <3>1
  <2>4. CASE slot \notin DOMAIN names
    <3>1. made'.file[2] = Len(tempfiles) + 1 /\ made'.file \in DOMAIN disk'
      BY <1>0, <2>1, <2>4, EnsureFresh
    <3>2. QED
      BY <1>0, <1>1, <2>2, <3>1 DEF NamesApart, HasResult
  <2>5. QED
    BY <2>3, <2>4
<1>5. CASE Record
  <2>1. /\ made.file \notin Named /\ made.slot \notin DOMAIN names
        /\ DOMAIN names' = DOMAIN names \cup {made.slot} /\ names'[made.slot] = made.file
        /\ \A s \in DOMAIN names : names'[s] = names[s]
        /\ made.file[2] = Len(tempfiles) + 1
    BY <1>0, <1>5, RecordNames
  <2>2. \A s, t \in DOMAIN names' : names'[s] = names'[t] => s = t
    BY <1>0, <2>1 DEF NamesApart, Named
  <2>3. \A i : HasResult(i)' => i \in DOMAIN jobs'
    <3>1. SUFFICES ASSUME NEW i, ResultSlot(i) \in DOMAIN names'
                   PROVE  i \in DOMAIN jobs'
      BY DEF HasResult, ResultSlot
    <3>2. CASE ResultSlot(i) \in DOMAIN names
      BY <1>0, <1>1, <3>2 DEF NamesApart, HasResult
    <3>3. CASE made.slot = ResultSlot(i)
      <4>1. NamedFor(made.next, made.slot) /\ Current >= 1
        BY <1>5 DEF Record, SessionInv, NameInv, Active
      <4>2. i = Current
        BY <3>3, <4>1, SlotFacts DEF NamedFor
      <4>3. Current \in DOMAIN jobs
        BY <1>0, <4>1, SeqFacts DEF AreJobs, Current
      <4>4. QED
        BY <1>1, <4>2, <4>3
    <3>4. QED
      BY <2>1, <3>1, <3>2, <3>3
  <2>4. \A f \in Range(tempfiles') : f[2] <= Len(tempfiles')
    <3>1. made.file \in Temps /\ tempfiles \in Seq(Temps) /\ tempfiles' = Append(tempfiles, made.file)
      BY <1>5, RecordFacts DEF Record, SessionInv, TypeInv
    <3>2. Range(tempfiles') = Range(tempfiles) \cup {made.file} /\ Len(tempfiles') = Len(tempfiles) + 1
      BY <1>5, <3>1, RecordFacts
    <3>3. \A f \in Range(tempfiles) : f \in Temps /\ f[2] <= Len(tempfiles)
      BY <1>0, <1>5, <3>1 DEF Record, NamesApart, Active, Range
    <3>4. Len(tempfiles) \in Nat /\ \A f \in Temps : f[2] \in Nat
      BY <3>1 DEF Temps
    <3>5. \A m, n \in Nat : (m <= n => m <= n + 1) /\ n + 1 <= n + 1
      OBVIOUS
    <3>6. QED
      BY <2>1, <3>2, <3>3, <3>4, <3>5
  <2>5. phase' # "record"
    <3>1. phase' = made.next /\ made \in Made
      BY <1>5, RecordFacts DEF Record, Go
    <3>2. QED
      BY <3>1 DEF Made, Nexts
  <2>6. QED
    BY <2>2, <2>3, <2>4, <2>5 DEF NamesApart
<1>6. CASE EndSteps
  <2>1. CASE UNCHANGED vars
    BY <1>0, <2>1 DEF vars, temps, work, NamesApart, HasResult, Active
  <2>2. CASE ~UNCHANGED vars
    <3>1. names' = names /\ ~Active' /\ phase' # "record"
      BY <1>6, <2>2 DEF EndSteps, ExitHandler, StartCleanup, CleanupTempfiles, Exited, Signal, Stopped, Active, Go, temps
    <3>2. QED
      BY <1>0, <1>1, <3>1 DEF NamesApart, HasResult
  <2>3. QED
    BY <2>1, <2>2
<1>7. QED
  BY <1>3, <1>4, <1>5, <1>6, Steps

(* A file that is not finished was met before, and this step is not the    *)
(* one that ends it.                                                       *)
LEMMA UnfinishedBefore ==
  ASSUME SessionInv, [Next]_vars, Unfinished', ~NextFile
  PROVE  Unfinished /\ ~Subcontract /\ Active /\ phase # "next"
<1>1. CASE Record
  <2>1. phase = "record" /\ phase' = made.next /\ made' = NULL
    BY <1>1 DEF Record, Go
  <2>2. made.next \in Nexts
    BY <1>1, RecordFacts DEF Made
  <2>3. made.next # "spy"
    BY <2>1, <2>2 DEF Unfinished, Nexts
  <2>4. QED
    BY <2>1, <2>3 DEF Unfinished, Active, Subcontract
<1>2. CASE NamingSteps
  <2>1. phase \in {"sample", "stdin", "command", "result"} \/ SpyName
    BY <1>2 DEF NamingSteps, SampleName, StdinName, Command, ResultName
  <2>2. CASE SpyName
    <3>1. phase' = "spy" \/ (phase' = "record" /\ made'.next = "spy")
      <4>1. Naming(MacroSlot, "spy") /\ MacroSlot \in Slots /\ "spy" \in Nexts
        BY <2>2, Namings DEF Nexts
      <4>2. QED
        BY <4>1, EnsureFacts DEF Naming
    <3>2. QED
      BY <3>1 DEF Unfinished
  <2>3. CASE phase \in {"sample", "stdin", "command", "result"}
    BY <2>3 DEF Unfinished, Active, Subcontract
  <2>4. QED
    BY <2>1, <2>2, <2>3
<1>3. CASE FileSteps
  <2>1. CASE SampleGet \/ BufferSave
    BY <2>1 DEF SampleGet, BufferSave, Unfinished, Active, Subcontract
  <2>2. CASE InputType \/ PrintDelegated \/ Command
    BY <2>2 DEF InputType, PrintDelegated, Command, Unfinished, Active, Subcontract
  <2>3. CASE Popen
    BY <2>3 DEF Popen, Unfinished, Active, Subcontract
  <2>4. CASE PrintNative \/ Ignore \/ Subcontract \/ PrintToc \/ EndFiles
    BY <2>4 DEF PrintNative, Ignore, Subcontract, PrintToc, EndFiles, Unfinished, Go
  <2>5. QED
    BY <1>3, <2>1, <2>2, <2>3, <2>4 DEF FileSteps
<1>4. CASE SendSteps
  BY <1>4 DEF SendSteps, SendAlone, SendAll, SendNothing, OpenStream, MakeBackup, Create, DumpText, StreamDump,
     StreamDumpFails, Unlink2, SpyUser, Close, Sent, Dumping, Exit, Go, Unfinished
<1>5. CASE EndSteps
  <2>1. phase' = phase /\ made' = made
    BY <1>5 DEF EndSteps, ExitHandler, StartCleanup, CleanupTempfiles, Exited, Signal, Stopped, Go, vars, temps, Unfinished
  <2>2. QED
    BY <1>5, <2>1 DEF Unfinished, Active, Subcontract, EndSteps, ExitHandler, StartCleanup, CleanupTempfiles, Exited, Signal, Stopped, Go, vars, work
<1>6. QED
  BY <1>1, <1>2, <1>3, <1>4, <1>5, Steps

(* A file has given nothing before it is printed.                          *)
LEMMA UnfinishedStep ==
  ASSUME SessionInv, ResultInv, [Next]_vars, Unfinished'
  PROVE  jobs'[Current'].fate # "result"
<1>0. AreJobs(jobs)
  BY DEF SessionInv, TypeInv
<1>1. CASE NextFile
  <2>1. PICK name \in request.names : jobs' = Append(jobs, [name |-> name, type |-> NULL, fate |-> NULL, read |-> << >>])
    BY <1>1 DEF NextFile
  <2> DEFINE r == [name |-> name, type |-> NULL, fate |-> NULL, read |-> << >>]
  <2>2. IsJob(r) /\ r.fate = NULL
    BY DEF IsJob
  <2> HIDE DEF r
  <2>3. jobs'[Len(jobs) + 1] = r /\ Len(jobs') = Len(jobs) + 1
    BY <1>0, <2>1, <2>2, JobAdded DEF r
  <2>4. QED
    BY <2>2, <2>3, SessionAssumption DEF Current
<1>2. CASE ~NextFile
  <2>1. Unfinished /\ ~Subcontract /\ Active /\ phase # "next"
    BY <1>2, UnfinishedBefore
  <2>2. Current \in DOMAIN jobs /\ jobs[Current].fate # "result"
    <3>1. Current >= 1
      BY <2>1 DEF SessionInv, NameInv
    <3>2. QED
      BY <1>0, <2>1, <3>1, SeqFacts DEF AreJobs, Current, ResultInv
  <2>3. jobs'[Current].fate # "result"
    BY <2>1, <2>2, FatesStep DEF FatesKept
  <2>4. Len(jobs') = Len(jobs)
    <3>1. ~PrintToc
      BY <2>1 DEF PrintToc
    <3>2. CASE InputType
      <4>1. \E type, read : jobs' = [jobs EXCEPT ![Current].type = type, ![Current].read = read]
        BY <3>2 DEF InputType
      <4>2. QED
        BY <1>0, <4>1, TypeSet
    <3>3. CASE ~InputType
      <4>1. jobs' = jobs \/ \E fate : SetFate(fate)
        BY <1>2, <3>1, <3>3 DEF Next, vars, work, output, Record, SampleName, SampleGet, PrintNative, Ignore, PrintDelegated, StdinName,
           BufferSave, Command, ResultName, Popen, Subcontract, EndFiles, SendAlone, SendAll, SendNothing,
           OpenStream, MakeBackup, Create, DumpText, StreamDump, StreamDumpFails, Unlink2, SpyName, SpyUser, Close, Sent,
           ExitHandler, StartCleanup, CleanupTempfiles, Exited, Signal, Stopped
      <4>2. QED
        BY <1>0, <4>1, FateSet
    <3>4. QED
      BY <3>2, <3>3
  <2>5. QED
    BY <2>3, <2>4 DEF Current
<1>3. QED
  BY <1>1, <1>2

(* A name that a variable has is kept.                                     *)
NamesKept == \A s \in DOMAIN names : s \in DOMAIN names' /\ names'[s] = names[s]

LEMMA NamesStep ==
  ASSUME SessionInv, ResultInv, [Next]_vars
  PROVE  /\ NamesKept
         /\ ~Record => names' = names
<1>1. CASE Record
  <2>1. NamesKept
    BY <1>1, RecordNames DEF ResultInv, NamesKept
  <2>2. QED
    BY <1>1, <2>1
<1>2. CASE names' = names
  BY <1>2 DEF NamesKept
<1>3. CASE FileSteps \/ SendSteps
  BY <1>2, <1>3, FilesQuiet, SendQuiet DEF Quiet
<1>4. CASE NamingSteps
  BY <1>2, <1>4, NamingCases, EnsureFacts DEF Naming
<1>5. CASE EndSteps
  BY <1>2, <1>5 DEF EndSteps, ExitHandler, StartCleanup, CleanupTempfiles, Exited, Signal, Stopped, vars, temps
<1>6. QED
  BY <1>1, <1>3, <1>4, <1>5, Steps

LEMMA Carried ==
  ASSUME NamesApart, NamesKept, FatesKept
  PROVE  /\ \A k : HasResult(k) => HasResult(k)' /\ Result(k)' = Result(k)
         /\ \A k : HasResult(k) /\ Waiting(k) /\ ResultsKept => Waiting(k)'
         /\ ResultsKept => Ready \subseteq Ready'
<1>1. \A k : HasResult(k) => HasResult(k)' /\ Result(k)' = Result(k)
  BY DEF NamesKept, HasResult, Result, ResultSlot
<1>2. ASSUME NEW k, HasResult(k), Waiting(k), ResultsKept
      PROVE  Waiting(k)'
  <2>1. k \in DOMAIN jobs
    BY <1>2 DEF NamesApart
  <2>2. Result(k)' \in DOMAIN disk' /\ disk'[Result(k)'] = disk[Result(k)]
    BY <1>1, <1>2 DEF Waiting, ResultsKept
  <2>3. /\ jobs'[k].fate = "result" <=> jobs[k].fate = "result"
        /\ jobs[k].fate = "result" => jobs'[k].read = jobs[k].read
    BY <2>1 DEF FatesKept
  <2>4. jobs'[k].fate = "result" => disk'[Result(k)'] = Contents(k)'
    BY <1>2, <2>2, <2>3 DEF Waiting, Contents
  <2>5. QED
    BY <2>2, <2>4 DEF Waiting
<1>3. ASSUME NEW f \in Ready, ResultsKept
      PROVE  f \in Ready'
  <2>1. PICK k \in DOMAIN jobs : HasResult(k) /\ Result(k) = f /\ Waiting(k)
    BY <1>3 DEF Ready
  <2>2. k \in DOMAIN jobs' /\ HasResult(k)' /\ Result(k)' = f /\ Waiting(k)'
    BY <1>1, <1>2, <1>3, <2>1 DEF FatesKept
  <2>3. QED
    BY <2>2 DEF Ready
<1>4. QED
  BY <1>1, <1>2, <1>3

LEMMA ResultsCarried ==
  ASSUME NamesKept, \A k \in DOMAIN jobs : jobs[k].fate = "result" => k \in DOMAIN jobs' /\ jobs'[k].fate = "result"
  PROVE  Results \subseteq Results'
<1>1. SUFFICES ASSUME NEW k \in DOMAIN jobs, jobs[k].fate = "result", HasResult(k)
               PROVE  Result(k) \in Results'
  BY DEF Results
<1>2. k \in DOMAIN jobs' /\ jobs'[k].fate = "result" /\ HasResult(k)' /\ Result(k)' = Result(k)
  BY <1>1 DEF NamesKept, HasResult, Result, ResultSlot
<1>3. QED
  BY <1>2 DEF Results

LEMMA MoreResults ==
  ASSUME NEW s, NEW F, NEW G, Delayed(s, F), F \subseteq G
  PROVE  Delayed(s, G)
BY DEF Delayed

LEMMA TextDelayed ==
  ASSUME NEW F, NEW s, IsSeq(s), Delayed(s, F), NEW e, e[1] \notin {"dump", "unlink"}
  PROVE  Delayed(Append(s, e), F)
<1> DEFINE u == Append(s, e)
           n == Len(s)
<1>1. /\ n \in Nat /\ DOMAIN s = 1 .. n /\ DOMAIN u = 1 .. n + 1
      /\ \A i \in 1 .. n : u[i] = s[i]
      /\ u[n + 1] = e
  BY SeqFacts
<1> HIDE DEF u, n
<1>2. \A i \in DOMAIN u : (i \in DOMAIN s /\ u[i] = s[i]) \/ u[i] = e
  BY <1>1
<1>3. \A i \in DOMAIN u : u[i][1] \in {"dump", "unlink"} => i \in DOMAIN s /\ u[i] = s[i]
  BY <1>2
<1>4. \A i \in DOMAIN u : u[i][1] \in {"dump", "unlink"} => u[i][2] \in F
  BY <1>3 DEF Delayed
<1>5. Ordered(u)
  BY <1>3 DEF Delayed, Ordered
<1>6. QED
  BY <1>4, <1>5 DEF Delayed, u

(* The result of a delegation is delayed after what is delayed already,    *)
(* none of which is about it.                                              *)
LEMMA ResultDelayed ==
  ASSUME NEW F, NEW s, IsSeq(s), Delayed(s, F), NEW f \in F, \A i \in DOMAIN s : s[i][1] = "unlink" => s[i][2] # f
  PROVE  Delayed(s \o <<<<"dump", f>>, <<"unlink", f>>>>, F)
<1> DEFINE t == <<<<"dump", f>>, <<"unlink", f>>>>
           u == s \o t
           n == Len(s)
<1>1. n \in Nat /\ DOMAIN s = 1 .. n
  BY SeqFacts
<1>2. /\ DOMAIN u = 1 .. n + 2
      /\ \A i \in 1 .. n : u[i] = s[i]
      /\ u[n + 1] = <<"dump", f>> /\ u[n + 2] = <<"unlink", f>>
  <2>1. PICK S : s \in Seq(S)
    BY DEF IsSeq
  <2>2. Len(t) = 2 /\ t[1] = <<"dump", f>> /\ t[2] = <<"unlink", f>> /\ t \in Seq({<<"dump", f>>, <<"unlink", f>>})
    OBVIOUS
  <2> HIDE DEF t
  <2> DEFINE V == S \cup {<<"dump", f>>, <<"unlink", f>>}
  <2>3. s \in Seq(V) /\ t \in Seq(V)
    BY <2>1, <2>2
  <2>4. /\ Len(u) = n + 2 /\ DOMAIN u = 1 .. Len(u)
        /\ \A i \in 1 .. n + 2 : u[i] = IF i <= n THEN s[i] ELSE t[i - n]
    <3> HIDE DEF V
    <3>1. u \in Seq(V) /\ Len(u) = Len(s) + Len(t)
      BY <2>3, ConcatProperties
    <3>2. \A i \in 1 .. Len(s) + Len(t) : u[i] = IF i <= Len(s) THEN s[i] ELSE t[i - Len(s)]
      BY <2>3, ConcatProperties
    <3>3. DOMAIN u = 1 .. Len(u)
      BY <3>1
    <3>4. QED
      BY <2>2, <3>1, <3>2, <3>3 DEF n
  <2> HIDE DEF u, n
  <2>5. n + 1 \in 1 .. n + 2 /\ n + 2 \in 1 .. n + 2 /\ ~(n + 1 <= n) /\ ~(n + 2 <= n) /\ (n + 1) - n = 1 /\ (n + 2) - n = 2
    BY <1>1
  <2>6. \A i \in 1 .. n : i \in 1 .. n + 2 /\ i <= n
    BY <1>1
  <2>7. QED
    BY <2>2, <2>4, <2>5, <2>6
<1> HIDE DEF u, n, t
<1>3. \A i \in DOMAIN u : i \in 1 .. n \/ i = n + 1 \/ i = n + 2
  BY <1>1, <1>2
<1>4. \A i \in DOMAIN u : u[i][1] \in {"dump", "unlink"} => u[i][2] \in F
  BY <1>1, <1>2, <1>3 DEF Delayed
<1>5. ASSUME NEW i \in DOMAIN u, NEW j \in DOMAIN u, i < j, u[i][1] = "unlink", u[j][1] = "dump"
      PROVE  u[i][2] # u[j][2]
  <2>1. j # n + 2 /\ i # n + 1
    BY <1>2, <1>5
  <2>2. i \in 1 .. n
    BY <1>1, <1>3, <1>5, <2>1
  <2>3. CASE j \in 1 .. n
    BY <1>1, <1>2, <1>5, <2>2, <2>3 DEF Delayed, Ordered
  <2>4. CASE j = n + 1
    BY <1>1, <1>2, <1>5, <2>2, <2>4
  <2>5. QED
    BY <1>3, <2>1, <2>3, <2>4
<1>6. QED
  BY <1>4, <1>5 DEF Delayed, Ordered, u, t

(* Once the output is opened, no file is read any more.                    *)
LEMMA ReadingBefore ==
  ASSUME SessionInv, [Next]_vars, Reading'
  PROVE  Reading
<1>1. Reading \/ phase = "output"
  BY OutPhases
<1>2. SUFFICES ASSUME phase = "output"
               PROVE  FALSE
  BY <1>1
<1>3. phase' = "output" \/ phase' \in {"dump", "create", "exiting"}
  <2>1. ~Record /\ ~NamingSteps
    BY <1>2 DEF Record, NamingSteps, SampleName, StdinName, Command, ResultName, SpyName, Dumping
  <2>2. ~FileSteps
    BY <1>2 DEF FileSteps, NextFile, SampleGet, InputType, PrintNative, Ignore, PrintDelegated, BufferSave, Command, Popen,
       Subcontract, PrintToc, EndFiles
  <2>3. CASE SendSteps
    BY <1>2, <2>3 DEF SendSteps, SendAlone, SendAll, SendNothing, OpenStream, MakeBackup, Create, DumpText, StreamDump,
       StreamDumpFails, Unlink2, SpyUser, Close, Dumping, Exit, Go
  <2>4. CASE EndSteps
    BY <1>2, <2>4 DEF EndSteps, ExitHandler, StartCleanup, CleanupTempfiles, Exited, Signal, Stopped, vars
  <2>5. QED
    BY <2>1, <2>2, <2>3, <2>4, Steps
<1>4. QED
  BY <1>3 DEF Reading, Sending, Active

(* The result of a delegation that succeeds goes after what is delayed.    *)
LEMMA SubcontractDelayed ==
  ASSUME SessionInv, ResultInv, Subcontract
  PROVE  /\ \A k \in DOMAIN jobs' : HasResult(k)' => Waiting(k)'
         /\ Delayed(divertion', Results')
<1>1. phase = "read" /\ Reading /\ Unfinished /\ names' = names
  BY DEF Subcontract, Reading, Sending, Active, Unfinished, temps
<1>2. /\ NamesApart /\ AreJobs(jobs) /\ IsSeq(divertion)
      /\ jobs[Current].fate # "result"
      /\ \A k \in DOMAIN jobs : HasResult(k) => Waiting(k)
      /\ Delayed(divertion, Results)
  BY <1>1 DEF ResultInv, SessionInv, TypeInv
<1> DEFINE file == names[ResultSlot(Current)]
           saved == NameOf(StdinSlot(Current))
           without == Without(disk, {saved})
<1>3. HasResult(Current) /\ Result(Current) = file /\ Current \in DOMAIN jobs
  BY <1>1, <1>2 DEF SessionInv, NameInv, HasResult, Result, NamesApart
<1>4. PICK fate \in {"result", "failed"} :
         /\ SetFate(fate)
         /\ fate = "result" => disk' = Put(without, file, <<<<"result", jobs[Current].read>>>>)
         /\ fate = "failed" => disk' = Put(without, file, << >>)
         /\ fate = "result" => divertion' = divertion \o <<<<"dump", file>>, <<"unlink", file>>>>
         /\ fate = "failed" => divertion' = divertion
  BY DEF Subcontract
<1>5. /\ DOMAIN jobs' = DOMAIN jobs
      /\ \A i \in DOMAIN jobs : /\ jobs'[i].read = jobs[i].read
                                /\ jobs'[i].fate = IF i = Current THEN fate ELSE jobs[i].fate
  BY <1>2, <1>4, FateSet
<1>6. file \in DOMAIN disk' /\ (fate = "result" => disk'[file] = <<<<"result", jobs[Current].read>>>>)
  BY <1>4 DEF Put
<1>7. ASSUME NEW k, HasResult(k), k # Current, Result(k) \in DOMAIN disk
      PROVE  Result(k) \in DOMAIN disk' /\ disk'[Result(k)] = disk[Result(k)]
  <2>1. Result(k) # file
    BY <1>2, <1>3, <1>7, OtherFiles, SlotFacts DEF HasResult
  <2>2. Result(k) # saved
    BY <1>2, <1>7, OtherFiles, SlotFacts, SessionAssumption DEF NameOf
  <2>3. \A c : disk' = Put(without, file, c) => Result(k) \in DOMAIN disk' /\ disk'[Result(k)] = disk[Result(k)]
    BY <1>7, <2>1, <2>2 DEF Put, Without
  <2>4. QED
    BY <1>4, <2>3
<1>8. ASSUME NEW k \in DOMAIN jobs', HasResult(k)'
      PROVE  Waiting(k)'
  <2>1. k \in DOMAIN jobs /\ HasResult(k) /\ Result(k)' = Result(k) /\ Waiting(k)
    BY <1>1, <1>2, <1>5, <1>8 DEF HasResult, Result, ResultSlot
  <2>2. CASE k = Current
    BY <1>3, <1>5, <1>6, <2>1, <2>2 DEF Waiting, Contents
  <2>3. CASE k # Current
    BY <1>5, <1>7, <2>1, <2>3 DEF Waiting, Contents
  <2>4. QED
    BY <2>2, <2>3
<1>9. Results \subseteq Results'
  <2>1. NamesKept
    BY <1>1 DEF NamesKept
  <2>2. \A k \in DOMAIN jobs : jobs[k].fate = "result" => k \in DOMAIN jobs' /\ jobs'[k].fate = "result"
    BY <1>2, <1>5
  <2>3. QED
    BY <2>1, <2>2, ResultsCarried
<1>10. Delayed(divertion, Results')
  BY <1>2, <1>9, MoreResults
<1>11. ASSUME fate = "result"
       PROVE  Delayed(divertion', Results')
  <2>1. file \in Results'
    <3>1. \E k \in DOMAIN jobs' : jobs'[k].fate = "result" /\ HasResult(k)' /\ Result(k)' = file
      <4> DEFINE n == Current
      <4>1. ResultSlot(n) \in DOMAIN names' /\ names'[ResultSlot(n)] = file
        BY <1>1, <1>3 DEF HasResult
      <4>2. n \in DOMAIN jobs' /\ jobs'[n].fate = "result"
        BY <1>3, <1>5, <1>11
      <4> HIDE DEF n
      <4>3. QED
        BY <4>1, <4>2 DEF HasResult, Result, ResultSlot
    <3>2. QED
      BY <3>1 DEF Results
  <2>2. \A i \in DOMAIN divertion : divertion[i][1] = "unlink" => divertion[i][2] # file
    <3>1. file \notin Results
      BY <1>2, <1>3, SlotFacts DEF Results, NamesApart, HasResult, Result
    <3>2. QED
      BY <1>2, <3>1 DEF Delayed
  <2> HIDE DEF file
  <2>3. Delayed(divertion \o <<<<"dump", file>>, <<"unlink", file>>>>, Results')
    BY <1>2, <1>10, <2>1, <2>2, ResultDelayed
  <2>4. QED
    BY <1>4, <1>11, <2>3
<1>12. QED
  BY <1>4, <1>8, <1>10, <1>11

LEMMA DelayedStep ==
  ASSUME SessionInv, ResultInv, [Next]_vars, Reading'
  PROVE  /\ \A k \in DOMAIN jobs' : HasResult(k)' => Waiting(k)'
         /\ Delayed(divertion', Results')
<1>1. CASE Subcontract
  BY <1>1, SubcontractDelayed
<1>2. CASE ~Subcontract
  <2>1. Reading /\ Active' /\ ~Unlink2
    BY ReadingBefore DEF Reading, Sending, Unlink2, Dumping
  <2>2. /\ NamesApart /\ IsSeq(divertion)
        /\ \A k \in DOMAIN jobs : HasResult(k) => Waiting(k)
        /\ Delayed(divertion, Results)
    BY <2>1 DEF ResultInv, SessionInv, TypeInv
  <2>3. NamesKept /\ FatesKept /\ ResultsKept
    BY <1>2, <2>1, NamesStep, FatesStep, ResultsStep
  <2>4. ASSUME NEW k \in DOMAIN jobs', HasResult(k)'
        PROVE  Waiting(k)'
    <3>1. CASE HasResult(k)
      <4>1. k \in DOMAIN jobs
        BY <2>2, <3>1 DEF NamesApart
      <4>2. QED
        BY <2>2, <2>3, <3>1, <4>1, Carried
    <3>2. CASE ~HasResult(k)
      <4>1. Record
        BY <2>4, <3>2, NamesStep DEF HasResult, ResultSlot
      <4>2. /\ ResultSlot(k) = made.slot /\ Result(k)' = made.file /\ made.file \in DOMAIN disk
            /\ disk' = disk /\ jobs' = jobs
        BY <2>2, <2>4, <3>2, <4>1, RecordNames DEF HasResult, Result, ResultSlot, Record, work
      <4>3. NamedFor(made.next, made.slot) /\ phase = "record"
        BY <4>1 DEF Record, SessionInv, NameInv
      <4>4. k = Current /\ made.next = "popen"
        BY <4>2, <4>3, SlotFacts DEF NamedFor
      <4>5. jobs[Current].fate # "result"
        BY <4>3, <4>4 DEF ResultInv, Unfinished
      <4>6. QED
        BY <4>2, <4>4, <4>5 DEF Waiting
    <3>3. QED
      BY <3>1, <3>2
  <2>5. Results \subseteq Results'
    BY <2>3, ResultsCarried DEF FatesKept
  <2>6. Delayed(divertion, Results')
    BY <2>2, <2>5, MoreResults
  <2>7. divertion' = divertion \/ \E x : divertion' = Append(divertion, <<"text", x>>)
    <3>1. CASE PrintNative \/ PrintToc
      BY <3>1 DEF PrintNative, PrintToc
    <3>2. CASE Record \/ NamingSteps
      BY <3>2 DEF Record, NamingSteps, SampleName, StdinName, Command, ResultName, SpyName, work
    <3>3. CASE NextFile \/ SampleGet \/ InputType \/ Ignore \/ PrintDelegated \/ BufferSave \/ (Command /\ ~request.macro) \/ Popen \/ EndFiles
      BY <3>3 DEF NextFile, SampleGet, InputType, Ignore, PrintDelegated, BufferSave, Command, Popen, EndFiles, work
    <3>4. CASE SendSteps
      BY <3>4 DEF SendSteps, SendAlone, SendAll, SendNothing, OpenStream, MakeBackup, Create, DumpText, StreamDump,
         StreamDumpFails, Unlink2, SpyUser, Close, Sent, work
    <3>5. CASE EndSteps
      BY <3>5 DEF EndSteps, ExitHandler, StartCleanup, CleanupTempfiles, Exited, Signal, Stopped, vars, work
    <3>6. QED
      BY <1>2, <3>1, <3>2, <3>3, <3>4, <3>5, Steps DEF FileSteps
  <2>8. Delayed(divertion', Results')
    <3>1. ASSUME NEW x
          PROVE  Delayed(Append(divertion, <<"text", x>>), Results')
      <4> DEFINE e == <<"text", x>>
      <4>1. e[1] \notin {"dump", "unlink"}
        OBVIOUS
      <4> HIDE DEF e
      <4>2. Delayed(Append(divertion, e), Results')
        BY <2>2, <2>6, <4>1, TextDelayed
      <4>3. QED
        BY <4>2 DEF e
    <3>2. QED
      BY <2>6, <2>7, <3>1
  <2>9. QED
    BY <2>4, <2>8
<1>3. QED
  BY <1>1, <1>2

(* What is sent, and the rest of it.                                       *)
LEMMA TailOrdered ==
  ASSUME NEW s, IsSeq(s), s # << >>, Ordered(s)
  PROVE  /\ Ordered(Tail(s))
         /\ \A j \in DOMAIN Tail(s) : \E i \in DOMAIN s : i > 1 /\ Tail(s)[j] = s[i]
<1> DEFINE t == Tail(s)
           n == Len(s)
<1>1. n \in Nat /\ DOMAIN s = 1 .. n /\ DOMAIN t = 1 .. n - 1 /\ \A i \in 1 .. n - 1 : t[i] = s[i + 1]
  BY SeqFacts
<1> HIDE DEF t, n
<1>2. \A i \in DOMAIN t : i + 1 \in DOMAIN s /\ i + 1 > 1 /\ t[i] = s[i + 1]
  BY <1>1
<1>3. \A i, j \in DOMAIN t : i < j => i + 1 < j + 1
  BY <1>1
<1>4. Ordered(t)
  BY <1>2, <1>3 DEF Ordered
<1>5. QED
  BY <1>2, <1>4 DEF t

(* The only delegation: the last result that has a name.                   *)
LEMMA DelegationWaits ==
  ASSUME SessionInv, ResultInv, Reading, delegated > 0
  PROVE  Delegation \in Ready
<1>1. AreJobs(jobs) /\ NamesApart /\ \A k \in DOMAIN jobs : HasResult(k) => Waiting(k)
  BY DEF SessionInv, TypeInv, ResultInv
<1> DEFINE n == Current
           named == {i \in 1 .. n : NameOf(ResultSlot(i)) # NULL}
           last == CHOOSE i \in named : \A k \in named : k <= i
<1>2. n \in Nat
  BY <1>1, SeqFacts DEF AreJobs, Current
<1>3. \A i \in 1 .. n : i \in named <=> ResultSlot(i) \in DOMAIN names
  BY SessionAssumption DEF SessionInv, TypeInv, NameOf
<1>4. \E i \in 1 .. n : ResultSlot(i) \in DOMAIN names
  BY DEF SessionInv, NameInv
<1>5. named # {} /\ named \in SUBSET (1 .. n)
  BY <1>3, <1>4
<1>6. last \in named
  <2> HIDE DEF named, n
  <2>1. \E i \in named : \A k \in named : k <= i
    BY <1>2, <1>5, Greatest
  <2>2. QED
    BY <2>1
<1>7. Delegation = names[ResultSlot(last)]
  BY DEF Delegation
<1> HIDE DEF last
<1>8. HasResult(last) /\ last \in DOMAIN jobs
  BY <1>1, <1>3, <1>6 DEF HasResult, NamesApart
<1>9. QED
  BY <1>1, <1>7, <1>8 DEF Ready, Result

(* A file is removed when it was sent, and is not sent again.              *)
LEMMA UnlinkSends ==
  ASSUME SessionInv, ResultInv, Unlink2
  PROVE  Sendable(queue, Ready)'
<1>1. /\ phase = "dump" /\ queue # << >> /\ queue' = Tail(queue) /\ jobs' = jobs /\ names' = names
      /\ Head(queue)[1] = "unlink" /\ disk' = Without(disk, {Head(queue)[2]})
  BY DEF Unlink2, Dumping, Sent, NextQueued, work, temps
<1>2. Sending /\ IsSeq(queue) /\ Entries(queue)
  BY <1>1 DEF Sending, SessionInv, TypeInv, Entries
<1>3. \A i \in DOMAIN queue : queue[i][1] = "dump" => queue[i][2] \in Ready
  BY <1>2 DEF ResultInv, Sendable
<1>4. Ordered(queue)
  BY <1>2 DEF ResultInv, Sendable
<1>5. Head(queue) = queue[1] /\ 1 \in DOMAIN queue
  BY <1>1, <1>2, EntriesFacts
<1>6. Ordered(queue') /\ \A j \in DOMAIN queue' : \E i \in DOMAIN queue : i > 1 /\ queue'[j] = queue[i]
  BY <1>1, <1>2, <1>4, TailOrdered
<1>7. ASSUME NEW j \in DOMAIN queue', queue'[j][1] = "dump"
      PROVE  queue'[j][2] \in Ready'
  <2>1. PICK i \in DOMAIN queue : i > 1 /\ queue'[j] = queue[i]
    BY <1>6
  <2> DEFINE f == queue'[j][2]
             g == Head(queue)[2]
  <2>2. f # g
    BY <1>1, <1>4, <1>5, <1>7, <2>1 DEF Ordered
  <2>3. PICK k \in DOMAIN jobs : HasResult(k) /\ Result(k) = f /\ Waiting(k)
    BY <1>3, <1>7, <2>1 DEF Ready
  <2>4. f \in DOMAIN disk' /\ disk'[f] = disk[f]
    BY <1>1, <2>2, <2>3 DEF Waiting, Without
  <2>5. HasResult(k)' /\ Result(k)' = f /\ Waiting(k)'
    BY <1>1, <2>3, <2>4 DEF HasResult, Result, ResultSlot, Waiting, Contents
  <2>6. QED
    BY <1>1, <2>5 DEF Ready
<1>8. QED
  BY <1>6, <1>7 DEF Sendable

LEMMA SendableStep ==
  ASSUME SessionInv, ResultInv, [Next]_vars, Sending'
  PROVE  Sendable(queue, Ready)'
<1>1. CASE Unlink2
  BY <1>1, UnlinkSends
<1>2. CASE ~Unlink2
  <2>1. Active' /\ NamesApart /\ IsSeq(queue) /\ IsSeq(divertion)
    BY DEF Sending, Active, ResultInv, SessionInv, TypeInv
  <2>2. ~Subcontract
    BY DEF Subcontract, Sending, Go
  <2>3. NamesKept /\ FatesKept /\ ResultsKept
    BY <1>2, <2>1, <2>2, NamesStep, FatesStep, ResultsStep
  <2>4. Ready \subseteq Ready'
    BY <2>1, <2>3, Carried
  <2>5. ASSUME NEW s, Sendable(s, Ready), queue' = s \/ (IsSeq(s) /\ s # << >> /\ queue' = Tail(s))
        PROVE  Sendable(queue, Ready)'
    <3>1. Ordered(queue') /\ \A j \in DOMAIN queue' : \E i \in DOMAIN s : queue'[j] = s[i]
      <4>1. Ordered(s)
        BY <2>5 DEF Sendable
      <4>2. CASE queue' = s
        BY <4>1, <4>2
      <4>3. CASE IsSeq(s) /\ s # << >> /\ queue' = Tail(s)
        <5>1. Ordered(Tail(s)) /\ \A j \in DOMAIN Tail(s) : \E i \in DOMAIN s : i > 1 /\ Tail(s)[j] = s[i]
          BY <4>1, <4>3, TailOrdered
        <5>2. QED
          BY <4>3, <5>1
      <4>4. QED
        BY <2>5, <4>2, <4>3
    <3>2. \A j \in DOMAIN queue' : queue'[j][1] = "dump" => queue'[j][2] \in Ready'
      BY <2>4, <2>5, <3>1 DEF Sendable
    <3>3. QED
      BY <3>1, <3>2 DEF Sendable
  <2>6. CASE SendAlone
    <3>1. phase = "end" /\ Alone /\ queue' = <<<<"dump", Delegation>>, <<"unlink", Delegation>>>>
      BY <2>6 DEF SendAlone
    <3>2. Reading /\ delegated > 0
      BY <3>1 DEF Alone, Reading, Sending, Active
    <3>3. Delegation \in Ready
      BY <3>2, DelegationWaits
    <3> DEFINE D == Delegation
               s == <<<<"dump", D>>, <<"unlink", D>>>>
    <3>4. Sendable(s, Ready)
      <4> HIDE DEF D
      <4>1. DOMAIN s = {1, 2} /\ s[1] = <<"dump", D>> /\ s[2] = <<"unlink", D>>
        OBVIOUS
      <4> HIDE DEF s
      <4>2. Ordered(s)
        BY <4>1 DEF Ordered
      <4>3. \A i \in DOMAIN s : s[i][1] = "dump" => s[i][2] = D
        BY <4>1
      <4>4. QED
        BY <3>3, <4>2, <4>3 DEF Sendable, D
    <3>5. QED
      BY <2>5, <3>1, <3>4
  <2>7. CASE SendAll
    <3>1. phase = "end" /\ queue' = Append(divertion, Trailer)
      BY <2>7 DEF SendAll, EndDocument
    <3>2. Reading
      BY <3>1 DEF Reading, Sending, Active
    <3>3. Delayed(divertion, Results) /\ \A k \in DOMAIN jobs : HasResult(k) => Waiting(k)
      BY <3>2 DEF ResultInv
    <3>4. Delayed(Append(divertion, Trailer), Results)
      <4>1. Trailer[1] \notin {"dump", "unlink"}
        BY DEF Trailer
      <4>2. QED
        BY <2>1, <3>3, <4>1, TextDelayed
    <3>5. \A f \in Results : f \in Ready
      BY <3>3 DEF Results, Ready
    <3>6. Sendable(Append(divertion, Trailer), Ready)
      BY <3>4, <3>5 DEF Sendable, Delayed
    <3>7. QED
      BY <2>5, <3>1, <3>6
  <2>8. CASE ~SendAlone /\ ~SendAll
    <3>1. Sending /\ (queue' = queue \/ (queue # << >> /\ queue' = Tail(queue)))
      <4>1. CASE Record
        BY <4>1, RecordFacts DEF Record, Sending, Go, output, Made, Nexts
      <4>2. CASE NamingSteps
        <5>1. SpyName
          <6>1. ASSUME NEW slot \in Slots, NEW next \in Nexts \ {"spy"}, Naming(slot, next)
                PROVE  FALSE
            <7>1. phase' = next \/ (phase' = "record" /\ made'.next = next)
              BY <6>1, EnsureFacts DEF Naming
            <7>2. QED
              BY <7>1 DEF Sending, Nexts
          <6>2. SampleName \/ StdinName \/ (Command /\ request.macro) \/ ResultName =>
                  \E slot \in Slots, next \in Nexts \ {"spy"} : Naming(slot, next)
            BY Namings DEF Nexts
          <6>3. QED
            BY <4>2, <6>1, <6>2 DEF NamingSteps
        <5>2. QED
          BY <5>1 DEF SpyName, Dumping, Sending, output
      <4>3. CASE FileSteps
        BY <4>3 DEF FileSteps, NextFile, SampleGet, InputType, PrintNative, Ignore, PrintDelegated, BufferSave, Command, Popen,
           Subcontract, PrintToc, EndFiles, Write, Exit, Go, Sending
      <4>4. CASE SendNothing \/ OpenStream \/ MakeBackup \/ Create \/ Close
        BY <4>4 DEF SendNothing, OpenStream, MakeBackup, Create, Close, output, Sending
      <4>5. CASE DumpText \/ StreamDump \/ StreamDumpFails \/ SpyUser
        <5>1. SpyUser => queue # << >>
          BY DEF SpyUser, SessionInv, OutInv
        <5>2. QED
          BY <4>5, <5>1 DEF DumpText, StreamDump, StreamDumpFails, SpyUser, Dumping, Sent, output, Sending
      <4>6. CASE EndSteps
        <5>1. UNCHANGED vars
          BY <2>1, <4>6 DEF EndSteps, ExitHandler, StartCleanup, CleanupTempfiles, Exited, Signal, Stopped, Active, Go, vars
        <5>2. QED
          BY <5>1 DEF vars, temps, output, Sending
      <4>7. QED
        BY <1>2, <2>8, <4>1, <4>2, <4>3, <4>4, <4>5, <4>6, Steps DEF SendSteps
    <3>2. Sendable(queue, Ready)
      BY <3>1 DEF ResultInv, Sendable
    <3>3. QED
      BY <2>1, <2>5, <3>1, <3>2
  <2>9. QED
    BY <2>6, <2>7, <2>8
<1>3. QED
  BY <1>1, <1>2

LEMMA ResultStep ==
  ASSUME SessionInv, ResultInv, [Next]_vars
  PROVE  ResultInv'
BY NamesApartStep, UnfinishedStep, DelayedStep, SendableStep DEF ResultInv

LEMMA InitResult ==
  ASSUME Init
  PROVE  ResultInv
<1>1. phase = "next" /\ DOMAIN names = {} /\ tempfiles = << >> /\ jobs = << >>
  BY DEF Init
<1>2. NamesApart
  <2>1. Range(tempfiles) = {}
    BY <1>1, HandlersFacts
  <2>2. QED
    BY <1>1, <2>1 DEF NamesApart, HasResult
<1>3. Delayed(divertion, Results)
  <2>1. divertion = << >> \/ divertion = <<<<"spy", << >>>>>>
    BY DEF Init
  <2>2. \A i \in DOMAIN divertion : divertion[i][1] = "spy"
    BY <2>1
  <2>3. QED
    BY <2>2 DEF Delayed, Ordered
<1>4. QED
  BY <1>1, <1>2, <1>3 DEF ResultInv, Unfinished, Reading, Sending, HasResult
-----------------------------------------------------------------------------
(* What is sent: the pieces that the entries of a sequence give, joined.   *)
LEMMA Induction ==
  ASSUME NEW n \in Nat, NEW T, 0 \in T, \A i \in 1 .. n : i - 1 \in T => i \in T
  PROVE  \A i \in 0 .. n : i \in T
<1> DEFINE R == OpToRel(<, Nat)
           S == {i \in 0 .. n : i \notin T}
<1>1. SUFFICES ASSUME S # {}
               PROVE  FALSE
  OBVIOUS
<1>2. S \in SUBSET Nat /\ IsWellFoundedOn(R, Nat)
  <2>1. S \in SUBSET Nat
    OBVIOUS
  <2>2. QED
    BY <2>1, NatLessThanWellFounded
<1>3. PICK i \in S : \A k \in S : <<k, i>> \notin R
  <2> HIDE DEF R, S
  <2>1. QED
    BY <1>1, <1>2, WFMin
<1>4. i \in 1 .. n /\ i - 1 \in 0 .. n
  <2>1. i \in 0 .. n /\ i # 0
    OBVIOUS
  <2>2. QED
    BY <2>1
<1>5. i - 1 \in T
  <2>1. SUFFICES ASSUME i - 1 \in S
                 PROVE  FALSE
    BY <1>4
  <2>2. <<i - 1, i>> \notin R
    BY <1>3, <2>1
  <2>3. i - 1 < i /\ i - 1 \in Nat /\ i \in Nat
    BY <1>4
  <2>4. QED
    BY <2>2, <2>3 DEF R, OpToRel
<1>6. QED
  BY <1>3, <1>4, <1>5

(* Sequences of anything, joined.                                          *)
LEMMA Concats ==
  /\ \A a, b : IsSeq(a) /\ IsSeq(b) => IsSeq(a \o b)
  /\ \A a, b, c : IsSeq(a) /\ IsSeq(b) /\ IsSeq(c) => (a \o b) \o c = a \o (b \o c)
  /\ \A a : IsSeq(a) => a \o << >> = a /\ << >> \o a = a
  /\ \A a, e : IsSeq(a) => Append(a, e) = a \o <<e>>
  /\ \A a, e : IsSeq(a) => Len(a \o <<e>>) = Len(a) + 1
  /\ IsSeq(<< >>) /\ \A e : IsSeq(<<e>>)
<1>1. IsSeq(<< >>) /\ \A e : IsSeq(<<e>>)
  <2>1. << >> \in Seq({}) /\ \A e : <<e>> \in Seq({e})
    OBVIOUS
  <2>2. QED
    BY <2>1 DEF IsSeq
<1>2. ASSUME NEW a, NEW b, NEW c, IsSeq(a), IsSeq(b), IsSeq(c)
      PROVE  \E S : a \in Seq(S) /\ b \in Seq(S) /\ c \in Seq(S)
  <2>1. PICK A : a \in Seq(A)
    BY <1>2 DEF IsSeq
  <2>2. PICK B : b \in Seq(B)
    BY <1>2 DEF IsSeq
  <2>3. PICK C : c \in Seq(C)
    BY <1>2 DEF IsSeq
  <2> DEFINE S == A \cup B \cup C
  <2>4. A \subseteq S /\ B \subseteq S /\ C \subseteq S
    OBVIOUS
  <2> HIDE DEF S
  <2>5. a \in Seq(S) /\ b \in Seq(S) /\ c \in Seq(S)
    BY <2>1, <2>2, <2>3, <2>4, SeqMonotonic
  <2>6. QED
    BY <2>5
<1>3. ASSUME NEW a, NEW b, NEW c, IsSeq(a), IsSeq(b), IsSeq(c)
      PROVE  IsSeq(a \o b) /\ (a \o b) \o c = a \o (b \o c) /\ a \o << >> = a /\ << >> \o a = a
  <2>1. PICK S : a \in Seq(S) /\ b \in Seq(S) /\ c \in Seq(S)
    BY <1>2, <1>3
  <2>2. (a \o b) \o c = a \o (b \o c)
    BY <2>1, ConcatAssociative
  <2>3. a \o b \in Seq(S)
    BY <2>1, ConcatProperties
  <2>4. a \o << >> = a /\ << >> \o a = a
    BY <2>1, ConcatEmptySeq
  <2>5. QED
    BY <2>2, <2>3, <2>4 DEF IsSeq
<1>4. ASSUME NEW a, NEW e, IsSeq(a)
      PROVE  Append(a, e) = a \o <<e>> /\ Len(a \o <<e>>) = Len(a) + 1
  <2>1. PICK S : a \in Seq(S)
    BY <1>4 DEF IsSeq
  <2>2. a \in Seq(S \cup {e}) /\ e \in S \cup {e}
    BY <2>1, SeqMonotonic
  <2>3. Append(a, e) = a \o <<e>>
    BY <2>2, AppendIsConcat
  <2>4. Len(Append(a, e)) = Len(a) + 1
    BY <2>2
  <2>5. QED
    BY <2>3, <2>4
<1>5. \A a, b : IsSeq(a) /\ IsSeq(b) => IsSeq(a \o b)
  BY <1>3
<1>6. \A a, b, c : IsSeq(a) /\ IsSeq(b) /\ IsSeq(c) => (a \o b) \o c = a \o (b \o c)
  BY <1>3
<1>7. \A a : IsSeq(a) => a \o << >> = a /\ << >> \o a = a
  BY <1>3
<1>8. QED
  BY <1>1, <1>4, <1>5, <1>6, <1>7

LEMMA Associates ==
  ASSUME NEW a, NEW b, NEW c, IsSeq(a), IsSeq(b), IsSeq(c)
  PROVE  (a \o b) \o c = a \o (b \o c)
BY Concats

(* Prefix by prefix: the pieces of the first i entries are g[i].           *)
Joins(g, s) == g[0] = << >> /\ \A i \in 1 .. Len(s) : g[i] = g[i - 1] \o s[i]

LEMMA JoinsIn ==
  ASSUME NEW S, NEW s \in Seq(Seq(S)), NEW g, Joins(g, s)
  PROVE  \A i \in 0 .. Len(s) : g[i] \in Seq(S)
<1> DEFINE n == Len(s)
           T == {i \in 0 .. n : g[i] \in Seq(S)}
<1>1. n \in Nat /\ \A i \in 1 .. n : s[i] \in Seq(S)
  OBVIOUS
<1>2. 0 \in T
  <2>1. 0 \in 0 .. n /\ << >> \in Seq(S) /\ g[0] = << >>
    BY <1>1 DEF Joins
  <2>2. QED
    BY <2>1
<1>3. ASSUME NEW i \in 1 .. n, i - 1 \in T
      PROVE  i \in T
  <2>1. g[i] = g[i - 1] \o s[i] /\ g[i - 1] \in Seq(S) /\ s[i] \in Seq(S)
    BY <1>1, <1>3 DEF Joins
  <2>2. g[i] \in Seq(S)
    BY <2>1, ConcatProperties
  <2>3. QED
    BY <2>2
<1> HIDE DEF n, T
<1>4. \A i \in 0 .. n : i \in T
  BY <1>1, <1>2, <1>3, Induction
<1>5. QED
  BY <1>4 DEF n, T

LEMMA JoinsSame ==
  ASSUME NEW s, Len(s) \in Nat, NEW g, NEW h, Joins(g, s), Joins(h, s)
  PROVE  g[Len(s)] = h[Len(s)]
<1> DEFINE n == Len(s)
           T == {i \in 0 .. n : g[i] = h[i]}
<1>1. 0 \in T
  BY DEF Joins
<1>2. ASSUME NEW i \in 1 .. n, i - 1 \in T
      PROVE  i \in T
  <2>1. g[i] = g[i - 1] \o s[i] /\ h[i] = h[i - 1] \o s[i]
    BY DEF Joins
  <2>2. g[i - 1] = h[i - 1] /\ i \in 0 .. n
    BY <1>2
  <2>3. QED
    BY <2>1, <2>2
<1>3. n \in Nat
  OBVIOUS
<1> HIDE DEF n, T
<1>4. \A i \in 0 .. n : i \in T
  BY <1>1, <1>2, <1>3, Induction
<1>5. n \in T
  BY <1>3, <1>4
<1>6. QED
  BY <1>5 DEF n, T

LEMMA Joined ==
  ASSUME NEW S, NEW s \in Seq(Seq(S))
  PROVE  \E g : Joins(g, s) /\ g[Len(s)] = FlattenSeq(s)
<1> DEFINE n == Len(s)
           Is(f, m) == f = [i \in 1 .. m |-> IF i = 1 THEN s[i] ELSE f[i - 1] \o s[i]]
           T == {m \in 0 .. n : \E f : Is(f, m)}
<1>0. n \in Nat /\ \A m \in 0 .. n : (\E f : Is(f, m)) => m \in T
  <2>1. n \in Nat
    OBVIOUS
  <2>2. \A m \in 0 .. n : (\E f : Is(f, m)) => m \in T
    <3> HIDE DEF Is, n
    <3>1. QED
      OBVIOUS
  <2>3. QED
    BY <2>1, <2>2
<1>1. 0 \in T
  <2> DEFINE f == [i \in 1 .. 0 |-> s[i]]
  <2>1. Is(f, 0)
    OBVIOUS
  <2>2. 0 \in 0 .. n
    BY <1>0
  <2> HIDE DEF Is, f, T
  <2>3. QED
    BY <1>0, <2>1, <2>2
<1>2. ASSUME NEW m \in 1 .. n, m - 1 \in T
      PROVE  m \in T
  <2>1. PICK f : Is(f, m - 1)
    BY <1>2
  <2> DEFINE h == [i \in 1 .. m |-> IF i = m THEN (IF m = 1 THEN s[m] ELSE f[m - 1] \o s[m]) ELSE f[i]]
  <2>2. \A i \in 1 .. m : h[i] = IF i = 1 THEN s[i] ELSE h[i - 1] \o s[i]
    <3>1. \A i \in 1 .. m - 1 : f[i] = IF i = 1 THEN s[i] ELSE f[i - 1] \o s[i]
      BY <2>1
    <3>2. \A i \in 1 .. m : i = m \/ (i \in 1 .. m - 1 /\ (i = 1 \/ i - 1 \in 1 .. m - 1) /\ i # m /\ i - 1 # m)
      OBVIOUS
    <3>3. m - 1 # m /\ m \in 1 .. m /\ (m # 1 => m - 1 \in 1 .. m)
      OBVIOUS
    <3>4. \A i \in 1 .. m - 1 : i \in 1 .. m
      OBVIOUS
    <3>5. QED
      BY <3>1, <3>2, <3>3, <3>4
  <2>3. Is(h, m)
    <3>1. h = [i \in 1 .. m |-> h[i]]
      OBVIOUS
    <3> HIDE DEF h
    <3>2. QED
      BY <2>2, <3>1
  <2>4. m \in 0 .. n
    OBVIOUS
  <2> HIDE DEF Is, h, T
  <2>5. QED
    BY <1>0, <2>3, <2>4
<1>3. n \in T
  <2> HIDE DEF T, n
  <2>1. \A i \in 0 .. n : i \in T
    BY <1>0, <1>1, <1>2, Induction
  <2>2. QED
    BY <1>0, <2>1
<1> DEFINE f == CHOOSE f : Is(f, n)
           g == [i \in 0 .. n |-> IF i = 0 THEN << >> ELSE f[i]]
<1>4. Is(f, n)
  <2>1. \E h : Is(h, n)
    BY <1>3
  <2> HIDE DEF Is
  <2>2. QED
    BY <2>1
<1>5. FlattenSeq(s) = IF n = 0 THEN s ELSE f[n]
  BY DEF FlattenSeq
<1> HIDE DEF f
<1>6. \A i \in 1 .. n : f[i] = IF i = 1 THEN s[i] ELSE f[i - 1] \o s[i]
  BY <1>4
<1>7. \A i \in 1 .. n : s[i] \in Seq(S)
  OBVIOUS
<1>8. Joins(g, s)
  <2>1. g[0] = << >> /\ \A i \in 1 .. n : g[i] = f[i]
    BY <1>0
  <2>2. ASSUME NEW i \in 1 .. n
        PROVE  g[i] = g[i - 1] \o s[i]
    <3>1. CASE i = 1
      <4>1. g[i] = s[i] /\ g[i - 1] = << >>
        BY <1>6, <2>1, <2>2, <3>1
      <4>2. << >> \o s[i] = s[i]
        BY <1>7, <2>2, ConcatEmptySeq
      <4>3. QED
        BY <4>1, <4>2
    <3>2. CASE i # 1
      <4>1. i - 1 \in 1 .. n
        BY <2>2, <3>2
      <4> HIDE DEF g
      <4>2. QED
        BY <1>6, <2>1, <2>2, <3>2, <4>1
    <3>3. QED
      BY <3>1, <3>2
  <2> HIDE DEF g
  <2>3. QED
    BY <2>1, <2>2 DEF Joins
<1>9. g[n] = FlattenSeq(s)
  <2>1. CASE n = 0
    <3>1. s = << >>
      BY <2>1
    <3>2. QED
      BY <1>5, <2>1, <3>1
  <2>2. CASE n # 0
    BY <1>0, <1>5, <2>2
  <2>3. QED
    BY <2>1, <2>2
<1> HIDE DEF g
<1>10. QED
  BY <1>8, <1>9

LEMMA FlattenIn ==
  ASSUME NEW S, NEW s \in Seq(Seq(S))
  PROVE  FlattenSeq(s) \in Seq(S)
<1>1. PICK g : Joins(g, s) /\ g[Len(s)] = FlattenSeq(s)
  BY Joined
<1>2. Len(s) \in 0 .. Len(s)
  OBVIOUS
<1>3. QED
  BY <1>1, <1>2, JoinsIn

LEMMA FlattenAppend ==
  ASSUME NEW S, NEW s \in Seq(Seq(S)), NEW x \in Seq(S)
  PROVE  FlattenSeq(Append(s, x)) = FlattenSeq(s) \o x
<1> DEFINE u == Append(s, x)
           n == Len(s)
<1>1. u \in Seq(Seq(S)) /\ Len(u) = n + 1 /\ n \in Nat /\ u[n + 1] = x /\ \A i \in 1 .. n : u[i] = s[i]
  OBVIOUS
<1> HIDE DEF u
<1>2. PICK g : Joins(g, u) /\ g[Len(u)] = FlattenSeq(u)
  BY <1>1, Joined
<1>3. PICK h : Joins(h, s) /\ h[n] = FlattenSeq(s)
  BY Joined
<1> HIDE DEF n
<1>4. Joins(g, s)
  <2>1. \A i \in 1 .. n : i \in 1 .. n + 1
    BY <1>1
  <2>2. QED
    BY <1>1, <1>2, <2>1 DEF Joins, n
<1>5. g[n] = h[n]
  BY <1>1, <1>3, <1>4, JoinsSame DEF n
<1>6. g[n + 1] = g[n] \o x
  <2>1. n + 1 \in 1 .. n + 1 /\ (n + 1) - 1 = n
    BY <1>1
  <2>2. QED
    BY <1>1, <1>2, <2>1 DEF Joins
<1>7. QED
  BY <1>1, <1>2, <1>3, <1>5, <1>6 DEF u

LEMMA FlattenHead ==
  ASSUME NEW S, NEW s \in Seq(Seq(S)), s # << >>
  PROVE  FlattenSeq(s) = s[1] \o FlattenSeq(Tail(s))
<1> DEFINE t == Tail(s)
           n == Len(s)
<1>1. t \in Seq(Seq(S)) /\ Len(t) = n - 1 /\ n \in Nat \ {0} /\ \A i \in 1 .. n - 1 : t[i] = s[i + 1]
  OBVIOUS
<1>2. \A i \in 1 .. n : s[i] \in Seq(S)
  OBVIOUS
<1> HIDE DEF t
<1>3. PICK g : Joins(g, t) /\ g[Len(t)] = FlattenSeq(t)
  BY <1>1, Joined
<1>4. PICK f : Joins(f, s) /\ f[n] = FlattenSeq(s)
  BY Joined
<1> HIDE DEF n
<1>5. \A i \in 0 .. n - 1 : g[i] \in Seq(S)
  BY <1>1, <1>3, JoinsIn
<1> DEFINE h == [i \in 0 .. n |-> IF i = 0 THEN << >> ELSE s[1] \o g[i - 1]]
<1>6. ASSUME NEW i \in 1 .. n
      PROVE  h[i] = h[i - 1] \o s[i]
  <2>1. h[i] = s[1] \o g[i - 1]
    <3>1. i \in 0 .. n /\ i # 0
      BY <1>1
    <3>2. QED
      BY <3>1
  <2>2. s[1] \in Seq(S) /\ s[i] \in Seq(S)
    BY <1>1, <1>2, <1>6
  <2>3. CASE i = 1
    <3>1. h[i - 1] = << >> /\ g[i - 1] = << >>
      BY <1>1, <1>3, <2>3 DEF Joins
    <3>2. s[1] \o << >> = s[1] /\ << >> \o s[1] = s[1]
      BY <2>2, ConcatEmptySeq
    <3> HIDE DEF h
    <3>3. QED
      BY <2>1, <2>3, <3>1, <3>2
  <2>4. CASE i # 1
    <3>1. i - 1 \in 1 .. n - 1 /\ i - 1 \in 0 .. n /\ i - 2 \in 0 .. n - 1 /\ (i - 1) - 1 = i - 2 /\ (i - 1) + 1 = i /\ i - 1 # 0
      <4>1. n \in Nat /\ i \in 1 .. n /\ i # 1
        BY <1>1, <1>6, <2>4
      <4> HIDE DEF n
      <4>2. QED
        BY <4>1
    <3>2. h[i - 1] = s[1] \o g[i - 2]
      BY <3>1
    <3>3. g[i - 1] = g[i - 2] \o s[i]
      BY <1>1, <1>3, <3>1 DEF Joins
    <3>4. g[i - 2] \in Seq(S)
      BY <1>5, <3>1
    <3> HIDE DEF h
    <3>5. (s[1] \o g[i - 2]) \o s[i] = s[1] \o (g[i - 2] \o s[i])
      <4> DEFINE a == s[1]
                 b == g[i - 2]
                 c == s[i]
      <4>1. a \in Seq(S) /\ b \in Seq(S) /\ c \in Seq(S)
        BY <2>2, <3>4
      <4> HIDE DEF a, b, c
      <4>2. IsSeq(a) /\ IsSeq(b) /\ IsSeq(c)
        BY <4>1 DEF IsSeq
      <4>3. (a \o b) \o c = a \o (b \o c)
        BY <4>2, Associates
      <4>4. QED
        BY <4>3 DEF a, b, c
    <3>6. QED
      BY <2>1, <3>2, <3>3, <3>5
  <2>5. QED
    BY <2>3, <2>4
<1>7. Joins(h, s)
  <2>1. h[0] = << >>
    BY <1>1
  <2> HIDE DEF h
  <2>2. QED
    BY <1>6, <2>1 DEF Joins, n
<1>8. h[n] = s[1] \o g[n - 1]
  <2>1. n \in 0 .. n /\ n # 0
    BY <1>1
  <2>2. QED
    BY <2>1
<1> HIDE DEF h
<1>9. f[n] = h[n]
  BY <1>1, <1>4, <1>7, JoinsSame DEF n
<1>10. QED
  BY <1>1, <1>3, <1>4, <1>8, <1>9 DEF t

LEMMA FlattenRange ==
  ASSUME NEW S, NEW s \in Seq(Seq(S)), NEW k \in 1 .. Len(s)
  PROVE  Range(s[k]) \subseteq Range(FlattenSeq(s))
<1> DEFINE n == Len(s)
<1>1. PICK g : Joins(g, s) /\ g[n] = FlattenSeq(s)
  BY Joined
<1> DEFINE T == {i \in 0 .. n : k <= i => Range(s[k]) \subseteq Range(g[i])}
<1>2. n \in Nat /\ \A i \in 1 .. n : s[i] \in Seq(S)
  OBVIOUS
<1>3. \A i \in 0 .. n : g[i] \in Seq(S)
  BY <1>1, JoinsIn
<1>4. 0 \in T
  BY <1>2
<1>5. ASSUME NEW i \in 1 .. n, i - 1 \in T
      PROVE  i \in T
  <2>1. g[i] = g[i - 1] \o s[i] /\ g[i - 1] \in Seq(S) /\ s[i] \in Seq(S)
    BY <1>1, <1>2, <1>3, <1>5 DEF Joins
  <2>2. Range(g[i]) = Range(g[i - 1]) \cup Range(s[i])
    BY <2>1, RangeConcatenation
  <2>3. ASSUME k <= i
        PROVE  k = i \/ k <= i - 1
    BY <1>5, <2>3
  <2>4. k <= i => Range(s[k]) \subseteq Range(g[i])
    BY <1>5, <2>2, <2>3
  <2>5. QED
    BY <1>5, <2>4
<1>6. n \in T
  <2> HIDE DEF n, T
  <2>1. \A i \in 0 .. n : i \in T
    BY <1>2, <1>4, <1>5, Induction
  <2>2. QED
    BY <1>2, <2>1
<1>7. QED
  BY <1>1, <1>6

LEMMA Pairs == \A a, b : <<a, b>> = <<a>> \o <<b>>
<1>1. SUFFICES ASSUME NEW a, NEW b
               PROVE  <<a, b>> = <<a>> \o <<b>>
  OBVIOUS
<1> DEFINE S == {a, b}
           h == <<a>> \o <<b>>
<1>2. <<a>> \in Seq(S) /\ <<b>> \in Seq(S) /\ Len(<<a>>) = 1 /\ Len(<<b>>) = 1 /\ <<a>>[1] = a /\ <<b>>[1] = b
  OBVIOUS
<1>3. h \in Seq(S) /\ Len(h) = 2
  BY <1>2, ConcatProperties
<1>4. h[1] = a /\ h[2] = b
  <2>1. \A i \in 1 .. 1 + 1 : h[i] = IF i <= 1 THEN <<a>>[i] ELSE <<b>>[i - 1]
    BY <1>2, ConcatProperties
  <2> HIDE DEF h
  <2>2. QED
    BY <1>2, <2>1
<1> HIDE DEF h
<1>5. h = <<a, b>>
  BY <1>3, <1>4
<1>6. QED
  BY <1>5 DEF h

Lists(s) == IsSeq(s) /\ \A i \in DOMAIN s : IsSeq(s[i])

LEMMA ListsIn ==
  ASSUME NEW s, Lists(s)
  PROVE  \E S : s \in Seq(Seq(S))
<1>1. PICK T : s \in Seq(T)
  BY DEF Lists, IsSeq
<1>2. Len(s) \in Nat /\ DOMAIN s = 1 .. Len(s)
  BY <1>1
<1> DEFINE S == UNION {Range(s[i]) : i \in DOMAIN s}
<1>3. ASSUME NEW i \in DOMAIN s
      PROVE  s[i] \in Seq(S)
  <2>1. PICK A : s[i] \in Seq(A)
    BY DEF Lists, IsSeq
  <2> DEFINE B == Range(s[i])
  <2>2. s[i] \in Seq(B)
    BY <2>1 DEF Range
  <2>3. B \subseteq S
    OBVIOUS
  <2> HIDE DEF B, S
  <2>4. QED
    BY <2>2, <2>3, SeqMonotonic
<1> HIDE DEF S
<1>4. s \in Seq(Seq(S))
  BY <1>1, <1>2, <1>3
<1>5. QED
  BY <1>4

LEMMA Flattened ==
  ASSUME NEW s, Lists(s)
  PROVE  /\ IsSeq(FlattenSeq(s))
         /\ \A x : IsSeq(x) => FlattenSeq(Append(s, x)) = FlattenSeq(s) \o x
         /\ s # << >> => FlattenSeq(s) = s[1] \o FlattenSeq(Tail(s))
         /\ \A k \in DOMAIN s : Range(s[k]) \subseteq Range(FlattenSeq(s))
<1>1. PICK S : s \in Seq(Seq(S))
  BY ListsIn
<1>2. IsSeq(FlattenSeq(s))
  BY <1>1, FlattenIn DEF IsSeq
<1>3. ASSUME NEW x, IsSeq(x)
      PROVE  FlattenSeq(Append(s, x)) = FlattenSeq(s) \o x
  <2>1. PICK X : x \in Seq(X)
    BY <1>3 DEF IsSeq
  <2> DEFINE A == S \cup X
  <2>2. S \subseteq A /\ X \subseteq A
    OBVIOUS
  <2> HIDE DEF A
  <2>3. x \in Seq(A) /\ Seq(S) \subseteq Seq(A)
    BY <2>1, <2>2, SeqMonotonic
  <2>4. s \in Seq(Seq(A))
    BY <1>1, <2>3, SeqMonotonic
  <2>5. QED
    BY <2>3, <2>4, FlattenAppend
<1>4. s # << >> => FlattenSeq(s) = s[1] \o FlattenSeq(Tail(s))
  BY <1>1, FlattenHead
<1>5. ASSUME NEW k \in DOMAIN s
      PROVE  Range(s[k]) \subseteq Range(FlattenSeq(s))
  <2>1. k \in 1 .. Len(s)
    BY <1>1
  <2>2. QED
    BY <1>1, <2>1, FlattenRange
<1>6. QED
  BY <1>2, <1>3, <1>4, <1>5

(* What an entry of the diversion, or of what is sent, gives.              *)
Answer(e, d) == IF e[1] = "unlink" THEN << >> ELSE IF e[1] = "dump" THEN d[e[2]] ELSE <<e>>
Answers(s, d) == FlattenSeq([i \in DOMAIN s |-> Answer(s[i], d)])
Sound(s, d) == IsSeq(s) /\ \A i \in DOMAIN s : IsSeq(Answer(s[i], d))

LEMMA Mapped ==
  ASSUME NEW s, IsSeq(s), NEW f, DOMAIN f = DOMAIN s, f = [i \in DOMAIN s |-> f[i]]
  PROVE  IsSeq(f) /\ Len(f) = Len(s)
<1>1. Len(s) \in Nat /\ DOMAIN s = 1 .. Len(s)
  BY SeqFacts
<1> DEFINE S == {f[i] : i \in 1 .. Len(s)}
<1>2. f \in [1 .. Len(s) -> S]
  BY <1>1
<1>3. f \in Seq(S) /\ Len(f) = Len(s)
  BY <1>1, <1>2
<1>4. QED
  BY <1>3 DEF IsSeq

LEMMA AppendIs ==
  ASSUME NEW f, IsSeq(f), NEW x, NEW g, DOMAIN g = 1 .. Len(f) + 1, g = [i \in DOMAIN g |-> g[i]],
         \A i \in 1 .. Len(f) : g[i] = f[i], g[Len(f) + 1] = x
  PROVE  g = Append(f, x)
<1> DEFINE n == Len(f)
           h == Append(f, x)
<1>1. n \in Nat /\ IsSeq(h) /\ DOMAIN h = 1 .. n + 1 /\ (\A i \in 1 .. n : h[i] = f[i]) /\ h[n + 1] = x
  BY SeqFacts
<1>2. h = [i \in 1 .. n + 1 |-> h[i]]
  <2> HIDE DEF h
  <2>1. PICK H : h \in Seq(H)
    BY <1>1 DEF IsSeq
  <2>2. QED
    BY <1>1, <2>1
<1> HIDE DEF h
<1>3. ASSUME NEW i \in 1 .. n + 1
      PROVE  g[i] = h[i]
  <2>1. i \in 1 .. n \/ i = n + 1
    BY <1>1
  <2>2. QED
    BY <1>1, <2>1
<1>4. QED
  BY <1>2, <1>3 DEF h

LEMMA TailIs ==
  ASSUME NEW f, IsSeq(f), f # << >>, NEW g, DOMAIN g = 1 .. Len(f) - 1, g = [i \in DOMAIN g |-> g[i]],
         \A i \in 1 .. Len(f) - 1 : g[i] = f[i + 1]
  PROVE  g = Tail(f)
<1> DEFINE n == Len(f)
           h == Tail(f)
<1>1. IsSeq(h) /\ DOMAIN h = 1 .. n - 1 /\ \A i \in 1 .. n - 1 : h[i] = f[i + 1]
  BY SeqFacts
<1>2. h = [i \in 1 .. n - 1 |-> h[i]]
  <2> HIDE DEF h
  <2>1. PICK H : h \in Seq(H)
    BY <1>1 DEF IsSeq
  <2>2. QED
    BY <1>1, <2>1
<1> HIDE DEF h
<1>3. \A i \in 1 .. n - 1 : g[i] = h[i]
  BY <1>1
<1>4. QED
  BY <1>2, <1>3 DEF h

LEMMA AnswersSame ==
  ASSUME NEW s, NEW c, NEW d, Sound(s, c), \A i \in DOMAIN s : Answer(s[i], d) = Answer(s[i], c)
  PROVE  Sound(s, d) /\ Answers(s, d) = Answers(s, c)
BY DEF Sound, Answers

LEMMA AnswersAppend ==
  ASSUME NEW s, NEW d, Sound(s, d), NEW e, IsSeq(Answer(e, d))
  PROVE  /\ Sound(Append(s, e), d)
         /\ Answers(Append(s, e), d) = Answers(s, d) \o Answer(e, d)
<1> DEFINE u == Append(s, e)
           n == Len(s)
           f == [i \in DOMAIN s |-> Answer(s[i], d)]
           g == [i \in DOMAIN u |-> Answer(u[i], d)]
           x == Answer(e, d)
<1>1. /\ IsSeq(s) /\ n \in Nat /\ DOMAIN s = 1 .. n
      /\ IsSeq(u) /\ DOMAIN u = 1 .. n + 1
      /\ \A i \in 1 .. n : u[i] = s[i]
      /\ u[n + 1] = e
  BY SeqFacts DEF Sound
<1>2. Lists(f) /\ Len(f) = n
  <2>1. DOMAIN f = DOMAIN s /\ f = [i \in DOMAIN s |-> f[i]]
    OBVIOUS
  <2>2. \A i \in DOMAIN f : IsSeq(f[i])
    BY DEF Sound
  <2> HIDE DEF f
  <2>3. QED
    BY <1>1, <2>1, <2>2, Mapped DEF Lists
<1>3. g = Append(f, x)
  <2>1. \A i \in 1 .. n : i \in 1 .. n + 1 /\ n + 1 \in 1 .. n + 1
    BY <1>1
  <2>2. DOMAIN g = 1 .. n + 1 /\ g = [i \in DOMAIN g |-> g[i]]
    BY <1>1
  <2>3. (\A i \in 1 .. n : g[i] = f[i]) /\ g[n + 1] = x
    <3>1. n + 1 \in 1 .. n + 1
      BY <1>1
    <3> HIDE DEF u, n
    <3>2. QED
      BY <1>1, <2>1, <3>1
  <2> HIDE DEF f, g, x, u
  <2>4. QED
    BY <1>2, <2>2, <2>3, AppendIs DEF Lists
<1>4. FlattenSeq(g) = FlattenSeq(f) \o x
  <2> HIDE DEF f, g, x
  <2>1. IsSeq(x)
    BY DEF x
  <2>2. QED
    BY <1>2, <1>3, <2>1, Flattened
<1>5. Sound(u, d)
  <2> HIDE DEF u, n
  <2>1. \A i \in 1 .. n + 1 : i \in 1 .. n \/ i = n + 1
    BY <1>1
  <2>2. QED
    BY <1>1, <2>1 DEF Sound
<1>6. QED
  BY <1>4, <1>5 DEF Answers

LEMMA AnswersHead ==
  ASSUME NEW s, NEW d, Sound(s, d), s # << >>
  PROVE  Sound(Tail(s), d) /\ IsSeq(Answer(s[1], d)) /\ Answers(s, d) = Answer(s[1], d) \o Answers(Tail(s), d)
<1> DEFINE t == Tail(s)
           n == Len(s)
           f == [i \in DOMAIN s |-> Answer(s[i], d)]
           g == [i \in DOMAIN t |-> Answer(t[i], d)]
<1>1. /\ IsSeq(s) /\ n \in Nat /\ n # 0 /\ DOMAIN s = 1 .. n
      /\ IsSeq(t) /\ DOMAIN t = 1 .. n - 1
      /\ \A i \in 1 .. n - 1 : t[i] = s[i + 1]
  BY SeqFacts DEF Sound
<1>2. Lists(f) /\ Len(f) = n
  <2>1. DOMAIN f = DOMAIN s /\ f = [i \in DOMAIN s |-> f[i]]
    OBVIOUS
  <2>2. \A i \in DOMAIN f : IsSeq(f[i])
    BY DEF Sound
  <2> HIDE DEF f
  <2>3. QED
    BY <1>1, <2>1, <2>2, Mapped DEF Lists
<1>3. 1 \in DOMAIN s /\ \A i \in 1 .. n - 1 : i + 1 \in DOMAIN s
  BY <1>1
<1>4. f # << >>
  <2> HIDE DEF f
  <2>1. QED
    BY <1>1, <1>2
<1>5. g = Tail(f)
  <2>1. DOMAIN g = 1 .. n - 1 /\ g = [i \in DOMAIN g |-> g[i]]
    BY <1>1
  <2>2. \A i \in 1 .. n - 1 : g[i] = f[i + 1]
    <3> HIDE DEF t, n
    <3>1. QED
      BY <1>1, <1>3
  <2> HIDE DEF g, f
  <2>3. QED
    BY <1>2, <1>4, <2>1, <2>2, TailIs DEF Lists
<1>6. f[1] = Answer(s[1], d)
  BY <1>3
<1>7. FlattenSeq(f) = f[1] \o FlattenSeq(g)
  <2> HIDE DEF f, g
  <2>1. QED
    BY <1>2, <1>4, <1>5, Flattened
<1>8. Sound(t, d)
  <2> HIDE DEF t, n
  <2>1. QED
    BY <1>1, <1>3 DEF Sound
<1>9. IsSeq(Answer(s[1], d))
  BY <1>3 DEF Sound
<1>10. QED
  BY <1>6, <1>7, <1>8, <1>9 DEF Answers

LEMMA AnswersSeq ==
  ASSUME NEW s, NEW d, Sound(s, d)
  PROVE  IsSeq(Answers(s, d)) /\ (s = << >> => Answers(s, d) = << >>)
<1> DEFINE f == [i \in DOMAIN s |-> Answer(s[i], d)]
<1>1. Lists(f)
  <2>1. DOMAIN f = DOMAIN s /\ f = [i \in DOMAIN s |-> f[i]]
    OBVIOUS
  <2>2. \A i \in DOMAIN f : IsSeq(f[i])
    BY DEF Sound
  <2> HIDE DEF f
  <2>3. QED
    BY <2>1, <2>2, Mapped DEF Lists, Sound
<1>2. s = << >> => f = << >>
  OBVIOUS
<1>3. FlattenSeq(<< >>) = << >>
  BY DEF FlattenSeq
<1> HIDE DEF f
<1>4. IsSeq(FlattenSeq(f)) /\ (s = << >> => FlattenSeq(f) = << >>)
  BY <1>1, <1>2, <1>3, Flattened
<1>5. QED
  BY <1>4 DEF Answers, f

(* What a file gives to the document, and what the files give.             *)
Gives(j, F)   == IF j.fate \in F THEN <<<<j.fate, j.read>>>> ELSE << >>
Pieces(js, F) == FlattenSeq([i \in DOMAIN js |-> Gives(js[i], F)])

LEMMA PiecesSeq ==
  ASSUME NEW js, IsSeq(js), NEW F
  PROVE  /\ IsSeq(Pieces(js, F)) /\ (js = << >> => Pieces(js, F) = << >>)
         /\ \A k \in DOMAIN js : js[k].fate \in F => <<js[k].fate, js[k].read>> \in Range(Pieces(js, F))
<1> DEFINE f == [i \in DOMAIN js |-> Gives(js[i], F)]
<1>1. Lists(f) /\ DOMAIN f = DOMAIN js
  <2>1. DOMAIN f = DOMAIN js /\ f = [i \in DOMAIN js |-> f[i]]
    OBVIOUS
  <2>2. \A i \in DOMAIN f : IsSeq(f[i])
    BY Concats DEF Gives
  <2> HIDE DEF f
  <2>3. QED
    BY <2>1, <2>2, Mapped DEF Lists
<1>2. js = << >> => f = << >>
  OBVIOUS
<1>3. FlattenSeq(<< >>) = << >>
  BY DEF FlattenSeq
<1>4. ASSUME NEW k \in DOMAIN js, js[k].fate \in F
      PROVE  <<js[k].fate, js[k].read>> \in Range(f[k])
  <2> DEFINE p == <<js[k].fate, js[k].read>>
  <2>1. f[k] = <<p>>
    BY <1>4 DEF Gives
  <2> HIDE DEF p, f
  <2>2. p \in Range(<<p>>)
    BY DEF Range
  <2>3. QED
    BY <2>1, <2>2 DEF p
<1> HIDE DEF f
<1>5. /\ IsSeq(FlattenSeq(f)) /\ (js = << >> => FlattenSeq(f) = << >>)
      /\ \A k \in DOMAIN js : js[k].fate \in F => <<js[k].fate, js[k].read>> \in Range(FlattenSeq(f))
  BY <1>1, <1>2, <1>3, <1>4, Flattened
<1>6. QED
  BY <1>5 DEF Pieces, f

LEMMA PiecesSame ==
  ASSUME NEW js, NEW ks, NEW F, DOMAIN ks = DOMAIN js, \A i \in DOMAIN js : Gives(ks[i], F) = Gives(js[i], F)
  PROVE  Pieces(ks, F) = Pieces(js, F)
BY DEF Pieces

LEMMA PiecesAppend ==
  ASSUME NEW js, IsSeq(js), NEW r, NEW F
  PROVE  Pieces(Append(js, r), F) = Pieces(js, F) \o Gives(r, F)
<1> DEFINE u == Append(js, r)
           n == Len(js)
           f == [i \in DOMAIN js |-> Gives(js[i], F)]
           g == [i \in DOMAIN u |-> Gives(u[i], F)]
           x == Gives(r, F)
<1>1. /\ n \in Nat /\ DOMAIN js = 1 .. n /\ DOMAIN u = 1 .. n + 1
      /\ \A i \in 1 .. n : u[i] = js[i]
      /\ u[n + 1] = r
  BY SeqFacts
<1>2. Lists(f) /\ Len(f) = n
  <2>1. DOMAIN f = DOMAIN js /\ f = [i \in DOMAIN js |-> f[i]]
    OBVIOUS
  <2>2. \A i \in DOMAIN f : IsSeq(f[i])
    BY Concats DEF Gives
  <2> HIDE DEF f
  <2>3. QED
    BY <2>1, <2>2, Mapped DEF Lists
<1>3. g = Append(f, x)
  <2>1. (\A i \in 1 .. n : i \in 1 .. n + 1) /\ n + 1 \in 1 .. n + 1
    BY <1>1
  <2>2. DOMAIN g = 1 .. n + 1 /\ g = [i \in DOMAIN g |-> g[i]]
    BY <1>1
  <2>3. (\A i \in 1 .. n : g[i] = f[i]) /\ g[n + 1] = x
    <3> HIDE DEF u, n
    <3>1. QED
      BY <1>1, <2>1
  <2> HIDE DEF f, g, x, u
  <2>4. QED
    BY <1>2, <2>2, <2>3, AppendIs DEF Lists
<1>4. IsSeq(x)
  BY Concats DEF Gives
<1>5. FlattenSeq(g) = FlattenSeq(f) \o x
  <2> HIDE DEF f, g, x
  <2>1. QED
    BY <1>2, <1>3, <1>4, Flattened
<1>6. QED
  BY <1>5 DEF Pieces

(* The last file gives something, that has given nothing so far.           *)
LEMMA PiecesLast ==
  ASSUME NEW js, IsSeq(js), NEW ks, IsSeq(ks), Len(ks) = Len(js), Len(js) >= 1, NEW F,
         \A i \in 1 .. Len(js) - 1 : Gives(ks[i], F) = Gives(js[i], F), Gives(js[Len(js)], F) = << >>
  PROVE  Pieces(ks, F) = Pieces(js, F) \o Gives(ks[Len(js)], F)
<1> DEFINE n == Len(js)
           m == n - 1
           p == [i \in 1 .. m |-> Gives(js[i], F)]
           f == [i \in DOMAIN js |-> Gives(js[i], F)]
           g == [i \in DOMAIN ks |-> Gives(ks[i], F)]
           y == Gives(ks[n], F)
<1>1. n \in Nat /\ n >= 1 /\ DOMAIN js = 1 .. n /\ DOMAIN ks = 1 .. n
  BY SeqFacts
<1> HIDE DEF n
<1>2. m \in Nat /\ m + 1 = n /\ m + 1 \in 1 .. n /\ \A i \in 1 .. m : i \in 1 .. n
  BY <1>1
<1> HIDE DEF m
<1>3. Lists(p) /\ Len(p) = m
  <2>1. DOMAIN p = 1 .. m /\ \A i \in 1 .. m : IsSeq(p[i])
    BY Concats DEF Gives
  <2> DEFINE P == {p[i] : i \in 1 .. m}
  <2>2. p \in Seq(P) /\ Len(p) = m
    BY <1>2
  <2> HIDE DEF p, P
  <2>3. QED
    BY <2>1, <2>2 DEF Lists, IsSeq
<1>4. /\ DOMAIN f = 1 .. m + 1 /\ f = [i \in DOMAIN f |-> f[i]] /\ DOMAIN g = 1 .. m + 1 /\ g = [i \in DOMAIN g |-> g[i]]
      /\ \A i \in 1 .. m : f[i] = p[i] /\ g[i] = p[i]
      /\ f[m + 1] = << >> /\ g[m + 1] = y
  <2>1. DOMAIN f = 1 .. m + 1 /\ f = [i \in DOMAIN f |-> f[i]] /\ DOMAIN g = 1 .. m + 1 /\ g = [i \in DOMAIN g |-> g[i]]
    BY <1>1, <1>2
  <2>2. \A i \in 1 .. m : f[i] = p[i]
    BY <1>1, <1>2
  <2>3. \A i \in 1 .. m : g[i] = p[i]
    <3>1. \A i \in 1 .. m : Gives(ks[i], F) = Gives(js[i], F)
      BY DEF m, n
    <3>2. QED
      BY <1>1, <1>2, <3>1
  <2>4. f[m + 1] = << >>
    BY <1>1, <1>2 DEF n
  <2>5. g[m + 1] = y
    BY <1>1, <1>2
  <2>6. QED
    BY <2>1, <2>2, <2>3, <2>4, <2>5
<1>5. IsSeq(y) /\ IsSeq(<< >>)
  BY Concats DEF Gives
<1> HIDE DEF p, f, g, y
<1>6. f = Append(p, << >>) /\ g = Append(p, y)
  BY <1>3, <1>4, AppendIs DEF Lists
<1>7. FlattenSeq(f) = FlattenSeq(p) \o << >> /\ FlattenSeq(g) = FlattenSeq(p) \o y /\ IsSeq(FlattenSeq(p))
  BY <1>3, <1>5, <1>6, Flattened
<1>8. FlattenSeq(f) = FlattenSeq(p)
  BY <1>7, Concats
<1>9. QED
  BY <1>7, <1>8 DEF Pieces, f, g, y, n
-----------------------------------------------------------------------------
(* What is to be received: the property, for the pieces of the proof.      *)
Spied    == IF request.debug THEN <<<<"spy", << >>>>>> ELSE << >>
Texts    == {"text", "result"}
Whole    == IF Alone THEN Pieces(jobs, {"result"}) ELSE (Spied \o Pieces(jobs, Texts)) \o <<Trailer>>
Expected == Alone => NoneFailed

Opening == phase \in {"output", "create"}
Written == IF Opening THEN << >> ELSE Received
Spies(s) == \A i \in DOMAIN s : s[i][1] = "spy" => s[i] = <<"spy", << >>>>

(* A delegation has succeeded or failed, but for the current one.          *)
Answered(k) == jobs[k].fate \in {"result", "failed"} \/ (phase \in {"popen", "read"} /\ k = Current)

(* While the files are read, what the diversion gives is what they gave.   *)
ReadInv ==
  /\ stream = << >> /\ Spies(divertion)
  /\ Answers(divertion, disk) = Spied \o Pieces(jobs, Texts)
  /\ Len(Pieces(jobs, {"result"})) = delegated

(* What was written, then what is still to be sent, is the document.       *)
SendInv ==
  /\ Spies(queue)
  /\ Opening => stream = << >>
  /\ phase \in {"spy", "record"} => Head(queue)[1] = "spy"
  /\ ~Opening /\ request.to = "file" => Out \in DOMAIN disk
  /\ Expected => /\ Sound(queue, disk) /\ IsSeq(Written)
                 /\ Written \o Answers(queue, disk) = Whole

SentInv ==
  result = "sent" =>
    /\ request.to = "file" => Out \in DOMAIN disk
    /\ Expected => Received = Whole

DocInv ==
  /\ Unfinished => jobs[Current].fate = NULL
  /\ Active => result = "running" /\ \A k \in DOMAIN jobs : HasResult(k) => Answered(k)
  /\ Reading => ReadInv
  /\ Sending => SendInv
  /\ SentInv

LEMMA GivenPieces == \A F : Given(F) = Pieces(jobs, F)
BY DEF Given, Pieces, Gives

LEMMA CurrentJob ==
  ASSUME SessionInv, Active, phase # "next"
  PROVE  Current \in DOMAIN jobs /\ Len(jobs) \in Nat /\ DOMAIN jobs = 1 .. Len(jobs) /\ Len(jobs) >= 1
<1>1. Current >= 1 /\ AreJobs(jobs)
  BY DEF SessionInv, NameInv, TypeInv
<1>2. Len(jobs) \in Nat /\ DOMAIN jobs = 1 .. Len(jobs)
  BY <1>1, SeqFacts DEF AreJobs
<1>3. QED
  BY <1>1, <1>2 DEF Current

(* The current file is given a fate: the others have given what they gave. *)
LEMMA FateGives ==
  ASSUME SessionInv, Active, phase # "next", jobs[Current].fate = NULL, NEW fate, SetFate(fate), NEW F, NULL \notin F
  PROVE  /\ fate \notin F => Pieces(jobs', F) = Pieces(jobs, F)
         /\ fate \in F => Pieces(jobs', F) = Pieces(jobs, F) \o <<<<fate, jobs[Current].read>>>>
<1> DEFINE n == Current
<1>1. AreJobs(jobs) /\ n \in DOMAIN jobs /\ Len(jobs) \in Nat /\ DOMAIN jobs = 1 .. Len(jobs) /\ Len(jobs) >= 1
  BY CurrentJob DEF SessionInv, TypeInv
<1>2. /\ AreJobs(jobs') /\ Len(jobs') = Len(jobs) /\ DOMAIN jobs' = DOMAIN jobs
      /\ \A i \in DOMAIN jobs : /\ jobs'[i].read = jobs[i].read
                                /\ jobs'[i].fate = IF i = n THEN fate ELSE jobs[i].fate
  BY <1>1, FateSet
<1>3. \A i \in DOMAIN jobs : i # n => Gives(jobs'[i], F) = Gives(jobs[i], F)
  BY <1>2 DEF Gives
<1>4. Gives(jobs[n], F) = << >>
  BY DEF Gives
<1>5. Gives(jobs'[n], F) = IF fate \in F THEN <<<<fate, jobs[n].read>>>> ELSE << >>
  BY <1>1, <1>2 DEF Gives
<1>6. n = Len(jobs)
  BY DEF Current
<1> HIDE DEF n
<1>7. CASE fate \notin F
  <2>1. \A i \in DOMAIN jobs : Gives(jobs'[i], F) = Gives(jobs[i], F)
    BY <1>3, <1>4, <1>5, <1>7
  <2>2. QED
    BY <1>2, <1>7, <2>1, PiecesSame
<1>8. CASE fate \in F
  <2>1. \A i \in 1 .. Len(jobs) - 1 : Gives(jobs'[i], F) = Gives(jobs[i], F)
    BY <1>1, <1>3, <1>6
  <2>2. Pieces(jobs', F) = Pieces(jobs, F) \o Gives(jobs'[Len(jobs)], F)
    BY <1>1, <1>2, <1>4, <1>6, <2>1, PiecesLast DEF AreJobs
  <2>3. QED
    BY <1>5, <1>6, <1>8, <2>2 DEF n
<1>9. QED
  BY <1>7, <1>8

(* The pieces of a text are those of both kinds of fates.                  *)
LEMMA NullGives == NULL \notin Texts /\ NULL \notin {"result"}
BY SessionAssumption DEF Texts

(* How a file that is read changes what is diverted, delegations apart.    *)
FilesGive ==
  \/ /\ divertion' = divertion
     /\ Pieces(jobs', Texts) = Pieces(jobs, Texts)
     /\ Pieces(jobs', {"result"}) = Pieces(jobs, {"result"})
  \/ \E x : /\ divertion' = Append(divertion, <<"text", x>>)
            /\ Pieces(jobs', Texts) = Pieces(jobs, Texts) \o <<<<"text", x>>>>
            /\ Pieces(jobs', {"result"}) = Pieces(jobs, {"result"})

LEMMA FilesGiveStep ==
  ASSUME SessionInv, ResultInv, DocInv, [Next]_vars, Reading', Reading, ~Subcontract
  PROVE  FilesGive /\ stream' = stream /\ delegated' = delegated /\ request' = request
<1>0. AreJobs(jobs) /\ IsSeq(jobs)
  BY DEF SessionInv, TypeInv, AreJobs
<1>1. CASE NextFile
  <2>1. PICK name \in request.names : jobs' = Append(jobs, [name |-> name, type |-> NULL, fate |-> NULL, read |-> << >>])
    BY <1>1 DEF NextFile
  <2> DEFINE r == [name |-> name, type |-> NULL, fate |-> NULL, read |-> << >>]
  <2>2. r.fate = NULL
    OBVIOUS
  <2>3. jobs' = Append(jobs, r)
    BY <2>1
  <2> HIDE DEF r
  <2>4. \A F : NULL \notin F => Pieces(jobs', F) = Pieces(jobs, F)
    <3>1. SUFFICES ASSUME NEW F, NULL \notin F
                   PROVE  Pieces(jobs', F) = Pieces(jobs, F)
      OBVIOUS
    <3>2. Gives(r, F) = << >>
      BY <2>2, <3>1 DEF Gives
    <3>3. Pieces(jobs', F) = Pieces(jobs, F) \o << >>
      <4>1. Pieces(Append(jobs, r), F) = Pieces(jobs, F) \o Gives(r, F)
        BY <1>0, PiecesAppend
      <4>2. QED
        BY <2>3, <3>2, <4>1
    <3>4. IsSeq(Pieces(jobs, F))
      BY <1>0, PiecesSeq
    <3>5. QED
      BY <3>3, <3>4, Concats
  <2>5. divertion' = divertion /\ stream' = stream /\ delegated' = delegated /\ request' = request
    BY <1>1 DEF NextFile, output
  <2>6. QED
    BY <2>4, <2>5, NullGives DEF FilesGive
<1>2. CASE PrintToc
  <2> DEFINE x == <<<<"toc", << >>>>>>
             r == [name |-> "toc", type |-> "plain", fate |-> "text", read |-> x]
  <2>1. jobs' = Append(jobs, r) /\ divertion' = Append(divertion, <<"text", x>>)
    BY <1>2 DEF PrintToc
  <2>2. r.fate = "text" /\ r.read = x
    OBVIOUS
  <2> HIDE DEF r, x
  <2>3. Gives(r, Texts) = <<<<"text", x>>>> /\ Gives(r, {"result"}) = << >>
    BY <2>2 DEF Gives, Texts
  <2>4. Pieces(jobs', Texts) = Pieces(jobs, Texts) \o <<<<"text", x>>>>
    <3>1. Pieces(Append(jobs, r), Texts) = Pieces(jobs, Texts) \o Gives(r, Texts)
      BY <1>0, PiecesAppend
    <3>2. QED
      BY <2>1, <2>3, <3>1
  <2>5. Pieces(jobs', {"result"}) = Pieces(jobs, {"result"})
    <3>1. Pieces(jobs', {"result"}) = Pieces(jobs, {"result"}) \o Gives(r, {"result"})
      BY <1>0, <2>1, PiecesAppend
    <3>2. IsSeq(Pieces(jobs, {"result"}))
      BY <1>0, PiecesSeq
    <3>3. QED
      BY <2>3, <3>1, <3>2, Concats
  <2>6. stream' = stream /\ delegated' = delegated /\ request' = request
    BY <1>2 DEF PrintToc, output
  <2>7. QED
    BY <2>1, <2>4, <2>5, <2>6 DEF FilesGive
<1>3. CASE InputType
  <2>1. phase = "type" /\ Active
    BY <1>3 DEF InputType, Active
  <2>2. jobs[Current].fate = NULL
    BY <2>1 DEF DocInv, Unfinished
  <2>3. PICK type, read : jobs' = [jobs EXCEPT ![Current].type = type, ![Current].read = read]
    BY <1>3 DEF InputType
  <2>4. /\ DOMAIN jobs' = DOMAIN jobs
        /\ \A i \in DOMAIN jobs : /\ jobs'[i].fate = jobs[i].fate
                                  /\ jobs'[i].read = IF i = Current THEN read ELSE jobs[i].read
    BY <1>0, <2>3, TypeSet
  <2>5. \A F : NULL \notin F => Pieces(jobs', F) = Pieces(jobs, F)
    <3>1. SUFFICES ASSUME NEW F, NULL \notin F
                   PROVE  Pieces(jobs', F) = Pieces(jobs, F)
      OBVIOUS
    <3>2. \A i \in DOMAIN jobs : Gives(jobs'[i], F) = Gives(jobs[i], F)
      BY <2>2, <2>4, <3>1 DEF Gives
    <3>3. QED
      BY <2>4, <3>2, PiecesSame
  <2>6. divertion' = divertion /\ stream' = stream /\ delegated' = delegated /\ request' = request
    BY <1>3 DEF InputType, output
  <2>7. QED
    BY <2>5, <2>6, NullGives DEF FilesGive
<1>4. CASE PrintNative \/ Ignore \/ Popen
  <2>1. phase \in {"print", "popen"} /\ Active
    BY <1>4 DEF PrintNative, Ignore, Popen, Active
  <2>2. jobs[Current].fate = NULL /\ phase # "next"
    BY <2>1 DEF DocInv, Unfinished
  <2>3. stream' = stream /\ delegated' = delegated /\ request' = request
    BY <1>4 DEF PrintNative, Ignore, Popen, output
  <2>4. \/ jobs' = jobs /\ divertion' = divertion
        \/ divertion' = divertion /\ \E fate \in {"skipped", "ignored", "failed"} : SetFate(fate)
        \/ divertion' = Append(divertion, <<"text", jobs[Current].read>>) /\ SetFate("text")
    BY <1>4 DEF PrintNative, Ignore, Popen
  <2>5. CASE jobs' = jobs /\ divertion' = divertion
    BY <2>3, <2>5 DEF FilesGive
  <2>6. CASE divertion' = divertion /\ \E fate \in {"skipped", "ignored", "failed"} : SetFate(fate)
    <3>1. PICK fate \in {"skipped", "ignored", "failed"} : SetFate(fate)
      BY <2>6
    <3>2. fate \notin Texts /\ fate \notin {"result"}
      BY DEF Texts
    <3>3. \A F : NULL \notin F /\ fate \notin F => Pieces(jobs', F) = Pieces(jobs, F)
      BY <2>1, <2>2, <3>1, FateGives
    <3>4. QED
      BY <2>3, <2>6, <3>2, <3>3, NullGives DEF FilesGive
  <2>7. CASE divertion' = Append(divertion, <<"text", jobs[Current].read>>) /\ SetFate("text")
    <3>1. "text" \in Texts /\ "text" \notin {"result"}
      BY DEF Texts
    <3>2. /\ Pieces(jobs', Texts) = Pieces(jobs, Texts) \o <<<<"text", jobs[Current].read>>>>
          /\ Pieces(jobs', {"result"}) = Pieces(jobs, {"result"})
      BY <2>1, <2>2, <2>7, <3>1, FateGives, NullGives
    <3>3. QED
      BY <2>3, <2>7, <3>2 DEF FilesGive
  <2>8. QED
    BY <2>4, <2>5, <2>6, <2>7
<1>5. CASE Record \/ NamingSteps
  <2>1. UNCHANGED <<request, work, output>>
    BY <1>5, NamingCases DEF Record
  <2>2. QED
    BY <2>1 DEF work, output, FilesGive
<1>6. CASE SampleGet \/ PrintDelegated \/ BufferSave \/ (Command /\ ~request.macro) \/ EndFiles
  BY <1>6 DEF SampleGet, PrintDelegated, BufferSave, Command, EndFiles, work, output, FilesGive
<1>7. CASE SendSteps
  BY <1>7 DEF SendSteps, SendAlone, SendAll, SendNothing, OpenStream, MakeBackup, Create, DumpText, StreamDump,
     StreamDumpFails, Unlink2, SpyUser, Close, Dumping, Exit, Go, Reading, Sending, Active
<1>8. CASE EndSteps
  <2>1. UNCHANGED vars
    BY <1>8 DEF EndSteps, ExitHandler, StartCleanup, CleanupTempfiles, Exited, Signal, Stopped, Reading, Active, Go, vars
  <2>2. QED
    BY <2>1 DEF vars, work, output, FilesGive
<1>9. QED
  BY <1>1, <1>2, <1>3, <1>4, <1>5, <1>6, <1>7, <1>8, Steps DEF FileSteps

(* The results that are delayed are those of the files.                    *)
LEMMA DumpsOf ==
  ASSUME SessionInv, ResultInv, Reading, NEW i \in DOMAIN divertion, divertion[i][1] = "dump"
  PROVE  \E k \in DOMAIN jobs : /\ HasResult(k) /\ Result(k) = divertion[i][2] /\ jobs[k].fate = "result"
                                /\ disk[divertion[i][2]] = Contents(k)
<1>1. Delayed(divertion, Results) /\ \A k \in DOMAIN jobs : HasResult(k) => Waiting(k)
  BY DEF ResultInv
<1>2. divertion[i][2] \in Results
  BY <1>1 DEF Delayed
<1>3. PICK k \in DOMAIN jobs : HasResult(k) /\ Result(k) = divertion[i][2] /\ jobs[k].fate = "result"
  BY <1>2 DEF Results
<1>4. QED
  BY <1>1, <1>3 DEF Waiting

LEMMA DivertionSound ==
  ASSUME SessionInv, ResultInv, Reading
  PROVE  Sound(divertion, disk)
<1>1. ASSUME NEW i \in DOMAIN divertion, divertion[i][1] = "dump"
      PROVE  IsSeq(disk[divertion[i][2]])
  BY <1>1, DumpsOf, Concats DEF Contents
<1>2. \A e : IsSeq(<<e>>) /\ IsSeq(<< >>)
  BY Concats
<1>3. IsSeq(divertion)
  BY DEF SessionInv, TypeInv
<1>4. QED
  BY <1>1, <1>2, <1>3 DEF Sound, Answer

(* What is delayed gives the same as before.                               *)
LEMMA AnswersStay ==
  ASSUME SessionInv, ResultInv, [Next]_vars, Reading', Reading
  PROVE  \A i \in DOMAIN divertion : Answer(divertion[i], disk') = Answer(divertion[i], disk)
<1>0. AreJobs(jobs)
  BY DEF SessionInv, TypeInv
<1>1. \A k \in DOMAIN jobs : jobs[k].fate = "result" =>
        k \in DOMAIN jobs' /\ jobs'[k].fate = "result" /\ jobs'[k].read = jobs[k].read
  <2>1. CASE Subcontract
    <3>1. PICK fate : SetFate(fate)
      BY <2>1 DEF Subcontract
    <3>2. jobs[Current].fate # "result"
      BY <2>1 DEF Subcontract, ResultInv, Unfinished
    <3>3. QED
      BY <1>0, <3>1, <3>2, FateSet
  <2>2. CASE ~Subcontract
    BY <2>2, FatesStep DEF FatesKept
  <2>3. QED
    BY <2>1, <2>2
<1>2. NamesKept
  BY NamesStep
<1>3. \A k \in DOMAIN jobs' : HasResult(k)' => Waiting(k)'
  BY DelayedStep
<1>4. ASSUME NEW i \in DOMAIN divertion, divertion[i][1] = "dump"
      PROVE  disk'[divertion[i][2]] = disk[divertion[i][2]]
  <2>1. PICK k \in DOMAIN jobs : /\ HasResult(k) /\ Result(k) = divertion[i][2] /\ jobs[k].fate = "result"
                                 /\ disk[divertion[i][2]] = Contents(k)
    BY <1>4, DumpsOf
  <2>2. HasResult(k)' /\ Result(k)' = Result(k)
    BY <1>2, <2>1 DEF NamesKept, HasResult, Result, ResultSlot
  <2>3. k \in DOMAIN jobs' /\ jobs'[k].fate = "result" /\ jobs'[k].read = jobs[k].read
    BY <1>1, <2>1
  <2>4. disk'[Result(k)'] = Contents(k)'
    BY <1>3, <2>2, <2>3 DEF Waiting
  <2>5. Contents(k)' = Contents(k)
    BY <2>3 DEF Contents
  <2>6. QED
    BY <2>1, <2>2, <2>4, <2>5
<1>5. QED
  BY <1>4 DEF Answer

LEMMA InSpied == IsSeq(Spied) /\ \A S, F : IsSeq(S) => IsSeq(Spied \o S)
BY Concats DEF Spied

(* The result of a delegation goes after what the other files have given.  *)
LEMMA SubcontractGives ==
  ASSUME SessionInv, ResultInv, DocInv, Subcontract, Reading', Reading
  PROVE  ReadInv'
<1>0. AreJobs(jobs) /\ IsSeq(jobs) /\ [Next]_vars
  BY DEF SessionInv, TypeInv, AreJobs, Next
<1>1. phase = "read" /\ Active /\ phase # "next" /\ names' = names /\ stream' = stream /\ request' = request
  BY DEF Subcontract, Active, temps, output
<1>2. jobs[Current].fate = NULL /\ ReadInv
  BY <1>1 DEF DocInv, Unfinished
<1> DEFINE file == names[ResultSlot(Current)]
           read == jobs[Current].read
           s == divertion
           d == disk'
           a == <<"dump", file>>
           b == <<"unlink", file>>
<1>3. Sound(s, disk) /\ \A i \in DOMAIN s : Answer(s[i], d) = Answer(s[i], disk)
  BY <1>0, AnswersStay, DivertionSound
<1>4. Sound(s, d) /\ Answers(s, d) = Answers(s, disk)
  <2> HIDE DEF s, d
  <2>1. QED
    BY <1>3, AnswersSame
<1>5. CASE /\ divertion' = divertion \o <<a, b>> /\ delegated' = delegated + 1
           /\ d[file] = <<<<"result", read>>>> /\ SetFate("result")
  <2>1. IsSeq(s)
    BY <1>4 DEF Sound
  <2>2. a[1] = "dump" /\ a[2] = file /\ b[1] = "unlink"
    OBVIOUS
  <2> HIDE DEF a, b, s, d, file, read
  <2>3. <<a, b>> = <<a>> \o <<b>>
    BY Pairs
  <2>4. divertion' = Append(Append(s, a), b)
    <3>1. s \o (<<a>> \o <<b>>) = (s \o <<a>>) \o <<b>>
      BY <2>1, Concats
    <3>2. IsSeq(s \o <<a>>) /\ Append(s, a) = s \o <<a>>
      BY <2>1, Concats
    <3>3. Append(s \o <<a>>, b) = (s \o <<a>>) \o <<b>>
      BY <3>2, Concats
    <3>4. QED
      BY <1>5, <2>3, <3>1, <3>2, <3>3 DEF s
  <2>5. Answer(a, d) = <<<<"result", read>>>> /\ Answer(b, d) = << >>
    BY <1>5, <2>2 DEF Answer
  <2>6. IsSeq(Answer(a, d)) /\ IsSeq(Answer(b, d))
    BY <2>5, Concats
  <2>7. Sound(Append(s, a), d) /\ Answers(Append(s, a), d) = Answers(s, d) \o <<<<"result", read>>>>
    BY <1>4, <2>5, <2>6, AnswersAppend
  <2>8. Answers(divertion', d) = Answers(Append(s, a), d) \o << >> /\ IsSeq(Answers(Append(s, a), d))
    <3> DEFINE t == Append(s, a)
    <3>1. Sound(t, d)
      BY <2>7
    <3> HIDE DEF t
    <3>2. Answers(Append(t, b), d) = Answers(t, d) \o Answer(b, d)
      BY <2>6, <3>1, AnswersAppend
    <3>3. IsSeq(Answers(t, d))
      BY <3>1, AnswersSeq
    <3>4. QED
      BY <2>4, <2>5, <3>2, <3>3 DEF t
  <2>9. Answers(divertion', d) = Answers(s, d) \o <<<<"result", read>>>>
    BY <2>7, <2>8, Concats
  <2>10. "result" \in Texts /\ "result" \in {"result"}
    BY DEF Texts
  <2>11. /\ Pieces(jobs', Texts) = Pieces(jobs, Texts) \o <<<<"result", read>>>>
         /\ Pieces(jobs', {"result"}) = Pieces(jobs, {"result"}) \o <<<<"result", read>>>>
    BY <1>1, <1>2, <1>5, <2>10, FateGives, NullGives DEF read
  <2> DEFINE P == Pieces(jobs, Texts)
             Q == Pieces(jobs, {"result"})
             e == <<<<"result", read>>>>
  <2>12. IsSeq(P) /\ IsSeq(Q) /\ IsSeq(e) /\ IsSeq(Spied)
    BY <1>0, PiecesSeq, Concats, InSpied
  <2>13. Answers(s, d) = Spied \o P
    BY <1>2, <1>4 DEF ReadInv, s
  <2>14. (Spied \o P) \o e = Spied \o (P \o e)
    <3> HIDE DEF P, e
    <3>1. QED
      BY <2>12, Associates
  <2>15. Spied' = Spied
    BY <1>1 DEF Spied
  <2>16. Answers(divertion', d) = Spied' \o Pieces(jobs', Texts)
    BY <2>9, <2>11, <2>13, <2>14, <2>15
  <2>17. Len(Pieces(jobs', {"result"})) = delegated'
    <3>1. Len(Q) = delegated
      BY <1>2 DEF ReadInv
    <3> DEFINE c == <<"result", read>>
    <3>2. Pieces(jobs', {"result"}) = Q \o <<c>>
      BY <2>11
    <3> HIDE DEF Q, c
    <3>3. Len(Q \o <<c>>) = Len(Q) + 1
      BY <2>12, Concats
    <3>4. QED
      BY <1>5, <3>1, <3>2, <3>3
  <2>18. Spies(divertion)'
    <3>1. Spies(s)
      BY <1>2 DEF ReadInv, s
    <3>2. IsSeq(Append(s, a)) /\ Len(s) \in Nat /\ Len(Append(s, a)) = Len(s) + 1
      BY <2>1, SeqFacts
    <3>3. \A i \in DOMAIN Append(s, a) : (i \in DOMAIN s /\ Append(s, a)[i] = s[i]) \/ Append(s, a)[i] = a
      BY <2>1, SeqFacts
    <3>4. \A i \in DOMAIN Append(Append(s, a), b) :
            \/ i \in DOMAIN Append(s, a) /\ Append(Append(s, a), b)[i] = Append(s, a)[i]
            \/ Append(Append(s, a), b)[i] = b
      BY <3>2, SeqFacts
    <3>5. QED
      BY <2>2, <2>4, <3>1, <3>3, <3>4 DEF Spies
  <2>19. QED
    BY <1>1, <1>2, <2>16, <2>17, <2>18 DEF ReadInv, d
<1>6. CASE divertion' = divertion /\ delegated' = delegated /\ SetFate("failed")
  <2>1. "failed" \notin Texts /\ "failed" \notin {"result"}
    BY DEF Texts
  <2>2. Pieces(jobs', Texts) = Pieces(jobs, Texts) /\ Pieces(jobs', {"result"}) = Pieces(jobs, {"result"})
    BY <1>1, <1>2, <1>6, <2>1, FateGives, NullGives
  <2>3. Spied' = Spied
    BY <1>1 DEF Spied
  <2>4. Answers(divertion', disk') = Answers(divertion, disk)
    BY <1>4, <1>6
  <2>5. Spies(divertion)'
    BY <1>2, <1>6 DEF ReadInv, Spies
  <2>6. QED
    BY <1>1, <1>2, <1>6, <2>2, <2>3, <2>4, <2>5 DEF ReadInv
<1>7. \/ /\ divertion' = divertion \o <<a, b>> /\ delegated' = delegated + 1
         /\ d[file] = <<<<"result", read>>>> /\ SetFate("result")
      \/ divertion' = divertion /\ delegated' = delegated /\ SetFate("failed")
  <2>1. \A w : Put(w, file, <<<<"result", read>>>>)[file] = <<<<"result", read>>>>
    BY DEF Put
  <2>2. QED
    BY <2>1 DEF Subcontract
<1>8. QED
  BY <1>5, <1>6, <1>7

LEMMA ReadInvStep ==
  ASSUME SessionInv, ResultInv, DocInv, [Next]_vars, Reading'
  PROVE  ReadInv'
<1>1. Reading
  BY ReadingBefore
<1>2. CASE Subcontract
  BY <1>1, <1>2, SubcontractGives
<1>3. CASE ~Subcontract
  <2>1. FilesGive /\ stream' = stream /\ delegated' = delegated /\ request' = request
    BY <1>1, <1>3, FilesGiveStep
  <2>2. ReadInv
    BY <1>1 DEF DocInv
  <2> DEFINE s == divertion
             d == disk'
             P == Pieces(jobs, Texts)
  <2>3. Sound(s, disk) /\ \A i \in DOMAIN s : Answer(s[i], d) = Answer(s[i], disk)
    BY <1>1, AnswersStay, DivertionSound
  <2>4. Sound(s, d) /\ Answers(s, d) = Answers(s, disk)
    <3> HIDE DEF s, d
    <3>1. QED
      BY <2>3, AnswersSame
  <2>5. Spied' = Spied
    BY <2>1 DEF Spied
  <2>6. CASE /\ divertion' = divertion /\ Pieces(jobs', Texts) = Pieces(jobs, Texts)
             /\ Pieces(jobs', {"result"}) = Pieces(jobs, {"result"})
    <3>1. Answers(divertion', disk') = Answers(divertion, disk)
      BY <2>4, <2>6
    <3>2. Spies(divertion)'
      BY <2>2, <2>6 DEF ReadInv, Spies
    <3>3. QED
      BY <2>1, <2>2, <2>5, <2>6, <3>1, <3>2 DEF ReadInv
  <2>7. ASSUME NEW x, divertion' = Append(divertion, <<"text", x>>),
               Pieces(jobs', Texts) = Pieces(jobs, Texts) \o <<<<"text", x>>>>,
               Pieces(jobs', {"result"}) = Pieces(jobs, {"result"})
        PROVE  ReadInv'
    <3> DEFINE e == <<"text", x>>
    <3>1. e[1] = "text"
      OBVIOUS
    <3>2. divertion' = Append(s, e) /\ Pieces(jobs', Texts) = P \o <<e>>
      BY <2>7
    <3> HIDE DEF e, s, d
    <3>3. Answer(e, d) = <<e>> /\ IsSeq(<<e>>)
      BY <3>1, Concats DEF Answer
    <3>4. Answers(divertion', d) = Answers(s, d) \o <<e>>
      BY <2>4, <3>2, <3>3, AnswersAppend
    <3>5. IsSeq(P) /\ IsSeq(Spied)
      BY PiecesSeq, InSpied DEF SessionInv, TypeInv, AreJobs
    <3>6. (Spied \o P) \o <<e>> = Spied \o (P \o <<e>>)
      <4> HIDE DEF P
      <4>1. QED
        BY <3>3, <3>5, Associates
    <3>7. Answers(s, d) = Spied \o P
      BY <2>2, <2>4 DEF ReadInv, s
    <3>8. Answers(divertion', disk') = Spied' \o Pieces(jobs', Texts)
      BY <2>5, <3>2, <3>4, <3>6, <3>7 DEF d
    <3>9. Spies(divertion)'
      <4>1. Spies(s)
        BY <2>2 DEF ReadInv, s
      <4>2. IsSeq(s)
        BY <2>4 DEF Sound
      <4>3. \A i \in DOMAIN Append(s, e) : (i \in DOMAIN s /\ Append(s, e)[i] = s[i]) \/ Append(s, e)[i] = e
        BY <4>2, SeqFacts
      <4>4. QED
        BY <3>1, <3>2, <4>1, <4>3 DEF Spies
    <3>10. QED
      BY <2>1, <2>2, <2>7, <3>8, <3>9 DEF ReadInv
  <2>8. QED
    BY <2>1, <2>6, <2>7 DEF FilesGive
<1>4. QED
  BY <1>2, <1>3
-----------------------------------------------------------------------------
(* What is to be received does not change any more.                        *)
LEMMA WholeKept ==
  ASSUME UNCHANGED <<request, jobs, native, delegated>>
  PROVE  Whole' = Whole /\ (Expected' <=> Expected) /\ Spied' = Spied
<1>1. Spied' = Spied
  BY DEF Spied
<1>2. Pieces(jobs, {"result"})' = Pieces(jobs, {"result"}) /\ Pieces(jobs, Texts)' = Pieces(jobs, Texts)
  BY DEF Texts
<1>3. Trailer' = Trailer /\ (Alone' <=> Alone) /\ (NoneFailed' <=> NoneFailed)
  BY DEF Trailer, Alone, NoneFailed
<1>4. QED
  BY <1>1, <1>2, <1>3 DEF Whole, Expected

(* The whole diversion is to be sent, and the trailer.                     *)
LEMMA SendAllSends ==
  ASSUME SessionInv, ResultInv, DocInv, SendAll
  PROVE  SendInv'
<1>1. /\ phase = "end" /\ ~Alone /\ queue' = Append(divertion, Trailer) /\ phase' = "output"
      /\ stream' = stream /\ disk' = disk /\ UNCHANGED <<request, jobs, native, delegated>>
  BY DEF SendAll, EndDocument, Go, process
<1>2. Reading /\ ReadInv
  BY <1>1 DEF Reading, Sending, Active, DocInv
<1>3. Whole' = Whole
  BY <1>1, WholeKept
<1> DEFINE s == divertion
           d == disk
           P == Pieces(jobs, Texts)
           e == Trailer
<1>4. Sound(s, d)
  BY <1>2, DivertionSound
<1>5. e[1] = "text"
  BY DEF Trailer
<1> HIDE DEF s, d, e
<1>6. Answer(e, d) = <<e>> /\ IsSeq(<<e>>)
  BY <1>5, Concats DEF Answer
<1>7. Sound(Append(s, e), d) /\ Answers(Append(s, e), d) = Answers(s, d) \o <<e>>
  BY <1>4, <1>6, AnswersAppend
<1>8. Answers(s, d) = Spied \o P
  BY <1>2 DEF ReadInv, s, d
<1>9. Whole = (Spied \o P) \o <<e>>
  BY <1>1 DEF Whole, e
<1>10. Answers(queue', disk') = Whole' /\ Sound(queue', disk')
  BY <1>1, <1>3, <1>7, <1>8, <1>9 DEF s, d, e
<1>11. Opening' /\ Written' = << >>
  BY <1>1 DEF Opening, Written
<1>12. IsSeq(<< >>) /\ << >> \o Answers(queue', disk') = Answers(queue', disk')
  BY <1>10, AnswersSeq, Concats
<1>13. Spies(queue)'
  <2>1. Spies(s)
    BY <1>2 DEF ReadInv, s
  <2>2. IsSeq(s)
    BY <1>4 DEF Sound
  <2>3. \A i \in DOMAIN Append(s, e) : (i \in DOMAIN s /\ Append(s, e)[i] = s[i]) \/ Append(s, e)[i] = e
    BY <2>2, SeqFacts
  <2>4. queue' = Append(s, e)
    BY <1>1 DEF s, e
  <2>5. QED
    BY <1>5, <2>1, <2>3, <2>4 DEF Spies
<1>14. QED
  BY <1>1, <1>2, <1>10, <1>11, <1>12, <1>13 DEF SendInv, ReadInv

(* The only delegation is sent alone: its result is all that was given.    *)
LEMMA SendAloneSends ==
  ASSUME SessionInv, ResultInv, DocInv, SendAlone
  PROVE  SendInv'
<1>1. /\ phase = "end" /\ Alone /\ queue' = <<<<"dump", Delegation>>, <<"unlink", Delegation>>>> /\ phase' = "output"
      /\ stream' = stream /\ disk' = disk /\ UNCHANGED <<request, jobs, native, delegated>>
  BY DEF SendAlone, Go, process, work
<1>2. Reading /\ Active /\ ReadInv /\ delegated = 1
  BY <1>1 DEF Reading, Sending, Active, DocInv, Alone
<1>3. Whole' = Whole /\ (Expected' <=> Expected)
  BY <1>1, WholeKept
<1> DEFINE D == Delegation
           d == disk
           a == <<"dump", D>>
           b == <<"unlink", D>>
<1>4. queue' = Append(Append(<< >>, a), b) /\ queue' = <<a, b>>
  <2>1. <<a, b>> = <<a>> \o <<b>>
    BY Pairs
  <2>2. Append(<< >>, a) = << >> \o <<a>> /\ << >> \o <<a>> = <<a>> /\ Append(<<a>>, b) = <<a>> \o <<b>>
    BY Concats
  <2>3. QED
    BY <1>1, <2>1, <2>2
<1>5. a[1] = "dump" /\ a[2] = D /\ b[1] = "unlink" /\ b[2] = D
  OBVIOUS
<1>6. Opening' /\ Written' = << >> /\ stream' = << >>
  BY <1>1, <1>2 DEF Opening, Written, ReadInv
<1>7. Spies(queue)'
  <2> HIDE DEF a, b
  <2>1. DOMAIN <<a, b>> = {1, 2} /\ <<a, b>>[1] = a /\ <<a, b>>[2] = b
    OBVIOUS
  <2>2. QED
    BY <1>4, <1>5, <2>1 DEF Spies
<1>8. ASSUME Expected
      PROVE  Sound(queue', disk') /\ IsSeq(Written') /\ Written' \o Answers(queue', disk') = Whole'
  <2>1. Delegation \in Ready
    BY <1>2, DelegationWaits
  <2>2. PICK k \in DOMAIN jobs : HasResult(k) /\ Result(k) = D /\ Waiting(k)
    BY <2>1 DEF Ready
  <2>3. Answered(k)
    BY <1>2, <2>2 DEF DocInv
  <2>4. jobs[k].fate = "result"
    BY <1>1, <1>8, <2>3 DEF Answered, Expected, NoneFailed
  <2>5. d[D] = Contents(k)
    BY <2>2, <2>4 DEF Waiting
  <2> DEFINE c == <<jobs[k].fate, jobs[k].read>>
             Q == Pieces(jobs, {"result"})
  <2>6. d[D] = <<c>>
    BY <2>4, <2>5 DEF Contents
  <2>7. IsSeq(Q) /\ c \in Range(Q)
    <3>1. IsSeq(jobs)
      BY DEF SessionInv, TypeInv, AreJobs
    <3>2. QED
      BY <2>4, <3>1, PiecesSeq
  <2>8. Len(Q) = 1
    BY <1>2 DEF ReadInv
  <2>9. Whole = Q
    BY <1>1 DEF Whole
  <2> HIDE DEF c, Q, D, d, a, b
  <2>10. Q = <<c>>
    <3>1. PICK S : Q \in Seq(S)
      BY <2>7 DEF IsSeq
    <3>2. Q = <<Q[1]>>
      BY <2>8, <3>1
    <3>3. c = Q[1]
      BY <2>7, <2>8, <3>1 DEF Range
    <3>4. QED
      BY <3>2, <3>3
  <2>11. Answer(a, d) = <<c>> /\ Answer(b, d) = << >>
    BY <1>5, <2>6 DEF Answer
  <2>12. Sound(<< >>, d) /\ IsSeq(<<c>>) /\ IsSeq(<< >>)
    <3>1. DOMAIN << >> = {}
      OBVIOUS
    <3>2. QED
      BY <3>1, Concats DEF Sound
  <2>13. Answers(<< >>, d) = << >>
    BY <2>12, AnswersSeq
  <2>14. Sound(Append(<< >>, a), d) /\ Answers(Append(<< >>, a), d) = << >> \o <<c>>
    <3>1. IsSeq(Answer(a, d))
      BY <2>11, <2>12
    <3>2. Sound(Append(<< >>, a), d) /\ Answers(Append(<< >>, a), d) = Answers(<< >>, d) \o Answer(a, d)
      BY <2>12, <3>1, AnswersAppend
    <3>3. QED
      BY <2>11, <2>13, <3>2
  <2>15. Sound(queue', d) /\ Answers(queue', d) = Answers(Append(<< >>, a), d) \o << >>
    BY <1>4, <2>11, <2>12, <2>14, AnswersAppend
  <2>16. Answers(queue', d) = <<c>>
    BY <2>12, <2>14, <2>15, Concats
  <2>17. << >> \o <<c>> = <<c>>
    BY <2>12, Concats
  <2>18. QED
    BY <1>1, <1>3, <1>6, <2>9, <2>10, <2>12, <2>15, <2>16, <2>17 DEF d
<1>9. QED
  BY <1>1, <1>3, <1>6, <1>7, <1>8 DEF SendInv
-----------------------------------------------------------------------------
(* What is still to be sent gives the same as before, but for what was     *)
(* just removed.                                                           *)
LEMMA QueueStays ==
  ASSUME SessionInv, ResultInv, [Next]_vars, Sending, Sending', ~Unlink2
  PROVE  \A i \in DOMAIN queue : Answer(queue[i], disk') = Answer(queue[i], disk)
<1>1. ASSUME NEW i \in DOMAIN queue, queue[i][1] = "dump"
      PROVE  disk'[queue[i][2]] = disk[queue[i][2]]
  <2>1. queue[i][2] \in Ready
    BY <1>1 DEF ResultInv, Sendable
  <2>2. PICK k \in DOMAIN jobs : HasResult(k) /\ Result(k) = queue[i][2] /\ Waiting(k)
    BY <2>1 DEF Ready
  <2>3. ~Subcontract /\ Active'
    BY DEF Subcontract, Sending, Go, Active
  <2>4. ResultsKept
    BY <2>3, ResultsStep
  <2>5. QED
    BY <2>2, <2>4 DEF ResultsKept, Waiting
<1>2. QED
  BY <1>1 DEF Answer

LEMMA UnlinkStays ==
  ASSUME SessionInv, ResultInv, Unlink2
  PROVE  \A j \in DOMAIN Tail(queue) : Answer(Tail(queue)[j], disk') = Answer(Tail(queue)[j], disk)
<1>1. /\ phase = "dump" /\ queue # << >> /\ Head(queue)[1] = "unlink" /\ disk' = Without(disk, {Head(queue)[2]})
  BY DEF Unlink2, Dumping, NextQueued
<1>2. Sending /\ IsSeq(queue) /\ Entries(queue)
  BY <1>1 DEF Sending, SessionInv, TypeInv, Entries
<1>3. Sendable(queue, Ready)
  BY <1>2 DEF ResultInv
<1>4. Head(queue) = queue[1] /\ 1 \in DOMAIN queue
  BY <1>1, <1>2, EntriesFacts
<1>5. \A j \in DOMAIN Tail(queue) : \E i \in DOMAIN queue : i > 1 /\ Tail(queue)[j] = queue[i]
  BY <1>1, <1>2, <1>3, TailOrdered DEF Sendable
<1>6. ASSUME NEW i \in DOMAIN queue, i > 1, queue[i][1] = "dump"
      PROVE  disk'[queue[i][2]] = disk[queue[i][2]]
  <2>1. queue[i][2] # Head(queue)[2]
    BY <1>1, <1>3, <1>4, <1>6 DEF Sendable, Ordered
  <2>2. queue[i][2] \in DOMAIN disk
    BY <1>3, <1>6 DEF Sendable, Ready, Waiting
  <2>3. QED
    BY <1>1, <2>1, <2>2, DiskFacts
<1>7. \A i \in DOMAIN queue : i > 1 => Answer(queue[i], disk') = Answer(queue[i], disk)
  BY <1>6 DEF Answer
<1>8. QED
  BY <1>5, <1>7

(* What a report is stays what it is.                                      *)
LEMMA TailSpies ==
  ASSUME NEW s, IsSeq(s), s # << >>, Spies(s)
  PROVE  Spies(Tail(s))
<1>1. Len(s) \in Nat /\ DOMAIN s = 1 .. Len(s) /\ DOMAIN Tail(s) = 1 .. Len(s) - 1
      /\ \A i \in 1 .. Len(s) - 1 : Tail(s)[i] = s[i + 1]
  BY SeqFacts
<1>2. \A i \in 1 .. Len(s) - 1 : i + 1 \in DOMAIN s
  BY <1>1
<1>3. QED
  BY <1>1, <1>2 DEF Spies

(* An entry is sent: x is what is written of it.                           *)
LEMMA EntrySent ==
  ASSUME SessionInv, ResultInv, DocInv, [Next]_vars, Sending, Sending', ~Opening, ~Opening', queue # << >>, queue' = Tail(queue),
         phase' \notin {"spy", "record"}, UNCHANGED <<request, jobs, native, delegated>>,
         NEW x, Expected => x = Answer(queue[1], disk), Received' = Received \o x,
         request.to = "file" => Out \in DOMAIN disk',
         \A j \in DOMAIN Tail(queue) : Answer(Tail(queue)[j], disk') = Answer(Tail(queue)[j], disk)
  PROVE  SendInv'
<1>1. SendInv /\ IsSeq(queue)
  BY DEF DocInv, SessionInv, TypeInv
<1>2. Whole' = Whole /\ (Expected' <=> Expected)
  BY WholeKept
<1>3. Spies(queue)'
  <2>1. Spies(Tail(queue))
    BY <1>1, TailSpies DEF SendInv
  <2>2. QED
    BY <2>1 DEF Spies
<1>4. Written' = Received' /\ Written = Received
  BY DEF Written
<1>5. ASSUME Expected
      PROVE  Sound(queue', disk') /\ IsSeq(Written') /\ Written' \o Answers(queue', disk') = Whole'
  <2> DEFINE q == queue
             c == disk
             d == disk'
             w == Received
  <2>1. Sound(q, c)
    BY <1>1, <1>5 DEF SendInv
  <2>2. IsSeq(w)
    BY <1>1, <1>4, <1>5 DEF SendInv
  <2>3. w \o Answers(q, c) = Whole
    BY <1>1, <1>4, <1>5 DEF SendInv
  <2>4. q # << >> /\ \A j \in DOMAIN Tail(q) : Answer(Tail(q)[j], d) = Answer(Tail(q)[j], c)
    OBVIOUS
  <2>5. Written' = w \o Answer(q[1], c) /\ queue' = Tail(q)
    BY <1>4, <1>5
  <2> HIDE DEF q, c, d, w
  <2>6. /\ Sound(Tail(q), d) /\ IsSeq(w \o Answer(q[1], c))
        /\ (w \o Answer(q[1], c)) \o Answers(Tail(q), d) = w \o Answers(q, c)
    <3>1. Sound(Tail(q), c) /\ IsSeq(Answer(q[1], c)) /\ Answers(q, c) = Answer(q[1], c) \o Answers(Tail(q), c)
      BY <2>1, <2>4, AnswersHead
    <3>2. Sound(Tail(q), d) /\ Answers(Tail(q), d) = Answers(Tail(q), c)
      BY <2>4, <3>1, AnswersSame
    <3>3. IsSeq(Answers(Tail(q), c))
      BY <3>1, AnswersSeq
    <3> DEFINE y == Answer(q[1], c)
               z == Answers(Tail(q), c)
    <3>4. IsSeq(y) /\ IsSeq(z)
      BY <3>1, <3>3
    <3>5. Answers(q, c) = y \o z /\ Answers(Tail(q), d) = z
      BY <3>1, <3>2
    <3> HIDE DEF y, z
    <3>6. (w \o y) \o z = w \o (y \o z)
      BY <2>2, <3>4, Associates
    <3>7. IsSeq(w \o y)
      BY <2>2, <3>4, Concats
    <3>8. QED
      BY <3>2, <3>5, <3>6, <3>7 DEF y
  <2>7. QED
    BY <1>2, <2>3, <2>5, <2>6 DEF d
<1>6. QED
  BY <1>2, <1>3, <1>5 DEF SendInv

(* Nothing is sent.                                                        *)
LEMMA NothingSent ==
  ASSUME SessionInv, ResultInv, DocInv, [Next]_vars, Sending, Sending', ~Unlink2, queue' = queue,
         UNCHANGED <<request, jobs, native, delegated>>, Written' = Written,
         Opening' => stream' = << >>,
         phase' \in {"spy", "record"} => Head(queue)[1] = "spy",
         ~Opening' /\ request.to = "file" => Out \in DOMAIN disk'
  PROVE  SendInv'
<1>1. SendInv
  BY DEF DocInv
<1>2. Whole' = Whole /\ (Expected' <=> Expected)
  BY WholeKept
<1>3. \A i \in DOMAIN queue : Answer(queue[i], disk') = Answer(queue[i], disk)
  BY QueueStays
<1>4. ASSUME Expected
      PROVE  Sound(queue', disk') /\ Answers(queue', disk') = Answers(queue, disk)
  <2> DEFINE q == queue
             c == disk
             d == disk'
  <2>1. Sound(q, c)
    BY <1>1, <1>4 DEF SendInv
  <2>2. \A i \in DOMAIN q : Answer(q[i], d) = Answer(q[i], c)
    BY <1>3
  <2> HIDE DEF q, c, d
  <2>3. Sound(q, d) /\ Answers(q, d) = Answers(q, c)
    BY <2>1, <2>2, AnswersSame
  <2>4. QED
    BY <2>3 DEF q, c, d
<1>5. Spies(queue)'
  BY <1>1 DEF SendInv, Spies
<1>6. QED
  BY <1>1, <1>2, <1>4, <1>5 DEF SendInv
-----------------------------------------------------------------------------
(* The entry at the head of what is still to be sent.                      *)
LEMMA HeadSent ==
  ASSUME SessionInv, queue # << >>
  PROVE  /\ IsSeq(queue) /\ Head(queue) = queue[1] /\ 1 \in DOMAIN queue
         /\ \A j \in DOMAIN Tail(queue) : \E i \in DOMAIN queue : Tail(queue)[j] = queue[i]
<1>1. IsSeq(queue) /\ Entries(queue)
  BY DEF SessionInv, TypeInv, Entries
<1>2. Head(queue) = queue[1] /\ 1 \in DOMAIN queue
  BY <1>1, EntriesFacts
<1>3. Len(queue) \in Nat /\ DOMAIN queue = 1 .. Len(queue) /\ DOMAIN Tail(queue) = 1 .. Len(queue) - 1
      /\ \A i \in 1 .. Len(queue) - 1 : Tail(queue)[i] = queue[i + 1]
  BY <1>1, SeqFacts
<1>4. \A j \in 1 .. Len(queue) - 1 : j + 1 \in 1 .. Len(queue)
  BY <1>3
<1>5. QED
  BY <1>1, <1>2, <1>3, <1>4

(* The output is opened or created: nothing is written yet.                *)
LEMMA OpeningSends ==
  ASSUME SessionInv, ResultInv, DocInv, OpenStream \/ MakeBackup \/ Create, Sending'
  PROVE  SendInv'
<1>1. Sending /\ [Next]_vars /\ ~Unlink2
  BY DEF OpenStream, MakeBackup, Create, Sending, Next, Unlink2, Dumping
<1>2. queue' = queue /\ stream' = stream /\ UNCHANGED <<request, jobs, native, delegated>>
  BY DEF OpenStream, MakeBackup, Create, output, work
<1>3. Opening /\ stream = << >> /\ Written = << >>
  BY <1>1 DEF OpenStream, MakeBackup, Create, Opening, Written, DocInv, SendInv
<1>4. CASE OpenStream
  <2>1. phase' = "dump" /\ request.to # "file"
    BY <1>4 DEF OpenStream, Exit, Go, Sending
  <2>2. Written' = << >>
    BY <1>2, <1>3, <2>1 DEF Opening, Written, Received
  <2>3. QED
    BY <1>1, <1>2, <1>3, <2>1, <2>2, NothingSent DEF Opening
<1>5. CASE MakeBackup
  <2>1. phase' = "create"
    BY <1>5 DEF MakeBackup, Exit, Go, Sending
  <2>2. Opening' /\ Written' = << >>
    BY <2>1 DEF Opening, Written
  <2>3. QED
    BY <1>1, <1>2, <1>3, <2>1, <2>2, NothingSent
<1>6. CASE Create
  <2>1. phase' = "dump" /\ disk' = Put(disk, Out, << >>)
    BY <1>6 DEF Create, Exit, Go, Sending
  <2>2. request.to = "file"
    BY <1>6 DEF Create, SessionInv, OutInv
  <2>3. Out \in DOMAIN disk' /\ disk'[Out] = << >>
    BY <2>1 DEF Put
  <2>4. Written' = << >>
    BY <1>2, <2>1, <2>2, <2>3 DEF Opening, Written, Received, Out, File
  <2>5. QED
    BY <1>1, <1>2, <1>3, <2>1, <2>3, <2>4, NothingSent DEF Opening
<1>7. QED
  BY <1>4, <1>5, <1>6

(* A name is given to the file of a report.                                *)
LEMMA NamingSends ==
  ASSUME SessionInv, ResultInv, DocInv, Record \/ NamingSteps, Sending'
  PROVE  SendInv'
<1>1. [Next]_vars /\ UNCHANGED <<request, work, output>> /\ FilesKept
  <2>1. FilesKept
    BY FilesStepKept
  <2>2. UNCHANGED <<request, work, output>>
    BY NamingCases DEF Record
  <2>3. [Next]_vars
    BY DEF Next, NamingSteps
  <2>4. QED
    BY <2>1, <2>2, <2>3
<1>2. (Out \in DOMAIN disk' <=> Out \in DOMAIN disk) /\ (Out \in DOMAIN disk => disk'[Out] = disk[Out])
  BY <1>1, LastingFacts DEF FilesKept
<1>3. Sending /\ ~Opening /\ ~Unlink2 /\ phase' \in {"spy", "record"} /\ Head(queue)[1] = "spy"
  <2>1. CASE Record
    <3>1. phase = "record" /\ phase' = made.next
      BY <2>1 DEF Record, Go
    <3>2. made.next = "spy"
      BY <2>1, <3>1, RecordFacts DEF Sending, Made, Nexts
    <3>3. Sending
      BY <3>1, <3>2 DEF Sending
    <3>4. QED
      BY <3>1, <3>2, <3>3 DEF Opening, Unlink2, Dumping, DocInv, SendInv
  <2>2. CASE NamingSteps
    <3>1. SpyName
      <4>1. ASSUME NEW slot \in Slots, NEW next \in Nexts \ {"spy"}, Naming(slot, next)
            PROVE  FALSE
        <5>1. phase' = next \/ (phase' = "record" /\ made'.next = next)
          BY <4>1, EnsureFacts DEF Naming
        <5>2. QED
          BY <5>1 DEF Sending, Nexts
      <4>2. SampleName \/ StdinName \/ (Command /\ request.macro) \/ ResultName =>
              \E slot \in Slots, next \in Nexts \ {"spy"} : Naming(slot, next)
        BY Namings DEF Nexts
      <4>3. QED
        BY <2>2, <4>1, <4>2 DEF NamingSteps
    <3>2. phase' \in {"spy", "record"}
      BY <3>1, Namings, EnsureFacts DEF Naming, Nexts
    <3>3. QED
      BY <3>1, <3>2 DEF SpyName, Dumping, NextQueued, Sending, Opening, Unlink2
  <2>3. QED
    BY <2>1, <2>2
<1>4. ~Opening'
  BY <1>3 DEF Opening
<1>5. UNCHANGED <<request, jobs, native, delegated, queue, stream>>
  BY <1>1 DEF work, output
<1>6. request.to = "file" => Out \in DOMAIN disk
  BY <1>3 DEF DocInv, SendInv
<1>7. Written' = Written
  <2>1. Received' = Received
    BY <1>2, <1>5, <1>6 DEF Received, Out, File
  <2>2. QED
    BY <1>3, <1>4, <2>1 DEF Written
<1>8. QED
  BY <1>1, <1>2, <1>3, <1>4, <1>5, <1>6, <1>7, NothingSent

(* What is written goes at the end of the output.                          *)
LEMMA Writing ==
  ASSUME NEW x, Send(x), request' = request, request.to = "file" => Out \in DOMAIN disk
  PROVE  Received' = Received \o x /\ (request.to = "file" => Out \in DOMAIN disk')
BY DEF Send, Received, Out, File

(* An entry of the queue is written.                                       *)
LEMMA DumpSends ==
  ASSUME SessionInv, ResultInv, DocInv, DumpText \/ StreamDump
  PROVE  SendInv'
<1>1. /\ phase = "dump" /\ phase' = "dump" /\ queue # << >> /\ queue' = Tail(queue)
      /\ UNCHANGED <<request, jobs, native, delegated>> /\ NextQueued[1] \in {"text", "dump"}
  BY DEF DumpText, StreamDump, Dumping, Sent, work
<1>2. Sending /\ Sending' /\ ~Opening /\ ~Opening' /\ phase' \notin {"spy", "record"}
  BY <1>1 DEF Sending, Opening
<1>3. ~Unlink2 /\ [Next]_vars
  BY <1>1 DEF Unlink2, Dumping, Next
<1>4. NextQueued = queue[1] /\ \A j \in DOMAIN Tail(queue) : \E i \in DOMAIN queue : Tail(queue)[j] = queue[i]
  BY <1>1, HeadSent DEF NextQueued
<1>5. \A j \in DOMAIN Tail(queue) : Answer(Tail(queue)[j], disk') = Answer(Tail(queue)[j], disk)
  BY <1>2, <1>3, <1>4, QueueStays
<1>6. PICK x : Send(x) /\ x = Answer(queue[1], disk)
  <2>1. CASE DumpText
    BY <2>1, <1>4 DEF DumpText, Dumping, Answer
  <2>2. CASE StreamDump
    BY <2>2, <1>4 DEF StreamDump, Dumping, Answer
  <2>3. QED
    BY <2>1, <2>2
<1>7. request.to = "file" => Out \in DOMAIN disk
  BY <1>2 DEF DocInv, SendInv
<1>8. Received' = Received \o x /\ (request.to = "file" => Out \in DOMAIN disk')
  BY <1>1, <1>6, <1>7, Writing
<1>9. QED
  BY <1>1, <1>2, <1>3, <1>5, <1>6, <1>8, EntrySent

(* What was read of a result is removed.                                   *)
LEMMA UnlinkGives ==
  ASSUME SessionInv, ResultInv, DocInv, Unlink2
  PROVE  SendInv'
<1>1. /\ phase = "dump" /\ phase' = "dump" /\ queue # << >> /\ queue' = Tail(queue) /\ stream' = stream
      /\ UNCHANGED <<request, jobs, native, delegated>> /\ NextQueued[1] = "unlink"
      /\ disk' = Without(disk, {NextQueued[2]})
  BY DEF Unlink2, Dumping, Sent, work
<1>2. Sending /\ Sending' /\ ~Opening /\ ~Opening' /\ phase' \notin {"spy", "record"} /\ [Next]_vars
  BY <1>1 DEF Sending, Opening, Next
<1>3. NextQueued = queue[1] /\ 1 \in DOMAIN queue
  BY <1>1, HeadSent DEF NextQueued
<1>4. NextQueued[2] # Out
  <2>1. Entry(queue[1])
    BY <1>3 DEF SessionInv, TypeInv
  <2>2. NextQueued[2] \in Temps
    BY <1>1, <1>3, <2>1 DEF Entry
  <2>3. QED
    BY <2>2, LastingFacts
<1>5. (Out \in DOMAIN disk' <=> Out \in DOMAIN disk) /\ (Out \in DOMAIN disk => disk'[Out] = disk[Out])
  BY <1>1, <1>4 DEF Without
<1>6. request.to = "file" => Out \in DOMAIN disk
  BY <1>2 DEF DocInv, SendInv
<1>7. Received' = Received
  BY <1>1, <1>5, <1>6 DEF Received, Out, File
<1>8. Answer(queue[1], disk) = << >>
  BY <1>1, <1>3 DEF Answer
<1>9. Expected => IsSeq(Received)
  BY <1>2 DEF DocInv, SendInv, Written
<1> DEFINE w == Received
<1>10. IsSeq(w) => w \o << >> = w
  <2> HIDE DEF w
  <2>1. QED
    BY Concats
<1>11. \A j \in DOMAIN Tail(queue) : Answer(Tail(queue)[j], disk') = Answer(Tail(queue)[j], disk)
  BY UnlinkStays
<1>12. CASE Expected
  <2>1. Received' = Received \o << >>
    BY <1>7, <1>9, <1>10, <1>12
  <2>2. QED
    BY <1>1, <1>2, <1>5, <1>6, <1>8, <1>11, <2>1, EntrySent
<1>13. CASE ~Expected
  <2>1. ~Expected'
    BY <1>1, <1>13, WholeKept
  <2>2. Spies(Tail(queue))
    BY <1>1, <1>2, HeadSent, TailSpies DEF DocInv, SendInv
  <2>3. Spies(queue)'
    BY <1>1, <2>2 DEF Spies
  <2>4. QED
    BY <1>1, <1>2, <1>5, <1>6, <2>1, <2>3 DEF SendInv
<1>14. QED
  BY <1>12, <1>13

(* A report is written, its file is removed.                               *)
LEMMA SpySends ==
  ASSUME SessionInv, ResultInv, DocInv, SpyUser, Sending'
  PROVE  SendInv'
<1> DEFINE report == <<"spy", << >>>>
           file == names[MacroSlot]
<1>1. /\ phase = "spy" /\ phase' = "dump" /\ queue' = Tail(queue) /\ UNCHANGED <<request, jobs, native, delegated>>
      /\ disk' = Without(IF request.to = "file" THEN [disk EXCEPT ![Out] = Append(@, report)] ELSE disk, {file})
      /\ stream' = IF request.to = "file" THEN stream ELSE Append(stream, report)
  BY DEF SpyUser, Exit, Go, Sending, work
<1>2. Sending /\ ~Opening /\ ~Opening' /\ phase' \notin {"spy", "record"} /\ [Next]_vars /\ ~Unlink2
  BY <1>1 DEF Sending, Opening, Next, Unlink2, Dumping
<1>3. queue # << >>
  BY <1>1 DEF SessionInv, OutInv
<1>4. /\ Head(queue) = queue[1] /\ 1 \in DOMAIN queue
      /\ \A j \in DOMAIN Tail(queue) : \E i \in DOMAIN queue : Tail(queue)[j] = queue[i]
  BY <1>3, HeadSent
<1>5. queue[1] = report
  BY <1>1, <1>2, <1>4 DEF DocInv, SendInv, Spies
<1>6. \A j \in DOMAIN Tail(queue) : Answer(Tail(queue)[j], disk') = Answer(Tail(queue)[j], disk)
  BY <1>2, <1>4, QueueStays
<1>7. Answer(queue[1], disk) = <<report>>
  BY <1>5 DEF Answer
<1>8. request.to = "file" => Out \in DOMAIN disk
  BY <1>1, <1>2 DEF DocInv, SendInv
<1>9. file # Out
  <2>1. file \in Temps
    BY <1>1 DEF SessionInv, NameInv, TypeInv
  <2>2. QED
    BY <2>1, LastingFacts
<1>10. Received' = Append(Received, report) /\ (request.to = "file" => Out \in DOMAIN disk')
  <2> HIDE DEF file, report
  <2>1. CASE request.to = "file"
    <3>1. Out \in DOMAIN disk' /\ disk'[Out] = Append(disk[Out], report)
      BY <1>1, <1>8, <1>9, <2>1 DEF Without
    <3>2. QED
      BY <1>1, <2>1, <3>1 DEF Received, Out, File
  <2>2. CASE request.to # "file"
    BY <1>1, <2>2 DEF Received
  <2>3. QED
    BY <2>1, <2>2
<1>11. CASE Expected
  <2>1. IsSeq(Received)
    BY <1>2, <1>11 DEF DocInv, SendInv, Written
  <2>2. Append(Received, report) = Received \o <<report>>
    <3> DEFINE w == Received
    <3>1. IsSeq(w)
      BY <2>1
    <3> HIDE DEF w, report
    <3>2. Append(w, report) = w \o <<report>>
      BY <3>1, Concats
    <3>3. QED
      BY <3>2 DEF w
  <2>3. Received' = Received \o <<report>>
    BY <1>10, <2>2
  <2>4. QED
    BY <1>1, <1>2, <1>3, <1>6, <1>7, <1>10, <2>3, EntrySent
<1>12. CASE ~Expected
  <2>1. ~Expected'
    BY <1>1, <1>12, WholeKept
  <2>2. Spies(Tail(queue))
    BY <1>2, <1>3, HeadSent, TailSpies DEF DocInv, SendInv
  <2>3. Spies(queue)'
    BY <1>1, <2>2 DEF Spies
  <2>4. QED
    BY <1>1, <1>2, <1>10, <2>1, <2>3 DEF SendInv
<1>13. QED
  BY <1>11, <1>12

LEMMA SendStep ==
  ASSUME SessionInv, ResultInv, DocInv, [Next]_vars, Sending'
  PROVE  SendInv'
<1>1. CASE Record \/ NamingSteps
  BY <1>1, NamingSends
<1>2. CASE FileSteps
  BY <1>2 DEF FileSteps, NextFile, SampleGet, InputType, PrintNative, Ignore, PrintDelegated, BufferSave, Command, Popen,
     Subcontract, PrintToc, EndFiles, Write, Exit, Go, Sending
<1>3. CASE SendAll \/ SendAlone
  BY <1>3, SendAllSends, SendAloneSends
<1>4. CASE SendNothing \/ StreamDumpFails \/ Close
  BY <1>4 DEF SendNothing, StreamDumpFails, Close, Exit, Sending
<1>5. CASE OpenStream \/ MakeBackup \/ Create
  BY <1>5, OpeningSends
<1>6. CASE DumpText \/ StreamDump \/ Unlink2 \/ SpyUser
  BY <1>6, DumpSends, UnlinkGives, SpySends
<1>7. CASE EndSteps
  <2>1. UNCHANGED vars
    BY <1>7 DEF EndSteps, ExitHandler, StartCleanup, CleanupTempfiles, Exited, Signal, Stopped, Sending, Go, vars
  <2>2. Sending /\ ~Unlink2 /\ queue' = queue /\ UNCHANGED <<request, jobs, native, delegated>>
        /\ UNCHANGED <<phase, stream, disk>>
    BY <2>1 DEF vars, temps, work, output, Sending, Unlink2, Dumping, Sent, Without
  <2>3. SendInv /\ (Opening' <=> Opening) /\ Written' = Written
    BY <2>2 DEF DocInv, Opening, Written, Received, Out, File
  <2>4. /\ Opening' => stream' = << >>
        /\ phase' \in {"spy", "record"} => Head(queue)[1] = "spy"
        /\ ~Opening' /\ request.to = "file" => Out \in DOMAIN disk'
    BY <2>2, <2>3 DEF SendInv
  <2>5. QED
    BY <2>2, <2>3, <2>4, NothingSent
<1>8. QED
  BY <1>1, <1>2, <1>3, <1>4, <1>5, <1>6, <1>7, Steps DEF SendSteps
-----------------------------------------------------------------------------
(* A file that is not printed yet has no fate.                             *)
LEMMA NoFateYet ==
  ASSUME SessionInv, ResultInv, DocInv, [Next]_vars, Unfinished'
  PROVE  jobs'[Current'].fate = NULL
<1>0. AreJobs(jobs)
  BY DEF SessionInv, TypeInv
<1>1. CASE NextFile
  <2>1. PICK name \in request.names : jobs' = Append(jobs, [name |-> name, type |-> NULL, fate |-> NULL, read |-> << >>])
    BY <1>1 DEF NextFile
  <2> DEFINE r == [name |-> name, type |-> NULL, fate |-> NULL, read |-> << >>]
  <2>2. IsJob(r) /\ r.fate = NULL
    BY DEF IsJob
  <2> HIDE DEF r
  <2>3. jobs'[Len(jobs) + 1] = r /\ Len(jobs') = Len(jobs) + 1
    BY <1>0, <2>1, <2>2, JobAdded DEF r
  <2>4. QED
    BY <2>2, <2>3 DEF Current
<1>2. CASE ~NextFile
  <2>1. Unfinished /\ ~Subcontract /\ Active /\ phase # "next"
    BY <1>2, UnfinishedBefore
  <2>2. Current \in DOMAIN jobs /\ jobs[Current].fate = NULL
    BY <2>1, CurrentJob DEF DocInv
  <2>3. CASE InputType
    <3>1. PICK type, read : jobs' = [jobs EXCEPT ![Current].type = type, ![Current].read = read]
      BY <2>3 DEF InputType
    <3>2. Len(jobs') = Len(jobs) /\ jobs'[Current].fate = jobs[Current].fate
      BY <1>0, <2>2, <3>1, TypeSet
    <3>3. QED
      BY <2>2, <3>2 DEF Current
  <2>4. CASE ~InputType
    <3>1. jobs' = jobs \/ phase' = "next"
      BY <1>2, <2>1, <2>4 DEF Next, vars, work, output, Record, SampleName, SampleGet, PrintNative, Ignore, PrintDelegated, StdinName,
         BufferSave, Command, ResultName, Popen, Subcontract, EndFiles, SendAlone, SendAll, SendNothing,
         OpenStream, MakeBackup, Create, DumpText, StreamDump, StreamDumpFails, Unlink2, SpyName, SpyUser, Close, Sent,
         ExitHandler, StartCleanup, CleanupTempfiles, Exited, Signal, Stopped, PrintToc, Go
    <3>2. jobs' = jobs
      BY <3>1 DEF Unfinished
    <3>3. QED
      BY <2>2, <3>2 DEF Current
  <2>5. QED
    BY <2>3, <2>4
<1>3. QED
  BY <1>1, <1>2

(* The run goes on: its result is to come.                                 *)
LEMMA StillRunning ==
  ASSUME SessionInv, [Next]_vars, Active'
  PROVE  Active /\ result' = result
<1>1. CASE Record
  BY <1>1 DEF Record, Active
<1>2. CASE NamingSteps
  BY <1>2, NamingCases DEF process
<1>3. CASE FileSteps
  BY <1>3 DEF FileSteps, NextFile, SampleGet, InputType, PrintNative, Ignore, PrintDelegated, BufferSave, Command, Popen,
     Subcontract, PrintToc, EndFiles, Write, Exit, Go, Active, process
<1>4. CASE SendSteps
  BY <1>4 DEF SendSteps, SendAlone, SendAll, SendNothing, OpenStream, MakeBackup, Create, DumpText, StreamDump,
     StreamDumpFails, Unlink2, SpyUser, Close, Dumping, Sent, Exit, Go, Active, process
<1>5. CASE EndSteps
  BY <1>5 DEF EndSteps, ExitHandler, StartCleanup, CleanupTempfiles, Exited, Signal, Stopped, Active, Go, vars, process
<1>6. QED
  BY <1>1, <1>2, <1>3, <1>4, <1>5, Steps

(* A delegation that was started is the current one until it has answered. *)
LEMMA AnsweredStep ==
  ASSUME SessionInv, ResultInv, DocInv, [Next]_vars, Active'
  PROVE  \A k \in DOMAIN jobs' : HasResult(k)' => Answered(k)'
<1>0. AreJobs(jobs) /\ NamesApart /\ Active /\ \A k \in DOMAIN jobs : HasResult(k) => Answered(k)
  BY StillRunning DEF SessionInv, TypeInv, ResultInv, DocInv
<1>1. CASE Record
  <2>1. phase = "record" /\ phase' = made.next /\ jobs' = jobs
    BY <1>1 DEF Record, Go, work
  <2>2. NamedFor(made.next, made.slot) /\ DOMAIN names' = DOMAIN names \cup {made.slot}
    BY <1>0, <1>1, <2>1, RecordNames DEF SessionInv, NameInv
  <2>3. ASSUME NEW k \in DOMAIN jobs', HasResult(k)'
        PROVE  Answered(k)'
    <3>1. CASE HasResult(k)
      BY <1>0, <2>1, <2>3, <3>1 DEF Answered
    <3>2. CASE ~HasResult(k)
      <4>1. ResultSlot(k) = made.slot
        BY <2>2, <2>3, <3>2 DEF HasResult, ResultSlot
      <4>2. made.next = "popen" /\ k = Current
        BY <2>2, <4>1, SlotFacts DEF NamedFor
      <4>3. QED
        BY <2>1, <4>2 DEF Answered, Current
    <3>3. QED
      BY <3>1, <3>2
  <2>4. QED
    BY <2>3
<1>2. CASE ~Record
  <2>1. names' = names /\ \A k : HasResult(k)' <=> HasResult(k)
    BY <1>2, NamesStep DEF HasResult, ResultSlot
  <2>2. \A k : HasResult(k) => k \in DOMAIN jobs
    BY <1>0 DEF NamesApart
  <2>3. ASSUME jobs' = jobs, phase \in {"popen", "read"} => phase' \in {"popen", "read"}
        PROVE  \A k \in DOMAIN jobs' : HasResult(k)' => Answered(k)'
    BY <1>0, <2>1, <2>2, <2>3 DEF Answered, Current
  <2>4. ASSUME NEW r, IsJob(r), jobs' = Append(jobs, r), phase \notin {"popen", "read"}
        PROVE  \A k \in DOMAIN jobs' : HasResult(k)' => Answered(k)'
    <3>1. \A k \in DOMAIN jobs : jobs'[k] = jobs[k]
      BY <1>0, <2>4, JobAdded
    <3>2. QED
      BY <1>0, <2>1, <2>2, <2>4, <3>1 DEF Answered
  <2>5. ASSUME NEW fate, SetFate(fate), Unfinished, phase # "next", fate \in {"result", "failed"} \/ phase = "print"
        PROVE  \A k \in DOMAIN jobs' : HasResult(k)' => Answered(k)'
    <3>1. jobs[Current].fate = NULL
      BY <2>5 DEF DocInv
    <3>2. \A k \in DOMAIN jobs : jobs'[k].fate = IF k = Current THEN fate ELSE jobs[k].fate
      BY <1>0, <2>5, FateSet
    <3>3. ASSUME NEW k \in DOMAIN jobs, HasResult(k)
          PROVE  Answered(k)'
      <4>1. Answered(k)
        BY <1>0, <3>3
      <4>2. CASE k = Current
        <5>1. jobs[k].fate \notin {"result", "failed"}
          BY <3>1, <4>2, SessionAssumption
        <5>2. phase \in {"popen", "read"}
          BY <4>1, <5>1 DEF Answered
        <5>3. QED
          BY <2>5, <3>2, <4>2, <5>2 DEF Answered
      <4>3. CASE k # Current
        BY <3>2, <4>1, <4>3 DEF Answered
      <4>4. QED
        BY <4>2, <4>3
    <3>4. QED
      BY <2>1, <2>2, <3>3
  <2>6. CASE InputType
    <3>1. PICK type, read : jobs' = [jobs EXCEPT ![Current].type = type, ![Current].read = read]
      BY <2>6 DEF InputType
    <3>2. \A k \in DOMAIN jobs : jobs'[k].fate = jobs[k].fate
      BY <1>0, <3>1, TypeSet
    <3>3. phase = "type"
      BY <2>6 DEF InputType
    <3>4. QED
      BY <1>0, <2>1, <2>2, <3>2, <3>3 DEF Answered
  <2>7. CASE PrintNative \/ Ignore \/ Popen \/ Subcontract
    BY <2>3, <2>5, <2>7 DEF PrintNative, Ignore, Popen, Subcontract, Unfinished, Go
  <2>8. CASE NextFile
    <3>1. PICK name : jobs' = Append(jobs, [name |-> name, type |-> NULL, fate |-> NULL, read |-> << >>])
      BY <2>8 DEF NextFile
    <3>2. QED
      BY <2>4, <2>8, <3>1 DEF NextFile, IsJob
  <2>9. CASE PrintToc
    BY <2>4, <2>9 DEF PrintToc, IsJob
  <2>10. CASE ~InputType /\ ~PrintNative /\ ~Ignore /\ ~Popen /\ ~Subcontract /\ ~NextFile /\ ~PrintToc
    <3>1. jobs' = jobs
      BY <1>2, <2>10 DEF Next, vars, work, output, SampleName, SampleGet, PrintDelegated, StdinName,
         BufferSave, Command, ResultName, EndFiles, SendAlone, SendAll, SendNothing,
         OpenStream, MakeBackup, Create, DumpText, StreamDump, StreamDumpFails, Unlink2, SpyName, SpyUser, Close, Sent,
         ExitHandler, StartCleanup, CleanupTempfiles, Exited, Signal, Stopped
    <3>2. phase \in {"popen", "read"} => phase' = phase
      <4>1. SUFFICES ASSUME phase \in {"popen", "read"}
                     PROVE  phase' = phase
        OBVIOUS
      <4>2. ~NamingSteps /\ ~FileSteps /\ ~SendSteps
        BY <2>10, <4>1 DEF NamingSteps, SampleName, StdinName, Command, ResultName, SpyName, Dumping,
           FileSteps, SampleGet, PrintDelegated, BufferSave, EndFiles,
           SendSteps, SendAlone, SendAll, SendNothing, OpenStream, MakeBackup, Create, DumpText, StreamDump,
           StreamDumpFails, Unlink2, SpyUser, Close
      <4>3. EndSteps
        BY <1>2, <4>2, Steps
      <4>4. QED
        BY <4>1, <4>3 DEF EndSteps, ExitHandler, StartCleanup, CleanupTempfiles, Exited, Signal, Stopped, Active, vars
    <3>3. QED
      BY <2>3, <3>1, <3>2
  <2>11. QED
    BY <2>6, <2>7, <2>8, <2>9, <2>10
<1>3. QED
  BY <1>1, <1>2

(* What was sent does not change while the run ends.                       *)
LEMMA SentStep ==
  ASSUME SessionInv, ResultInv, DocInv, [Next]_vars
  PROVE  SentInv'
<1>1. CASE Close
  <2>1. /\ phase = "dump" /\ queue = << >> /\ disk' = disk /\ stream' = stream
        /\ UNCHANGED <<request, jobs, native, delegated>>
    BY <1>1 DEF Close, work, output
  <2>2. Sending /\ SendInv /\ ~Opening
    BY <2>1 DEF Sending, Opening, DocInv
  <2>3. Received' = Received /\ Whole' = Whole /\ (Expected' <=> Expected)
    BY <2>1, WholeKept DEF Received, Out, File
  <2>4. request.to = "file" => Out \in DOMAIN disk
    BY <2>2 DEF SendInv
  <2>5. ASSUME Expected
        PROVE  Received = Whole
    <3> DEFINE w == Received
               q == queue
               d == disk
    <3>1. Sound(q, d) /\ q = << >>
      BY <2>1, <2>2, <2>5 DEF SendInv
    <3>2. IsSeq(w) /\ w \o Answers(q, d) = Whole
      BY <2>2, <2>5 DEF SendInv, Written
    <3> HIDE DEF w, q, d
    <3>3. Answers(q, d) = << >>
      BY <3>1, AnswersSeq
    <3>4. w \o << >> = w
      BY <3>2, Concats
    <3>5. QED
      BY <3>2, <3>3, <3>4 DEF w
  <2>6. QED
    BY <2>1, <2>3, <2>4, <2>5 DEF SentInv, Out, File
<1>2. CASE ~Close
  <2>1. SUFFICES ASSUME result' = "sent"
                 PROVE  SentInv'
    BY DEF SentInv
  <2>2. EndSteps /\ result = "sent"
    <3>1. Active => result = "running"
      BY DEF DocInv
    <3>2. ~Record
      BY <2>1, <3>1 DEF Record, Active
    <3>3. ~NamingSteps
      BY <2>1, <3>1, NamingCases DEF process
    <3>4. ~FileSteps
      BY <2>1, <3>1 DEF FileSteps, NextFile, SampleGet, InputType, PrintNative, Ignore, PrintDelegated, BufferSave, Command, Popen,
         Subcontract, PrintToc, EndFiles, Write, Exit, Active, process
    <3>5. ~SendSteps
      BY <1>2, <2>1, <3>1 DEF SendSteps, SendAlone, SendAll, SendNothing, OpenStream, MakeBackup, Create, DumpText, StreamDump,
         StreamDumpFails, Unlink2, SpyUser, Dumping, Sent, Exit, Active, process
    <3>6. EndSteps
      BY <3>2, <3>3, <3>4, <3>5, Steps
    <3>7. QED
      BY <2>1, <3>1, <3>6 DEF EndSteps, ExitHandler, StartCleanup, CleanupTempfiles, Exited, Signal, Stopped, process, vars
  <2>3. FilesKept /\ request' = request
    BY <2>2, FilesStepKept
  <2>4. UNCHANGED <<jobs, native, delegated, stream>>
    BY <2>2 DEF EndSteps, ExitHandler, StartCleanup, CleanupTempfiles, Exited, Signal, Stopped, work, output, vars
  <2>5. (Out \in DOMAIN disk' <=> Out \in DOMAIN disk) /\ (Out \in DOMAIN disk => disk'[Out] = disk[Out])
    BY <2>3, LastingFacts DEF FilesKept
  <2>6. request.to = "file" => Out \in DOMAIN disk
    BY <2>2 DEF DocInv, SentInv
  <2>7. Received' = Received
    BY <2>3, <2>4, <2>5, <2>6 DEF Received, Out, File
  <2>8. Whole' = Whole /\ (Expected' <=> Expected)
    BY <2>3, <2>4, WholeKept
  <2>9. Expected => Received = Whole
    BY <2>2 DEF DocInv, SentInv
  <2>10. QED
    BY <2>3, <2>5, <2>6, <2>7, <2>8, <2>9 DEF SentInv, Out, File
<1>3. QED
  BY <1>1, <1>2

LEMMA DocStep ==
  ASSUME SessionInv, ResultInv, DocInv, [Next]_vars
  PROVE  DocInv'
<1>1. Unfinished' => jobs'[Current'].fate = NULL
  BY NoFateYet
<1>2. Active' => result' = "running" /\ \A k \in DOMAIN jobs' : HasResult(k)' => Answered(k)'
  BY StillRunning, AnsweredStep DEF DocInv
<1>3. Reading' => ReadInv'
  BY ReadInvStep
<1>4. QED
  BY <1>1, <1>2, <1>3, SendStep, SentStep DEF DocInv

LEMMA InitDoc ==
  ASSUME Init
  PROVE  DocInv
<1>1. /\ phase = "next" /\ DOMAIN names = {} /\ jobs = << >> /\ delegated = 0 /\ stream = << >> /\ result = "running"
      /\ divertion = Spied
  BY DEF Init, Spied
<1>2. DOMAIN jobs = {} /\ IsSeq(jobs)
  BY <1>1, Concats
<1>3. Pieces(jobs, Texts) = << >> /\ Pieces(jobs, {"result"}) = << >>
  BY <1>1, <1>2, PiecesSeq
<1> DEFINE e == <<"spy", << >>>>
           s == Spied
           d == disk
<1>4. s = << >> \/ s = <<e>>
  BY DEF Spied
<1>5. e[1] = "spy"
  OBVIOUS
<1>6. Sound(<< >>, d) /\ Answers(<< >>, d) = << >>
  <2>1. DOMAIN << >> = {}
    OBVIOUS
  <2>2. Sound(<< >>, d)
    BY <2>1, Concats DEF Sound
  <2>3. QED
    BY <2>2, AnswersSeq
<1>7. Answers(<<e>>, d) = <<e>> /\ Spies(<<e>>)
  <2>1. DOMAIN <<e>> = {1} /\ <<e>>[1] = e
    OBVIOUS
  <2>2. Spies(<<e>>)
    BY <2>1 DEF Spies
  <2> HIDE DEF e, d
  <2>3. Answer(e, d) = <<e>> /\ IsSeq(<<e>>)
    BY <1>5, Concats DEF Answer
  <2>4. Append(<< >>, e) = << >> \o <<e>> /\ << >> \o <<e>> = <<e>>
    BY <2>3, Concats
  <2>5. Answers(Append(<< >>, e), d) = << >> \o <<e>>
    <3>1. IsSeq(Answer(e, d))
      BY <2>3
    <3>2. Answers(Append(<< >>, e), d) = Answers(<< >>, d) \o Answer(e, d)
      BY <1>6, <3>1, AnswersAppend
    <3>3. QED
      BY <1>6, <2>3, <3>2
  <2>6. QED
    BY <2>2, <2>4, <2>5
<1>8. Answers(s, d) = s /\ Spies(s) /\ IsSeq(s) /\ s \o << >> = s
  <2>1. Spies(<< >>)
    BY DEF Spies
  <2>2. IsSeq(s)
    BY InSpied
  <2> HIDE DEF s, e, d
  <2>3. s \o << >> = s
    BY <2>2, Concats
  <2>4. QED
    BY <1>4, <1>6, <1>7, <2>1, <2>2, <2>3
<1>9. ReadInv
  <2>1. Len(<< >>) = 0
    OBVIOUS
  <2>2. QED
    BY <1>1, <1>3, <1>8, <2>1 DEF ReadInv
<1>10. ~Unfinished /\ ~Sending /\ \A k : ~HasResult(k)
  BY <1>1 DEF Unfinished, Sending, HasResult
<1>11. QED
  BY <1>1, <1>9, <1>10 DEF DocInv, SentInv
-----------------------------------------------------------------------------
LEMMA Invariant == Spec => []SessionInv
<1>1. Init => SessionInv
  BY InitSession
<1>2. SessionInv /\ [Next]_vars => SessionInv'
  BY SessionStep
<1>3. QED
  BY <1>1, <1>2, PTL DEF Spec

(* No temporary file is left behind, whatever failed and wherever signals  *)
(* came, but in the two cases that the property names: the functions given *)
(* to atexit remove what tempname_ensure has made.                         *)
THEOREM RunLeavesNoTemporary == Spec => []TempFilesRemoved
<1>1. SessionInv => TempFilesRemoved
  <2>1. SUFFICES ASSUME SessionInv, phase = "exited", "record" \notin caught, ~("cleaning" \in caught /\ ~job)
                 PROVE  Temporary = {}
    BY DEF TempFilesRemoved
  <2>2. handlers = << >>
    BY <2>1 DEF SessionInv, TempInv
  <2>3. Temporary \subseteq MadeFile
    BY <2>1, <2>2 DEF SessionInv, TempInv
  <2>4. made = NULL
    BY <2>1 DEF SessionInv, NameInv
  <2>5. QED
    BY <2>3, <2>4 DEF MadeFile
<1>2. QED
  BY <1>1, Invariant, PTL

(* The file that the output replaces is under its name as long as nothing  *)
(* was sent, afterwards under that of its backup, and no numbered backup   *)
(* is lost; what is read of that file is what it was.                      *)
THEOREM RunKeepsOldOutput == Spec => []OldOutputSafe
<1>1. SessionInv => OldOutputKept
  <2>1. SUFFICES ASSUME SessionInv
                 PROVE  OldOutputKept
    OBVIOUS
  <2>2. ASSUME request.backup # "none", Out \in request.present
        PROVE  \E f \in DOMAIN disk : disk[f] = Original(Out)
    <3>1. Old(Out) \/ Saved
      BY <2>1, <2>2 DEF SessionInv, OutInv
    <3>2. QED
      BY <3>1 DEF Old, Saved
  <2>3. \A n \in Numbers : Backup(n) \in request.present => Old(Backup(n))
    BY <2>1 DEF SessionInv, OutInv
  <2>4. QED
    BY <2>2, <2>3 DEF OldOutputKept
<1>2. SessionInv => UntouchedBefore
  <2>1. SUFFICES ASSUME SessionInv
                 PROVE  UntouchedBefore
    OBVIOUS
  <2>2. phase \in {"next", "sample", "type", "print", "command", "popen", "read", "end"} => Reading
    BY DEF Reading, Active, Sending
  <2>3. QED
    BY <2>1, <2>2 DEF SessionInv, OutInv, UntouchedBefore
<1>3. QED
  BY <1>1, <1>2, Invariant, PTL DEF OldOutputSafe

(* What tempname_ensure has made is recorded, its removal is registered,   *)
(* and nothing is sent that no file has given.                             *)
THEOREM RunTypeOK == Spec => []SessionTypeOK
<1>1. SessionInv => SessionTypeOK
  <2>1. SUFFICES ASSUME SessionInv
                 PROVE  SessionTypeOK
    OBVIOUS
  <2>2. ASSUME Active
        PROVE  /\ Temporary \subseteq Range(tempfiles) \cup (IF made = NULL THEN {} ELSE {made.file})
               /\ tempfiles # << >> <=> "cleanup_tempfiles" \in Range(handlers)
    <3>1. Temporary \subseteq Range(tempfiles) \cup MadeFile
      BY <2>1, <2>2, ActiveFiles
    <3>2. handlers = IF tempfiles = << >> THEN <<"exit_handler">> ELSE <<"exit_handler", "cleanup_tempfiles">>
      BY <2>1, <2>2, ActiveFiles
    <3>3. "cleanup_tempfiles" \notin Range(<<"exit_handler">>) /\ "cleanup_tempfiles" \in Range(<<"exit_handler", "cleanup_tempfiles">>)
      BY DEF Range
    <3>4. QED
      BY <3>1, <3>2, <3>3 DEF MadeFile
  <2>3. {names[s] : s \in DOMAIN names} \cap {NULL} = {}
    BY <2>1, SessionAssumption DEF SessionInv, TypeInv
  <2>4. queue # << >> => native + delegated > 0
    BY <2>1 DEF SessionInv, OutInv
  <2>5. QED
    BY <2>2, <2>3, <2>4 DEF SessionTypeOK, Active
<1>2. QED
  BY <1>1, Invariant, PTL

(* When the diversion is sent, the result of each delegation is still      *)
(* there, though it waits in a temporary file, and it is the one of the    *)
(* file that it was put in the place of: no step that names, fills or      *)
(* removes a temporary file, the standard input's or spy_user's, touches   *)
(* the results, and none is removed before it is sent.                     *)
THEOREM RunFindsResults == Spec => []DumpsReadable
<1>1. Init => SessionInv /\ ResultInv
  BY InitSession, InitResult
<1>2. (SessionInv /\ ResultInv) /\ [Next]_vars => (SessionInv /\ ResultInv)'
  BY SessionStep, ResultStep
<1>3. SessionInv /\ ResultInv => DumpsReadable
  <2>1. SUFFICES ASSUME SessionInv, ResultInv, NEW i \in DOMAIN queue, phase = "dump", queue[i][1] = "dump"
                 PROVE  /\ queue[i][2] \in DOMAIN disk
                        /\ \E k \in DOMAIN jobs : /\ NameOf(ResultSlot(k)) = queue[i][2]
                                                  /\ (jobs[k].fate = "result" => disk[queue[i][2]] = <<<<"result", jobs[k].read>>>>)
    BY DEF DumpsReadable
  <2>2. queue[i][2] \in Ready
    BY <2>1 DEF ResultInv, Sending, Sendable
  <2>3. PICK k \in DOMAIN jobs : HasResult(k) /\ Result(k) = queue[i][2] /\ Waiting(k)
    BY <2>2 DEF Ready
  <2>4. NameOf(ResultSlot(k)) = queue[i][2]
    BY <2>3 DEF NameOf, HasResult, Result
  <2>5. QED
    BY <2>3, <2>4 DEF Waiting, Contents
<1>4. QED
  BY <1>1, <1>2, <1>3, PTL DEF Spec

(* What is received is the whole document: what each file gave, in the     *)
(* order of the command line, the result of a delegation in the place of   *)
(* its file, then the trailer; or the only result, when nothing else was   *)
(* printed.                                                                *)
THEOREM RunSendsDocument == Spec => []DocumentWhole
<1>1. Init => SessionInv /\ ResultInv /\ DocInv
  BY InitSession, InitResult, InitDoc
<1>2. (SessionInv /\ ResultInv /\ DocInv) /\ [Next]_vars => (SessionInv /\ ResultInv /\ DocInv)'
  BY SessionStep, ResultStep, DocStep
<1>3. SessionInv /\ ResultInv /\ DocInv => DocumentComplete
  <2>1. SUFFICES ASSUME DocInv, result = "sent"
                 PROVE  IF Alone THEN NoneFailed => Received = Given({"result"})
                        ELSE Received = (IF request.debug THEN <<<<"spy", << >>>>>> ELSE << >>)
                                           \o Given({"text", "result"}) \o <<Trailer>>
    BY DEF DocumentComplete
  <2>2. Expected => Received = Whole
    BY <2>1 DEF DocInv, SentInv
  <2>3. Given({"result"}) = Pieces(jobs, {"result"}) /\ Given({"text", "result"}) = Pieces(jobs, Texts)
    BY GivenPieces DEF Texts
  <2>4. QED
    BY <2>2, <2>3 DEF Expected, Whole, Spied
<1>4. Spec => []DocumentComplete
  BY <1>1, <1>2, <1>3, PTL DEF Spec
<1>5. QED
  BY <1>4, RunFindsResults, PTL DEF DocumentWhole
=============================================================================
