--------------------------- MODULE Configuration ---------------------------
(***************************************************************************)
(* How a run of a2ps gets its job (a2_read_config in confg.gperf, getshstr *)
(* in getshline.c, a2ps_handle_options in options.c, user_option_get in    *)
(* useropt.c, main): the configuration files of the site, of the user and  *)
(* of the directory, the options of the command line, then what            *)
(* a2ps_job_finalize and ps_begin make of them.                            *)
(*                                                                         *)
(* A stack of frames stands for the C stack: a file being read, or a       *)
(* vector of options being processed.  A file is a tape of physical lines, *)
(* written when they are first read, so that a file that is included twice *)
(* reads the same.  A physical line is its words, whether a backslash ends *)
(* it, and whether an end of line does.                                    *)
(***************************************************************************)
EXTENDS Layout, FiniteSetsExt

CONSTANTS
  OptionOf,    (* the words that are options, "?" for a wrong one          *)
  Dimensions,  (* the words of a medium, as integers                       *)
  Worlds,      (* what the runs are about: see MCConfiguration             *)
  Library,     (* the files of the library: <<directory, file>>            *)
  SystemPaper, (* the medium that libpaper answers                         *)
  Encodings,   (* the names of encodings that encoding.map resolves        *)
  MaxOpen,     (* bound: files open at once                                *)
  MaxDepth     (* bound: the C stack, in vectors of options                *)

(* What getopt_long may answer: an option that a2ps knows, "=" for a user  *)
(* option, "?" for a wrong one.                                            *)
OptionNames == Special \cup DOMAIN Texts \cup DOMAIN NupOptions \cup DOMAIN Fixed \cup DOMAIN WordChoices \cup DOMAIN Integers \cup {"=", "?"}
ASSUME OptionsAssumption == \A w \in DOMAIN OptionOf : OptionOf[w].name \in OptionNames
ASSUME MediaAssumption ==
  /\ \A p \in DOMAIN Papers : Papers[p] \in Word \X Word
  /\ \A words \in DOMAIN Dimensions : Dimensions[words] \in Seq(Word)
ASSUME BoundsAssumption == MaxOpen \in Nat \ {0} /\ MaxDepth \in Nat \ {0}

PhysicalLine == [words : Seq(STRING), quoted : BOOLEAN, eol : BOOLEAN]
ASSUME WorldsAssumption ==
  \A w \in DOMAIN Worlds : /\ Worlds[w].lines \subseteq PhysicalLine
                            /\ Worlds[w].slots \in Seq(SUBSET Seq(STRING))

VARIABLES
  world,    (* the environment: the rank of one of Worlds                  *)
  files,    (* the tapes of the files that exist                           *)
  frames,   (* the stack, its top first                                    *)
  stage,    (* the next source: 1 to 3 for files, then the command line     *)
  phase,    (* "reading", or how the run goes on                           *)
  argv,     (* the command line, chosen piece by piece                     *)
  job,
  applied,  (* history: the options applied                                *)
  read,     (* history: the entries read                                   *)
  status    (* what ps_begin computes                                      *)

vars == <<world, files, frames, stage, phase, argv, job, applied, read, status>>

Sources == <<<<"etc", "a2ps.cfg">>, <<"home", "a2psrc">>, <<".", ".a2psrc">>>>

(* A file just opened; a vector just built: its words that are options.    *)
FileFrame(name) ==
  [kind |-> "file", name |-> name, at |-> 0, first |-> 0, last |-> 0, start |-> 0, buf |-> << >>, ready |-> FALSE]
Parsed(options, word) == IF word \in DOMAIN OptionOf THEN Append(options, OptionOf[word]) ELSE options
VectorFrame(words) == [kind |-> "vector", options |-> FoldLeft(Parsed, << >>, words)]
Refused(vector) == \E i \in DOMAIN vector.options : vector.options[i].name = "?"

Init ==
  /\ world \in DOMAIN Worlds
  /\ files = [n \in Worlds[world].files |-> [lines |-> << >>, ended |-> FALSE]]
  /\ frames = << >> /\ stage = 1 /\ phase = "reading"
  /\ job = NewJob(Worlds[world].env)
  /\ argv = << >> /\ applied = << >> /\ read = << >>
  /\ status = [linesperpage |-> 0, columnsperline |-> 0, width |-> 0]

Top == frames[1]
InFile == phase = "reading" /\ frames # << >> /\ Top.kind = "file"
InVector == phase = "reading" /\ frames # << >> /\ Top.kind = "vector"
SetTop(frame) == frames' = <<frame>> \o Tail(frames)

-----------------------------------------------------------------------------
(* getshstr                                                                *)
Written == MapThenSumSet(LAMBDA n : Len(files[n].lines), DOMAIN files)
IsComment(words) == words # << >> /\ words[1] = "#"
Fresh(frame) == frame.buf = << >>

(* What reading the physical line p makes of the frame: the counters go on *)
(* with the first piece of a line, and with each piece that is continued.  *)
Counted(f) == IF Fresh(f) THEN [f EXCEPT !.first = f.last + 1, !.last = f.last + 1, !.start = f.at + 1, !.at = f.at + 1]
              ELSE [f EXCEPT !.at = f.at + 1]
GotPieceUncounted(f, p) ==
  LET g == Counted(f)
      skipped == Fresh(f) /\ (IsComment(p.words) \/ (p.words = << >> /\ ~p.quoted))
  IN CASE p.eol /\ skipped -> g
       [] p.eol /\ ~skipped /\ p.quoted -> [g EXCEPT !.buf = f.buf \o p.words]
       [] OTHER -> [g EXCEPT !.buf = f.buf \o p.words, !.ready = TRUE]

GotPiece(f, p) ==
  LET g == Counted(f)
      whole == [g EXCEPT !.buf = f.buf \o p.words, !.ready = TRUE]
      skipped == Fresh(f) /\ (IsComment(p.words) \/ (p.words = << >> /\ ~p.quoted))
      alone == Fresh(f) /\ p.words = << >>
  IN CASE ~p.eol -> whole
       [] p.eol /\ skipped -> [g EXCEPT !.first = g.last + 1]
       [] p.eol /\ ~skipped /\ p.quoted /\ ~alone -> [g EXCEPT !.buf = f.buf \o p.words, !.last = g.last + 1]
       [] p.eol /\ ~skipped /\ p.quoted /\ alone -> [g EXCEPT !.buf = <<"\\">>, !.ready = TRUE]
       [] OTHER -> whole

(* The next line of the tape, which is written if it is not yet.           *)
GetLine ==
  /\ InFile /\ ~Top.ready
  /\ LET tape == files[Top.name]
     IN IF Top.at < Len(tape.lines)
        THEN SetTop(GotPiece(Top, tape.lines[Top.at + 1])) /\ UNCHANGED files
        ELSE /\ ~tape.ended /\ Written < Worlds[world].max
             /\ \E p \in Worlds[world].lines :
                  /\ SetTop(GotPiece(Top, p))
                  /\ files' = [files EXCEPT ![Top.name] = [lines |-> Append(tape.lines, p), ended |-> ~p.eol]]
  /\ UNCHANGED <<world, stage, phase, job, applied, argv, read, status>>

(* End of file: a line that was continued is returned, else the file is    *)
(* closed.                                                                 *)
EndOfFile ==
  /\ InFile /\ ~Top.ready /\ Top.at = Len(files[Top.name].lines)
  /\ IF Fresh(Top) THEN frames' = Tail(frames) ELSE SetTop([Top EXCEPT !.ready = TRUE])
  /\ files' = [files EXCEPT ![Top.name].ended = TRUE]
  /\ UNCHANGED <<world, stage, phase, job, applied, argv, read, status>>

-----------------------------------------------------------------------------
(* a2_read_config: an entry is a keyword, the number of its arguments, and *)
(* whether the last one is the rest of the line.                           *)
Keyword(code, argc, line_token) == [code |-> code, argc |-> argc, line_token |-> line_token]
KeywordRows ==
  {<<"AppendLibraryPath:", Keyword("AppendLibraryPath", 1, TRUE)>>,
   <<"DefaultPPD:", Keyword("DefaultPPD", 1, FALSE)>>,
   <<"DefaultPrinter:", Keyword("DefaultPrinter", 1, TRUE)>>, <<"Delegation:", Keyword("Delegation", 1, TRUE)>>,
   <<"FileCommand:", Keyword("FileCommand", 1, TRUE)>>, <<"Include:", Keyword("Include", 1, FALSE)>>,
   <<"LibraryPath:", Keyword("LibraryPath", 1, FALSE)>>, <<"MacroMetaSequence:", Keyword("Variable", 2, TRUE)>>,
   <<"Media:", Keyword("Medium", 2, TRUE)>>, <<"Medium:", Keyword("Medium", 2, TRUE)>>,
   <<"Options:", Keyword("Options", 1, TRUE)>>, <<"OutputFirstLine:", Keyword("OutputFirstLine", 1, TRUE)>>,
   <<"PageLabelFormat:", Keyword("PageLabelFormat", 1, TRUE)>>,
   <<"PassThrough:", Keyword("Obsolete", 1, TRUE)>>, <<"Pattern:", Keyword("Obsolete", 1, TRUE)>>,
   <<"PrependLibraryPath:", Keyword("PrependLibraryPath", 1, TRUE)>>,
   <<"Printer:", Keyword("Printer", 2, TRUE)>>, <<"TemporaryDirectory:", Keyword("Obsolete", 1, TRUE)>>,
   <<"UnknownPrinter:", Keyword("UnknownPrinter", 1, TRUE)>>, <<"UserOption:", Keyword("UserOption", 2, TRUE)>>,
   <<"Variable:", Keyword("Variable", 2, TRUE)>>}
Keywords == Table(KeywordRows)

WellFormed(words) ==
  /\ words # << >> /\ words[1] \in DOMAIN Keywords
  /\ LET k == Keywords[words[1]]
         argc == Len(words) - 1
     IN IF k.line_token THEN argc >= k.argc ELSE argc = k.argc

(* The integers that sscanf finds.                                         *)
DimensionsOf(words) == IF words \in DOMAIN Dimensions THEN Dimensions[words] ELSE << >>

(* What the entries other than Include and Options do; rest is the last    *)
(* argument, word by word.                                                 *)
Process(j, code, key, rest) ==
  CASE code = "DefaultPPD"         -> [j EXCEPT !.default_ppdkey = key]
    [] code = "Printer"            -> PrintersAdd(j, key, rest)
    [] code = "UnknownPrinter"     -> PrintersAdd(j, UnknownPrinter, rest)
    [] code = "DefaultPrinter"     -> PrintersAdd(j, DefaultPrinter, rest)
    [] code = "Delegation"         -> [j EXCEPT !.delegations = Append(@, rest)]
    [] code = "UserOption"         -> [j EXCEPT !.user_options = Put(j.user_options, key, rest)]
    [] code = "OutputFirstLine"    -> [j EXCEPT !.magic_number = rest]
    [] code = "PageLabelFormat"    -> [j EXCEPT !.page_label_format = rest]
    [] code = "Medium"             -> AddMedium(j, key, DimensionsOf(rest))
    [] code = "Variable"           -> Define(j, key, rest)
    [] code = "LibraryPath"        -> [j EXCEPT !.path = StringToPath(PathOf[rest[1]])]
    [] code = "AppendLibraryPath"  -> [j EXCEPT !.path = PathAppend(j.path, PathOf[rest[1]])]
    [] code = "PrependLibraryPath" -> [j EXCEPT !.path = PathPrepend(j.path, PathOf[rest[1]])]
    [] code = "FileCommand"        -> [j EXCEPT !.file_command = rest]
    [] code = "Obsolete"           -> j

Done(frame) == [frame EXCEPT !.buf = << >>, !.ready = FALSE]
Argument(words) == SubSeq(words, 1 + Keywords[words[1]].argc, Len(words))

(* error_at_line (1, ...): the run ends with the name of the file and the  *)
(* number of the line.                                                     *)
WrongEntry ==
  /\ InFile /\ Top.ready /\ Top.buf # << >> /\ ~WellFormed(Top.buf)
  /\ phase' = "failed"
  /\ UNCHANGED <<world, files, frames, stage, job, applied, argv, read, status>>

PlainEntry ==
  /\ InFile /\ Top.ready /\ WellFormed(Top.buf)
  /\ LET k == Keywords[Top.buf[1]]
         after == Process(job, k.code, Top.buf[2], Argument(Top.buf))
     IN /\ k.code \notin {"Include", "Options"}
        /\ job' = after
        /\ phase' = IF after.failed THEN "failed" ELSE phase
        /\ read' = Append(read, <<k.code, Top.buf[2], Argument(Top.buf)>>)
  /\ SetTop(Done(Top))
  /\ UNCHANGED <<world, files, stage, applied, status, argv>>

(* Include: the name is relative to the directory of the including file.   *)
(* When the file cannot be opened, a message says it and reading goes on.  *)
Absolute(word) == word = "/site.cfg"
Included(name, word) == IF Absolute(word) THEN <<"/", word>> ELSE <<name[1], word>>
OpenFiles == Cardinality({i \in DOMAIN frames : frames[i].kind = "file"})
Include ==
  /\ InFile /\ Top.ready /\ WellFormed(Top.buf) /\ Keywords[Top.buf[1]].code = "Include"
  /\ LET name == Included(Top.name, Top.buf[2])
         opened == name \in DOMAIN files /\ OpenFiles < MaxOpen
     IN frames' = (IF opened THEN <<FileFrame(name)>> ELSE << >>) \o <<Done(Top)>> \o Tail(frames)
  /\ read' = Append(read, <<"Include", Top.buf[2], << >>>>)
  /\ UNCHANGED <<world, files, stage, phase, job, applied, status, argv>>

(* A vector of options is parsed as a whole before any option is applied.  *)
Handle(words, below) ==
  LET vector == VectorFrame(words)
  IN IF Refused(vector) THEN phase' = "failed" /\ frames' = below
     ELSE frames' = <<vector>> \o below /\ UNCHANGED phase

OptionsEntry ==
  /\ InFile /\ Top.ready /\ WellFormed(Top.buf) /\ Keywords[Top.buf[1]].code = "Options"
  /\ Handle(Argument(Top.buf), <<Done(Top)>> \o Tail(frames))
  /\ UNCHANGED <<world, files, stage, job, applied, argv, read, status>>

-----------------------------------------------------------------------------
(* a2ps_handle_options                                                     *)
TakeOption ==
  /\ InVector /\ Top.options # << >> /\ Head(Top.options).name # "="
  /\ LET o == Head(Top.options)
         after == Apply(job, o)
     IN job' = after /\ phase' = (IF after.failed THEN "failed" ELSE phase) /\ applied' = Append(applied, o)
  /\ SetTop([Top EXCEPT !.options = Tail(@)])
  /\ UNCHANGED <<world, files, stage, argv, read, status>>

(* -=SHORTCUT: the vector of the shortcut is processed at once, the rest   *)
(* of this vector afterwards.  A shortcut that nothing defines ends the    *)
(* run, and so does the end of the C stack.                                *)
DepthOf(stack) == Cardinality({i \in DOMAIN stack : stack[i].kind = "vector"})
PushAfter(words, stack) ==
  LET rest == Head(stack)
  IN [phase |-> "reading", frames |-> <<[rest EXCEPT !.options = rest.options \o VectorFrame(words).options]>> \o Tail(stack)]

Push(words, stack) ==
  LET vector == VectorFrame(words)
  IN CASE Refused(vector) -> [phase |-> "failed", frames |-> stack]
       [] ~Refused(vector) /\ DepthOf(stack) >= MaxDepth -> [phase |-> "crashed", frames |-> stack]
       [] OTHER -> [phase |-> "reading", frames |-> <<vector>> \o stack]

UserOption ==
  /\ InVector /\ Top.options # << >> /\ Head(Top.options).name = "="
  /\ LET shortcut == Head(Top.options).arg
         rest == [Top EXCEPT !.options = Tail(@)]
     IN IF shortcut \in DOMAIN job.user_options
        THEN LET pushed == Push(job.user_options[shortcut], <<rest>> \o Tail(frames))
             IN frames' = pushed.frames /\ phase' = pushed.phase
        ELSE phase' = "failed" /\ UNCHANGED frames
  /\ UNCHANGED <<world, files, stage, job, applied, argv, read, status>>

EndVector ==
  /\ InVector /\ Top.options = << >>
  /\ frames' = Tail(frames)
  /\ UNCHANGED <<world, files, stage, phase, job, applied, argv, read, status>>

(* A line of blanks only.                                                  *)
BlankEntry ==
  /\ InFile /\ Top.ready /\ Top.buf = << >>
  /\ SetTop(Done(Top))
  /\ UNCHANGED <<world, files, stage, phase, job, applied, argv, read, status>>

-----------------------------------------------------------------------------
(* main                                                                    *)
Handled == 0
Skipped(s) == s = 2 /\ "NO_HOME_CONF" \in job.env
ReadSource ==
  /\ phase = "reading" /\ frames = << >> /\ stage \in 1..3
  /\ stage' = stage + 1
  /\ frames' = IF Sources[stage] \in DOMAIN files /\ ~Skipped(stage) THEN <<FileFrame(Sources[stage])>> ELSE << >>
  /\ UNCHANGED <<world, files, phase, job, applied, argv, read, status>>

Slots == Worlds[world].slots
Argue ==
  /\ phase = "reading" /\ frames = << >> /\ stage \in 4..3 + Len(Slots)
  /\ stage' = stage + 1
  /\ \E words \in Slots[stage - 3] : argv' = argv \o words
  /\ UNCHANGED <<world, files, frames, phase, job, applied, read, status>>

CommandLine ==
  /\ phase = "reading" /\ frames = << >> /\ stage = 4 + Len(Slots)
  /\ stage' = Handled
  /\ Handle(argv, << >>)
  /\ UNCHANGED <<world, files, job, applied, argv, read, status>>

(* a2ps_job_finalize, unless the version or the help is asked for: the     *)
(* directory of the user comes first in the library, then the PPD, the     *)
(* encoding and the medium must exist.                                     *)
CommonFinalizeLast(j) == IF "NO_HOME_CONF" \in j.env THEN j.path ELSE PathAppend(j.path, <<"home/.a2ps">>)

CommonFinalize(j) == IF "NO_HOME_CONF" \in j.env THEN j.path ELSE PathPrepend(j.path, <<"home/.a2ps">>)

Finalize ==
  /\ phase = "reading" /\ frames = << >> /\ stage = Handled
  /\ LET path == CommonFinalize(job)
         complete == /\ FindFile(path, PPDKey(job), Library) # NULL
                     /\ job.requested_encoding_name \in Encodings
                     /\ GetMedium(job, SystemPaper) # NULL
     IN IF job.behavior \in {"version", "help"} THEN phase' = "done" /\ UNCHANGED job
        ELSE /\ job' = [job EXCEPT !.path = path]
             /\ phase' = IF complete THEN "ready" ELSE "failed"
  /\ UNCHANGED <<world, files, frames, stage, applied, argv, read, status>>

(* The task: printing opens the output session, which computes the         *)
(* geometry; the lists only report.                                        *)
TheRoom(j) == Room(j, Area(j, GetMedium(j, SystemPaper)))
Task ==
  /\ phase = "ready"
  /\ IF job.behavior # "ps" THEN phase' = "done" /\ UNCHANGED status
     ELSE LET font == Font(job, TheRoom(job))
          IN IF font[1] = 0 THEN phase' = "failed" /\ UNCHANGED status
             ELSE LET s == Status(job, TheRoom(job), font)
                  IN status' = s /\ phase' = IF TooBig(s) THEN "failed" ELSE "printing"
  /\ UNCHANGED <<world, files, frames, stage, job, applied, read, argv>>

Finished == phase \in {"failed", "crashed", "done", "printing"} /\ UNCHANGED vars

Next ==
  \/ ReadSource \/ GetLine \/ EndOfFile \/ BlankEntry \/ WrongEntry \/ PlainEntry \/ Include \/ OptionsEntry
  \/ TakeOption \/ UserOption \/ EndVector \/ Argue \/ CommandLine \/ Finalize \/ Task \/ Finished

Spec == Init /\ [][Next]_vars
-----------------------------------------------------------------------------
Phases == {"reading", "ready", "printing", "done", "failed", "crashed"}

(* The stack holds at most MaxOpen files, each either between two lines or *)
(* with an entry; the vectors are above the file whose entry they come     *)
(* from; history only names options that exist.                            *)
ConfigTypeOK ==
  /\ phase \in Phases /\ stage \in 0 .. 4 + Len(Slots)
  /\ OpenFiles <= MaxOpen /\ DepthOf(frames) <= MaxDepth
  /\ \A i \in DOMAIN frames : \A k \in DOMAIN frames : i < k /\ frames[i].kind = "file" => frames[k].kind = "file"
  /\ \A i \in DOMAIN frames : frames[i].kind = "file" => frames[i].at <= Len(files[frames[i].name].lines)
  /\ \A i \in DOMAIN applied : applied[i].name \notin {"=", "?"}
  /\ job.columns >= 1 /\ job.rows >= 1 /\ job.copies >= 1 /\ job.tabsize >= 1

(* The number in a message about an entry is that of its first physical    *)
(* line, whatever comments, blank and continued lines come before it.      *)
FirstLineIsFirst == InFile /\ Top.ready => Top.first = Top.start

(* At most one scale is requested, and the last option about the scale is  *)
(* the one that is followed, wherever it comes from.                       *)
ScaleNames == {"l", "L", "m", "f"} \cup DOMAIN NupOptions
Scaled(j, o) ==
  CASE o.name = "l" -> j.columns_requested = Number[o.arg]
    [] o.name = "L" -> j.lines_requested = Number[o.arg]
    [] o.name = "m" -> j.lines_requested = 66
    [] o.name = "f" -> j.columns_requested = 0 /\ j.lines_requested = 0 /\ j.fontsize = Number[o.arg]
    [] OTHER -> j.columns_requested = 80
LastScaleGoverns ==
  /\ job.columns_requested = 0 \/ job.lines_requested = 0
  /\ \A i \in DOMAIN applied :
       /\ ~job.failed /\ applied[i].name \in ScaleNames
       /\ \A k \in i + 1 .. Len(applied) : applied[k].name \notin ScaleNames
       => Scaled(job, applied[i])

(* What the page device is asked for agrees with the sides of the job, as  *)
(* long as --setpagedevice is not used.                                    *)
DuplexAgrees ==
  LET asked(key) == Lookup(job.pagedevice, key)
  IN (\A i \in DOMAIN applied : applied[i].name # "S") =>
       CASE job.duplex = "simplex" -> asked("Duplex") = NULL
         [] job.duplex = "duplex"  -> asked("Duplex") = "true" /\ asked("Tumble") = "false"
         [] job.duplex = "tumble"  -> asked("Duplex") = "true" /\ asked("Tumble") = "true"

(* The options that were given last govern the job, in the files or on the *)
(* command line: the scale, and the sides in the page device.              *)
OptionsGovern == LastScaleGoverns /\ DuplexAgrees

(* -l N leaves N columns for the text, line numbers or not, and -L N gives *)
(* N lines; and the page has room for what is announced, unless the font   *)
(* is so large that the number of columns is below what C can convert.     *)
AsRequested ==
  phase = "printing" =>
    /\ job.columns_requested > 0 => status.width = job.columns_requested
    /\ job.lines_requested > 0 => status.linesperpage = job.lines_requested
TextInRoom ==
  LET area == Area(job, GetMedium(job, SystemPaper))
      room == TheRoom(job)
      font == Font(job, room)
  IN phase = "printing" /\ Fits(area) /\ room.w > 0 /\ room.h > 0 /\ Converts(job, room, font) =>
       TextFits(job, room, font, status)

(* The box of the virtual pages is as large as the room that was computed, *)
(* and within what can be printed of either side of the sheet.             *)
BoxPrintable ==
  LET m == GetMedium(job, SystemPaper)  area == Area(job, m)  box == Box(job, m)
  IN phase = "printing" /\ Fits(area) =>
       /\ box.urx - box.llx = area.w /\ box.ury - box.lly = area.h + HeadingsHeight(job)
       /\ \A x \in {box.llx, box.urx}, y \in {box.lly, box.ury}, front \in BOOLEAN :
            LET p == OnPaper(job, m, front, x, y)
            IN p[1] \in m.llx .. m.urx /\ p[2] \in m.lly .. m.ury

(* The virtual pages fill the sheet, row by row from the top or column by  *)
(* column from the left, as --major says.                                  *)
PagesOrdered ==
  phase = "printing" =>
    LET at(column, row) == IF job.madir = "rows" THEN row * job.columns + column + 1 ELSE column * job.rows + row + 1
    IN /\ Len(PagesX(job)) = job.columns * job.rows /\ Len(PagesY(job)) = job.columns * job.rows
       /\ \A column \in 0 .. job.columns - 1, row \in 0 .. job.rows - 1 :
            PagesX(job)[at(column, row)] = column /\ PagesY(job)[at(column, row)] = job.rows - 1 - row

(* The geometry gives what the job asks for, and has room for it.          *)
LayoutFits == AsRequested /\ TextInRoom /\ BoxPrintable /\ PagesOrdered
=============================================================================
