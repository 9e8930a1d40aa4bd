# a2ps in TLA+

a2ps turns text into PostScript: it lays several *virtual pages* on each
*physical page* ("sheet" in the code), highlights what a style sheet tells it
to, switches fonts and encodings, and includes the documents that other
applications produce from the files it cannot read ("delegation").  This
directory holds TLA+ models of its logic, the TLC configurations that check
them, and theorems about them checked by TLAPS.

Everything is translated from the C sources in `src/` (the program) and
`liba2ps/` (the library).  a2ps is one sequential process: its difficulty is not
in threads but in **long call sequences over shared counters and over a diverted
output that can be switched to the void**, in **state remembered by one handler
and consumed much later by another**, in **what a failure or a signal leaves
behind**, and in **boundaries** (the last character of a buffer, the last slot of
a table, the last virtual page of a sheet).

## Inventory

| component | source | state | operations | correct when |
|---|---|---|---|---|
| page engine | `psgen.c`, `fjobs.c`, `gen.c` | `pages`, `sheets`, `virtual`, the label of the page, the counters of each file | begin/end of a virtual page, of a page, flush, empty page, alignment of files | the printer reads well-formed pages; each is counted; files are aligned |
| encoding switching | `psgen.c` | `encoding`, `saved_encoding`, `opened_encoding` | set, end, switch, push, pop | dictionaries are opened and closed in pairs, the text is read under the one it asked for |
| page range | `prange.c` | the intervals of `--pages` | parse, test, shift for delegated applications | the pages asked for, and only these, also by the applications |
| meta sequences | `metaseq.c`, `title.c` | macros, the expansion buffers, delayed values | expand | titles tell what is on the sheet; totals are those of the end |
| text engine | `psgen.c` (`ps_print_char`) | the current line, column, width, face; half a composite character | one character, tab, form feed, end of line, fold, cut | balanced strings, each glyph in its face, inside the frame, none lost |
| input buffer and plain reader | `buffer.c`, `read.c` | sample, offset, stream, line number | sample, one line, save, overstrikes | the lines of the whole input, whatever was sampled |
| style sheets | `ssheet.c`, `sshread.c`, `parsessh.y`, `versions.c` | the sheets loaded, the stack of ancestors, the sequence being read | load, inherit, mix, list, match keywords, operators and sequences | own words win, nothing is read twice; the tokens are independent of the file before |
| file typing | `select.c`, `generate.c`, `sheets-map.l` | the rules, the inclusions, the sample | load the map, type a file, choose what to do of it | the last rule that applies wins; every file has its turn |
| delegation, print loop | `delegate.c`, `generate.c`, `main.c` | temporary files, exit handlers, destination | print, delegate, give up, send, clean up | failures and signals do not disturb the rest |
| diverted output | `output.c` | chunks, derivations, delayed values, the void | write, delay, include a file, dump | the dump is what was written, in order, with the final values |
| destinations | `printers.c`, `stream.c`, `xbackupfile.c` | the stream, the backups | open, write, close, number a backup | nothing lost, old files kept |
| configuration reader | `getshline.c`, `confg.gperf`, `options.c`, `useropt.c`, `pathwalk.c` | logical line, stack of files and of vectors, the job | read a line, apply an option | each entry once, in order; the last option governs |
| media, numbers, prologue | `media.c`, `getnum.c`, `filalign.c`, `prolog.c`, `dsc.c` | the geometry, the resources | compute, collect, print | what is announced has room; the header says what the document holds |
| encodings, fonts, faces | `encoding.c`, `faces.c`, `fonts.l`, `ppd.c` | encodings loaded, fonts declared | load, resolve | each face has a font; each font is included once |
| hash tables | `hashtab.c`, `pair_ht.c`, `str_ht.c` | slots, fill, deletion markers | find, insert, delete, rehash, dump | a finite map |
| dynamic arrays and strings | `darray.c`, `dstring.c` | content, length, size | append, insert, remove, sort, merge | a sequence, within its room |
| listings | `lister.c`, `tterm.c` | the candidate columns, the position | measure, print | every item once, apart, as many as fit |

The pieces meet in a few places.  The *configuration* makes the job, the job makes the
geometry.  `print` (`generate.c`) types each file, loads its sheet, and opens an *input
session*, which aligns the pages; the reader (`read.c` or
`sshread.c`) takes lines from the buffer and gives characters to the text
engine; the text engine begins and ends virtual pages; the page engine
begins and ends pages, prints headers and footers under another encoding, and
writes to the diversion, which is turned to the void while a page that was not
selected is typeset; when the whole job is over, the diversion is dumped, and
only then are the delayed counters, the resources and the results of the
delegations read.

What is hard, and is listed as hazards in `PROJECT.json`: page selection combined
with any of alignment, encodings and delegation; counters that several functions
update in an order that matters; a failed delegation among good ones; a signal
between two steps of the exit; lines cut at the boundary of a sample; static
variables that outlive the file they belong to; ancestors that are missing, mixed
or repeated; unsigned differences; tables at their limit.

## The modules

| module | models | state | actions or operators |
|---|---|---|---|
| `EncodingSwitch` | the five functions of `psgen.c` that open and close encoding dictionaries | `cur`, `saved`, `opened` of the program; `dict` and `faults` of the printer | `PsSetEncoding`, `PsEndEncoding`, `PsInternalSwitch`, `PsSwitchEncoding`, `PsPushEncoding`, `PsPopEncoding` |
| `PageRange` | `print_page` of `prange.c` | none | `IntervalIsIn`, `PrintPage` |
| `PageEngine` (uses the two above) | pages, virtual pages, alignment, counters, the print loop and the delegations as they move pages | `job` (the counters of `a2ps_job`, the files, the printer), `enc`, `phase` (where the caller stands) | one action per call of the drivers: `StartFile`, `AlignStep` (one turn of a loop of `ps_begin_file`), `LinkFile`, `PrintNative`, `Delegate`..., `BeginVirtual`, `EndVirtual`, `SwitchEncoding`, `CloseFile`, `CloseSession`, `AbandonSession`; the functions of `psgen.c` and `fjobs.c` are operators of the same names |
| `PageEngineProofs` | theorems about `PageEngine`: its pages, files, encodings and counters | | |
| `RangeText` (extends `PageRange`) | what `--pages` is read from, and the text that `#p` gives to a delegation | none | `Reading`, and the text of what remains of a selection |
| `MetaSequence` | the expansion of titles and commands | none | `Grow` and the values of the escapes, conditions, enumerations, macros, delayed values |
| `SheetTitles` (composes `PageEngine` and `MetaSequence`) | the label, the header and the footers of each page, with the counters of the page engine | `titles`, the shared buffer `stack`, the pages of the sheet | `Next /\ TitleStep`: `page_end` expands the titles in the same step |
| `TextInput` | `buffer.c`, as `read.c` and `delegate.c` use it | the sample, the stream, the line, the numbers shown | `SampleGet`, `OpenInput`, `Save`, `BeginGet`, `StringChar`, `StreamChar`, `FinishGet`, `PrintChar` |
| `PlainReader` | `plain_getc` of `read.c`: the overstrikes of nroff | the line, the place in it, the line number, what was given to the text engine | `PlainGetc`, a call of the function |
| `Highlight` | `sshread.c`: the lexer and the printer driven by a style sheet | `s`: the static variables of the lexer, the locals of the printer, what it gave to the text engine | `StartFile`, `GetLine`, `ReadToken` (one call of `ssh_get_token` and the loop over its right hand side), `EndOfFile` |
| `TextEngine` | `ps_print_char` and what it calls, inside a virtual page | `s`: the `ps_status`, `mb_flag`, and the printer's string, font, place | `BeginFile`, `PrintChar`, `SwitchEncoding`, `EndFile` |
| `TextProofs` | theorems about `TextInput`, `TextEngine` and `Highlight`, alone and in `MCText` | | |
| `SortedArrays` | what `da_qsort` and `da_merge` compute, in closed form | none | `Sorted`, `Merged`, `Group` |
| `Arrays` | `darray.c` | two arrays, the loop being run with its locals | the operations, `Turn`: one turn of the loop of a sort, a merge or a removal of doubles |
| `StyleSheets` (uses `SortedArrays`) | the parser's result for a file, ancestors, mixes, checks, listings | the table of the sheets, the stack of the calls of `get_style_sheet`, the static pointers of `strtok` and of the regular expressions | `Request`, `Loader` (what a call does until it calls itself or returns), `Answer`, `List` |
| `SheetsMap` | `sheets-map.l`, the rules of `select.c` | the rules, the stack of inclusions, the last key | `ReadKey`, `ReadRule`, `IncludePush`, `IncludePop`, `ReadError` |
| `FileTyping` (composes `StyleSheets` and `SheetsMap`) | `input_new`, `get_command`, `print` | the files of the command line, the sample of the standard input, what was done of each file | `InputNew`, `LoadMap`, `GetCommand`, `PrintDirectly`, `AskSheet`, `PrintWithSheet` |
| `Library` | `output_file` of `output.c`: the library files, their inclusions and setup sections | a stack of calls, the files recorded, what was written where | one action per kind of line, `EndOfFile` |
| `LibraryProofs` | theorems about `Library` and `Resources`, alone and in `MCDocuments` | | |
| `DiversionProofs` | theorems about `Diversion` in `MCDocuments` | | |
| `Resources` | `encoding.c`, `fonts.l`, `dsc.c` and the prologue lines about fonts | faces, encodings loaded, names used, resources, comments written | `FinalizeJob`, `ReadFace`, `ReadFont`, `DocumentSetup`, `SwitchEncoding`, `Subcontract`, `PrintText`, `Undivert` |
| `Diversion` | the chunks, holes and derivations of `output.c`, the strings they grow in, the header of `dsc.c` and `prolog.c` | three chunks, the resources, the labels, what was sent | `OutputProlog`, `DocumentSetup`, the events of the pages, `Undivert` |
| `Options` | every option and what it does to the job; printers, media, paths, shortcuts | none | `Applied` and one operator per family of options |
| `Layout` (extends `Options`) | the geometry of `ps_begin`: room, font, lines and columns, places of the virtual pages | none | `Font`, `Area`, `Box`, `OnPaper`, `PagesX`, `PagesY` |
| `Configuration` (extends `Layout`) | configuration files, command line, the order of the sources | the tapes of the files, the stack of files and vectors, the job | `GetLine`, one action per kind of entry, `TakeOption`, `UserOption`, `EndVector`, `Finalize`, `Task` |
| `FileTypingProofs` | theorems about `FileTyping` and `SheetsMap` | | |
| `ConfigurationProofs` | theorems about `Options`, `Layout` and `Configuration` | | |
| `PrintSession` | `main`, temporary files, delegations, destination, backups, signals | the disk, the variables that name temporary files, the exit handlers, the queue of what is sent | one action per step between which a signal or a failure matters |
| `PrintSessionProofs` | theorems about `PrintSession` | | |
| `FiniteMap` | what a table promises | `map` | `Put`, `Get`, `Remove`, `Clear` |
| `HashTab` (refines `FiniteMap`) | `hashtab.c` | the vector, the old vector while it is copied, the fill | `Find`, `Insert`, `CopyStep` (one turn of the loop of `hash_rehash`), `Delete`, `DeleteItems`, `Hang` |
| `HashTabProofs` | theorems about `HashTab` | | |
| `Lister` | the columns of `lister.c` on the terminal of `tterm.c` | the candidate columns, where the program believes it is, where it is | `Measure`, `SelectColumns`, `PrintInColumn`, `PrintSeparated` |

The `MC...` modules give the constants of the instances their values.
`MCContainers`, `MCText` and `MCDocuments` hold several components whose state
spaces have nothing in common: a behaviour belongs to one of them, as its variable
`part` says, and each property names the part it is about.

Two conventions are common to the modules.  First, **the output is observed through a
reader**: the PostScript is not represented as text but by the state of the
printer that would read it (a page is open, a dictionary is open, a string is
open, the current font) and by the set of *faults*, the operations it could
not accept there.  A property such as `PageStructure` says that this set stays
empty.  Text written while the diversion is turned to the void does not reach
the printer; most of the interest of the page engine lies there.  Second,
**mutants** stand before the definitions they change: `PageEndKeepsVirtual` is
`PageEnd` with a plausible mistake, and `PROJECT.json` says which property
finds it.

How the modules fit: `Configuration` makes the job and `Layout` its pages;
`PrintSession` runs it, a file at a time; `FileTyping` tells what each file is;
`TextInput` gives lines to `Highlight` or to `PlainReader`, which give faced
characters to `TextEngine`, which begins and ends
the virtual pages of `PageEngine`; both engines turn to `EncodingSwitch` when an
encoding is named; `SheetTitles` reads the counters of `PageEngine`; `Resources` is what
loading that encoding does to the
document; `Library` writes the prologue and the encodings in the `Diversion`.
`SheetTitles`, `FileTyping` and `Configuration` compose modules textually; the others meet
at a narrow interface that each side takes as nondeterministic
(`TextEngine` receives any characters in any faces, `PageEngine` any virtual
pages and encodings, `Diversion` any order of pages and requests), which covers
more than the composition would.

## Runs

Passing runs, with what each property says:

| run | instance | properties |
|---|---|---|
| `PageTitles` | 4 slots, files aligned on ranks of 2, two-sided, every page selected, 2 encodings, 9 virtual pages, 3 files | `TypeOK`; `PageStructure`: what the printer reads is well formed; `EncodingsSound`: dictionaries in pairs, text under the encoding asked for; `CountersTrue`: the counters of each file and of the job are those of the pages printed; `TitlesTrue`: a title names the files and the pages of its sheet, and its totals are those of the end |
| `PageSheet` | 2 slots, duplex, `--pages=1,3-`, alignment on sheets, 7 virtual pages, 3 files | `FilesApart`: files share no sheet and start on a front side, pages well formed |
| `PageNumber` | 2 slots, `--pages=2-3`, alignment on a multiple of 3, 6 virtual pages, 3 files | `AlignedStart`; `RangeShifted`: a delegation in the middle of the range is told the rest of it; `AlignmentEnds` under `FairTitlesSpec` |
| `Text` | every input of at most 4 of 5 kinds of characters, 3 sources, 5 conventions, a sample of 2; lines of two columns struck up to 6 times; a small language, where a closing and an exception match the empty string, 2 lines of up to 4 characters a file, any number of files; 6 jobs of 3 virtual pages of 2 lines, 2 faces, 2 encodings | `InputWhole`: lines intact, saved whole, overstrikes read as a terminal shows them; `CurrentLine`; `LexerSound`: tokens tile the line, the plain face is restored, files are independent; `LexerAdvances`: a token advances, or the sheet matches the empty string there and a sequence is opened or closed, or the sheet is endless; `GlyphsPlaced`: strings balanced, glyphs in their face and frame |
| `Files` | 3 files among regular, missing, directory and standard input; 9 maps with inclusions sound and wrong, depth 2; 20 libraries of sheets in one or two levels of ancestors, missing ones, mixes, lists; 3 requests | `MapAsWritten`: the map means what its flattened text means; `TypedAndPrinted`: a file is typed as if alone and printed as it was typed; `Inheritance`: own words and syntax win; `SheetsReady`: index, faces, checks, one reading; `FilesEnd` under `TypingSpec` |
| `Documents` | every pair of library files of up to 3 lines; 4 fonts, 2 encodings, 2 faces; a diversion of 2 lines of prologue and 4 events | `FilesRead`: each file once, setup sections diverted; `FontsReady`: fonts provided and included once, faces defined; `DumpFaithful`: the dump is what was written, with the values of the end; `HeaderTrue`: each resource once under its comment; `ReadingEnds` under `DocumentsSpec` |
| `Startup` | 9 worlds of one or two configuration files of up to 4 lines, inclusions, shortcuts, destinations, libraries, command lines of 3 to 5 words | `ConfigTypeOK`; `FirstLineIsFirst`: an error names the first line of its entry; `OptionsGovern`, `DeclarationsGovern`: the last one read governs; `LayoutFits`: the geometry gives what was asked and fits; `InPlace`: a shortcut stands for its options where it is used |
| `Session` | up to 3 files, delegations that succeed or fail, 4 backup methods, 2 signals anywhere | `SessionTypeOK`; `TempFilesRemoved`; `OldOutputSafe`: the file that is replaced is under some name at any time; `DocumentWhole`: what is sent is what each file gave, in order |
| `Containers` | 4 keys that collide, sizes 4 and 8, 4 deletions; arrays of up to 6 items (9 after a merge), 2 calls; listings of up to 5 items of 3 widths, or 9 equal ones, on 9 terminals | `TableSound`: keys reachable, fill counted, searches end; `ImplementsMap`: the refinement of `FiniteMap`; `SortSound`, `MergeSound`, `LoopsAdvance`: the loops stay in their room, compute the closed forms, and end; `ListingFits` |

Deadlock is checked in all runs but `Files`, whose sessions stop when every file had its turn.

Why the bounds are enough:

* *Pages*: the behaviour depends on the place in the sheet, the side of the
  sheet, the remainder by the alignment, and whether the page before was
  selected; all repeat within two sheets.  Three files make one that
  follows a delegated, a failed or an ignored file and precedes another.
* *Hash table*: the smallest table has 4 slots and is copied once, with or
  without markers; 4 deletions fill it with markers.
* *Arrays*: the limit under which the sort inserts (10 in the code) is a constant, here 2,
  so that four items are partitioned and six leave parts waiting on the stack.
* *Listings*: items narrower and wider than a terminal and an equal share of it, terminals
  with and without tabulations.  A terminal is wider than its margins: a narrower one makes a size wrap.
* *Input*: the longest construct (a form feed, a character, an end of line of
  two characters) has 4 characters, and the sample of 2 puts its end
  at every place of it.  A signed `char` is assumed (`"xff"` is `EOF`).
  Three strikes is what the reader looks for; six is twice that.
* *Text*: 2 lines a page and 3 pages give a first, a middle and a last one, and a page not printed
  between two that are.  Widths are in half columns: narrow, exact and wide glyphs.
  `MaxWx` bounds the width counted on a line, which grows without bound only when form feeds are printed beyond a cut.
* *Highlight*: the state between two tokens is the open sequence, the pending
  return, the shared face and the encoding being grabbed; four characters hold an
  opening, an exception or a plain character, and a closing.
* *Library*: two files include themselves and each other; the recursion is
  bounded by `needed`, which `TypeOK` states; `LibraryProofs` proves it, so the bound `MaxDepth`
  of the stack cuts nothing off.
* *Diversion*: one page that is labelled, one that is not, a total, a font, an encoding and a delegation are one event each;
  four of them put any one in the void between two others.  A chunk is full at its second text.
* *Sheets*: a sheet, its ancestor and its grandparent, with a missing ancestor at each place.
  `MaxDepth` cuts sheets that depend on each other, which the code does not.
* *Startup*: an entry needs at most a continuation, an inclusion and its own file; a precedence needs two options
  and, for the scale, what they are combined with.  `WordMod` (4096) stands for the width of `size_t`, above any size of a page;
  `MaxOpen` (3) for the files a process may open and `MaxDepth` (4) for the stack.
* *Session*: three files give a good delegation, a failed one and a text in any order; two signals
  interrupt the handling of one.  Making a temporary file is assumed to succeed.

Runs that show a disagreement between the code and what its comments say:

| run | property | disagreement |
|---|---|---|
| `BugStaleFace` | `FilesIndependent` | the face of a sequence left open by a file colours the first plain characters of the next one (`sshread.c:303`) |
| `BugDelegation` | `FailedIgnored` | of one good and one failed delegation the failed one may be sent, although "it is a failed job and we ignore it" (`main.c:1161`) |
| `BugRestore` | `Restored` | when the output cannot be created, the old file is not "restored": only the name of its backup is left (`xbackupfile.c:174`) |

### Other disagreements

These were met while modelling.  Those of the first table are properties of their module, marked there
as not holding: give the property to the run named to see it violated.

| property | run | disagreement |
|---|---|---|
| `FirstSheetIsFirst` | `PageTitles` | a delegated file records the last sheet of the file before as its first (`delegate.c:248`; `fjobs.h:41`) |
| `PageBegunOnce` | `PageSheet` | `page_begin` is entered again for a skipped virtual page after the first printed one (`psgen.c:469`) |
| `DumpedFileIsDelegated` | `PageTitles` | the page engine's view of `BugDelegation` |
| `PageStructure`, `TextEncoding`, `EncodingStructure` | `PageTitles` with `OneAndOn` | with a selection: a page counted by `virtual_empty_output` is ended without being begun when files are aligned on ranks (`psgen.c:548`); an encoding switched to in the void is remembered but never opened (`psgen.c:252`); a dictionary opened in the void is closed in the output (`psgen.c:228`; `prolog.c:579` has a FIXME about it) |
| `SheetFiles` | `PageTitles` with `OneAndOn` | pages that are skipped stay named by `#!s` (`a2ps.texi:2178`) |
| `RangeRemains` | `PageNumber` | what remains of `--pages=2-3` after three pages is written "1-0", an empty range that is read as no selection (`prange.c:84`, `a2ps.texi:2362`) |
| `VersoIsBack` | `PageTitles` | `#?v`, "true on the back side", tests that the number of the sheet is odd: it is true on the front sides (`metaseq.c:1073`, `a2ps.texi:2155`) |
| `SearchReturns` | `Containers` | deletion markers are not counted: the search of an absent key in a table full of items and markers never ends (`hashtab.c:158`) |
| `NeverTwoEqual` | `Containers` | `da_merge` keeps both of two equal items when the second array wins (`darray.c:533`; the comment at 499 says otherwise) |
| `MaxIdxTrue` | `Containers` | the "maximum number of columns ever possible" subtracts the space between columns instead of adding it: fewer columns than fit (`lister.c:136`) |
| `LinesRead` | `Text` | `\r\n` cut by the end of the sample is not an end of line (`buffer.c:348`); the byte `0xff` in the sample ends it (`buffer.c:158`); a last line that ends with a form feed and one character loses that character (`buffer.c:412`) |
| `CompositesWhole` | `Text` | the first half of a composite glyph that is cut is paired with a half of a later one (`psgen.c:867`) |
| `NoReentry`, `NoCrash`, `LastReadWins` | `Files` (the first with two sheets that inherit from each other) | sheets that depend on each other are loaded for ever (`a2ps.texi:4499`); a mix whose component is missing is dereferenced (`ssheet.c:700`); the first ancestor wins over the others, where `a2ps.texi:4475` and `ssheet.c:500` say the last |
| `VerdictOfOwnFile` | `Files` | the name of the sample of the standard input is not forgotten: every file after it is typed by `file(1)` on a file that is gone (`generate.c:128`, `select.c:232`) |
| `PrologueOnce`, `ErrorsReported` | `Documents` | a prologue may be included again by its own files; a file with a setup section cannot be included in one (`output.c:281`, `output.c:383`) |
| `IncludedOnce` | `Documents` | a font loaded in a skipped page, in the middle of a line or by a delegated document first gets no `%%IncludeResource` that a printer reads (`dsc.c:320`, `delegate.c:284`) |
| `SpecialKept`, `SlantsDefined` | `Documents`, with two names for Symbol, or both encodings slanted | of two neighbouring names of fonts not to be reencoded one stays (`encoding.c:897`); the second encoding with slanted fonts does not get them (`encoding.c:433`) |
| `NeededReadBack` | `Documents` | the `%%+` lines of a delegated document are taken for needed resources whatever comment they continue (`delegate.c:284`) |
| `LineGoesOn` (`TextProofs`) | the instance of `Text`, with a module that extends `TextProofs` | a keyword, an operator or an exception that matches the empty string is read for ever where it stands, and so are an opening and a closing that both do: neither the parser of sheets nor the lexer refuses them (`sshread.c:205`, `sshread.c:361`) |
| `CommentsIgnored` | `Startup` | a comment that is the last line, without an end of line, is an entry (`getshline.c:89`, `a2ps.texi:2503`) |

Seen in passing, without a property:

* strings: `round_up_2` doubles a power of two (`hashtab.c:312`); `$l.` is one less than documented when a form feed
  ends the page (`metaseq.c:688`), which is why `CurrentLine` speaks of pages that end with a line or with the file;
  `$[n]` is always an error (`metaseq.c:577`); `#p` may return an uninitialised buffer (`metaseq.c:1245`);
  macros that use themselves recurse without bound; a negative width lists all;
* configuration: a line that is only a backslash is not continued; `-D`, `-S` and `--statusdict` cut the
  words of the command line, which `#!$` then shows; `-stumble -s1` leaves `Tumble` in the page device; `--pages` given twice accumulates;
  words of `Options:` that are no options are ignored silently; a `Printer:` declared again without a PPD loses the first one's;
  shortcuts within themselves and circular inclusions end with the resources of the process; an empty entry of a path hides the next one (`pathwalk.c:78`);
* layout: `columnsperline - prefix_size` wraps on a narrow page (`prolog.c:571`);
* reading: a character that is underlined and struck twice, or struck more than five times, leaves backspaces to be printed (`read.c`);
* sheets: a sheet that names a mix as one ancestor, `"mail,sh"`, while another mix is made, ends the loop of that one (`strtok`, `ssheet.c:699`): the mix lacks its last
  components; a file of the type `delegate` is given to an application that is none (`generate.c:44`);
* sending: two blanks before the `|` of a destination are not skipped; temporary files are removed by `cleanup_tempfiles` only, and one that is made while a signal comes
  may stay (`routines.c:248`), as the exception in `TempFilesRemoved` says;
* listings: a list with an unlimited number of items never gets its final string (`lister.c:63`, called by `ppd.c:90`); an empty list divides by zero (`lister.c:333`); a terminal narrower than its margins makes a size wrap.

## Fairness

a2ps is one process that never waits for another actor while it computes, so a loop that can take its next
turn takes it.  `SheetTitles!FairTitlesSpec` assumes weak fairness of `AlignStep` and
`LinkFile` only (the two outcomes of the loop test in `ps_begin_file`), `MCDocuments!DocumentsSpec` of
the reading of the library, `FileTyping!TypingSpec` of the typing and loading of what was given on the command line.
Nothing is assumed of the text: lines may stop coming.  In `Highlight` and `Arrays`
the end of the loops is stated without fairness, as a variant that every turn decreases:
`LexerAdvances`, `LoopsAdvance`; the first excepts the sheets for which the lexer does not end.  A shortcut's expansion has the same kind of property, `InPlace`.
`PrintSession` is about safety: a signal may stop it anywhere.

## Theorems

The page engine: `PageEngineProofs` proves, for every geometry, alignment, selection, set of
encodings and bound:

* `TypeCorrect`: `Spec => []TypeOK`.  The content is in the counters: the
  differences `last - first + 1` of `fjobs.c`, computed on `size_t`, never wrap.  `TypeOK` is not inductive; the
  invariant adds, for each file, that a first page or sheet is never beyond the current
  counter, and that the current file exists whenever the phase says that
  one is open.
* `PagesWellFormed`: unless ranks are aligned with phantom virtual pages under a selection
  (`FileAlign = "rank"`, `~VirtualForce` and `~EveryPage`), `PageStructure` and
  `SheetCount` always hold, whatever is selected, delegated, failed or ignored.
  The invariant relates `job.virtual`, `job.page`, `job.label` and
  `job.toVoid`: between two actions `virtual` is positive exactly when a page
  was begun and not shown, and then its label is pending; it is 0 whenever a
  delegated file starts, and below the page's capacity outside a virtual page and while text is skipped.  It is needed because
  `page_end` looks at none of these and trusts `virtual`, and `page_flush`
  turns the output on again on that evidence only.  The exception is the case where the property really fails; without
  a selection it does not, because `job.pages` and `job.virtual` are then the same modulo the rank (`RankInv`), so that a
  phantom page never comes first on a page.
* `TextUnderItsEncoding`: when every page is selected, `EncodingsSound`.  The invariant `EncodingInv` says what `cur`, `saved` and
  `opened` of `psgen.c`, which outlive pages and files, have to be, and the dictionary of the printer: in a virtual page
  all are the encoding asked for last (`Opened`); outside, none is open and `saved` is that encoding (`Closed`).
  With a selection the property fails, as the divergences say.
* `FilesStartApart` and `FilesStartAligned`: with any selection, `FilesApart` and `AlignedStart`.  `ApartInv` says that no file ends beyond
  `job.sheets`, that a later file starts after the last sheet of the earlier ones, and that a file that has no sheet yet finds `job.virtual` at 0
  and the next sheet aligned (`Ready`): nothing that is thrown away, delegated or ignored before its first sheet may lose the alignment.
* `CountersAreTrue`: with the same exception as `PagesWellFormed`, `CountersTrue`.  `CountInv` relates `job.pages`, the first page noted in the
  current file and the virtual pages that the reader saw, at each phase between the start of a file and its end.

The assumption `PageAssumption` on the constants is the one that TLC evaluates in the
runs of `MCSheetTitles`.  A step of `SheetTitles` is a step of `PageEngine`, so what is proved of the pages holds
of the runs that also write the titles.

The library: for any set of files, of any length, that include each other in any way,

* `LibraryReads` (`LibraryProofs`): `Spec => [](TypeOK /\ IncludedOnce /\ SetupDiverted)`.  `output_file` calls
  itself no deeper than there are files to include, no line of an included file is written
  twice, and the setup of the document gets the lines of the setup sections, with what is included there, and no other;
* `FilesReadAlways` (`LibraryProofs`): the property `FilesRead` that the run checks is one of `DocumentsSpec`.

`IncludedOnce` is not inductive: it speaks of what was written and not of what can be written again.  `LibraryInv` adds that every
file on the stack but the prologue is recorded (`Recorded`) and is there once (`CalledOnce`), and
that the lines written of it are before the one that is read next (`WrittenBehind`).  `SetupDiverted`, of the top of the stack, needs the same of each call
below it (`Nested`), because `%%EndSetup` and the return of a call go back to what was.  The lines of the prologue
are exempt, for the reason given above (`PrologueOnce`).  The one assumption is
`LibraryAssumption`: the prologue is a file, and a file is not one of the other lines.

The fonts, for any encodings, substitutions, printer, prologue and files:

* `FontsAlwaysProvided` (`LibraryProofs`): `R!Spec => [](R!TypeOK /\ R!InitialIncludedOnce /\ R!FontsProvided /\ R!FacesDefined)`, `R` being `Resources` in `MCDocuments`;
* `FontsReadyAlways` (`LibraryProofs`): the property `FontsReady` that the run checks is one of `DocumentsSpec`.

`add_required_font` writes a comment for a font only the first time, and where the diversion is at that moment, while `font_infos` remembers the fonts of every encoding.  The invariant says that
what any encoding names is needed or supplied as the printer knows it or not (`Fonted`), that until the pages begin the comments are outside of them, so that needed and
included are the same (`Preparing`), and that an encoding that is loaded later is built at once, because the faces have their fonts by then (`Prepared`).
`FacesDefined` needs what the loop of `dump_encoding_setup` leaves of the names: it removes names while it goes forward and so does not look at the name after each one that it removes, but it
removes no name that stands for an ordinary font, whatever it skips (`ReencodedKept`, by an induction along the fold); a name that it removes is that of a special font (`ResolveSpecial`), which is defined apart.
The assumption `ResourcesAssumption` is evaluated in `Documents`: the fonts are a sequence of names, and neither the default font nor what replaces a font is special.

The diversion, for any resources, sizes of the chunks, and any number of lines, pages and events, in the void or not:

* `DumpFaithfulAlways` (`DiversionProofs`): `DocumentsSpec => []DumpFaithful`;
* `HeaderTrueAlways` (`DiversionProofs`): `DocumentsSpec => []HeaderTrue`.

Nothing in the text says what a hole is for: a NUL is a NUL, and the dump counts them.  `DivInv` keeps a function `h` from the derivations to the places of their NULs (`Marks`): it
increases, there is a NUL exactly at those places, and the items written between two holes are the text between their NULs (`Holed`).  It must hold in the void and across
`subcontract`, which leaves the void for a while (`PutFacts`, `PutsFacts`, `SubcontractStep`).  `TextRun` then says what `fputs` gives from one NUL to the next, and `DumpGives` that the fold of `output_dump`
is the concatenation of what each item stands for.  What was written begins with the hole of the header, it has as many holes for labels and as many lines that begin a page as there are pages, and nothing else that it shows could be taken for such a line (`WellWritten`).
A chunk holds its text because its length is below its size by one at least, and doubling a size that is no less than `DS_MARGIN` makes room for the longest text (`RoomFacts`).
The header is three zones of comments of which only the first line is not `%%+` (`Zoned`), so the comment a line continues is the one of its zone (`CommentIs`), each zone
being in bijection with the couples of a table (`EntriesFacts`), whatever the order `hash_dump` gives the types in (`OrderFacts`).
The pages are counted along the concatenation: only the line that begins a page shows a line that begins one (`GivenPlain`, `GivenPage`, `PagesCounted`).
What is proved of folds and concatenations (`FlattenSeq`, `FoldLeft`) comes from one induction over sets of numbers (`Induction`), as elsewhere.  `DiversionAssumption` asks that no name
is given twice in the order of the names, and that the sizes are what `MIN_CONTENT` and `DS_MARGIN` are to each other; `Documents` evaluates it.

The input, for texts and samples of any length and every convention for the ends of lines:

* `LinesCounted` (`TextProofs`): `I!Spec => [](I!TypeOK /\ I!SavedWhole) /\ I!CurrentLine`, `I` being `TextInput` in `MCText`;
* `CurrentLineAlways` (`TextProofs`): the property `CurrentLine` that the run checks is one of `TextSpec`.

A line is counted twice, by `buffer_get` when it reads the line and by `ps_print_char` when it comes to its end.  `InputInv` relates `buffer->line` and
`file->lines` to the lines that were read: they agree from one call of `buffer_get` to the next as long as no end of line was printed (`Printing`), which is where a page may end;
and the sample and the stream are together the input until a line is read, which is what `buffer_save` needs.

The text engine, for any faces, encodings and options, any size of the pages and any characters:

* `TextPlaced` (`TextProofs`): `E!Spec => [](E!TypeOK /\ E!StringsBalanced /\ E!FacesShown /\ E!InsideFrame /\ E!TabsForward)`, `E` being `TextEngine` in `MCText`;
* `GlyphsPlacedAlways` (`TextProofs`): the property `GlyphsPlaced` that the run checks is one of `TextSpec`.

The invariant `Body` says what holds between two characters of a file: what the open string shows is in the current face, which is the
printer's font once it is declared (`FontsAgree`); a2ps and the printer agree on the row; and they agree on the place in it (`PensAgree`) unless the line
is cut, and then the line is full and is not folded.  The last part is needed because of a character that ends no line after the cut: with `interpret` off, a form feed
is printed as a glyph, takes the line out of `is_in_cut` for a moment, and must be cut again.  There is one lemma for each function of
`psgen.c`, and a line that is folded or a tab is their composition.  A tab goes forward whatever the widths (`TabBeyond`), because it is counted
from the columns that the width fills, rounded up.  The assumption `TextAssumption` is evaluated in `Text`; what it asks is that any glyph fits in a line.

The highlighting (`TextProofs`), for any style sheet, any alphabets and any lines and files:

* `LexerAlwaysSound`: `TextSpec => []LexerSound`;
* `LexerAlwaysAdvances`: `TextSpec => LexerAdvances`;
* `LineEndsUnlessEndless`: if no sequence of the sheet is `Endless`, each token advances in the line or lowers `Rank`, which is at most 2.

Nothing is assumed of the length of what matches.  A token may be empty, and then the sheet has an expression that matches the empty string in the
sequence where it is read (`EmptyToken`).  If it closes or opens a sequence, `Rank` falls (`EmptyTokens`) unless the one that it opens
would be closed there too; if it does neither, it is read again for ever.  These are the sheets that `Endless` describes: the hang is one of the disagreements above,
and the second theorem is the most that can be said of the end of a line.

What the next token is depends on the open sequence and on the place in the line, and on nothing else that outlives it but the face of
the plain characters (`WordAt`, `FacedAt`, `PlainAt`): `TokenIn` and `TokenOut` say so for each way out of `ssh_get_token`, and that what is matched ends in the line and is
empty only if the sheet says so (`EmptyToken`).  So the lexer and its twin, which begins with the current file, read the same tokens (`Level`, `PairStep`).  They
print them in the same faces as soon as something but plain characters is read (`Alike`), because the right hand side of a rule is not empty and its last face stays; until then both
grab nothing (`Idle`), and so the marks they grab are the same all along.  The loop over a right hand side is a recursive function, and what it does follows from what one string does by
an induction over sets of states (`TokenKeeps`, from `Induction`, from the well-founded order of the naturals).  Two assumptions are evaluated in `Text`:
`HighlightAssumption` gives the shape of what the parser of sheets builds (rules of words or of one expression, right hand sides that are not empty), and `QuietSequences`, which only `SettledIndependent` needs, that no
sequence prints in a face that grabs: such a face would outlive its file, as the divergence about the first characters of a file shows.

The hash tables (`HashTabProofs`), for any keys, any hash functions, any size asked for, and any sequence of insertions,
deletions and copies:

* `TableAlwaysSound`: `Spec => []TableSound`.  `hash_find_slot` returns the slot of each key that is stored, `ht_fill` counts the
  items, and the search of any key ends as long as a slot is empty;
* `TableImplementsMap`: `Spec => ImplementsMap`.  Each operation does to the pairs what `FiniteMap` says, and a turn of the loop of
  `hash_rehash` changes none of them.

The arithmetic is in `ProbesCover`: the step of the search is odd and the size a power of two, so the slots looked at in `size`
turns are all different (`OddFactor`: an odd factor of a power of two is 1), hence all the slots.  The invariant `Tables` says what `TableSound`
leaves out: each item is on a path without empty slots from where its search begins (`Sound`), which markers and
copies keep (`PathKept`); no key is both in the new table and still to be copied; and while the old
vector is copied, no more slots of the new one are used than were read of the old one, so that the loop of `hash_rehash`
always finds an empty slot although it copies markers too.  Hence it is only between two calls, in a table full of items and markers, that
a search may not end (`SearchReturns`, which does not hold: see the divergences).  The refinement says that a map is the set of its pairs (`Has`, `MapIs`),
and compares the pairs before and after each step.  The assumptions are `HashAssumption` (a null pointer is not a value,
`hash_deleted_item` is not a key, the hashes are natural numbers) and `SizeAssumption`: `InitialSize`, computed by `RoundUp2`, has no odd divisor but 1.
It says in terms of divisors that it is a power of two, because the provers know nothing of the exponentiation; TLC evaluates it in `Containers`.
The counters are natural numbers here, and `unsigned long` in the code.

The configuration (`ConfigurationProofs`), for any configuration files, as they are written or not ended, any options and
command lines, media and bounds:

* `ConfigTypeAlways`: `Spec => []ConfigTypeOK`;
* `FirstLineAlways`: `Spec => []FirstLineIsFirst`;
* `OptionsGovernAlways`: `Spec => []OptionsGovern`;
* `LayoutAlways`: `Spec => []LayoutFits`.

`Types` says what the frames, the tapes and the job are, with what every table of options puts in the job (`JobOK`, one lemma for each family of
options: `Applied` is what an option may do of the job, `Entered` what an entry of a file may).  `Stack` gives the stack its shape, vectors of
options above files (`Bounded`), since a vector is pushed on a file or on a vector and a file only on files; and each file its place (`Reads`): `lastline` is the physical line, and one ahead
when an entry is continued, when `firstline` is where it starts.  The place of a file that waits below another is kept because the tapes only grow, and not
once they end; at the end of a tape `lastline` may stay ahead, and is not used again.  `Governs` says of the list of options that were applied that the last about the scale gave the three fields of the scale, and
that without `-S` the page device agrees with the sides; entries keep it because none touches these fields.
`Printed` remembers what the task computed.  From there it is arithmetic: an announced number of lines or columns is a quotient, and what it stands for
is not above the room (`LinesFit`, `ColumnsFit`), whichever of the options fixed the font.  The places of the virtual pages are what a stack
calculator makes of the program `n {dup 1 add}` of the prologue: each value is found from the prefixes of the concatenation (`Flattened`, `RunFacts`), then block by
block (`BlockValues`), for the four programs (`RowsX`, `RowsY`, `ColumnsX`, `ColumnsY`).

`TextInRoom` has a hypothesis, `Converts`: with a font so large that the columns come to -1 or less, the conversion to `unsigned` is not defined in C.
The assumptions are evaluated in `Startup`: the numbers read and the sizes of media are of the width of the program (`NumberAssumption`, `MediaAssumption`, `WordModAssumption`: wide
enough for the 80 columns that the program itself asks for), `getopt_long` answers an option that exists (`OptionsAssumption`), the files are made of lines of words (`WorldsAssumption`),
and there is room for one file and one vector (`BoundsAssumption`).

The run as a whole (`PrintSessionProofs`), for any requests, any files on the disk, any number of files and of signals:

* `RunLeavesNoTemporary`: `Spec => []TempFilesRemoved`;
* `RunKeepsOldOutput`: `Spec => []OldOutputSafe`;
* `RunTypeOK`: `Spec => []SessionTypeOK`;
* `RunFindsResults`: `Spec => []DumpsReadable`, the half of `DocumentWhole` that is about the files;
* `RunSendsDocument`: `Spec => []DocumentWhole`.

`TempFilesRemoved` speaks of the end of the run.  The invariant `SessionInv` says what it comes from at each step.  `TempInv` gives, for each
handler that has still to run, the files that are left to it: while the program works, and until `cleanup_tempfiles` is through, what is temporary was recorded, or is just being
made; once it is through nothing is left, unless a signal has cut it short, and then `exit_handler` still removes what the
variables of the job name.  `NameInv` says that a step that uses such a variable comes after the one that has filled it, which
needs that a name is only given to a variable that has none.  `OutInv` says where the file that the output replaces is: under its own name while files are read, under that of
`backup_name` from the moment `fopen_backup` returns; that nothing is sent unless `native_jobs` or `delegated_jobs` counts it; and that
before the output is opened the disk holds what was there at first and temporary files, so that the number `BackupNext`
is free.  `ResultInv` follows the results of the delegations: a variable that names a temporary file names it alone (`NamesApart`), because a
name is recorded before the next file is made; the file of the current job gives nothing before it is printed (`Unfinished`), so that `fate` and `read` are final once they
matter; while files are read each result waits in its file (`Waiting`), and what is delayed is about results that succeeded, with no removal before a dump (`Delayed`);
once the output is opened, what is still to be dumped is there (`Sendable`).

`DocInv` says what is sent, with the content of each delayed file in the place of its name (`Answers`) and what the files gave joined in
their order (`Pieces`).  While files are read, what the diversion gives is what they gave (`ReadInv`): a step that
prints a file appends to both, and no other step changes the content of what is delayed (`AnswersStay`).  Once the output is opened, what was
written followed by what the queue still gives is the whole document (`SendInv`): each step moves one entry from the second to
the first (`EntrySent`).  Sent alone, the only delegation gives its result because `delegated_jobs` counts the results (`ReadInv`) and the
last file that has the name of a result is then the one that succeeded, unless another failed (`Answered`, `SendAloneSends`): that is
the exception of `DocumentComplete`, and the divergence that `BugDelegation` shows.  After the last entry nothing
that the end of the run removes is the output (`SentInv`).  The entries are joined with `FlattenSeq`, a recursive function, about which the lemmas are
proved with an induction over sets (`Induction`, `FlattenAppend`, `FlattenHead`).

`SessionAssumption` says that a null pointer is none of the files and no fate of a file, that no file has the
name of a temporary one at first, and that the model has one number left for a backup.

The typing of files (`FileTypingProofs`), for any map, any depth of inclusion, any sheets and any files:

* `MapAsWrittenAlways`: `TypingSpec => []MapAsWritten`;
* `TypedAndPrintedAlways`: `TypingSpec => []TypedAndPrinted`.

The map means what its text means with its inclusions in place (`Expansion`), and this text is what the invariant speaks of: so many of its tokens are read (`ReadTo`),
none of them is wrong, the rules are those among them, and the key is the last one before. Each file of the stack stands somewhere in the text,
its place gives how far it is read, and the file that it includes is expanded exactly there (`Stacked`): an inclusion moves nothing, the end of a file
goes back to the place after the inclusion, and what ends the program is the next token, wrong in the text itself.
Where the pieces of a concatenation begin is the lemma `Placed`; which of the rules is the next one, `NthNext`.

A file is typed as if it came alone because the sample has no name until a standard input is read (`SampleInv`), and because the rules
that `get_command` goes through are those of the whole map, wherever it was read (`CurrentInv`, `TypeIsAlone`).
What is printed with a sheet follows the recursion of `get_style_sheet` (`Linked`): each frame of the stack waits for one of its ancestors, and this is what the call above
asks for, loads, and gives back under the same key, which neither the parser nor the inheritance changes (`LineageParsed`, `LineageKept`).  A mixed sheet is only
at the bottom, since no ancestor is a mix: what it has found, what it waits for and what `strtok` still holds make the key asked for, in this order (`MixNextKeeps`).
So a request that succeeds gives the sheet of the type, and one that fails is about a name that has no file, or the program has ended.
`FileTypingAssumption` says that a map is made of files of tokens, that no key is the null pointer, and that no sheet names a mix among its ancestors.

Only model-checked: `SheetTitles`, what a sheet holds once it is loaded (`Inheritance`, `SheetsReady`), `Arrays`, `Lister` and `PlainReader`.  Of `TextInput`, `LinesIntact` compares the lines with a recursive definition of them.  Of `Configuration`, `InPlace` and
`DeclarationsGovern` compare the job with the meaning of whole texts, which is recursive.  Out of the prover's reach are liveness under fairness
(`AlignmentEnds`, `ReadingEnds`, `FilesEnd`), and what a recursive operator or a fold of the library computes for every input
(the sort and the merge of `Arrays`, the expansions of `MetaSequence`).

## Not modelled

`PROJECT.json` lists what is left out.  As components: the vendored `regex.c`, the grammars and generated
lexers (what they build is modelled where it is used), and the data: sheets, encodings, fonts, PostScript, scripts.
Within the modelled components: the wording of messages, listings and comments; the escapes inside the
PostScript strings (`caret.c`); the capture groups of the regular expressions (a rule is known by the words it matches, whatever surrounds them) and the null character in a line; the tags 2
to 4, which are handled as tag 1 is; the calendar formats of the meta sequences; the parsing of digits, units,
metrics and printer descriptions, which is the reading of tables; the lower case copy of a line; the directory
listings of `filtdir.c`; the document that a delegation gives (`Diversion` takes it for one item: the pages that it adds to the number of sheets are counted in `SheetTitles` and not there) and the password database of `userdata.c`; constructors, destructors and memory.

## Plan

The plan of the modules is carried out: the page engine with its titles, the text from the input to the page, sheets
and typing, the documents and their library, the startup, the session and the containers.  What is left, in order:

1. Theorems: what the sheets hold once loaded (`StyleSheets`), the titles and the range of the sheets (`SheetTitles`).
2. The composition of `PrintSession` with `PageEngine`: the results of delegations among pages that are not selected.
3. The capture groups of the highlighting, and the calendar of the meta sequences.
