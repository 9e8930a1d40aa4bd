---------------------------- MODULE MCDocuments ----------------------------
(* What a document takes from the library: the files that are read (a      *)
(* prologue and one it may include), the fonts and encodings, and the      *)
(* diversion where it waits until it is complete.  Each behaviour is that  *)
(* of one of the three, as `part' says.                                    *)
EXTENDS Library

CONSTANTS
  (* Of Resources.                                                         *)
  Encodings, Requested, Fonts, Existing, Known, Faces, Substitutes, Default,
  Slanted, Skips, MidLine, Delegates,
  (* Of Diversion; Builtin are the fonts of its printer.                   *)
  Names, Builtin, MinContent, Margin, MaxLines, MaxEvents

VARIABLES part, phase, job, outs, resources, labels, sheets, steps, stream, written
resourcesVars == <<phase, job>>
diversionVars == <<outs, resources, labels, sheets, steps, stream, written>>

R == INSTANCE Resources
D == INSTANCE Diversion WITH Known <- Builtin

ASSUME DocumentsAssumption == R!ResourcesAssumption /\ D!DiversionAssumption

NoLibrary == lines = << >> /\ stack = << >> /\ needed = {} /\ wrote = << >> /\ result = "none"
NoDiversion ==
  /\ outs = "none" /\ resources = "none" /\ labels = "none" /\ sheets = 0 /\ steps = 0
  /\ stream = "none" /\ written = "none"

DocumentsInit ==
  \/ part = "library" /\ Init /\ NoDiversion /\ phase = "none" /\ job = "none"
  \/ part = "resources" /\ R!Init /\ NoLibrary /\ NoDiversion
  \/ part = "diversion" /\ D!Init /\ NoLibrary /\ job = "none"

LibraryNext == part = "library" /\ Next /\ UNCHANGED <<part, resourcesVars, diversionVars>>

DocumentsNext ==
  \/ LibraryNext
  \/ part = "resources" /\ R!Next /\ UNCHANGED <<part, vars, diversionVars>>
  \/ part = "diversion" /\ D!Next /\ UNCHANGED <<part, vars, job>>

DocumentsSpec ==
  /\ DocumentsInit /\ [][DocumentsNext]_<<part, vars, resourcesVars, diversionVars>>
  /\ WF_vars(LibraryNext)

(* A file of the library is included at most once, whichever files ask for *)
(* it, and its setup sections go to the setup of the document, all of them *)
(* and nothing else (output_file).                                         *)
FilesRead == part = "library" => TypeOK /\ IncludedOnce /\ SetupDiverted

(* The fonts of the dictionaries are needed by the document or supplied    *)
(* with it, those known when the pages begin are included once, and every  *)
(* face has a font and widths in the encoding in use (encoding.c, dsc.c).  *)
FontsReady ==
  part = "resources" => R!TypeOK /\ R!InitialIncludedOnce /\ R!FontsProvided /\ R!FacesDefined

(* The document that is dumped is what was written where the diversion was *)
(* not the void, in order, with the labels and numbers of the end, and its *)
(* chunks had room for it (output.c, dstring.c).                           *)
DumpFaithful == part = "diversion" => D!TypeOK /\ D!ChunksHold /\ D!DumpOrdered

(* Its header names each of its resources once, under the right comment    *)
(* (dsc.c).                                                                *)
HeaderTrue == part = "diversion" => D!HeaderTells
-----------------------------------------------------------------------------
(* The instance that is checked: two files, and a few fonts, substituted   *)
(* as in the edf files.                                                    *)
CONSTANTS pro, base

MCFiles == {pro, base}
MCFonts == <<"Courier", "Courier-Ogonki", "Symbol", "Symbol-Bold">>
MCSubstitutes ==
  {<<"latin2", "Courier", "Courier-Ogonki">>, <<"latin1", "Symbol-Bold", "Courier">>}
MCNames == <<"a2ps", "base", "color">>
=============================================================================
