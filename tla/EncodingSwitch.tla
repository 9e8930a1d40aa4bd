--------------------------- MODULE EncodingSwitch ---------------------------
(***************************************************************************)
(* The encoding state of the PostScript generator (liba2ps/psgen.c, the    *)
(* "Dealing with the encodings" section).  a2ps remembers an encoding in   *)
(* several places at once: job->encoding, job->saved_encoding and          *)
(* status->opened_encoding, while the printer knows only the dictionary it *)
(* was last told to open.  The record below keeps all of them together, so *)
(* that the operators can be composed in the order of the C calls.         *)
(*                                                                         *)
(* Every operator takes "void": whether the diversion currently forgets    *)
(* what it is sent (output_is_to_void).                                    *)
(***************************************************************************)
EXTENDS Naturals, FiniteSets

CONSTANTS
  Encodings,  (* the encodings a document can ask for                      *)
  Requested,  (* job->requested_encoding, given by -X                      *)
  NULL        (* the C null pointer                                        *)

ASSUME EncodingAssumption == /\ Requested \in Encodings
                             /\ NULL \notin Encodings

(* What a printer (or a2ps itself) cannot survive.                         *)
EncFaults == {"dict nested", "end without dict", "null encoding"}

EncState == [ cur    : Encodings \cup {NULL},  \* job->encoding
              opened : Encodings \cup {NULL},  \* status->opened_encoding
              saved  : Encodings \cup {NULL},  \* job->saved_encoding
              dict   : Encodings \cup {NULL},  \* dictionary open in the printer
              faults : SUBSET EncFaults ]

(* State after a2ps_job_new, then ps_begin.                                *)
EncInit == [ cur |-> NULL, opened |-> NULL, saved |-> Requested,
             dict |-> NULL, faults |-> {} ]

(* ps_set_encoding: the name of the dictionary is taken from x even when   *)
(* the text is thrown away, so a null x is fatal in both cases.            *)
PsSetEncoding(e, x, void) ==
  [e EXCEPT !.cur    = x,
            !.opened = x,
            !.dict   = IF void THEN @ ELSE x,
            !.faults = @ \cup (IF x = NULL THEN {"null encoding"} ELSE {})
                         \cup (IF ~void /\ e.dict # NULL THEN {"dict nested"} ELSE {})]

(* ps_end_encoding: an "end" is printed only if a2ps believes that a       *)
(* dictionary is open.                                                     *)
PsEndEncoding(e, void) ==
  LET prints == e.opened # NULL /\ ~void
  IN [e EXCEPT !.cur    = NULL,
               !.opened = NULL,
               !.dict   = IF prints THEN NULL ELSE @,
               !.faults = @ \cup (IF prints /\ e.dict = NULL
                                  THEN {"end without dict"} ELSE {})]

(* ps_internal_switch_encoding: outside a body (nothing opened yet) only   *)
(* the C variable moves.                                                   *)
PsInternalSwitch(e, x, void) ==
  IF e.cur = x THEN e
  ELSE IF e.opened # NULL THEN PsSetEncoding(PsEndEncoding(e, void), x, void)
  ELSE [PsEndEncoding(e, void) EXCEPT !.cur = x]

(* ps_switch_encoding, called for a document's own request.                *)
PsSwitchEncoding(e, x, void) ==
  IF e.cur = x THEN e ELSE [PsInternalSwitch(e, x, void) EXCEPT !.saved = x]

PsPushEncoding(e, x, void) ==
  PsInternalSwitch([e EXCEPT !.saved = e.cur], x, void)

PsPopEncoding(e, void) == PsInternalSwitch(e, e.saved, void)
=============================================================================
