------------------------------ MODULE RangeText ------------------------------
(***************************************************************************)
(* The written form of a page selection (liba2ps/prange.c): what --pages   *)
(* is read from, and what `#p' gives to a delegated application, which     *)
(* numbers its pages from 1 while a2ps has printed `offset' pages yet.     *)
(* A written interval is a record: its kind and the numbers it shows.      *)
(***************************************************************************)
EXTENDS PageRange, Integers, Sequences, SequencesExt

CONSTANT SizeMax   (* SIZE_MAX + 1: size_t wraps there                     *)

(* One field of --pages: "3", "3-5", "3-", "-5"; a field that is something *)
(* else, or that ends before it starts, is refused.                        *)
Single(n)  == [kind |-> "single", min |-> n, max |-> n]
Both(m, n) == [kind |-> "both", min |-> m, max |-> n]
From(m)    == [kind |-> "from", min |-> m, max |-> 0]
UpTo(n)    == [kind |-> "upto", min |-> 0, max |-> n]

(* add_pages_interval                                                      *)
AddInterval(range, min, max) ==
  IF max # 0 /\ max < min THEN [range EXCEPT !.failed = TRUE]
  ELSE [range EXCEPT !.intervals = Append(@, [min |-> min, max |-> max])]

(* a2ps_page_range_set_string, of fields: the flag of the toc is reset,    *)
(* the intervals of an earlier option stay.                                *)
ReadField(range, field) ==
  IF field.kind = "toc" THEN [range EXCEPT !.toc = TRUE]
  ELSE IF field.kind \in {"single", "both", "from", "upto"}
  THEN AddInterval(range, field.min, field.max)
  ELSE [range EXCEPT !.failed = TRUE]

ReadRange(old, fields) ==
  FoldLeft(LAMBDA r, f : IF r.failed THEN r ELSE ReadField(r, f), [old EXCEPT !.toc = FALSE], fields)

NewRange == [intervals |-> << >>, toc |-> FALSE, failed |-> FALSE]

(* interval_applies_above                                                  *)
IntervalApplies(i, offset) == ~(i.min <= offset /\ i.max = 0)

(* page_range_applies_above: what `#?p' tests, with a strict comparison.   *)
AppliesAbove(range, offset) ==
  /\ range.intervals # << >>
  /\ \A i \in ToSet(range.intervals) : ~(i.min < offset /\ i.max = 0)

(* Mutant: the end of an interval is not shifted.                          *)
WrittenUnshifted(i, offset) ==
  LET min == IF i.min # 0 /\ i.min <= offset THEN 1 ELSE (i.min - offset) % SizeMax
  IN IF i.max # 0 /\ i.max < offset THEN << >> ELSE <<Both(min, i.max)>>

(* interval_to_buffer: an interval that is passed writes nothing.          *)
Written(i, offset) ==
  LET min == IF i.min # 0 /\ i.min <= offset THEN 1 ELSE (i.min - offset) % SizeMax
      max == (i.max - offset) % SizeMax
  IN IF i.max # 0 /\ i.max < offset THEN << >>
     ELSE IF min = i.max THEN <<Single(min)>>
     ELSE IF min # 0 /\ i.max # 0 THEN <<Both(min, max)>>
     ELSE IF min # 0 THEN <<From(min)>>
     ELSE <<UpTo(max)>>

(* page_range_to_buffer, commas left out: strtok skips them.  When no      *)
(* character is written the string is not ended either: the buffer keeps   *)
(* what it held.                                                           *)
ToBuffer(range, offset, buf) ==
  LET told == SelectSeq(range.intervals, LAMBDA i : IntervalApplies(i, offset))
      text == FlattenSeq([n \in DOMAIN told |-> Written(told[n], offset)])
  IN IF Len(told) <= 1 /\ text = << >> THEN buf ELSE text

(* What the application makes of it, reading as a2ps does: the pages it    *)
(* prints, and whether it refuses.                                         *)
Reading(fields) == ReadRange(NewRange, fields)
=============================================================================
