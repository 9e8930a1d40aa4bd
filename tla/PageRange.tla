----------------------------- MODULE PageRange -----------------------------
(***************************************************************************)
(* Selection of the pages to print (liba2ps/prange.c): intervals, and the  *)
(* predicate print_page which the page engine asks.                        *)
(***************************************************************************)
EXTENDS Naturals

(* struct interval: a null bound means "open on that side".                *)
Interval == [min : Nat, max : Nat]

(* interval_is_in                                                          *)
IntervalIsIn(iv, p) ==
  IF iv.min # 0 /\ iv.max # 0 THEN iv.min <= p /\ p <= iv.max
  ELSE IF iv.min # 0 THEN iv.min <= p
  ELSE p <= iv.max

(* print_page: ivs is the set of the intervals given with --pages, toc     *)
(* whether "toc" was among them, isToc whether the current file is the     *)
(* table of contents.                                                      *)
PrintPage(ivs, toc, isToc, p) ==
  \/ toc /\ isToc
  \/ ivs = {} /\ ~toc
  \/ \E iv \in ivs : IntervalIsIn(iv, p)
=============================================================================
