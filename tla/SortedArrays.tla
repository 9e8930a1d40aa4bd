---------------------------- MODULE SortedArrays ----------------------------
(***************************************************************************)
(* What the sorting functions of darray.c compute, in closed form, for     *)
(* arrays of records compared by their field `word'.  The words are the    *)
(* numbers 1 .. WordCount, in the order of strcmp.  Arrays.tla follows the *)
(* loops themselves and checks that they compute this.                     *)
(***************************************************************************)
EXTENDS Naturals, Sequences, SequencesExt

CONSTANT WordCount

(* The items of an array that compare equal to a word, in their order.     *)
Group(arr, w) == SelectSeq(arr, LAMBDA item : item.word = w)

(* An array made of one group for each word, in the order of the words.    *)
Regrouped(group) == FlattenSeq([w \in 1 .. WordCount |-> group[w]])

InOrder(arr) == \A i, j \in DOMAIN arr : i < j => arr[i].word <= arr[j].word

(* da_qsort, below QSORT_INSERT_SORT_LIMIT items: a stable sort.           *)
Sorted(arr) == Regrouped([w \in 1 .. WordCount |-> Group(arr, w)])

(* da_merge.  The items of a2 are all inserted at one place, and so come   *)
(* in the reverse order; da_2_wins skips those of a1 and leaves them.      *)
MergedGroup(g1, g2, policy) ==
  IF policy = "da_1_wins" /\ g1 # << >> THEN g1 ELSE g1 \o Reverse(g2)

Merged(a1, a2, policy) ==
  Regrouped([w \in 1 .. WordCount |-> MergedGroup(Group(a1, w), Group(a2, w), policy)])
=============================================================================
