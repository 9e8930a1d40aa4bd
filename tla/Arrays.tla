------------------------------- MODULE Arrays -------------------------------
(***************************************************************************)
(* The dynamic arrays of liba2ps/darray.c: their growth, and the loops     *)
(* that sort, merge and thin them out.  Two arrays are worked on; what an  *)
(* item compares by is its word, and its id tells it from its equals.      *)
(***************************************************************************)
EXTENDS Integers, Sequences, FiniteSets, FiniteSetsExt, SequencesExt

CONSTANTS
  WordCount,
  Pairs,      (* the possible contents of the two arrays                   *)
  Growths,    (* the ways to grow: "linear", "geometrical", and by how much*)
  Limit,      (* QSORT_INSERT_SORT_LIMIT                                   *)
  MaxCalls,   (* bound of the model: calls                                 *)
  MaxLength   (* bound of the model: items of an array                     *)

A == INSTANCE SortedArrays

VARIABLES
  a, b,       (* the arrays: items, declared size, allocated room, growth  *)
  work,       (* the loop being run, with its local variables              *)
  before,     (* history: the arrays when the latest call began            *)
  calls       (* history: how many calls were made                         *)

vars == <<a, b, work, before, calls>>

Cmp(x, y) == x.word - y.word
Size(arr) == Len(arr.items)
Array(items, growth) ==
  [items |-> items, size |-> growth.size, room |-> growth.size, growth |-> growth, clone |-> FALSE]

(* da_is_full: one slot is kept free.                                      *)
IsFull(arr) == Size(arr) + 1 >= arr.size

(* da_grow                                                                 *)
Grow(arr) ==
  LET size == IF arr.growth.is = "linear" THEN arr.size + arr.growth.by ELSE arr.size * arr.growth.by
  IN [arr EXCEPT !.size = size, !.room = size]

Ready(arr) == IF IsFull(arr) THEN Grow(arr) ELSE arr

(* da_append and da_insert_at.                                             *)
Insert(arr, item, place) ==
  LET r == Ready(arr) IN [r EXCEPT !.items = InsertAt(@, place, item)]

(* da_new, and an append for each item.                                    *)
Filled(items, growth) ==
  FoldLeft(LAMBDA arr, item : Insert(arr, item, Size(arr) + 1), Array(<< >>, growth), items)

Init ==
  /\ \E p \in Pairs, g \in Growths : a = Filled(p[1], g) /\ b = Filled(p[2], g)
  /\ work = [op |-> "none"] /\ before = [a |-> a, b |-> b, op |-> "none", at |-> 0] /\ calls = 0

Idle == work.op = "none"
Call(op, at) ==
  /\ Idle /\ calls < MaxCalls /\ calls' = calls + 1
  /\ before' = [a |-> a, b |-> b, op |-> op, at |-> at]

(* What may be added to: the callers of da_clone only sort or remove.      *)
MayGrow(arr, n) == ~arr.clone /\ Size(arr) + n <= MaxLength

New(w) == [word |-> w, id |-> 0]

InsertItem ==
  /\ MayGrow(a, 1)
  /\ \E place \in 1 .. Size(a) + 1, w \in 1 .. WordCount :
       Call("insert", place) /\ a' = Insert(a, New(w), place)
  /\ UNCHANGED <<b, work>>

RemoveItem ==
  /\ \E place \in DOMAIN a.items :
       Call("remove", place) /\ a' = [a EXCEPT !.items = RemoveAt(@, place)]
  /\ UNCHANGED <<b, work>>

(* da_concat and da_prefix make room for both at once, with less to spare. *)
Room(arr, n) ==
  IF n > arr.size THEN [arr EXCEPT !.size = n + 1, !.room = n + 1] ELSE arr

Concat ==
  /\ MayGrow(a, Size(b)) /\ Call("concat", 0)
  /\ a' = [Room(a, Size(a) + Size(b)) EXCEPT !.items = @ \o b.items]
  /\ UNCHANGED <<b, work>>

Prefix ==
  /\ MayGrow(a, Size(b)) /\ Call("prefix", 0)
  /\ a' = [Room(a, Size(a) + Size(b)) EXCEPT !.items = b.items \o @]
  /\ UNCHANGED <<b, work>>

(* da_clone: the size is that of the model, the room is for its items.     *)
(* Its callers go on with the clone.                                       *)
Clone ==
  /\ ~a.clone /\ Call("clone", 0)
  /\ a' = [a EXCEPT !.room = Size(a), !.clone = TRUE]
  /\ UNCHANGED <<b, work>>
-----------------------------------------------------------------------------
(* da_qsort, and da_qsort_with_arg, which is the same loop with another    *)
(* comparison.  The bounds are places, from 1; the intervals that wait are   *)
(* two numbers each on istack.                                             *)

StartSort ==
  /\ Call("sort", 0)
  /\ work' = IF Size(a) <= 1 THEN work
             ELSE [op |-> "sort", l |-> 1, ir |-> Size(a), istack |-> << >>]
  /\ UNCHANGED <<a, b>>

StaysBefore(x, y) == Cmp(x, y) <= 0

(* The insertion sort of an interval: each item goes after those that are  *)
(* not greater.                                                            *)
InsertionSorted(items, l, ir) ==
  LET put[j \in l .. ir] ==
        IF j = l THEN <<items[l]>>
        ELSE LET s == put[j - 1]
                 S == {i \in DOMAIN s : StaysBefore(s[i], items[j])}
             IN InsertAt(s, (IF S = {} THEN 0 ELSE Max(S)) + 1, items[j])
  IN SubSeq(items, 1, l - 1) \o put[ir] \o SubSeq(items, ir + 1, Len(items))

Small == work.ir - work.l < Limit

(* Mutant: an interval still waits when its turn has come.                 *)
PopKeep ==
  IF work.istack = << >> THEN work' = [op |-> "none"]
  ELSE work' = [work EXCEPT !.l = Last(work.istack).l, !.ir = Last(work.istack).ir]

Pop ==
  IF work.istack = << >> THEN work' = [op |-> "none"]
  ELSE LET i == Last(work.istack)
       IN work' = [work EXCEPT !.l = i.l, !.ir = i.ir, !.istack = Front(@)]

SortSmall ==
  /\ work.op = "sort" /\ Small
  /\ a' = [a EXCEPT !.items = InsertionSorted(@, work.l, work.ir)]
  /\ Pop
  /\ UNCHANGED <<b, before, calls>>

Swapped(s, i, j) == [s EXCEPT ![i] = s[j], ![j] = s[i]]
SwappedIf(s, i, j) == IF Cmp(s[i], s[j]) > 0 THEN Swapped(s, i, j) ELSE s

(* The median of three goes to l + 1, the others to both ends.             *)
Median(s, l, ir) ==
  LET s1 == Swapped(s, l + (ir - l) \div 2, l + 1)
  IN SwappedIf(SwappedIf(SwappedIf(s1, l, ir), l + 1, ir), l, l + 1)

(* The two scans, and the swaps until they cross.                          *)
Partition(s, pivot, i0, j0) ==
  LET up(t, i)   == Min({k \in i + 1 .. Len(t) : Cmp(t[k], pivot) >= 0})
      down(t, j) == Max({k \in 1 .. j - 1 : Cmp(t[k], pivot) <= 0})
      turn[n \in 0 .. Len(s)] ==
        LET p == IF n = 0 THEN [s |-> s, i |-> i0, j |-> j0] ELSE turn[n - 1]
            i == up(p.s, p.i)
            j == down(p.s, p.j)
        IN IF n > 0 /\ p.j < p.i THEN p
           ELSE [s |-> IF j < i THEN p.s ELSE Swapped(p.s, i, j), i |-> i, j |-> j]
  IN turn[Len(s)]

(* Mutant: the shorter part waits.                                         *)
WaitingShorter(l, i, j, ir) ==
  IF ir - i + 1 < j - l THEN [wait |-> [l |-> i, ir |-> ir], go |-> [l |-> l, ir |-> j - 1]]
  ELSE [wait |-> [l |-> l, ir |-> j - 1], go |-> [l |-> i, ir |-> ir]]

(* "Push pointers to larger subarry on stack.  Process smaller subarrays   *)
(* now"                                                                    *)
Waiting(l, i, j, ir) ==
  IF ir - i + 1 >= j - l THEN [wait |-> [l |-> i, ir |-> ir], go |-> [l |-> l, ir |-> j - 1]]
  ELSE [wait |-> [l |-> l, ir |-> j - 1], go |-> [l |-> i, ir |-> ir]]

SortPart ==
  /\ work.op = "sort" /\ ~Small
  /\ LET l == work.l  ir == work.ir
         s == Median(a.items, l, ir)
         p == Partition(s, s[l + 1], l + 1, ir)
         w == Waiting(l, p.i, p.j, ir)
     IN /\ a' = [a EXCEPT !.items = [p.s EXCEPT ![l + 1] = p.s[p.j], ![p.j] = s[l + 1]]]
        /\ work' = [work EXCEPT !.l = w.go.l, !.ir = w.go.ir, !.istack = Append(@, w.wait)]
  /\ UNCHANGED <<b, before, calls>>
-----------------------------------------------------------------------------
(* da_merge, one turn of its loop at a time; c1 and c2 count from 0.       *)

StartMerge ==
  /\ MayGrow(a, Size(b))
  /\ A!InOrder(a.items) /\ A!InOrder(b.items)   \* "Both *are sorted*"
  /\ \E policy \in {"da_1_wins", "da_2_wins"} :
       Call(policy, 0) /\ work' = [op |-> "merge", c1 |-> 0, c2 |-> 0, policy |-> policy]
  /\ UNCHANGED <<a, b>>

(* From c, as long as the place is one of those passed.                    *)
While(arr, c, passed) == Min((c .. Size(arr)) \ passed)
Equals(arr, x) == {k \in 0 .. Size(arr) - 1 : Cmp(arr.items[k + 1], x) = 0}
Before(arr, x) == {k \in 0 .. Size(arr) - 1 : Cmp(arr.items[k + 1], x) < 0}

Leave(c1, c2) ==
  IF c2 = Size(b) THEN Size(a) ELSE While(a, c1, Before(a, b.items[c2 + 1]))

(* Mutant: what is in both arrays is skipped in the first one, always.     *)
SkipFirst(c1, c2) ==
  IF c2 = Size(b) THEN <<c1, c2>>
  ELSE <<While(a, c1, Equals(a, b.items[c2 + 1])), c2>>

(* "Skip whatever appears in a1, but is in a2 too"                         *)
Skip(c1, c2) ==
  IF c1 = Size(a) \/ c2 = Size(b) THEN <<c1, c2>>
  ELSE IF work.policy = "da_1_wins"
  THEN <<c1, While(b, c2, Equals(b, a.items[c1 + 1]))>>
  ELSE <<While(a, c1, Equals(a, b.items[c2 + 1])), c2>>

(* "Take what is a2 as long as it is smaller or equal to what appeared     *)
(* last in a1": each goes before the one that was taken just before, which *)
(* the next is compared with, so that only its equals follow it.           *)
Taken(c1, c2) ==
  IF c2 = Size(b) THEN c2
  ELSE IF c1 < Size(a) /\ Cmp(a.items[c1 + 1], b.items[c2 + 1]) < 0 THEN c2
  ELSE While(b, c2 + 1, Equals(b, b.items[c2 + 1]))

MergeTurn ==
  /\ work.op = "merge" /\ (work.c1 # Size(a) \/ work.c2 # Size(b))
  /\ LET skip  == Skip(Leave(work.c1, work.c2), work.c2)
         taken == Taken(skip[1], skip[2])
     IN /\ a' = FoldLeft(LAMBDA arr, y : Insert(arr, y, skip[1] + 1),
                         a, SubSeq(b.items, skip[2] + 1, taken))
        /\ work' = [work EXCEPT !.c1 = skip[1], !.c2 = taken]
  /\ UNCHANGED <<b, before, calls>>

EndMerge ==
  /\ work.op = "merge" /\ work.c1 = Size(a) /\ work.c2 = Size(b)
  /\ work' = [op |-> "none"]
  /\ UNCHANGED <<a, b, before, calls>>
-----------------------------------------------------------------------------
(* da_unique: c moves on past an item that differs from the one before.    *)
StartUnique ==
  /\ A!InOrder(a.items)
  /\ Call("unique", 0) /\ work' = [op |-> "unique", c |-> 1]
  /\ UNCHANGED <<a, b>>

PlaceAfter(c, double) == IF double THEN c ELSE c + 1

UniqueTurn ==
  /\ work.op = "unique"
  /\ IF work.c >= Size(a) THEN work' = [op |-> "none"] /\ a' = a
     ELSE LET double == Cmp(a.items[work.c], a.items[work.c + 1]) = 0
          IN /\ a' = IF double THEN [a EXCEPT !.items = RemoveAt(@, work.c + 1)] ELSE a
             /\ work' = [work EXCEPT !.c = PlaceAfter(work.c, double)]
  /\ UNCHANGED <<b, before, calls>>

Turn == SortSmall \/ SortPart \/ MergeTurn \/ EndMerge \/ UniqueTurn

Rest == Idle /\ calls = MaxCalls /\ UNCHANGED vars

Next ==
  \/ InsertItem \/ RemoveItem \/ Concat \/ Prefix \/ Clone
  \/ StartSort \/ StartMerge \/ StartUnique \/ Turn \/ Rest

Spec == Init /\ [][Next]_vars
-----------------------------------------------------------------------------
Item == [word : 1 .. WordCount, id : 0 .. MaxLength]

(* The variables have their types, and the places the loops are at are     *)
(* places of the arrays.                                                   *)
TypeOK ==
  /\ \A arr \in {a, b} :
       arr.items \in Seq(Item) /\ {arr.size, arr.room} \subseteq Nat /\ arr.clone \in BOOLEAN
  /\ \/ work.op = "none"
     \/ work.op = "sort" /\ work.l >= 1 /\ work.ir <= Size(a)
     \/ work.op = "merge" /\ work.c1 \in 0 .. Size(a) /\ work.c2 \in 0 .. Size(b)
     \/ work.op = "unique" /\ work.c \in 1 .. Max({1, Size(a)})
  /\ calls \in 0 .. MaxCalls

(* Whatever the mix of appends, insertions, concatenations and removals    *)
(* (da_is_full keeps a slot free, da_concat and da_prefix need not), the   *)
(* items never outgrow the room that was allocated for them, and only the  *)
(* clones of da_clone have less room than their declared size.             *)
InRoom ==
  \A arr \in {a, b} : Size(arr) <= arr.room /\ (arr.clone \/ arr.room = arr.size)

(* The items a sort started from.                                          *)
Unsorted == before.a.items
SortedNow == Idle /\ before.op = "sort"

(* da_qsort, whatever it has partitioned, swapped and left waiting, ends   *)
(* with the items it was given, in order, and is stable when it makes only *)
(* an insertion sort: style sheets rely on this for equal keywords.        *)
SortOrders ==
  SortedNow =>
    /\ A!InOrder(a.items)
    /\ Len(a.items) = Len(Unsorted) /\ ToSet(a.items) = ToSet(Unsorted)
    /\ Len(Unsorted) <= Limit => a.items = A!Sorted(Unsorted)

(* The larger part waits and the smaller one goes first: each interval     *)
(* that waits halves the one being sorted, so that at most the logarithm   *)
(* of the size wait, which is what makes the fixed QSORT_STACK enough.     *)
SortStackShort ==
  work.op = "sort" => 2 ^ Len(work.istack) * (work.ir + 1 - work.l) <= Size(a)

(* da_merge, whose loops insert in the array they walk, ends with the      *)
(* closed form the style sheets are modelled with, for both policies.      *)
MergeMatches ==
  (Idle /\ before.op \in {"da_1_wins", "da_2_wins"}) =>
    a.items = A!Merged(before.a.items, before.b.items, before.op)

(* "Leave the first of each doubles": of a sorted array, da_unique leaves  *)
(* exactly one item for each word, the first one.                          *)
UniqueLeavesFirst ==
  (Idle /\ before.op = "unique") =>
    a.items = SelectSeq(before.a.items, LAMBDA x : x = A!Group(before.a.items, x.word)[1])

(* What a loop has left: the intervals to sort; the items to merge, those  *)
(* of b twice since a gets them; the places to look at.                    *)
Left(arr, w) ==
  CASE w.op = "sort"   -> LET todo == Append(w.istack, w)
                          IN Len(todo) + 2 * Cardinality({<<i, n>> \in (DOMAIN todo) \X (1 .. Size(arr)) :
                                                       n \in todo[i].l .. todo[i].ir})
    [] w.op = "merge"  -> 1 + (Size(arr) - w.c1) + 2 * (Size(b) - w.c2)
    [] w.op = "unique" -> 2 + Size(arr) - w.c
    [] OTHER           -> 0

(* Every loop ends, those that change the array they walk included: a turn *)
(* leaves less to do than it found.                                        *)
Advance == ~Idle => Left(a', work') \in 0 .. Left(a, work) - 1
LoopsAdvance == [][Advance]_vars

(* What darray.c:499 says of da_merge: "In the result there are never two  *)
(* equal entries (in the sense of self_cmp)", when each array had none.    *)
(* Not checked: it does not hold, see the README.                          *)
NeverTwoEqual ==
  LET Single(s) == \A i, j \in DOMAIN s : s[i].word = s[j].word => i = j
  IN (Idle /\ before.op \in {"da_1_wins", "da_2_wins"} /\ Single(before.a.items) /\ Single(before.b.items))
       => Single(a.items)
=============================================================================
