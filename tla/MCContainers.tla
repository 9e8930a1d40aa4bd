---------------------------- MODULE MCContainers ----------------------------
(* The two containers of liba2ps, and the listings of what they contain,   *)
(* each on its own: a behaviour is that of a hash table, of two arrays or  *)
(* of a listing, as `part' says.                                           *)
EXTENDS HashTab, Sequences, TLC

CONSTANTS k1, k2, k3, k4, k5

(* Two keys share their whole path, others meet it.                        *)
First1 == k1 :> 0 @@ k2 :> 0 @@ k3 :> 6 @@ k4 :> 3 @@ k5 :> 1 @@ DELETED :> 2
First2 == k1 :> 1 @@ k2 :> 0 @@ k3 :> 2 @@ k4 :> 5 @@ k5 :> 0 @@ DELETED :> 1
MCHash1 == [k \in Keys \cup {DELETED} |-> First1[k]]
MCHash2 == [k \in Keys \cup {DELETED} |-> First2[k]]

Items(words, first) == [i \in DOMAIN words |-> [word |-> words[i], id |-> first + i]]
Words(lengths, count) == UNION {[1 .. n -> 1 .. count] : n \in lengths}
Ordered(words) == \A i \in 2 .. Len(words) : words[i - 1] <= words[i]

(* Any array to sort; two sorted ones to merge; two short ones.            *)
MCPairs ==
  {<<Items(s, 0), << >>>> : s \in Words({4}, 3) \cup Words({6}, 2)}
  \cup {<<Items(s, 0), Items(t, 5)>> : s \in {w \in Words({0, 1, 3}, 3) : Ordered(w)},
                                       t \in {w \in Words({1, 3}, 3) : Ordered(w)}}
MCGrowths == {[is |-> "linear", size |-> 2, by |-> 1], [is |-> "geometrical", size |-> 2, by |-> 2]}

VARIABLES part, a, b, work, before, calls,
          items, tterm, format, phase, worlds, itemno, cols, pos, cursor, screen
arrays == <<a, b, work, before, calls>>
listing == <<items, tterm, format, phase, worlds, itemno, cols, pos, cursor, screen>>

R == INSTANCE Arrays WITH WordCount <- 3, Pairs <- MCPairs, Growths <- MCGrowths,
       Limit <- 2, MaxCalls <- 2, MaxLength <- 9

(* Items as narrow as a column may be, others wider than a terminal; the   *)
(* default settings.                                                       *)
L == INSTANCE Lister WITH
       Lists <- UNION {[1 .. n -> {1, 3, 7}] : n \in 1 .. 5} \cup {[i \in 1 .. 9 |-> w] : w \in {1, 2, 3}},
       Terminals <- [width : {6, 12, 20}, tabsize : {0, 4, 8}],
       Before <- 2, Between <- 2

NoArrays  == a = 0 /\ b = 0 /\ work = [op |-> "none"] /\ before = 0 /\ calls = 0
NoListing ==
  /\ items = "none" /\ tterm = "none" /\ format = "none" /\ phase = "none" /\ worlds = "none"
  /\ itemno = 0 /\ cols = 0 /\ pos = 0 /\ cursor = 0 /\ screen = "none"

ASSUME L!ListerAssumption

ContainersInit ==
  /\ Init
  /\ \/ part = "hash" /\ NoArrays /\ NoListing
     \/ part = "arrays" /\ R!Init /\ NoListing
     \/ part = "listing" /\ NoArrays /\ L!Init

ContainersNext ==
  \/ part = "hash" /\ Next /\ UNCHANGED <<part, arrays, listing>>
  \/ part = "arrays" /\ R!Next /\ UNCHANGED <<part, vars, listing>>
  \/ part = "listing" /\ L!Next /\ UNCHANGED <<part, vars, arrays>>

ContainersSpec ==
  ContainersInit /\ [][ContainersNext]_<<part, vars, arrays, listing>>

(* The items of an array stay within what was allocated for them, also in  *)
(* a clone; da_qsort orders the items it was given, a short array stably,  *)
(* with a stack that is at most logarithmic (darray.c).                    *)
SortSound == part = "arrays" => R!TypeOK /\ R!InRoom /\ R!SortOrders /\ R!SortStackShort

(* The loops of da_merge compute the closed form that the style sheets     *)
(* rely on, and da_unique leaves the first of each doubles.                *)
MergeSound == part = "arrays" => R!MergeMatches /\ R!UniqueLeavesFirst

(* Every turn of a loop over an array gets it closer to its end.           *)
LoopsAdvance == [][part = "arrays" => R!Advance]_<<part, arrays>>

(* A listing has each item once and apart from the others, in as many      *)
(* columns as go in the line, or on lines as full as they go (lister.c).   *)
ListingFits ==
  part = "listing" => L!TypeOK /\ L!ItemsApart /\ L!ColumnsRead /\ L!ColumnsMost /\ L!LinesFilled
=============================================================================
