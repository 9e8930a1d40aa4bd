------------------------------ MODULE HashTab ------------------------------
(***************************************************************************)
(* The hash tables of liba2ps/hashtab.c: open addressing with double       *)
(* hashing, deletion markers, and a copy into a table twice as large when  *)
(* the table is full.  Every table of a2ps (pairs, strings, style sheets,  *)
(* encodings, media, printers, page device keys) is one of these.          *)
(***************************************************************************)
EXTENDS Integers, FiniteSets

CONSTANTS
  Keys, Values,
  NoItem,        (* a null pointer                                         *)
  DELETED,       (* hash_deleted_item                                      *)
  Hash1, Hash2,  (* ht_hash_1, ht_hash_2, of keys and of the marker        *)
  Requested,     (* the size given to hash_init                            *)
  MaxSize,       (* bound of the model: slots                              *)
  MaxDeletes     (* bound of the model: calls that leave a marker          *)

ASSUME HashAssumption ==
  /\ NoItem \notin Values /\ DELETED \notin Keys
  /\ Hash1 \in [Keys \cup {DELETED} -> Nat] /\ Hash2 \in [Keys \cup {DELETED} -> Nat]
  /\ Requested \in Nat \ {0} /\ MaxSize \in Nat /\ MaxDeletes \in Nat

VARIABLES
  ht,       (* the table: its vector, size, fill and capacity              *)
  old,      (* old_vec and its size while hash_rehash copies it            *)
  next,     (* ovp: index of the next slot of old to copy                  *)
  hung,     (* hash_find_slot was called and its loop does not end         *)
  answer,   (* the key the latest call looked for, and what it found       *)
  deletes   (* history: calls that left a marker                           *)

vars == <<ht, old, next, hung, answer, deletes>>

(* The content of a slot: nothing, the marker or an item, told apart by    *)
(* their tag.                                                              *)
Empty  == [tag |-> "empty"]
Marker == [tag |-> "deleted"]
Full(k, v) == [tag |-> "item", key |-> k, value |-> v]

Slot == {Empty, Marker} \cup {Full(k, v) : k \in Keys, v \in Values}

Vacant(s) == s.tag # "item"
Holds(s, k) == s.tag = "item" /\ s.key = k

(* round_up_2.                                                             *)
RoundUp2(n) == 2 ^ (CHOOSE b \in 0 .. n + 1 : 2 ^ b > n /\ \A c \in 0 .. n + 1 : 2 ^ c > n => b <= c)

InitialSize ==
  LET size == RoundUp2(Requested)
  IN IF size > 128 * 1024 THEN size \div 2 ELSE size

(* The size is a power of two: it has no odd divisor but 1.                *)
ASSUME SizeAssumption ==
  /\ InitialSize \in Nat \ {0}
  /\ \A d \in 1 .. InitialSize : d % 2 = 1 /\ InitialSize % d = 0 => d = 1

Table(size) == [i \in 0 .. size - 1 |-> Empty]
-----------------------------------------------------------------------------
(* hash_find_slot.  The n-th slot looked at, and the turns of the loop     *)
(* where it stops; within t.size turns it has seen all the slots it ever   *)
(* will.                                                                   *)
Probe(t, k, n) == (Hash1[k] + n * (2 * (Hash2[k] \div 2) + 1)) % t.size

Turns(t) == 0 .. t.size - 1

Stops(t, k) ==
  {n \in Turns(t) : LET s == t.vec[Probe(t, k, n)] IN s = Empty \/ Holds(s, k)}

First(S) == CHOOSE n \in S : \A m \in S : n <= m

FindSlot(t, k) ==
  LET stop    == First(Stops(t, k))
      markers == {n \in Turns(t) : n < stop /\ t.vec[Probe(t, k, n)] = Marker}
  IN Probe(t, k, IF t.vec[Probe(t, k, stop)] = Empty /\ markers # {}
                 THEN First(markers) ELSE stop)

Ends(k) == Stops(ht, k) # {}
-----------------------------------------------------------------------------
Init ==
  /\ ht = [ vec |-> Table(InitialSize), size |-> InitialSize, fill |-> 0,
            capacity |-> (InitialSize * 15) \div 16 ]
  /\ old = [vec |-> << >>, size |-> 0]
  /\ next = 0
  /\ hung = FALSE
  /\ answer = << >>
  /\ deletes = 0

(* The table is between two calls.                                         *)
Idle == next = old.size /\ ~hung

Value(s) == IF Vacant(s) THEN NoItem ELSE s.value

(* hash_find_item                                                          *)
Find(k) ==
  /\ Idle /\ Ends(k)
  /\ answer' = <<k, Value(ht.vec[FindSlot(ht, k)])>>
  /\ UNCHANGED <<ht, old, next, hung, deletes>>

(* hash_insert_at, up to the test of the capacity                          *)
Store(t, k, v) ==
  LET i == FindSlot(t, k)
  IN [t EXCEPT !.vec[i] = Full(k, v),
               !.fill = IF Vacant(t.vec[i]) THEN @ + 1 ELSE @]

(* hash_insert_at: is the table full?                                      *)
Overflows(t) == t.fill >= t.capacity

(* hash_rehash, up to its loop                                             *)
Grown(t) ==
  [ vec |-> Table(2 * t.size), size |-> 2 * t.size, fill |-> t.fill,
    capacity |-> 2 * t.size - (2 * t.size) \div 16 ]

(* hash_insert: pair_add, dict_entry_add...                                *)
Insert(k, v) ==
  /\ Idle /\ Ends(k)
  /\ LET t == Store(ht, k, v)
     IN IF Overflows(t)
        THEN /\ 2 * t.size <= MaxSize
             /\ ht' = Grown(t)
             /\ old' = [vec |-> t.vec, size |-> t.size]
             /\ next' = 0
        ELSE ht' = t /\ UNCHANGED <<old, next>>
  /\ answer' = << >>
  /\ UNCHANGED <<hung, deletes>>

(* Mutant: the loop stops one slot too early.                              *)
SkippedAndLast(i) == i + 1 = old.size \/ old.vec[i] = Empty

(* The slots that the loop of hash_rehash skips.                           *)
Skipped(i) == old.vec[i] = Empty

(* One turn of the loop of hash_rehash.  A marker is not skipped: its      *)
(* bytes are hashed as if they were an item.                               *)
CopyStep ==
  /\ next < old.size /\ ~hung
  /\ LET s == old.vec[next]
         k == IF s = Marker THEN DELETED ELSE s.key
     IN IF Skipped(next)
        THEN UNCHANGED <<ht, hung>>
        ELSE IF Stops(ht, k) = {} THEN hung' = TRUE /\ UNCHANGED ht
        ELSE ht' = [ht EXCEPT !.vec[FindSlot(ht, k)] = s] /\ UNCHANGED hung
  /\ next' = next + 1
  /\ UNCHANGED <<old, answer, deletes>>

(* Mutant: the slot becomes empty again.                                   *)
ErasedEmpties(t, i) == [t EXCEPT !.vec[i] = Empty, !.fill = @ - 1]

Erased(t, i) == [t EXCEPT !.vec[i] = Marker, !.fill = @ - 1]

(* hash_delete: pair_delete, dict_entry_remove                             *)
Delete(k) ==
  /\ Idle /\ Ends(k)
  /\ LET i == FindSlot(ht, k)
     IN /\ answer' = <<k, Value(ht.vec[i])>>
        /\ IF Vacant(ht.vec[i]) THEN UNCHANGED <<ht, deletes>>
           ELSE /\ deletes < MaxDeletes
                /\ deletes' = deletes + 1
                /\ ht' = Erased(ht, i)
  /\ UNCHANGED <<old, next, hung>>

(* hash_delete_items                                                       *)
DeleteItems ==
  /\ Idle
  /\ ht' = [ht EXCEPT !.vec = Table(ht.size), !.fill = 0]
  /\ answer' = << >>
  /\ UNCHANGED <<old, next, hung, deletes>>

(* A call of hash_find_slot that looks for a key that is not there, in a   *)
(* table that has no empty slot left.                                      *)
Hang(k) ==
  /\ Idle /\ ~Ends(k)
  /\ hung' = TRUE
  /\ UNCHANGED <<ht, old, next, answer, deletes>>

Stuck == hung /\ UNCHANGED vars

Next ==
  \/ \E k \in Keys : Find(k) \/ Delete(k) \/ Hang(k) \/ \E v \in Values : Insert(k, v)
  \/ CopyStep
  \/ DeleteItems
  \/ Stuck

Spec == Init /\ [][Next]_vars
-----------------------------------------------------------------------------
(* Properties.                                                             *)

Slots == 0 .. ht.size - 1
ToCopy == {i \in next .. old.size - 1 : ~Vacant(old.vec[i])}

TypeOK ==
  /\ ht.size \in Nat \ {0} /\ ht.fill \in Nat /\ ht.capacity \in Nat
  /\ ht.vec \in [Slots -> Slot]
  /\ old.size \in Nat /\ old.vec \in [0 .. old.size - 1 -> Slot]
  /\ next \in 0 .. old.size
  /\ hung \in BOOLEAN
  /\ answer \in {<< >>} \cup (Keys \X (Values \cup {NoItem}))
  /\ deletes \in Nat

(* A key is in one slot at most, and hash_find_slot finds it there: no     *)
(* empty slot comes before it on its path, whatever was deleted, replaced  *)
(* or copied since it was stored.                                          *)
Reachable ==
  \A i \in Slots : ~Vacant(ht.vec[i]) =>
    LET k == ht.vec[i].key
    IN /\ \A j \in Slots : Holds(ht.vec[j], k) => j = i
       /\ \A j \in ToCopy : old.vec[j].key # k
       /\ Ends(k) /\ FindSlot(ht, k) = i

(* ht_fill counts the items: hash_dump allocates ht_fill + 1 cells, writes *)
(* one for each item and sorts ht_fill of them.                            *)
FillIsCount ==
  ht.fill = Cardinality({i \in Slots : ~Vacant(ht.vec[i])}) + Cardinality(ToCopy)

(* A search looks at every slot of the table, whatever the two hashes of   *)
(* the key (an odd step in a table whose size is a power of two), hence it *)
(* ends as long as one slot is empty (hash_find_slot).                     *)
SearchEnds == (\E i \in Slots : ht.vec[i] = Empty) => \A k \in Keys : Ends(k)

(* "If `key' is not found, return the address of an empty slot suitable    *)
(* for inserting `key'" (hash_find_slot): it always returns.               *)
(* Not checked: it does not hold, see the README.                          *)
SearchReturns == ~hung

(* The table is a map: the detailed operations implement those of          *)
(* FiniteMap on the items stored or still to be copied.                    *)
mapped == [k \in Keys |->
             IF \E i \in Slots : Holds(ht.vec[i], k)
             THEN ht.vec[CHOOSE i \in Slots : Holds(ht.vec[i], k)].value
             ELSE IF \E i \in ToCopy : Holds(old.vec[i], k)
             THEN old.vec[CHOOSE i \in ToCopy : Holds(old.vec[i], k)].value
             ELSE NoItem]

Map == INSTANCE FiniteMap WITH map <- mapped

ImplementsMap == Map!MapSpec

(* The table is sound after any sequence of operations: its items can be   *)
(* reached from the slot where their search begins, its fill is their      *)
(* number, and the search of any key ends while a slot is empty.           *)
TableSound == TypeOK /\ Reachable /\ FillIsCount /\ SearchEnds
=============================================================================
