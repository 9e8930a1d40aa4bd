--------------------------- MODULE HashTabProofs ---------------------------
(***************************************************************************)
(* Proofs about HashTab, for any keys, hashes and sizes: whatever was      *)
(* inserted, deleted and copied, a key is found where it is, the fill is   *)
(* the number of items, and the table implements a finite map.             *)
(***************************************************************************)
EXTENDS HashTab, FiniteSetTheorems, TLAPS

(* The numbers by their order, for the least of a set of them.             *)
Before == {p \in Nat \X Nat : p[1] < p[2]}

LEMMA Least ==
  ASSUME NEW S \in SUBSET Nat, S # {}
  PROVE  \E x \in S : \A y \in S : x <= y
<1>1. IsWellFoundedOn(Before, Nat)
  BY NatLessThanWellFounded DEF Before, OpToRel
<1>2. PICK x \in S : \A y \in S : <<y, x>> \notin Before
  BY <1>1, WFMin
<1>3. ASSUME NEW y \in S PROVE x <= y
  <2>1. x \in Nat /\ y \in Nat /\ <<y, x>> \notin Before
    BY <1>2
  <2>2. QED
    BY <2>1 DEF Before
<1>4. QED
  BY <1>3
-----------------------------------------------------------------------------
(* A power of two has no odd divisor but 1.                                *)
PowersOfTwo == {n \in Nat \ {0} : \A d, q \in Nat : n = d * q /\ d % 2 = 1 => d = 1}

LEMMA InitialSizePower == InitialSize \in PowersOfTwo
<1> DEFINE n == InitialSize
<1>1. n \in Nat \ {0} /\ \A d \in 1 .. n : d % 2 = 1 /\ n % d = 0 => d = 1
  BY SizeAssumption
<1> HIDE DEF n
<1>2. ASSUME NEW d \in Nat, NEW q \in Nat, n = d * q, d % 2 = 1 PROVE d = 1
  <2>1. d \in 1 .. n
    <3>1. q # 0 /\ d # 0
      BY <1>1, <1>2
    <3>2. d <= d * q
      BY <3>1
    <3>3. QED
      BY <1>2, <3>1, <3>2
  <2>2. n % d = 0
    BY <1>2, <2>1
  <2>3. QED
    BY <1>1, <1>2, <2>1, <2>2
<1>3. QED
  BY <1>1, <1>2 DEF PowersOfTwo, n

LEMMA TwicePower ==
  ASSUME NEW n \in Nat \ {0}, n \in PowersOfTwo
  PROVE  2 * n \in PowersOfTwo
<1>1. SUFFICES ASSUME NEW d \in Nat, NEW q \in Nat, 2 * n = d * q, d % 2 = 1
               PROVE  d = 1
  BY DEF PowersOfTwo
<1>2. PICK e \in Nat : d = 2 * e + 1
  <2>1. d = 2 * (d \div 2) + 1 /\ d \div 2 \in Nat
    BY <1>1
  <2>2. QED
    BY <2>1
<1>3. PICK r \in Nat : q = 2 * r
  <2>1. q = 2 * (n - e * q)
    BY <1>1, <1>2
  <2>2. n - e * q \in Nat
    BY <1>1, <1>2, <2>1
  <2>3. QED
    BY <2>1, <2>2
<1>4. n = d * r
  BY <1>1, <1>3
<1>5. QED
  BY <1>1, <1>4 DEF PowersOfTwo

(* The product, where its value does not matter.                           *)
Times(a, b) == a * b

(* An odd factor adds nothing to what a power of two divides.              *)
LEMMA OddFactor ==
  ASSUME NEW s \in Nat, s % 2 = 1,
         NEW n \in Nat \ {0}, n \in PowersOfTwo,
         NEW c \in Nat, NEW q \in Nat, Times(c, s) = Times(n, q)
  PROVE  \E r \in Nat : c = Times(n, r)
<1> DEFINE Divides(m, x) == \E r \in Nat : x = m * r
           T == {m \in Nat \ {0} : m \in PowersOfTwo /\ \E x, y \in Nat : x * s = m * y /\ ~Divides(m, x)}
<1>1. SUFFICES T = {}
  BY DEF Times
<1>2. SUFFICES ASSUME T # {} PROVE FALSE
  OBVIOUS
<1>3. PICK m \in T : \A k \in T : m <= k
  BY <1>2, Least
<1>4. m \in Nat \ {0} /\ m \in PowersOfTwo
  OBVIOUS
<1>5. PICK x \in Nat, y \in Nat : x * s = m * y /\ ~Divides(m, x)
  OBVIOUS
<1>6. CASE m % 2 = 1
  <2>1. m = m * 1
    BY <1>4
  <2>2. m = 1
    BY <1>4, <1>6, <2>1 DEF PowersOfTwo
  <2>3. x = m * x
    BY <2>2
  <2>4. QED
    BY <1>5, <2>3
<1>7. CASE m % 2 = 0
  <2>1. PICK h \in Nat \ {0} : m = 2 * h
    <3>1. m = 2 * (m \div 2) /\ m \div 2 \in Nat \ {0}
      BY <1>4, <1>7
    <3>2. QED
      BY <3>1
  <2>2. PICK e \in Nat : s = 2 * e + 1
    <3>1. s = 2 * (s \div 2) + 1 /\ s \div 2 \in Nat
      OBVIOUS
    <3>2. QED
      BY <3>1
  <2>3. PICK z \in Nat : x = 2 * z
    <3>1. x = 2 * (h * y - x * e)
      BY <1>5, <2>1, <2>2
    <3>2. h * y - x * e \in Nat
      BY <2>1, <2>2, <3>1
    <3>3. QED
      BY <3>1, <3>2
  <2>4. z * s = h * y
    BY <1>5, <2>1, <2>3
  <2>5. h \in PowersOfTwo
    <3>1. ASSUME NEW d \in Nat, NEW p \in Nat, h = d * p, d % 2 = 1 PROVE d = 1
      <4>1. m = d * (2 * p)
        BY <2>1, <3>1
      <4>2. 2 * p \in Nat
        BY <3>1
      <4>3. QED
        BY <1>4, <3>1, <4>1, <4>2, Zenon DEF PowersOfTwo
    <3>2. QED
      BY <3>1 DEF PowersOfTwo
  <2>6. h \notin T
    <3>1. h \in Nat /\ m \in Nat /\ h < m
      BY <1>4, <2>1
    <3>2. h \in T => m <= h
      BY <1>3, Zenon
    <3>3. QED
      <4> HIDE DEF T
      <4> QED
        BY <3>1, <3>2
  <2>7. PICK r \in Nat : z = h * r
    BY <2>4, <2>5, <2>6
  <2>8. x = m * r
    BY <2>1, <2>3, <2>7
  <2>9. QED
    BY <1>5, <2>8
<1>8. QED
  BY <1>4, <1>6, <1>7

(* A turn n of a search that begins at h and goes on by s, among size.     *)
Nth(h, s, size, n) == (h + n * s) % size

(* No two turns of the first size ones see the same slot.                  *)
LEMMA TurnsDiffer ==
  ASSUME NEW s \in Nat, s % 2 = 1, NEW n \in Nat \ {0}, n \in PowersOfTwo,
         NEW h \in Nat, NEW x \in Nat, NEW y \in Nat, x < y, y < n
  PROVE  Nth(h, s, n, x) # Nth(h, s, n, y)
<1> DEFINE a == h + x * s  b == h + y * s
<1>1. SUFFICES ASSUME a % n = b % n PROVE FALSE
  BY DEF Nth
<1>2. a \in Nat /\ b \in Nat /\ b - a = (y - x) * s
  OBVIOUS
<1> HIDE DEF a, b
<1>3. /\ a = n * (a \div n) + (a % n) /\ a \div n \in Nat
      /\ b = n * (b \div n) + (b % n) /\ b \div n \in Nat
  BY <1>2
<1>4. PICK c \in Nat : c = y - x
  OBVIOUS
<1>5. PICK q \in Int : q = b \div n - a \div n
  BY <1>3
<1>6. c * s = n * q
  BY <1>1, <1>2, <1>3, <1>4, <1>5
<1>7. q \in Nat
  <2>1. c * s \in Nat
    BY <1>4
  <2>2. QED
    BY <1>5, <1>6, <2>1
<1>8. PICK r \in Nat : c = n * r
  <2>1. Times(c, s) = Times(n, q)
    BY <1>6 DEF Times
  <2>2. \E r \in Nat : c = Times(n, r)
    BY <1>4, <1>7, <2>1, OddFactor
  <2>3. QED
    BY <2>2 DEF Times
<1>9. r = 0
  <2>1. r >= 1 => n * r >= n
    OBVIOUS
  <2>2. QED
    BY <1>4, <1>8, <2>1
<1>10. QED
  BY <1>4, <1>8, <1>9
-----------------------------------------------------------------------------
TableOK(t) == t.size \in Nat \ {0} /\ t.vec \in [0 .. t.size - 1 -> Slot]
Looked     == Keys \cup {DELETED}
Stride(k)  == 2 * (Hash2[k] \div 2) + 1

LEMMA ProbeType ==
  ASSUME NEW k \in Looked
  PROVE  /\ Hash1[k] \in Nat /\ Stride(k) \in Nat /\ Stride(k) % 2 = 1
         /\ \A t, n : Probe(t, k, n) = Nth(Hash1[k], Stride(k), t.size, n)
         /\ \A t : \A n \in Nat : t.size \in Nat \ {0} => Probe(t, k, n) \in 0 .. t.size - 1
<1>1. Hash1[k] \in Nat /\ Hash2[k] \in Nat
  BY HashAssumption DEF Looked
<1>2. Stride(k) \in Nat /\ Stride(k) % 2 = 1
  BY <1>1 DEF Stride
<1>3. \A t, n : Probe(t, k, n) = Nth(Hash1[k], Stride(k), t.size, n)
  BY DEF Probe, Nth, Stride
<1>4. \A size \in Nat \ {0}, n \in Nat : Nth(Hash1[k], Stride(k), size, n) \in 0 .. size - 1
  BY <1>1, <1>2 DEF Nth
<1>5. QED
  BY <1>1, <1>2, <1>3, <1>4

LEMMA ProbesDiffer ==
  ASSUME NEW t, t.size \in Nat \ {0}, t.size \in PowersOfTwo, NEW k \in Looked,
         NEW x \in Turns(t), NEW y \in Turns(t), x < y
  PROVE  Probe(t, k, x) # Probe(t, k, y)
<1>1. PICK n \in Nat : n = t.size
  OBVIOUS
<1>2. x \in Nat /\ y \in Nat /\ y < n
  BY <1>1 DEF Turns
<1>3. Nth(Hash1[k], Stride(k), n, x) # Nth(Hash1[k], Stride(k), n, y)
  <2>1. PICK h \in Nat, s \in Nat : h = Hash1[k] /\ s = Stride(k) /\ s % 2 = 1
    BY ProbeType
  <2>2. Nth(h, s, n, x) # Nth(h, s, n, y)
    BY <1>1, <1>2, <2>1, TurnsDiffer
  <2>3. QED
    BY <2>1, <2>2
<1>4. QED
  BY <1>1, <1>3, ProbeType

(* The turns of a search see all the slots.                                *)
LEMMA ProbesCover ==
  ASSUME NEW t, t.size \in Nat \ {0}, t.size \in PowersOfTwo, NEW k \in Looked,
         NEW i \in 0 .. t.size - 1
  PROVE  \E n \in Turns(t) : Probe(t, k, n) = i
<1> DEFINE S == 0 .. t.size - 1
           f == [n \in S |-> Probe(t, k, n)]
<1>1. f \in [S -> S]
  BY ProbeType
<1>2. \A x, y \in S : x < y => f[x] # f[y]
  BY ProbesDiffer DEF Turns
<1>3. \A x, y \in S : f[x] = f[y] => x = y
  <2>1. \A x, y \in S : x < y \/ y < x \/ x = y
    OBVIOUS
  <2>2. QED
    BY <1>2, <2>1
<1>4. f \in Injection(S, S)
  <2> HIDE DEF f, S
  <2>1. DOMAIN f = S
    BY <1>1
  <2>2. QED
    BY <1>1, <1>3, <2>1 DEF Injection, IsInjective
<1>5. IsFiniteSet(S)
  BY FS_Interval
<1>6. f \in Surjection(S, S)
  <2> HIDE DEF f, S
  <2> QED
    BY <1>4, <1>5, FS_Injection
<1>7. \E n \in S : f[n] = i
  <2>1. i \in S
    OBVIOUS
  <2> HIDE DEF f, S
  <2>2. QED
    BY <1>6, <2>1 DEF Surjection
<1>8. QED
  BY <1>7 DEF Turns

(* A search ends when a slot is empty.                                     *)
LEMMA EmptyStops ==
  ASSUME NEW t, TableOK(t), t.size \in PowersOfTwo, NEW k \in Looked,
         NEW i \in 0 .. t.size - 1, t.vec[i] = Empty
  PROVE  Stops(t, k) # {}
<1>1. PICK n \in Turns(t) : Probe(t, k, n) = i
  BY ProbesCover DEF TableOK
<1>2. QED
  BY <1>1 DEF Stops
-----------------------------------------------------------------------------
(* The slots.                                                              *)
LEMMA SlotFacts ==
  /\ Empty \in Slot /\ Marker \in Slot /\ Empty # Marker /\ Vacant(Empty) /\ Vacant(Marker)
  /\ \A k : ~Holds(Empty, k) /\ ~Holds(Marker, k)
  /\ \A s \in Slot : ~Vacant(s) =>
       /\ s.key \in Keys /\ s.value \in Values /\ s = Full(s.key, s.value)
       /\ s # Empty /\ s # Marker
       /\ \A k : Holds(s, k) <=> s.key = k
  /\ \A s \in Slot : Vacant(s) => s = Empty \/ s = Marker
  /\ \A k \in Keys, v \in Values :
       /\ Full(k, v) \in Slot /\ ~Vacant(Full(k, v)) /\ Full(k, v) # Empty
       /\ Full(k, v).key = k /\ Full(k, v).value = v
<1>1. /\ Empty \in Slot /\ Marker \in Slot /\ Empty # Marker /\ Vacant(Empty) /\ Vacant(Marker)
      /\ \A k : ~Holds(Empty, k) /\ ~Holds(Marker, k)
  <2>1. Empty.tag = "empty" /\ Marker.tag = "deleted"
    BY DEF Empty, Marker
  <2>2. Empty # Marker /\ Empty \in Slot /\ Marker \in Slot
    BY <2>1 DEF Slot
  <2>3. QED
    BY <2>1, <2>2 DEF Vacant, Holds
<1>2. ASSUME NEW k, NEW v
      PROVE  Full(k, v).tag = "item" /\ Full(k, v).key = k /\ Full(k, v).value = v
  BY DEF Full
<1>3. \A k, v : Full(k, v) # Empty /\ Full(k, v) # Marker /\ ~Vacant(Full(k, v))
  BY <1>2 DEF Empty, Marker, Vacant
<1>4. \A s \in Slot : s = Empty \/ s = Marker \/ \E k \in Keys, v \in Values : s = Full(k, v)
  BY DEF Slot
<1>5. ASSUME NEW s \in Slot, ~Vacant(s)
      PROVE  /\ s.key \in Keys /\ s.value \in Values /\ s = Full(s.key, s.value)
             /\ s # Empty /\ s # Marker
             /\ \A k : Holds(s, k) <=> s.key = k
  <2>1. PICK k \in Keys, v \in Values : s = Full(k, v)
    BY <1>1, <1>4, <1>5
  <2>2. s.key = k /\ s.value = v /\ s.tag = "item"
    BY <1>2, <2>1
  <2>3. \A l : Holds(s, l) <=> s.key = l
    BY <2>2 DEF Holds
  <2>4. QED
    BY <1>1, <1>5, <2>1, <2>2, <2>3
<1>6. \A k \in Keys, v \in Values : Full(k, v) \in Slot
  BY DEF Slot
<1>7. QED
  BY <1>1, <1>2, <1>3, <1>4, <1>5, <1>6

(* No slot before i is empty on the way of a search for k.                 *)
OnPath(t, k, i) ==
  \E n \in Turns(t) : Probe(t, k, n) = i /\ \A m \in 0 .. n - 1 : t.vec[Probe(t, k, m)] # Empty

(* Where an item is it can be reached, and it is nowhere else.             *)
Sound(t) ==
  \A i \in 0 .. t.size - 1 : ~Vacant(t.vec[i]) =>
    /\ OnPath(t, t.vec[i].key, i)
    /\ \A j \in 0 .. t.size - 1 : Holds(t.vec[j], t.vec[i].key) => j = i

LEMMA FirstStop ==
  ASSUME NEW t, TableOK(t), NEW k \in Looked, Stops(t, k) # {}
  PROVE  LET n == First(Stops(t, k))
         IN  /\ n \in Turns(t) /\ n \in Nat
             /\ t.vec[Probe(t, k, n)] = Empty \/ Holds(t.vec[Probe(t, k, n)], k)
             /\ \A m \in Stops(t, k) : n <= m
<1>1. Stops(t, k) \in SUBSET Nat
  BY DEF Stops, Turns
<1>2. \E n \in Stops(t, k) : \A m \in Stops(t, k) : n <= m
  BY <1>1, Least
<1>3. First(Stops(t, k)) \in Stops(t, k) /\ \A m \in Stops(t, k) : First(Stops(t, k)) <= m
  BY <1>2 DEF First
<1>4. QED
  BY <1>1, <1>3 DEF Stops

(* What hash_find_slot returns.                                            *)
LEMMA FindSlotReturns ==
  ASSUME NEW t, TableOK(t), NEW k \in Looked, Stops(t, k) # {}
  PROVE  LET i == FindSlot(t, k)
         IN  /\ i \in 0 .. t.size - 1
             /\ Vacant(t.vec[i]) \/ Holds(t.vec[i], k)
             /\ OnPath(t, k, i)
             /\ \A j : OnPath(t, k, j) /\ Holds(t.vec[j], k) => Holds(t.vec[i], k)
<1> DEFINE stop == First(Stops(t, k))
           markers == {n \in Turns(t) : n < stop /\ t.vec[Probe(t, k, n)] = Marker}
           i == FindSlot(t, k)
<1>1. /\ stop \in Turns(t) /\ stop \in Nat
      /\ t.vec[Probe(t, k, stop)] = Empty \/ Holds(t.vec[Probe(t, k, stop)], k)
      /\ \A m \in Stops(t, k) : stop <= m
  BY FirstStop
<1>2. i = Probe(t, k, IF t.vec[Probe(t, k, stop)] = Empty /\ markers # {}
                      THEN First(markers) ELSE stop)
  BY DEF FindSlot
<1>3. markers # {} => First(markers) \in markers
  <2>1. markers \in SUBSET Nat
    BY DEF Turns
  <2>2. markers # {} => \E n \in markers : \A m \in markers : n <= m
    BY <2>1, Least
  <2>3. QED
    BY <2>2 DEF First
<1> HIDE DEF stop, i
<1>4. \A m \in Turns(t) : m < stop => t.vec[Probe(t, k, m)] # Empty /\ ~Holds(t.vec[Probe(t, k, m)], k)
  <2>1. \A m \in Turns(t) : m < stop => m \notin Stops(t, k)
    BY <1>1 DEF Turns
  <2>2. QED
    BY <2>1 DEF Stops
<1>5. \A n \in Turns(t) : Probe(t, k, n) \in 0 .. t.size - 1
  BY ProbeType DEF TableOK, Turns
<1>6. \A n \in Turns(t) : n <= stop => OnPath(t, k, Probe(t, k, n))
  <2>1. ASSUME NEW n \in Turns(t), n <= stop, NEW m \in 0 .. n - 1
        PROVE  m \in Turns(t) /\ m < stop
    BY <1>1, <2>1 DEF Turns, TableOK
  <2>2. QED
    BY <1>4, <2>1 DEF OnPath
<1>7. \A j : OnPath(t, k, j) /\ Holds(t.vec[j], k) => t.vec[Probe(t, k, stop)] # Empty
  <2>1. SUFFICES ASSUME NEW j, OnPath(t, k, j), Holds(t.vec[j], k) PROVE t.vec[Probe(t, k, stop)] # Empty
    OBVIOUS
  <2>2. PICK n \in Turns(t) : Probe(t, k, n) = j /\ \A m \in 0 .. n - 1 : t.vec[Probe(t, k, m)] # Empty
    BY <2>1 DEF OnPath
  <2>3. stop <= n
    BY <1>1, <2>1, <2>2 DEF Stops
  <2>4. CASE stop = n
    BY <2>1, <2>2, <2>4, SlotFacts
  <2>5. CASE stop < n
    <3>1. stop \in 0 .. n - 1
      BY <1>1, <2>5 DEF Turns
    <3>2. QED
      BY <2>2, <3>1
  <2>6. QED
    BY <1>1, <2>3, <2>4, <2>5 DEF Turns
<1>8. CASE t.vec[Probe(t, k, stop)] = Empty /\ markers # {}
  <2>1. First(markers) \in Turns(t) /\ First(markers) < stop /\ t.vec[Probe(t, k, First(markers))] = Marker
    BY <1>3, <1>8
  <2>2. i = Probe(t, k, First(markers))
    BY <1>2, <1>8
  <2> HIDE DEF markers
  <2>3. First(markers) <= stop
    BY <1>1, <2>1 DEF Turns
  <2>4. OnPath(t, k, i) /\ i \in 0 .. t.size - 1
    BY <1>5, <1>6, <2>1, <2>2, <2>3
  <2>5. Vacant(t.vec[i])
    BY <2>1, <2>2, SlotFacts
  <2>6. QED
    BY <1>7, <1>8, <2>4, <2>5 DEF i
<1>9. CASE ~(t.vec[Probe(t, k, stop)] = Empty /\ markers # {})
  <2>1. i = Probe(t, k, stop)
    BY <1>2, <1>9
  <2>2. OnPath(t, k, i) /\ i \in 0 .. t.size - 1
    BY <1>1, <1>5, <1>6, <2>1
  <2>3. Vacant(t.vec[i]) \/ Holds(t.vec[i], k)
    BY <1>1, <2>1, SlotFacts
  <2>4. \A j : OnPath(t, k, j) /\ Holds(t.vec[j], k) => Holds(t.vec[i], k)
    BY <1>1, <1>7, <2>1
  <2>5. QED
    BY <2>2, <2>3, <2>4 DEF i
<1>10. QED
  BY <1>8, <1>9

(* In a sound table it returns the slot of the key, or none has it.        *)
LEMMA Found ==
  ASSUME NEW t, TableOK(t), Sound(t), NEW k \in Keys, NEW i \in 0 .. t.size - 1, Holds(t.vec[i], k)
  PROVE  Stops(t, k) # {} /\ FindSlot(t, k) = i
<1>1. k \in Looked
  BY DEF Looked
<1>2. ~Vacant(t.vec[i]) /\ t.vec[i].key = k
  BY DEF Holds, Vacant
<1>3. OnPath(t, k, i) /\ \A j \in 0 .. t.size - 1 : Holds(t.vec[j], k) => j = i
  BY <1>2 DEF Sound
<1>4. Stops(t, k) # {}
  BY <1>3 DEF OnPath, Stops
<1>5. FindSlot(t, k) \in 0 .. t.size - 1 /\ Holds(t.vec[FindSlot(t, k)], k)
  BY <1>1, <1>3, <1>4, FindSlotReturns
<1>6. QED
  BY <1>3, <1>4, <1>5

LEMMA NotFound ==
  ASSUME NEW t, TableOK(t), Sound(t), NEW k \in Keys, Stops(t, k) # {}, Vacant(t.vec[FindSlot(t, k)])
  PROVE  \A i \in 0 .. t.size - 1 : ~Holds(t.vec[i], k)
BY Found DEF Holds, Vacant
-----------------------------------------------------------------------------
(* A path is kept as long as no slot of it becomes empty.                  *)
LEMMA PathKept ==
  ASSUME NEW t, NEW u, u.size = t.size, t.size \in Nat \ {0}, NEW k \in Looked,
         \A n \in 0 .. t.size - 1 : t.vec[n] # Empty => u.vec[n] # Empty
  PROVE  \A i : OnPath(t, k, i) => OnPath(u, k, i)
<1>1. \A n : Probe(u, k, n) = Probe(t, k, n)
  BY DEF Probe
<1>2. Turns(u) = Turns(t)
  BY DEF Turns
<1>3. \A n \in Turns(t) : \A m \in 0 .. n - 1 : Probe(t, k, m) \in 0 .. t.size - 1
  BY ProbeType DEF Turns
<1>4. QED
  BY <1>1, <1>2, <1>3 DEF OnPath

(* A marker where an item or a marker was, or nothing.                     *)
LEMMA MarkedSound ==
  ASSUME NEW t, TableOK(t), Sound(t), NEW i \in 0 .. t.size - 1,
         NEW u, u.size = t.size,
         \A j \in 0 .. t.size - 1 : u.vec[j] = IF j = i THEN Marker ELSE t.vec[j]
  PROVE  Sound(u)
<1>1. \A j \in 0 .. t.size - 1 : u.vec[j] = IF j = i THEN Marker ELSE t.vec[j]
  OBVIOUS
<1>2. \A k \in Looked : \A j : OnPath(t, k, j) => OnPath(u, k, j)
  BY <1>1, PathKept, SlotFacts DEF TableOK
<1>3. ASSUME NEW j \in 0 .. t.size - 1, ~Vacant(u.vec[j])
      PROVE  /\ OnPath(u, u.vec[j].key, j)
             /\ \A m \in 0 .. t.size - 1 : Holds(u.vec[m], u.vec[j].key) => m = j
  <2>1. j # i /\ u.vec[j] = t.vec[j] /\ t.vec[j] \in Slot
    BY <1>1, <1>3, SlotFacts DEF TableOK
  <2>2. t.vec[j].key \in Looked
    BY <1>3, <2>1, SlotFacts DEF Looked
  <2>3. /\ OnPath(t, t.vec[j].key, j)
        /\ \A m \in 0 .. t.size - 1 : Holds(t.vec[m], t.vec[j].key) => m = j
    BY <1>3, <2>1 DEF Sound
  <2>4. \A m \in 0 .. t.size - 1 : Holds(u.vec[m], t.vec[j].key) => Holds(t.vec[m], t.vec[j].key)
    BY <1>1, SlotFacts
  <2>5. QED
    BY <1>2, <2>1, <2>2, <2>3, <2>4
<1>4. QED
  BY <1>3 DEF Sound

(* An item in the slot that hash_find_slot returns for it.                 *)
LEMMA StoredSound ==
  ASSUME NEW t, TableOK(t), Sound(t), NEW k \in Keys, NEW v \in Values, Stops(t, k) # {},
         NEW u, u.size = t.size, u.vec = [t.vec EXCEPT ![FindSlot(t, k)] = Full(k, v)]
  PROVE  /\ TableOK(u) /\ Sound(u) /\ FindSlot(t, k) \in 0 .. t.size - 1
         /\ \A j \in 0 .. t.size - 1 :
              /\ u.vec[j] = IF j = FindSlot(t, k) THEN Full(k, v) ELSE t.vec[j]
              /\ j # FindSlot(t, k) => ~Holds(t.vec[j], k)
<1> DEFINE i == FindSlot(t, k)
<1>1. /\ i \in 0 .. t.size - 1
      /\ Vacant(t.vec[i]) \/ Holds(t.vec[i], k)
      /\ OnPath(t, k, i) /\ k \in Looked
  BY FindSlotReturns DEF Looked
<1>2. \A j \in 0 .. t.size - 1 : Holds(t.vec[j], k) => j = i
  BY Found
<1> HIDE DEF i
<1>3. \A j \in 0 .. t.size - 1 : u.vec[j] = IF j = i THEN Full(k, v) ELSE t.vec[j]
  BY <1>1 DEF TableOK, i
<1>4. TableOK(u)
  <2>1. Full(k, v) \in Slot
    BY SlotFacts
  <2>2. QED
    BY <1>1, <2>1 DEF TableOK, i
<1>5. \A x \in Looked : \A j : OnPath(t, x, j) => OnPath(u, x, j)
  <2>1. \A n \in 0 .. t.size - 1 : t.vec[n] # Empty => u.vec[n] # Empty
    BY <1>3, SlotFacts
  <2>2. QED
    BY <2>1, PathKept DEF TableOK
<1>6. ASSUME NEW j \in 0 .. t.size - 1, ~Vacant(u.vec[j])
      PROVE  /\ OnPath(u, u.vec[j].key, j)
             /\ \A m \in 0 .. t.size - 1 : Holds(u.vec[m], u.vec[j].key) => m = j
  <2>1. CASE j = i
    <3>1. u.vec[j].key = k
      BY <1>3, <2>1, SlotFacts
    <3>2. \A m \in 0 .. t.size - 1 : Holds(u.vec[m], k) => m = i
      BY <1>2, <1>3
    <3>3. QED
      BY <1>1, <1>5, <2>1, <3>1, <3>2
  <2>2. CASE j # i
    <3>1. u.vec[j] = t.vec[j] /\ t.vec[j] \in Slot
      BY <1>3, <2>2 DEF TableOK
    <3>2. t.vec[j].key \in Looked /\ Holds(t.vec[j], t.vec[j].key) /\ ~Vacant(t.vec[j])
      BY <1>6, <3>1, SlotFacts DEF Looked
    <3>3. /\ OnPath(t, t.vec[j].key, j)
          /\ \A m \in 0 .. t.size - 1 : Holds(t.vec[m], t.vec[j].key) => m = j
      BY <3>2 DEF Sound
    <3>4. t.vec[j].key # k
      BY <1>2, <2>2, <3>2
    <3>5. ~Holds(u.vec[i], t.vec[j].key)
      BY <1>1, <1>3, <3>4, SlotFacts DEF Holds
    <3>6. \A m \in 0 .. t.size - 1 : Holds(u.vec[m], t.vec[j].key) => m # i /\ u.vec[m] = t.vec[m]
      BY <1>3, <3>5
    <3>7. QED
      BY <1>5, <3>1, <3>2, <3>3, <3>6
  <2>3. QED
    BY <2>1, <2>2
<1>7. Sound(u)
  BY <1>6 DEF Sound
<1>8. QED
  BY <1>1, <1>2, <1>3, <1>4, <1>7, Zenon DEF i
-----------------------------------------------------------------------------
(* The invariant: what is in the table and what is still to be copied are  *)
(* apart, and the copy goes to a table that has room for it.               *)
Items(vec, S) == {i \in S : ~Vacant(vec[i])}
Used(t)       == {i \in 0 .. t.size - 1 : t.vec[i] # Empty}
Waiting(o, n) == Items(o.vec, n .. o.size - 1)
Answers       == {<< >>} \cup (Keys \X (Values \cup {NoItem}))

Record(t) ==
  t \in [vec : [0 .. t.size - 1 -> Slot], size : Nat \ {0}, fill : Nat, capacity : Nat]

Tables(t, o, n) ==
  /\ Record(t) /\ t.size \in PowersOfTwo /\ Sound(t)
  /\ o.size \in Nat /\ o.vec \in [0 .. o.size - 1 -> Slot] /\ n \in 0 .. o.size
  /\ n < o.size => t.size = 2 * o.size /\ Cardinality(Used(t)) <= n
  /\ \A i \in Waiting(o, n) :
       /\ \A j \in Waiting(o, n) : o.vec[j].key = o.vec[i].key => j = i
       /\ \A j \in 0 .. t.size - 1 : ~Holds(t.vec[j], o.vec[i].key)
  /\ t.fill = Cardinality(Items(t.vec, 0 .. t.size - 1)) + Cardinality(Waiting(o, n))

HashInv == Tables(ht, old, next) /\ hung \in BOOLEAN /\ answer \in Answers /\ deletes \in Nat

LEMMA Finite ==
  /\ \A vec : \A a, b \in Int :
       IsFiniteSet(Items(vec, a .. b)) /\ Cardinality(Items(vec, a .. b)) \in Nat
  /\ \A t : t.size \in Nat => IsFiniteSet(Used(t)) /\ Cardinality(Used(t)) \in Nat
<1>1. ASSUME NEW vec, NEW a \in Int, NEW b \in Int
      PROVE  IsFiniteSet(Items(vec, a .. b)) /\ Cardinality(Items(vec, a .. b)) \in Nat
  <2>1. IsFiniteSet(a .. b) /\ Items(vec, a .. b) \in SUBSET (a .. b)
    BY FS_Interval DEF Items
  <2>2. QED
    BY <2>1, FS_Subset, FS_CardinalityType
<1>2. ASSUME NEW t, t.size \in Nat
      PROVE  IsFiniteSet(Used(t)) /\ Cardinality(Used(t)) \in Nat
  <2>1. Used(t) \in SUBSET (0 .. t.size - 1) /\ 0 \in Int /\ t.size - 1 \in Int
    BY <1>2 DEF Used
  <2>2. IsFiniteSet(0 .. t.size - 1)
    BY <2>1, FS_Interval
  <2>3. QED
    BY <2>1, <2>2, FS_Subset, FS_CardinalityType
<1>3. QED
  BY <1>1, <1>2

LEMMA RecordOK ==
  ASSUME NEW t, Record(t)
  PROVE  TableOK(t) /\ t.size \in Nat \ {0} /\ t.fill \in Nat /\ t.capacity \in Nat
BY DEF Record, TableOK

LEMMA NoneWaiting ==
  ASSUME NEW o
  PROVE  /\ o.size \in Nat => Waiting(o, o.size) = {}
         /\ Cardinality({}) = 0
<1>1. o.size \in Nat => o.size .. o.size - 1 = {}
  OBVIOUS
<1>2. QED
  BY <1>1, FS_EmptySet DEF Waiting, Items

(* A table of which all slots are empty.                                   *)
LEMMA EmptyTable ==
  ASSUME NEW size \in PowersOfTwo, NEW t, t.size = size, t.vec = Table(size)
  PROVE  /\ TableOK(t) /\ Sound(t)
         /\ Items(t.vec, 0 .. size - 1) = {} /\ Used(t) = {}
         /\ \A j \in 0 .. size - 1 : \A k : ~Holds(t.vec[j], k)
<1>1. size \in Nat \ {0}
  BY DEF PowersOfTwo
<1>2. t.vec \in [0 .. size - 1 -> Slot] /\ \A j \in 0 .. size - 1 : t.vec[j] = Empty
  BY SlotFacts DEF Table
<1>3. TableOK(t)
  BY <1>1, <1>2 DEF TableOK
<1>4. Sound(t)
  BY <1>2, SlotFacts DEF Sound
<1>5. QED
  BY <1>2, <1>3, <1>4, SlotFacts DEF Items, Used

LEMMA InitHash ==
  ASSUME Init
  PROVE  HashInv
<1> DEFINE n == InitialSize
<1>1. /\ n \in PowersOfTwo /\ n \in Nat \ {0}
      /\ ht = [vec |-> Table(n), size |-> n, fill |-> 0, capacity |-> (n * 15) \div 16]
      /\ old = [vec |-> << >>, size |-> 0] /\ next = 0 /\ hung = FALSE /\ answer = << >> /\ deletes = 0
  BY InitialSizePower DEF Init, PowersOfTwo
<1> HIDE DEF n
<1>2. (n * 15) \div 16 \in Nat
  BY <1>1
<1>3. /\ ht.size = n /\ ht.vec = Table(n) /\ ht.fill = 0 /\ old.size = 0 /\ old.vec = << >>
  BY <1>1
<1>4. /\ TableOK(ht) /\ Sound(ht) /\ Items(ht.vec, 0 .. n - 1) = {}
  BY <1>1, <1>3, EmptyTable
<1>5. Record(ht)
  BY <1>1, <1>2, <1>3, <1>4 DEF Record, TableOK
<1>6. Waiting(old, next) = {} /\ Cardinality({}) = 0
  BY <1>1, <1>3, NoneWaiting
<1>7. << >> \in [0 .. 0 - 1 -> Slot]
  OBVIOUS
<1>8. Tables(ht, old, next)
  <2>1. ht.fill = Cardinality(Items(ht.vec, 0 .. ht.size - 1)) + Cardinality(Waiting(old, next))
    <3>1. Items(ht.vec, 0 .. ht.size - 1) = {}
      BY <1>3, <1>4
    <3>2. Cardinality(Items(ht.vec, 0 .. ht.size - 1)) = 0 /\ Cardinality(Waiting(old, next)) = 0
      BY <1>6, <3>1
    <3>3. QED
      BY <1>3, <3>2
  <2>2. old.size \in Nat /\ old.vec \in [0 .. old.size - 1 -> Slot] /\ next \in 0 .. old.size /\ ~(next < old.size)
    BY <1>1, <1>3, <1>7
  <2>3. ht.size \in PowersOfTwo
    BY <1>1, <1>3
  <2>4. QED
    BY <1>4, <1>5, <1>6, <2>1, <2>2, <2>3 DEF Tables
<1>9. QED
  BY <1>1, <1>8 DEF HashInv, Answers

(* An item stored in a table.                                              *)
LEMMA Stored ==
  ASSUME NEW t, Record(t), t.size \in PowersOfTwo, Sound(t),
         NEW k \in Keys, NEW v \in Values, Stops(t, k) # {}
  PROVE  LET u == Store(t, k, v)  i == FindSlot(t, k)
         IN  /\ Record(u) /\ u.size = t.size /\ Sound(u) /\ u.capacity = t.capacity
             /\ i \in 0 .. t.size - 1
             /\ \A j \in 0 .. t.size - 1 :
                  /\ u.vec[j] = IF j = i THEN Full(k, v) ELSE t.vec[j]
                  /\ j # i => ~Holds(t.vec[j], k)
             /\ u.fill - t.fill = Cardinality(Items(u.vec, 0 .. t.size - 1))
                                  - Cardinality(Items(t.vec, 0 .. t.size - 1))
<1> DEFINE u == Store(t, k, v)  i == FindSlot(t, k)
<1>1. TableOK(t) /\ t.size \in Nat \ {0} /\ t.fill \in Nat /\ t.capacity \in Nat
  BY RecordOK
<1>2. /\ u.size = t.size /\ u.capacity = t.capacity
      /\ u.vec = [t.vec EXCEPT ![i] = Full(k, v)]
      /\ u.fill = IF Vacant(t.vec[i]) THEN t.fill + 1 ELSE t.fill
      /\ u = [vec |-> u.vec, size |-> u.size, fill |-> u.fill, capacity |-> u.capacity]
  <2>1. t = [vec |-> t.vec, size |-> t.size, fill |-> t.fill, capacity |-> t.capacity]
    BY DEF Record
  <2> DEFINE vec == [t.vec EXCEPT ![i] = Full(k, v)]
             fill == IF Vacant(t.vec[i]) THEN t.fill + 1 ELSE t.fill
  <2>2. u = [[t EXCEPT !.vec = vec] EXCEPT !.fill = fill]
    BY <2>1 DEF Store
  <2> HIDE DEF vec, fill, u
  <2>3. u = [vec |-> vec, size |-> t.size, fill |-> fill, capacity |-> t.capacity]
    BY <2>1, <2>2
  <2>4. QED
    BY <2>3 DEF vec, fill
<1>3. /\ TableOK(u) /\ Sound(u) /\ i \in 0 .. t.size - 1
      /\ \A j \in 0 .. t.size - 1 :
           /\ u.vec[j] = IF j = i THEN Full(k, v) ELSE t.vec[j]
           /\ j # i => ~Holds(t.vec[j], k)
  <2>1. u.size = t.size /\ u.vec = [t.vec EXCEPT ![FindSlot(t, k)] = Full(k, v)]
    BY <1>2
  <2> HIDE DEF u
  <2>2. QED
    BY <1>1, <2>1, StoredSound
<1> HIDE DEF u, i
<1>4. u.fill \in Nat
  BY <1>1, <1>2
<1>5. Record(u)
  BY <1>1, <1>2, <1>3, <1>4 DEF Record, TableOK
<1> DEFINE I == Items(t.vec, 0 .. t.size - 1)
<1>6. Items(u.vec, 0 .. t.size - 1) = I \cup {i} /\ (i \in I <=> ~Vacant(t.vec[i]))
  BY <1>3, SlotFacts DEF Items
<1>7. IsFiniteSet(I) /\ Cardinality(I) \in Nat
  BY <1>1, Finite
<1> HIDE DEF I
<1>8. Cardinality(I \cup {i}) = IF i \in I THEN Cardinality(I) ELSE Cardinality(I) + 1
  BY <1>7, FS_AddElement
<1>9. u.fill - t.fill = Cardinality(I \cup {i}) - Cardinality(I)
  BY <1>1, <1>2, <1>6, <1>7, <1>8
<1>10. QED
  BY <1>2, <1>3, <1>5, <1>6, <1>9 DEF u, i, I
-----------------------------------------------------------------------------
(* Between two calls there is but the table.                               *)
LEMMA IdleTables ==
  ASSUME NEW t, NEW o, NEW n, Tables(t, o, n), n = o.size,
         NEW u, Record(u), u.size \in PowersOfTwo, Sound(u),
         u.fill = Cardinality(Items(u.vec, 0 .. u.size - 1))
  PROVE  Tables(u, o, n)
<1>1. Waiting(o, n) = {} /\ Cardinality({}) = 0 /\ o.size \in Nat /\ ~(n < o.size)
  <2>1. o.size \in Nat
    BY DEF Tables
  <2>2. QED
    BY <2>1, NoneWaiting
<1>2. Cardinality(Items(u.vec, 0 .. u.size - 1)) \in Nat
  <2>1. u.size \in Nat
    BY RecordOK
  <2>2. 0 \in Int /\ u.size - 1 \in Int
    BY <2>1
  <2>3. QED
    BY <2>2, Finite
<1>3. u.fill = Cardinality(Items(u.vec, 0 .. u.size - 1)) + Cardinality(Waiting(o, n))
  BY <1>1, <1>2
<1>4. QED
  BY <1>1, <1>3 DEF Tables

LEMMA IdleFacts ==
  ASSUME HashInv, Idle
  PROVE  /\ Tables(ht, old, next) /\ next = old.size
         /\ Record(ht) /\ TableOK(ht) /\ Sound(ht)
         /\ ht.size \in PowersOfTwo /\ ht.size \in Nat \ {0}
         /\ ht.fill = Cardinality(Items(ht.vec, 0 .. ht.size - 1))
<1>1. Tables(ht, old, next) /\ next = old.size
  BY DEF HashInv, Idle
<1>2. Waiting(old, next) = {} /\ Cardinality({}) = 0
  BY <1>1, NoneWaiting DEF Tables
<1>3. Record(ht) /\ TableOK(ht) /\ Sound(ht) /\ ht.size \in PowersOfTwo /\ ht.size \in Nat \ {0}
  BY <1>1, RecordOK DEF Tables
<1>4. Cardinality(Items(ht.vec, 0 .. ht.size - 1)) \in Nat
  <2>1. 0 \in Int /\ ht.size - 1 \in Int
    BY <1>3
  <2>2. QED
    BY <2>1, Finite
<1>5. ht.fill = Cardinality(Items(ht.vec, 0 .. ht.size - 1)) + Cardinality(Waiting(old, next))
  BY <1>1 DEF Tables
<1>6. QED
  BY <1>1, <1>2, <1>3, <1>4, <1>5

(* What hash_rehash begins with.                                           *)
LEMMA GrownTables ==
  ASSUME NEW u, Record(u), u.size \in PowersOfTwo, Sound(u),
         u.fill = Cardinality(Items(u.vec, 0 .. u.size - 1)),
         NEW o, o = [vec |-> u.vec, size |-> u.size]
  PROVE  Tables(Grown(u), o, 0)
<1> DEFINE g == Grown(u)
<1>1. u.size \in Nat \ {0} /\ u.fill \in Nat /\ TableOK(u)
  BY RecordOK
<1>2. /\ g.size = 2 * u.size /\ g.vec = Table(2 * u.size) /\ g.fill = u.fill
      /\ g.capacity = 2 * u.size - (2 * u.size) \div 16
      /\ g = [vec |-> g.vec, size |-> g.size, fill |-> g.fill, capacity |-> g.capacity]
  BY DEF Grown
<1> HIDE DEF g
<1>3. g.size \in PowersOfTwo
  BY <1>1, <1>2, TwicePower
<1>4. /\ TableOK(g) /\ Sound(g)
      /\ Items(g.vec, 0 .. g.size - 1) = {} /\ Used(g) = {}
      /\ \A j \in 0 .. g.size - 1 : \A k : ~Holds(g.vec[j], k)
  BY <1>2, <1>3, EmptyTable
<1>5. Record(g)
  <2>1. g.capacity \in Nat
    BY <1>1, <1>2
  <2>2. QED
    BY <1>1, <1>2, <1>4, <2>1 DEF Record, TableOK
<1>6. o.vec = u.vec /\ o.size = u.size
  OBVIOUS
<1>7. Waiting(o, 0) = Items(u.vec, 0 .. u.size - 1)
  BY <1>6 DEF Waiting
<1>8. \A i \in Waiting(o, 0) : \A j \in Waiting(o, 0) : o.vec[j].key = o.vec[i].key => j = i
  <2>1. SUFFICES ASSUME NEW i \in Waiting(o, 0), NEW j \in Waiting(o, 0), u.vec[j].key = u.vec[i].key
                 PROVE  j = i
    BY <1>6
  <2>2. /\ i \in 0 .. u.size - 1 /\ j \in 0 .. u.size - 1
        /\ ~Vacant(u.vec[i]) /\ ~Vacant(u.vec[j]) /\ u.vec[j] \in Slot
    BY <1>1, <1>7 DEF Items, TableOK
  <2>3. Holds(u.vec[j], u.vec[i].key)
    BY <2>1, <2>2, SlotFacts
  <2>4. QED
    BY <2>2, <2>3 DEF Sound
<1>9. Cardinality({}) = 0
  BY FS_EmptySet
<1>10. g.fill = Cardinality(Items(g.vec, 0 .. g.size - 1)) + Cardinality(Waiting(o, 0))
  <2>1. Cardinality(Waiting(o, 0)) = u.fill
    BY <1>7
  <2>2. Cardinality(Items(g.vec, 0 .. g.size - 1)) = 0
    BY <1>4, <1>9
  <2>3. QED
    BY <1>1, <1>2, <2>1, <2>2
<1>11. \A i \in Waiting(o, 0) : \A j \in 0 .. g.size - 1 : ~Holds(g.vec[j], o.vec[i].key)
  BY <1>4
<1>12. 0 < o.size => g.size = 2 * o.size /\ Cardinality(Used(g)) <= 0
  BY <1>2, <1>4, <1>6, <1>9
<1>13. o.size \in Nat /\ o.vec \in [0 .. o.size - 1 -> Slot] /\ 0 \in 0 .. o.size
  BY <1>1, <1>6 DEF TableOK
<1>14. QED
  BY <1>3, <1>4, <1>5, <1>8, <1>10, <1>11, <1>12, <1>13 DEF Tables, g

LEMMA InsertKeeps ==
  ASSUME HashInv, NEW k \in Keys, NEW v \in Values, Insert(k, v)
  PROVE  HashInv'
<1> DEFINE u == Store(ht, k, v)
<1>1. Idle /\ Stops(ht, k) # {} /\ answer' = << >> /\ hung' = hung /\ deletes' = deletes
  BY DEF Insert, Ends
<1>2. /\ Tables(ht, old, next) /\ next = old.size /\ Record(ht) /\ Sound(ht)
      /\ ht.size \in PowersOfTwo /\ ht.size \in Nat \ {0} /\ ht.fill \in Nat
      /\ ht.fill = Cardinality(Items(ht.vec, 0 .. ht.size - 1))
  BY <1>1, IdleFacts, RecordOK
<1>3. /\ Record(u) /\ u.size = ht.size /\ Sound(u)
      /\ u.fill - ht.fill = Cardinality(Items(u.vec, 0 .. ht.size - 1))
                            - Cardinality(Items(ht.vec, 0 .. ht.size - 1))
  BY <1>1, <1>2, Stored
<1> HIDE DEF u
<1>4. u.fill = Cardinality(Items(u.vec, 0 .. u.size - 1))
  <2>1. 0 \in Int /\ ht.size - 1 \in Int /\ u.fill \in Nat
    BY <1>2, <1>3, RecordOK
  <2>2. /\ Cardinality(Items(u.vec, 0 .. ht.size - 1)) \in Nat
        /\ Cardinality(Items(ht.vec, 0 .. ht.size - 1)) \in Nat
    BY <2>1, Finite
  <2>3. QED
    BY <1>2, <1>3, <2>1, <2>2
<1>5. CASE Overflows(u)
  <2>1. ht' = Grown(u) /\ old' = [vec |-> u.vec, size |-> u.size] /\ next' = 0
    BY <1>5 DEF Insert, u
  <2>2. Tables(ht', old', next')
    BY <1>2, <1>3, <1>4, <2>1, GrownTables
  <2>3. QED
    BY <1>1, <2>2 DEF HashInv, Answers
<1>6. CASE ~Overflows(u)
  <2>1. ht' = u /\ old' = old /\ next' = next
    BY <1>6 DEF Insert, u
  <2>2. Tables(u, old, next)
    BY <1>2, <1>3, <1>4, IdleTables
  <2>3. Tables(ht', old', next')
    BY <2>1, <2>2
  <2>4. QED
    BY <1>1, <2>3 DEF HashInv, Answers
<1>7. QED
  BY <1>5, <1>6

LEMMA ValueType ==
  ASSUME NEW s \in Slot
  PROVE  Value(s) \in Values \cup {NoItem}
BY SlotFacts DEF Value

LEMMA FindKeeps ==
  ASSUME HashInv, NEW k \in Keys, Find(k)
  PROVE  HashInv'
<1>1. /\ Idle /\ Stops(ht, k) # {} /\ answer' = <<k, Value(ht.vec[FindSlot(ht, k)])>>
      /\ ht' = ht /\ old' = old /\ next' = next /\ hung' = hung /\ deletes' = deletes
  BY DEF Find, Ends
<1>2. TableOK(ht) /\ k \in Looked
  BY <1>1, IdleFacts DEF Looked
<1>3. FindSlot(ht, k) \in 0 .. ht.size - 1
  BY <1>1, <1>2, FindSlotReturns
<1>4. answer' \in Answers
  <2>1. Value(ht.vec[FindSlot(ht, k)]) \in Values \cup {NoItem}
    BY <1>2, <1>3, ValueType DEF TableOK
  <2>2. QED
    BY <1>1, <2>1 DEF Answers
<1>5. QED
  BY <1>1, <1>4 DEF HashInv

LEMMA DeleteItemsKeeps ==
  ASSUME HashInv, DeleteItems
  PROVE  HashInv'
<1>1. /\ Idle /\ ht' = [ht EXCEPT !.vec = Table(ht.size), !.fill = 0] /\ answer' = << >>
      /\ old' = old /\ next' = next /\ hung' = hung /\ deletes' = deletes
  BY DEF DeleteItems
<1>2. /\ Tables(ht, old, next) /\ next = old.size /\ Record(ht)
      /\ ht.size \in PowersOfTwo /\ ht.size \in Nat \ {0} /\ ht.capacity \in Nat
  BY <1>1, IdleFacts, RecordOK
<1> DEFINE u == [vec |-> Table(ht.size), size |-> ht.size, fill |-> 0, capacity |-> ht.capacity]
<1>3. ht' = u
  <2>1. ht = [vec |-> ht.vec, size |-> ht.size, fill |-> ht.fill, capacity |-> ht.capacity]
    BY <1>2 DEF Record
  <2>2. ht' = [[ht EXCEPT !.vec = Table(ht.size)] EXCEPT !.fill = 0]
    BY <1>1
  <2>3. QED
    BY <2>1, <2>2
<1>4. u.vec = Table(ht.size) /\ u.size = ht.size /\ u.fill = 0 /\ u.capacity = ht.capacity
  OBVIOUS
<1>5. u = [vec |-> u.vec, size |-> u.size, fill |-> u.fill, capacity |-> u.capacity]
  OBVIOUS
<1> HIDE DEF u
<1>6. TableOK(u) /\ Sound(u) /\ Items(u.vec, 0 .. u.size - 1) = {}
  BY <1>2, <1>4, EmptyTable
<1>7. Record(u) /\ u.fill = Cardinality(Items(u.vec, 0 .. u.size - 1))
  <2>1. Cardinality(Items(u.vec, 0 .. u.size - 1)) = 0
    BY <1>6, FS_EmptySet
  <2>2. Record(u)
    BY <1>2, <1>4, <1>5, <1>6 DEF Record, TableOK
  <2>3. QED
    BY <1>4, <2>1, <2>2
<1>8. Tables(u, old, next)
  BY <1>2, <1>4, <1>6, <1>7, IdleTables
<1>9. QED
  BY <1>1, <1>3, <1>8 DEF HashInv, Answers

(* What hash_delete leaves.                                                *)
LEMMA ErasedTable ==
  ASSUME NEW t, Record(t), Sound(t), NEW i \in 0 .. t.size - 1, ~Vacant(t.vec[i]),
         t.fill = Cardinality(Items(t.vec, 0 .. t.size - 1))
  PROVE  LET u == Erased(t, i)
         IN  /\ Record(u) /\ u.size = t.size /\ Sound(u)
             /\ \A j \in 0 .. t.size - 1 : u.vec[j] = IF j = i THEN Marker ELSE t.vec[j]
             /\ u.fill = Cardinality(Items(u.vec, 0 .. u.size - 1))
<1> DEFINE u == Erased(t, i)  I == Items(t.vec, 0 .. t.size - 1)
<1>1. TableOK(t) /\ t.size \in Nat \ {0} /\ t.fill \in Nat /\ t.capacity \in Nat
  BY RecordOK
<1>2. /\ u.size = t.size /\ u.capacity = t.capacity
      /\ u.vec = [t.vec EXCEPT ![i] = Marker] /\ u.fill = t.fill - 1
      /\ u = [vec |-> u.vec, size |-> u.size, fill |-> u.fill, capacity |-> u.capacity]
  <2>1. t = [vec |-> t.vec, size |-> t.size, fill |-> t.fill, capacity |-> t.capacity]
    BY DEF Record
  <2> DEFINE vec == [t.vec EXCEPT ![i] = Marker]
  <2>2. u = [[t EXCEPT !.vec = vec] EXCEPT !.fill = t.fill - 1]
    BY <2>1 DEF Erased
  <2> HIDE DEF vec, u
  <2>3. u = [vec |-> vec, size |-> t.size, fill |-> t.fill - 1, capacity |-> t.capacity]
    BY <2>1, <2>2
  <2>4. QED
    BY <2>3 DEF vec
<1> HIDE DEF u, I
<1>3. /\ TableOK(u) /\ Sound(u)
      /\ \A j \in 0 .. t.size - 1 : u.vec[j] = IF j = i THEN Marker ELSE t.vec[j]
  <2>1. \A j \in 0 .. t.size - 1 : u.vec[j] = IF j = i THEN Marker ELSE t.vec[j]
    BY <1>1, <1>2 DEF TableOK
  <2>2. TableOK(u)
    BY <1>1, <1>2, SlotFacts DEF TableOK
  <2>3. Sound(u)
    BY <1>1, <1>2, <2>1, MarkedSound
  <2>4. QED
    BY <2>1, <2>2, <2>3
<1>4. Items(u.vec, 0 .. u.size - 1) = I \ {i} /\ i \in I
  BY <1>2, <1>3, SlotFacts DEF Items, I
<1>5. IsFiniteSet(I) /\ Cardinality(I) \in Nat
  <2>1. 0 \in Int /\ t.size - 1 \in Int
    BY <1>1
  <2>2. QED
    BY <2>1, Finite DEF I
<1>6. t.fill = Cardinality(I)
  BY DEF I
<1>7. Cardinality(I \ {i}) = Cardinality(I) - 1 /\ Cardinality(I \ {i}) \in Nat
  BY <1>4, <1>5, FS_RemoveElement, FS_CardinalityType
<1>8. Record(u)
  BY <1>1, <1>2, <1>3, <1>6, <1>7 DEF Record, TableOK
<1>9. QED
  BY <1>2, <1>3, <1>4, <1>6, <1>7, <1>8 DEF u

LEMMA DeleteKeeps ==
  ASSUME HashInv, NEW k \in Keys, Delete(k)
  PROVE  HashInv'
<1> DEFINE i == FindSlot(ht, k)
<1>1. /\ Idle /\ Stops(ht, k) # {} /\ answer' = <<k, Value(ht.vec[i])>>
      /\ old' = old /\ next' = next /\ hung' = hung
  BY DEF Delete, Ends
<1>2. /\ Tables(ht, old, next) /\ next = old.size /\ Record(ht) /\ TableOK(ht) /\ Sound(ht)
      /\ ht.size \in PowersOfTwo /\ ht.fill = Cardinality(Items(ht.vec, 0 .. ht.size - 1))
      /\ k \in Looked
  BY <1>1, IdleFacts DEF Looked
<1>3. i \in 0 .. ht.size - 1
  BY <1>1, <1>2, FindSlotReturns
<1>4. IF Vacant(ht.vec[i]) THEN ht' = ht /\ deletes' = deletes
      ELSE ht' = Erased(ht, i) /\ deletes' = deletes + 1
  BY DEF Delete
<1> HIDE DEF i
<1>5. answer' \in Answers /\ deletes' \in Nat
  <2>1. Value(ht.vec[i]) \in Values \cup {NoItem}
    BY <1>2, <1>3, ValueType DEF TableOK
  <2>2. QED
    BY <1>1, <1>4, <2>1 DEF HashInv, Answers
<1>6. Tables(ht', old', next')
  <2>1. CASE Vacant(ht.vec[i])
    BY <1>1, <1>2, <1>4, <2>1
  <2>2. CASE ~Vacant(ht.vec[i])
    <3> DEFINE u == Erased(ht, i)
    <3>1. /\ Record(u) /\ u.size = ht.size /\ Sound(u)
          /\ u.fill = Cardinality(Items(u.vec, 0 .. u.size - 1))
      BY <1>2, <1>3, <2>2, ErasedTable
    <3>2. ht' = u
      BY <1>4, <2>2
    <3> HIDE DEF u
    <3>3. Tables(u, old, next)
      BY <1>2, <3>1, IdleTables
    <3>4. QED
      BY <1>1, <3>2, <3>3
  <2>3. QED
    BY <2>1, <2>2
<1>7. QED
  BY <1>1, <1>5, <1>6 DEF HashInv

(* The table that hash_rehash fills has an empty slot.                     *)
LEMMA CopyEnds ==
  ASSUME NEW t, NEW o, NEW n, Tables(t, o, n), n < o.size, NEW k \in Looked
  PROVE  Stops(t, k) # {}
<1>1. /\ Record(t) /\ TableOK(t) /\ t.size \in PowersOfTwo /\ t.size \in Nat \ {0}
      /\ t.size = 2 * o.size /\ Cardinality(Used(t)) <= n /\ o.size \in Nat /\ n \in Nat
  BY RecordOK DEF Tables
<1>2. Cardinality(0 .. t.size - 1) = t.size
  <2>1. 0 \in Int /\ t.size - 1 \in Int /\ ~(0 > t.size - 1) /\ (t.size - 1) - 0 + 1 = t.size
    BY <1>1
  <2>2. QED
    BY <2>1, FS_Interval
<1>3. Cardinality(Used(t)) \in Nat
  BY <1>1, Finite
<1>4. Used(t) # 0 .. t.size - 1
  BY <1>1, <1>2, <1>3
<1>5. PICK i \in 0 .. t.size - 1 : t.vec[i] = Empty
  BY <1>4 DEF Used
<1>6. QED
  BY <1>1, <1>5, EmptyStops

(* One slot more is used at most.                                          *)
LEMMA OneMoreUsed ==
  ASSUME NEW t, t.size \in Nat, NEW u, u.size = t.size, NEW i \in 0 .. t.size - 1,
         \A j \in 0 .. t.size - 1 : j # i => u.vec[j] = t.vec[j]
  PROVE  Cardinality(Used(u)) <= Cardinality(Used(t)) + 1
<1>1. Used(u) \in SUBSET (Used(t) \cup {i})
  BY DEF Used
<1>2. IsFiniteSet(Used(t)) /\ Cardinality(Used(t)) \in Nat /\ Cardinality(Used(u)) \in Nat
  BY Finite
<1>3. /\ IsFiniteSet(Used(t) \cup {i})
      /\ Cardinality(Used(t) \cup {i}) = IF i \in Used(t) THEN Cardinality(Used(t)) ELSE Cardinality(Used(t)) + 1
  BY <1>2, FS_AddElement
<1>4. Cardinality(Used(u)) <= Cardinality(Used(t) \cup {i})
  BY <1>1, <1>3, FS_Subset
<1>5. QED
  BY <1>2, <1>3, <1>4

(* The next slot is copied, and it is one slot less to copy.               *)
LEMMA NextWaiting ==
  ASSUME NEW o, o.size \in Nat, NEW n \in 0 .. o.size, n < o.size
  PROVE  /\ Waiting(o, n + 1) = Waiting(o, n) \ {n}
         /\ n \in Waiting(o, n) <=> ~Vacant(o.vec[n])
         /\ n + 1 \in 0 .. o.size /\ n \in 0 .. o.size - 1
<1>1. n + 1 .. o.size - 1 = (n .. o.size - 1) \ {n} /\ n \in n .. o.size - 1
  OBVIOUS
<1>2. n + 1 \in 0 .. o.size /\ n \in 0 .. o.size - 1
  OBVIOUS
<1>3. QED
  BY <1>1, <1>2 DEF Waiting, Items

(* A slot is filled or marked, and nothing else changes.                   *)
Put(t, i, s) == [t EXCEPT !.vec[i] = s]

LEMMA PutFacts ==
  ASSUME NEW t, Record(t), NEW i \in 0 .. t.size - 1, NEW s \in Slot
  PROVE  /\ Record(Put(t, i, s)) /\ TableOK(Put(t, i, s))
         /\ Put(t, i, s).size = t.size /\ Put(t, i, s).fill = t.fill
         /\ Put(t, i, s).vec = [t.vec EXCEPT ![i] = s]
         /\ \A j \in 0 .. t.size - 1 : Put(t, i, s).vec[j] = IF j = i THEN s ELSE t.vec[j]
<1> DEFINE vec == [t.vec EXCEPT ![i] = s]  u == Put(t, i, s)
<1>1. /\ t = [vec |-> t.vec, size |-> t.size, fill |-> t.fill, capacity |-> t.capacity]
      /\ t.vec \in [0 .. t.size - 1 -> Slot]
      /\ t.size \in Nat \ {0} /\ t.fill \in Nat /\ t.capacity \in Nat
  BY DEF Record
<1>2. vec \in [0 .. t.size - 1 -> Slot] /\ \A j \in 0 .. t.size - 1 : vec[j] = IF j = i THEN s ELSE t.vec[j]
  BY <1>1
<1>3. u = [t EXCEPT !.vec = vec]
  BY DEF Put
<1> HIDE DEF vec, u
<1>4. u = [vec |-> vec, size |-> t.size, fill |-> t.fill, capacity |-> t.capacity]
  BY <1>1, <1>3
<1>5. u.vec = vec /\ u.size = t.size /\ u.fill = t.fill
  BY <1>4
<1>6. Record(u) /\ TableOK(u)
  BY <1>1, <1>2, <1>4, <1>5 DEF Record, TableOK
<1>7. QED
  BY <1>2, <1>5, <1>6 DEF u, vec

LEMMA CopySkips ==
  ASSUME NEW t, NEW o, NEW n, Tables(t, o, n), n < o.size, o.vec[n] = Empty
  PROVE  Tables(t, o, n + 1)
<1>1. o.size \in Nat /\ n \in 0 .. o.size
  BY DEF Tables
<1>2. Waiting(o, n + 1) = Waiting(o, n) /\ n + 1 \in 0 .. o.size
  <2>1. n \notin Waiting(o, n) /\ Waiting(o, n + 1) = Waiting(o, n) \ {n} /\ n + 1 \in 0 .. o.size
    BY <1>1, NextWaiting, SlotFacts
  <2>2. QED
    BY <2>1
<1>3. n + 1 < o.size => t.size = 2 * o.size /\ Cardinality(Used(t)) <= n + 1
  <2>1. t.size = 2 * o.size /\ Cardinality(Used(t)) <= n /\ t.size \in Nat
    BY RecordOK DEF Tables
  <2>2. Cardinality(Used(t)) \in Nat
    BY <2>1, Finite
  <2>3. QED
    BY <1>1, <2>1, <2>2
<1>4. QED
  BY <1>2, <1>3 DEF Tables

(* A marker is copied where no item is.                                    *)
LEMMA CopyMarker ==
  ASSUME NEW t, NEW o, NEW n, Tables(t, o, n), n < o.size, o.vec[n] = Marker,
         NEW u, u = Put(t, FindSlot(t, DELETED), Marker)
  PROVE  /\ Tables(u, o, n + 1) /\ u.size = t.size
         /\ FindSlot(t, DELETED) \in 0 .. t.size - 1 /\ Vacant(t.vec[FindSlot(t, DELETED)])
         /\ \A j \in 0 .. t.size - 1 :
              u.vec[j] = IF j = FindSlot(t, DELETED) THEN Marker ELSE t.vec[j]
<1> DEFINE i == FindSlot(t, DELETED)
<1>1. /\ Record(t) /\ TableOK(t) /\ Sound(t) /\ t.size \in PowersOfTwo /\ t.size \in Nat \ {0}
      /\ o.size \in Nat /\ n \in 0 .. o.size /\ DELETED \in Looked
  BY RecordOK DEF Tables, Looked
<1>2. i \in 0 .. t.size - 1 /\ Vacant(t.vec[i])
  <2>1. /\ i \in 0 .. t.size - 1
        /\ Vacant(t.vec[i]) \/ Holds(t.vec[i], DELETED)
    BY <1>1, CopyEnds, FindSlotReturns
  <2>2. ~Vacant(t.vec[i]) => t.vec[i].key \in Keys
    BY <1>1, <2>1, SlotFacts DEF TableOK
  <2>3. QED
    BY <2>1, <2>2, HashAssumption DEF Holds
<1>3. /\ Record(u) /\ TableOK(u) /\ u.size = t.size /\ u.fill = t.fill
      /\ \A j \in 0 .. t.size - 1 : u.vec[j] = IF j = i THEN Marker ELSE t.vec[j]
  <2>1. u = Put(t, i, Marker) /\ Marker \in Slot
    BY SlotFacts
  <2> HIDE DEF i
  <2>2. u.vec = [t.vec EXCEPT ![i] = Marker] /\ Record(u) /\ TableOK(u) /\ u.size = t.size /\ u.fill = t.fill
    BY <1>1, <1>2, <2>1, PutFacts
  <2>3. t.vec \in [0 .. t.size - 1 -> Slot]
    BY <1>1 DEF TableOK
  <2>4. QED
    BY <2>2, <2>3
<1> HIDE DEF i
<1>4. Sound(u)
  BY <1>1, <1>2, <1>3, MarkedSound
<1>5. Items(u.vec, 0 .. u.size - 1) = Items(t.vec, 0 .. t.size - 1)
  BY <1>2, <1>3, SlotFacts DEF Items
<1>6. Waiting(o, n + 1) = Waiting(o, n) /\ n + 1 \in 0 .. o.size
  <2>1. n \notin Waiting(o, n) /\ Waiting(o, n + 1) = Waiting(o, n) \ {n} /\ n + 1 \in 0 .. o.size
    BY <1>1, NextWaiting, SlotFacts
  <2>2. QED
    BY <2>1
<1>7. u.size = 2 * o.size /\ Cardinality(Used(u)) <= n + 1
  <2>1. t.size = 2 * o.size /\ Cardinality(Used(t)) <= n
    BY DEF Tables
  <2>2. /\ Cardinality(Used(u)) <= Cardinality(Used(t)) + 1
        /\ Cardinality(Used(u)) \in Nat /\ Cardinality(Used(t)) \in Nat
    BY <1>1, <1>2, <1>3, OneMoreUsed, Finite
  <2>3. QED
    BY <1>1, <1>3, <2>1, <2>2
<1>8. \A w \in Waiting(o, n) :
        /\ \A j \in Waiting(o, n) : o.vec[j].key = o.vec[w].key => j = w
        /\ \A j \in 0 .. u.size - 1 : ~Holds(u.vec[j], o.vec[w].key)
  BY <1>3, SlotFacts DEF Tables
<1>9. u.fill = Cardinality(Items(u.vec, 0 .. u.size - 1)) + Cardinality(Waiting(o, n + 1))
  BY <1>3, <1>5, <1>6 DEF Tables
<1>10. Tables(u, o, n + 1)
  <2>1. o.size \in Nat /\ o.vec \in [0 .. o.size - 1 -> Slot] /\ u.size \in PowersOfTwo
    BY <1>1, <1>3 DEF Tables
  <2>2. QED
    BY <1>3, <1>4, <1>6, <1>7, <1>8, <1>9, <2>1 DEF Tables
<1>11. QED
  BY <1>2, <1>3, <1>10 DEF i

(* An item is copied where no other is, and it was not there.              *)
LEMMA CopyItem ==
  ASSUME NEW t, NEW o, NEW n, Tables(t, o, n), n < o.size, ~Vacant(o.vec[n]),
         NEW u, u = Put(t, FindSlot(t, o.vec[n].key), o.vec[n])
  PROVE  /\ Tables(u, o, n + 1) /\ u.size = t.size
         /\ FindSlot(t, o.vec[n].key) \in 0 .. t.size - 1
         /\ Vacant(t.vec[FindSlot(t, o.vec[n].key)])
         /\ \A j \in 0 .. t.size - 1 :
              u.vec[j] = IF j = FindSlot(t, o.vec[n].key) THEN o.vec[n] ELSE t.vec[j]
<1>1. /\ Record(t) /\ TableOK(t) /\ Sound(t) /\ t.size \in PowersOfTwo /\ t.size \in Nat \ {0}
      /\ o.size \in Nat /\ n \in 0 .. o.size /\ o.vec \in [0 .. o.size - 1 -> Slot]
  BY RecordOK DEF Tables
<1>2. /\ Waiting(o, n + 1) = Waiting(o, n) \ {n} /\ n \in Waiting(o, n)
      /\ n + 1 \in 0 .. o.size /\ n \in 0 .. o.size - 1
  BY <1>1, NextWaiting
<1>3. PICK k \in Keys, v \in Values : o.vec[n] = Full(k, v) /\ o.vec[n].key = k
  <2>1. o.vec[n] \in Slot
    BY <1>1, <1>2
  <2>2. QED
    BY <2>1, SlotFacts
<1>4. \A j \in 0 .. t.size - 1 : ~Holds(t.vec[j], k)
  BY <1>2, <1>3 DEF Tables
<1> DEFINE i == FindSlot(t, k)
<1>5. Stops(t, k) # {}
  BY <1>3, CopyEnds DEF Looked
<1>6. /\ Record(u) /\ TableOK(u) /\ u.size = t.size /\ u.fill = t.fill /\ i \in 0 .. t.size - 1
      /\ u.vec = [t.vec EXCEPT ![i] = Full(k, v)]
      /\ \A j \in 0 .. t.size - 1 : u.vec[j] = IF j = i THEN Full(k, v) ELSE t.vec[j]
  <2>1. i \in 0 .. t.size - 1 /\ Full(k, v) \in Slot
    BY <1>1, <1>3, <1>5, FindSlotReturns, SlotFacts DEF Looked
  <2>2. u = Put(t, i, Full(k, v))
    BY <1>3
  <2> HIDE DEF i
  <2>3. QED
    BY <1>1, <2>1, <2>2, PutFacts
<1>7. Sound(u)
  BY <1>1, <1>5, <1>6, StoredSound
<1>8. Vacant(t.vec[i])
  <2>1. t.vec[i] \in Slot
    BY <1>1, <1>6 DEF TableOK
  <2>2. Vacant(t.vec[i]) \/ Holds(t.vec[i], k)
    BY <1>1, <1>3, <1>5, FindSlotReturns DEF Looked
  <2>3. QED
    BY <1>4, <1>6, <2>2
<1> HIDE DEF i
<1> DEFINE I == Items(t.vec, 0 .. t.size - 1)  W == Waiting(o, n)
<1>9. Items(u.vec, 0 .. u.size - 1) = I \cup {i} /\ i \notin I
  BY <1>6, <1>8, SlotFacts DEF Items
<1>10. IsFiniteSet(I) /\ Cardinality(I) \in Nat /\ IsFiniteSet(W) /\ Cardinality(W) \in Nat
  <2>1. 0 \in Int /\ t.size - 1 \in Int /\ n \in Int /\ o.size - 1 \in Int
    BY <1>1
  <2>2. QED
    BY <2>1, Finite DEF Waiting
<1>11. t.fill = Cardinality(I) + Cardinality(W)
  BY DEF Tables
<1>12. n \in W /\ Waiting(o, n + 1) = W \ {n}
  BY <1>2
<1> HIDE DEF I, W
<1>13. u.fill = Cardinality(I \cup {i}) + Cardinality(W \ {n})
  <2>1. Cardinality(I \cup {i}) = Cardinality(I) + 1
    BY <1>9, <1>10, FS_AddElement
  <2>2. Cardinality(W \ {n}) = Cardinality(W) - 1
    BY <1>10, <1>12, FS_RemoveElement
  <2>3. QED
    BY <1>6, <1>10, <1>11, <2>1, <2>2
<1>14. u.size = 2 * o.size /\ Cardinality(Used(u)) <= n + 1
  <2>1. t.size = 2 * o.size /\ Cardinality(Used(t)) <= n
    BY DEF Tables
  <2>2. /\ Cardinality(Used(u)) <= Cardinality(Used(t)) + 1
        /\ Cardinality(Used(u)) \in Nat /\ Cardinality(Used(t)) \in Nat
    BY <1>1, <1>6, OneMoreUsed, Finite
  <2>3. QED
    BY <1>1, <1>6, <2>1, <2>2
<1>15. \A w \in W \ {n} :
         /\ \A j \in W \ {n} : o.vec[j].key = o.vec[w].key => j = w
         /\ \A j \in 0 .. u.size - 1 : ~Holds(u.vec[j], o.vec[w].key)
  <2>1. ASSUME NEW w \in W \ {n}
        PROVE  /\ \A j \in W \ {n} : o.vec[j].key = o.vec[w].key => j = w
               /\ \A j \in 0 .. t.size - 1 : ~Holds(t.vec[j], o.vec[w].key)
               /\ o.vec[w].key # k
    BY <1>3, <1>12 DEF Tables, W
  <2>2. \A x : Holds(Full(k, v), x) => x = k
    BY DEF Holds, Full
  <2>3. QED
    BY <1>6, <2>1, <2>2
<1>16. Tables(u, o, n + 1)
  <2>1. u.size \in PowersOfTwo
    BY <1>1, <1>6
  <2>2. u.fill = Cardinality(Items(u.vec, 0 .. u.size - 1)) + Cardinality(Waiting(o, n + 1))
    BY <1>9, <1>12, <1>13
  <2>3. QED
    BY <1>1, <1>2, <1>6, <1>7, <1>12, <1>14, <1>15, <2>1, <2>2 DEF Tables
<1>17. QED
  BY <1>3, <1>6, <1>8, <1>16 DEF i

LEMMA CopyKeeps ==
  ASSUME HashInv, CopyStep
  PROVE  HashInv'
<1> DEFINE s == old.vec[next]
<1>1. /\ next < old.size /\ next' = next + 1 /\ old' = old /\ answer' = answer /\ deletes' = deletes
      /\ Tables(ht, old, next) /\ hung = FALSE
  BY DEF CopyStep, HashInv
<1>2. s \in Slot
  BY <1>1 DEF Tables
<1>3. CASE s = Empty
  <2>1. ht' = ht /\ hung' = hung
    BY <1>3 DEF CopyStep, Skipped
  <2>2. Tables(ht, old, next + 1)
    BY <1>1, <1>3, CopySkips
  <2>3. QED
    BY <1>1, <2>1, <2>2 DEF HashInv
<1>4. CASE s = Marker
  <2>1. Stops(ht, DELETED) # {}
    BY <1>1, CopyEnds DEF Looked
  <2>2. ht' = [ht EXCEPT !.vec[FindSlot(ht, DELETED)] = Marker] /\ hung' = hung
    BY <1>4, <2>1, SlotFacts DEF CopyStep, Skipped
  <2>3. ht' = Put(ht, FindSlot(ht, DELETED), Marker)
    BY <2>2 DEF Put
  <2>4. Tables(ht', old, next + 1)
    BY <1>1, <1>4, <2>3, CopyMarker
  <2>5. QED
    BY <1>1, <2>2, <2>4 DEF HashInv
<1>5. CASE ~Vacant(s)
  <2>1. s.key \in Looked /\ s # Empty /\ s # Marker
    BY <1>2, <1>5, SlotFacts DEF Looked
  <2>2. Stops(ht, s.key) # {}
    BY <1>1, <2>1, CopyEnds
  <2>3. ht' = [ht EXCEPT !.vec[FindSlot(ht, s.key)] = s] /\ hung' = hung
    BY <2>1, <2>2 DEF CopyStep, Skipped
  <2>4. ht' = Put(ht, FindSlot(ht, s.key), s)
    BY <2>3 DEF Put
  <2>5. Tables(ht', old, next + 1)
    BY <1>1, <1>5, <2>4, CopyItem
  <2>6. QED
    BY <1>1, <2>3, <2>5 DEF HashInv
<1>6. QED
  BY <1>2, <1>3, <1>4, <1>5, SlotFacts

(* Every step keeps the invariant.                                         *)
LEMMA HashStepKeeps ==
  ASSUME HashInv, [Next]_vars
  PROVE  HashInv'
<1>1. CASE UNCHANGED vars
  BY <1>1 DEF HashInv, vars
<1>2. CASE Stuck
  BY <1>2 DEF HashInv, Stuck, vars
<1>3. ASSUME NEW k \in Keys, Hang(k) PROVE HashInv'
  BY <1>3 DEF HashInv, Hang
<1>4. QED
  BY <1>1, <1>2, <1>3, FindKeeps, DeleteKeeps, InsertKeeps, CopyKeeps, DeleteItemsKeeps DEF Next
-----------------------------------------------------------------------------
(* It implies what is checked of a small table.                            *)
LEMMA HashInvShows ==
  ASSUME HashInv
  PROVE  TableSound
<1>1. /\ Tables(ht, old, next) /\ Record(ht) /\ TableOK(ht) /\ Sound(ht)
      /\ ht.size \in PowersOfTwo /\ ht.size \in Nat \ {0} /\ ht.fill \in Nat /\ ht.capacity \in Nat
      /\ hung \in BOOLEAN /\ answer \in Answers /\ deletes \in Nat
  BY RecordOK DEF HashInv, Tables
<1>2. ToCopy = Waiting(old, next)
  BY DEF ToCopy, Waiting, Items
<1>3. TypeOK
  BY <1>1 DEF TypeOK, Tables, TableOK, Slots, Answers
<1>4. Reachable
  <2>1. ASSUME NEW i \in Slots, ~Vacant(ht.vec[i])
        PROVE  LET k == ht.vec[i].key
               IN /\ \A j \in Slots : Holds(ht.vec[j], k) => j = i
                  /\ \A j \in ToCopy : old.vec[j].key # k
                  /\ Ends(k) /\ FindSlot(ht, k) = i
    <3> DEFINE k == ht.vec[i].key
    <3>1. i \in 0 .. ht.size - 1 /\ Slots = 0 .. ht.size - 1
      BY DEF Slots
    <3>2. k \in Keys /\ Holds(ht.vec[i], k)
      BY <1>1, <2>1, <3>1, SlotFacts DEF TableOK
    <3>3. Stops(ht, k) # {} /\ FindSlot(ht, k) = i
      BY <1>1, <3>1, <3>2, Found
    <3>4. \A j \in Slots : Holds(ht.vec[j], k) => j = i
      BY <1>1, <2>1, <3>1 DEF Sound
    <3>5. \A j \in ToCopy : old.vec[j].key # k
      BY <1>1, <1>2, <3>1, <3>2 DEF Tables
    <3>6. QED
      BY <3>3, <3>4, <3>5 DEF Ends
  <2>2. QED
    BY <2>1 DEF Reachable
<1>5. FillIsCount
  BY <1>1, <1>2 DEF FillIsCount, Tables, Slots, Items
<1>6. SearchEnds
  BY <1>1, EmptyStops DEF SearchEnds, Slots, Ends, Looked
<1>7. QED
  BY <1>3, <1>4, <1>5, <1>6 DEF TableSound

(* Whatever the keys and their hashes, and whatever was inserted, deleted  *)
(* and copied into larger tables: hash_find_slot finds each item where it  *)
(* is, ht_fill is the number of items, and the search of any key ends as   *)
(* long as a slot is empty (hashtab.c).                                    *)
THEOREM TableAlwaysSound == Spec => []TableSound
<1>1. Init => HashInv
  BY InitHash
<1>2. HashInv /\ [Next]_vars => HashInv'
  BY HashStepKeeps
<1>3. HashInv => TableSound
  BY HashInvShows
<1>4. QED
  BY <1>1, <1>2, <1>3, PTL DEF Spec
-----------------------------------------------------------------------------
(* The map that a table and the slots still to copy stand for.             *)
InTable(t, k, v) == \E i \in 0 .. t.size - 1 : t.vec[i] = Full(k, v)
Has(t, o, n, k, v) == InTable(t, k, v) \/ \E i \in Waiting(o, n) : o.vec[i] = Full(k, v)

MapOf(t, o, n) ==
  [k \in Keys |->
     IF \E i \in 0 .. t.size - 1 : Holds(t.vec[i], k)
     THEN t.vec[CHOOSE i \in 0 .. t.size - 1 : Holds(t.vec[i], k)].value
     ELSE IF \E i \in Waiting(o, n) : Holds(o.vec[i], k)
     THEN o.vec[CHOOSE i \in Waiting(o, n) : Holds(o.vec[i], k)].value
     ELSE NoItem]

LEMMA MappedIs == mapped = MapOf(ht, old, next) /\ mapped' = MapOf(ht', old', next')
BY DEF mapped, MapOf, Slots, ToCopy, Waiting, Items

LEMMA FullFacts ==
  /\ \A k \in Keys, v \in Values : \A l \in Keys, w \in Values :
       Full(k, v) = Full(l, w) <=> k = l /\ v = w
  /\ \A k \in Keys, v \in Values : Full(k, v) # Marker /\ Full(k, v) # Empty
  /\ \A s \in Slot, k \in Keys : Holds(s, k) <=> \E v \in Values : s = Full(k, v)
  /\ \A k \in Keys, v \in Values : Full(k, v).value = v /\ Holds(Full(k, v), k)
<1>1. \A k \in Keys, v \in Values : \A l \in Keys, w \in Values :
        Full(k, v) = Full(l, w) <=> k = l /\ v = w
  <2>1. \A k \in Keys, v \in Values : Full(k, v).key = k /\ Full(k, v).value = v
    BY SlotFacts
  <2>2. QED
    BY <2>1
<1>2. \A k \in Keys, v \in Values : Full(k, v) # Marker /\ Full(k, v) # Empty
  BY SlotFacts
<1>3. \A k \in Keys, v \in Values : Full(k, v).value = v /\ Holds(Full(k, v), k)
  BY SlotFacts
<1>4. ASSUME NEW s \in Slot, NEW k \in Keys, Holds(s, k) PROVE \E v \in Values : s = Full(k, v)
  <2>1. ~Vacant(s)
    BY <1>4, SlotFacts
  <2>2. s.key = k /\ s.value \in Values /\ s = Full(s.key, s.value)
    BY <1>4, <2>1, SlotFacts
  <2>3. QED
    BY <2>2
<1>5. QED
  BY <1>1, <1>2, <1>3, <1>4

(* It is a map: each key has one value at most.                            *)
LEMMA MapFacts ==
  ASSUME NEW t, NEW o, NEW n, Tables(t, o, n), NEW k \in Keys
  PROVE  /\ MapOf(t, o, n)[k] \in Values \cup {NoItem}
         /\ \A v \in Values : MapOf(t, o, n)[k] = v <=> Has(t, o, n, k, v)
<1> DEFINE T == 0 .. t.size - 1  W == Waiting(o, n)  m == MapOf(t, o, n)[k]
<1>1. /\ \A i \in T : t.vec[i] \in Slot
      /\ \A i \in W : o.vec[i] \in Slot
      /\ \A i \in T : \A j \in T : Holds(t.vec[i], k) /\ Holds(t.vec[j], k) => i = j
      /\ \A i \in W : \A j \in W : Holds(o.vec[i], k) /\ Holds(o.vec[j], k) => i = j
      /\ \A i \in W : \A j \in T : ~(Holds(o.vec[i], k) /\ Holds(t.vec[j], k))
  <2>1. /\ \A i \in T : t.vec[i] \in Slot
        /\ \A i \in W : o.vec[i] \in Slot
    <3>1. o.vec \in [0 .. o.size - 1 -> Slot] /\ n \in 0 .. o.size /\ o.size \in Nat /\ TableOK(t)
      BY RecordOK DEF Tables
    <3>2. W \in SUBSET (0 .. o.size - 1)
      BY <3>1 DEF Waiting, Items
    <3>3. QED
      BY <3>1, <3>2 DEF TableOK
  <2>2. \A s \in Slot : Holds(s, k) => ~Vacant(s) /\ s.key = k
    BY SlotFacts DEF Holds, Vacant
  <2>3. \A i \in T : \A j \in T : Holds(t.vec[i], k) /\ Holds(t.vec[j], k) => i = j
    BY <2>1, <2>2 DEF Tables, Sound
  <2>4. QED
    BY <2>1, <2>2, <2>3 DEF Tables
<1>2. CASE \E i \in T : Holds(t.vec[i], k)
  <2>1. PICK i \in T : m = t.vec[i].value /\ Holds(t.vec[i], k)
    BY <1>2 DEF MapOf
  <2>2. PICK w \in Values : t.vec[i] = Full(k, w)
    BY <1>1, <2>1, FullFacts
  <2> HIDE DEF T, W, m
  <2>3. m = w
    BY <2>1, <2>2, FullFacts
  <2>4. ASSUME NEW v \in Values, Has(t, o, n, k, v) PROVE v = w
    BY <1>1, <2>1, <2>2, <2>4, FullFacts DEF Has, InTable, T, W
  <2>5. Has(t, o, n, k, w)
    BY <2>2 DEF Has, InTable, T
  <2>6. QED
    BY <2>3, <2>4, <2>5 DEF m
<1>3. CASE (\A i \in T : ~Holds(t.vec[i], k)) /\ \E i \in W : Holds(o.vec[i], k)
  <2>1. PICK i \in W : m = o.vec[i].value /\ Holds(o.vec[i], k)
    BY <1>3 DEF MapOf
  <2>2. PICK w \in Values : o.vec[i] = Full(k, w)
    BY <1>1, <2>1, FullFacts
  <2> HIDE DEF T, W, m
  <2>3. m = w
    BY <2>1, <2>2, FullFacts
  <2>4. ASSUME NEW v \in Values, Has(t, o, n, k, v) PROVE v = w
    BY <1>1, <2>1, <2>2, <2>4, FullFacts DEF Has, InTable, T, W
  <2>5. Has(t, o, n, k, w)
    BY <2>2 DEF Has, W
  <2>6. QED
    BY <2>3, <2>4, <2>5 DEF m
<1>4. CASE (\A i \in T : ~Holds(t.vec[i], k)) /\ (\A i \in W : ~Holds(o.vec[i], k))
  <2>1. m = NoItem
    BY <1>4 DEF MapOf
  <2>2. \A v \in Values : ~Has(t, o, n, k, v)
    BY <1>4, FullFacts DEF Has, InTable
  <2>3. QED
    BY <2>1, <2>2, HashAssumption
<1>5. QED
  BY <1>2, <1>3, <1>4

(* It is the map that has the same pairs.                                  *)
LEMMA MapIs ==
  ASSUME NEW t, NEW o, NEW n, Tables(t, o, n), NEW m \in [Keys -> Values \cup {NoItem}],
         \A k \in Keys, v \in Values : Has(t, o, n, k, v) <=> m[k] = v
  PROVE  MapOf(t, o, n) = m
<1> DEFINE f == MapOf(t, o, n)
<1>1. f = [k \in Keys |-> f[k]]
  BY DEF MapOf
<1>2. ASSUME NEW k \in Keys PROVE f[k] = m[k]
  <2>1. f[k] \in Values \cup {NoItem} /\ \A v \in Values : f[k] = v <=> Has(t, o, n, k, v)
    BY MapFacts
  <2> HIDE DEF f
  <2>2. \A v \in Values : f[k] = v <=> m[k] = v
    BY <2>1
  <2>3. QED
    BY <2>1, <2>2
<1>3. QED
  BY <1>1, <1>2

LEMMA HasIdle ==
  ASSUME NEW t, NEW o, o.size \in Nat
  PROVE  \A k, v : Has(t, o, o.size, k, v) <=> InTable(t, k, v)
BY NoneWaiting DEF Has
-----------------------------------------------------------------------------
(* Each operation does to the map what FiniteMap says.                     *)
LEMMA InitMaps ==
  ASSUME Init
  PROVE  Map!MapInit
<1>1. HashInv /\ Tables(ht, old, next) /\ next = 0 /\ answer = << >>
  BY InitHash DEF Init, HashInv
<1>2. ht.vec = Table(ht.size) /\ old.size = 0
  BY DEF Init
<1> DEFINE m == [k \in Keys |-> NoItem]
<1>3. m \in [Keys -> Values \cup {NoItem}] /\ \A k \in Keys, v \in Values : m[k] # v
  BY HashAssumption
<1>4. \A k \in Keys, v \in Values : ~InTable(ht, k, v)
  BY <1>2, FullFacts DEF InTable, Table
<1>5. \A k \in Keys, v \in Values : Has(ht, old, next, k, v) <=> m[k] = v
  <2>1. old.size \in Nat /\ next = old.size
    BY <1>1, <1>2
  <2>2. \A k, v : Has(ht, old, next, k, v) <=> InTable(ht, k, v)
    BY <2>1, HasIdle
  <2>3. QED
    BY <1>3, <1>4, <2>2
<1> HIDE DEF m
<1>6. MapOf(ht, old, next) = m
  BY <1>1, <1>3, <1>5, MapIs
<1>7. QED
  BY <1>1, <1>6, MappedIs DEF Map!MapInit, m

(* What is in the map, between two calls.                                  *)
LEMMA IdleMap ==
  ASSUME HashInv, Idle
  PROVE  /\ mapped \in [Keys -> Values \cup {NoItem}]
         /\ \A k \in Keys, v \in Values : mapped[k] = v <=> InTable(ht, k, v)
<1>1. Tables(ht, old, next) /\ next = old.size /\ old.size \in Nat
  BY IdleFacts DEF Tables
<1>2. mapped = MapOf(ht, old, next) /\ mapped = [k \in Keys |-> mapped[k]]
  BY MappedIs DEF mapped
<1>3. ASSUME NEW k \in Keys
      PROVE  /\ mapped[k] \in Values \cup {NoItem}
             /\ \A v \in Values : mapped[k] = v <=> Has(ht, old, next, k, v)
  BY <1>1, <1>2, MapFacts
<1>4. \A k, v : Has(ht, old, next, k, v) <=> InTable(ht, k, v)
  BY <1>1, HasIdle
<1>5. QED
  BY <1>2, <1>3, <1>4

(* What a search finds is the value of the key.                            *)
LEMMA SearchedIs ==
  ASSUME HashInv, Idle, NEW k \in Keys, Stops(ht, k) # {}
  PROVE  Value(ht.vec[FindSlot(ht, k)]) = mapped[k]
<1> DEFINE i == FindSlot(ht, k)  s == ht.vec[i]
<1>1. Record(ht) /\ TableOK(ht) /\ Sound(ht) /\ k \in Looked
  BY IdleFacts DEF Looked
<1>2. i \in 0 .. ht.size - 1 /\ s \in Slot /\ (Vacant(s) \/ Holds(s, k))
  <2>1. i \in 0 .. ht.size - 1 /\ (Vacant(s) \/ Holds(s, k))
    BY <1>1, FindSlotReturns
  <2>2. QED
    BY <1>1, <2>1 DEF TableOK
<1>3. CASE Vacant(s)
  <2>1. \A j \in 0 .. ht.size - 1 : ~Holds(ht.vec[j], k)
    BY <1>1, <1>3, NotFound
  <2>2. \A v \in Values : ~InTable(ht, k, v)
    BY <2>1, FullFacts DEF InTable
  <2>3. mapped[k] = NoItem
    BY <2>2, IdleMap
  <2>4. QED
    BY <1>3, <2>3 DEF Value
<1>4. CASE ~Vacant(s)
  <2>1. PICK v \in Values : s = Full(k, v)
    BY <1>2, <1>4, FullFacts
  <2>2. Value(s) = v
    BY <1>4, <2>1, FullFacts DEF Value
  <2>3. InTable(ht, k, v)
    BY <1>2, <2>1 DEF InTable
  <2>4. QED
    BY <2>2, <2>3, IdleMap
<1>5. QED
  BY <1>3, <1>4

LEMMA FindGets ==
  ASSUME HashInv, NEW k \in Keys, Find(k)
  PROVE  Map!Get(k)
<1>1. /\ Idle /\ Stops(ht, k) # {} /\ answer' = <<k, Value(ht.vec[FindSlot(ht, k)])>>
      /\ ht' = ht /\ old' = old /\ next' = next
  BY DEF Find, Ends
<1>2. mapped' = mapped
  BY <1>1, MappedIs
<1>3. QED
  BY <1>1, <1>2, SearchedIs DEF Map!Get

LEMMA StoredPairs ==
  ASSUME NEW t, Record(t), t.size \in PowersOfTwo, Sound(t),
         NEW k \in Keys, NEW v \in Values, Stops(t, k) # {}
  PROVE  \A l \in Keys, w \in Values :
           InTable(Store(t, k, v), l, w) <=> IF l = k THEN w = v ELSE InTable(t, l, w)
<1> DEFINE u == Store(t, k, v)  i == FindSlot(t, k)
<1>1. /\ u.size = t.size /\ i \in 0 .. t.size - 1
      /\ \A j \in 0 .. t.size - 1 :
           /\ u.vec[j] = IF j = i THEN Full(k, v) ELSE t.vec[j]
           /\ j # i => ~Holds(t.vec[j], k)
  BY Stored
<1>2. Vacant(t.vec[i]) \/ Holds(t.vec[i], k)
  BY RecordOK, FindSlotReturns DEF Looked
<1> HIDE DEF u, i
<1>3. ASSUME NEW l \in Keys, NEW w \in Values
      PROVE  InTable(u, l, w) <=> IF l = k THEN w = v ELSE InTable(t, l, w)
  <2>1. CASE l = k
    <3>1. ASSUME NEW j \in 0 .. t.size - 1, u.vec[j] = Full(l, w) PROVE j = i
      BY <1>1, <2>1, <3>1, FullFacts
    <3>2. u.vec[i] = Full(k, v)
      BY <1>1
    <3>3. QED
      BY <1>1, <2>1, <3>1, <3>2, FullFacts DEF InTable
  <2>2. CASE l # k
    <3>1. t.vec[i] # Full(l, w)
      BY <1>2, <2>2, SlotFacts DEF Holds
    <3>2. u.vec[i] # Full(l, w)
      BY <1>1, <2>2, FullFacts
    <3>3. QED
      BY <1>1, <2>2, <3>1, <3>2 DEF InTable
  <2>3. QED
    BY <2>1, <2>2
<1>4. QED
  BY <1>3 DEF u

LEMMA GrownPairs ==
  ASSUME NEW u, NEW o, o = [vec |-> u.vec, size |-> u.size], u.size \in Nat \ {0}
  PROVE  \A k \in Keys, v \in Values : Has(Grown(u), o, 0, k, v) <=> InTable(u, k, v)
<1>1. Grown(u).size = 2 * u.size /\ Grown(u).vec = Table(2 * u.size) /\ o.vec = u.vec /\ o.size = u.size
  BY DEF Grown
<1>2. \A k \in Keys, v \in Values : ~InTable(Grown(u), k, v)
  BY <1>1, FullFacts DEF InTable, Table
<1>3. \A k \in Keys, v \in Values : ~Vacant(Full(k, v))
  BY SlotFacts
<1>4. QED
  BY <1>1, <1>2, <1>3 DEF Has, InTable, Waiting, Items

LEMMA InsertPuts ==
  ASSUME HashInv, NEW k \in Keys, NEW v \in Values, Insert(k, v)
  PROVE  Map!Put(k, v)
<1> DEFINE u == Store(ht, k, v)  m == [mapped EXCEPT ![k] = v]
<1>1. Idle /\ Stops(ht, k) # {} /\ answer' = << >>
  BY DEF Insert, Ends
<1>2. /\ Tables(ht, old, next) /\ next = old.size /\ old.size \in Nat /\ Record(ht) /\ Sound(ht)
      /\ ht.size \in PowersOfTwo /\ ht.size \in Nat \ {0}
  BY <1>1, IdleFacts DEF Tables
<1>3. Tables(ht', old', next')
  BY InsertKeeps DEF HashInv
<1>4. u.size = ht.size
  BY <1>1, <1>2, Stored
<1>5. \A l \in Keys, w \in Values : InTable(u, l, w) <=> IF l = k THEN w = v ELSE InTable(ht, l, w)
  BY <1>1, <1>2, StoredPairs
<1> HIDE DEF u
<1>6. /\ m \in [Keys -> Values \cup {NoItem}]
      /\ \A l \in Keys, w \in Values : m[l] = w <=> InTable(u, l, w)
  <2>1. /\ mapped \in [Keys -> Values \cup {NoItem}]
        /\ \A l \in Keys, w \in Values : mapped[l] = w <=> InTable(ht, l, w)
    BY <1>1, IdleMap
  <2> DEFINE f == mapped
  <2> HIDE DEF f
  <2>2. QED
    BY <1>5, <2>1
<1>7. \A l \in Keys, w \in Values : Has(ht', old', next', l, w) <=> InTable(u, l, w)
  <2>1. CASE Overflows(u)
    <3>1. ht' = Grown(u) /\ old' = [vec |-> u.vec, size |-> u.size] /\ next' = 0
      BY <2>1 DEF Insert, u
    <3>2. QED
      BY <1>2, <1>4, <3>1, GrownPairs
  <2>2. CASE ~Overflows(u)
    <3>1. ht' = u /\ old' = old /\ next' = next
      BY <2>2 DEF Insert, u
    <3>2. QED
      BY <1>2, <3>1, HasIdle
  <2>3. QED
    BY <2>1, <2>2
<1> HIDE DEF m
<1>8. MapOf(ht', old', next') = m
  BY <1>3, <1>6, <1>7, MapIs
<1>9. QED
  BY <1>1, <1>8, MappedIs DEF Map!Put, m

LEMMA DeleteRemoves ==
  ASSUME HashInv, NEW k \in Keys, Delete(k)
  PROVE  Map!Remove(k)
<1> DEFINE i == FindSlot(ht, k)  m == [mapped EXCEPT ![k] = NoItem]
<1>1. /\ Idle /\ Stops(ht, k) # {} /\ answer' = <<k, Value(ht.vec[i])>>
      /\ old' = old /\ next' = next
      /\ ht' = IF Vacant(ht.vec[i]) THEN ht ELSE Erased(ht, i)
  BY DEF Delete, Ends
<1>2. /\ Tables(ht, old, next) /\ next = old.size /\ old.size \in Nat
      /\ Record(ht) /\ TableOK(ht) /\ Sound(ht)
      /\ ht.fill = Cardinality(Items(ht.vec, 0 .. ht.size - 1)) /\ k \in Looked
  BY <1>1, IdleFacts DEF Tables, Looked
<1>3. Tables(ht', old', next')
  BY DeleteKeeps DEF HashInv
<1>4. /\ i \in 0 .. ht.size - 1 /\ ht.vec[i] \in Slot
      /\ Vacant(ht.vec[i]) \/ Holds(ht.vec[i], k)
      /\ \A j \in 0 .. ht.size - 1 : Holds(ht.vec[j], k) => j = i
  <2>1. i \in 0 .. ht.size - 1 /\ (Vacant(ht.vec[i]) \/ Holds(ht.vec[i], k))
    BY <1>1, <1>2, FindSlotReturns
  <2>2. \A j \in 0 .. ht.size - 1 : Holds(ht.vec[j], k) => j = i
    BY <1>2, Found
  <2>3. QED
    BY <1>2, <2>1, <2>2 DEF TableOK
<1>5. Value(ht.vec[i]) = mapped[k]
  BY <1>1, SearchedIs
<1> HIDE DEF i
<1>6. ASSUME NEW l \in Keys, NEW w \in Values
      PROVE  InTable(ht', l, w) <=> l # k /\ InTable(ht, l, w)
  <2>1. CASE Vacant(ht.vec[i])
    <3>1. \A j \in 0 .. ht.size - 1 : ~Holds(ht.vec[j], k)
      BY <1>4, <2>1 DEF Holds, Vacant
    <3>2. InTable(ht, l, w) => l # k
      BY <3>1, FullFacts DEF InTable
    <3>3. QED
      BY <1>1, <2>1, <3>2
  <2>2. CASE ~Vacant(ht.vec[i])
    <3> DEFINE u == Erased(ht, i)
    <3>1. u.size = ht.size /\ \A j \in 0 .. ht.size - 1 : u.vec[j] = IF j = i THEN Marker ELSE ht.vec[j]
      BY <1>2, <1>4, <2>2, ErasedTable
    <3>2. ht' = u
      BY <1>1, <2>2
    <3>3. PICK v \in Values : ht.vec[i] = Full(k, v)
      BY <1>4, <2>2, FullFacts
    <3> HIDE DEF u
    <3>4. InTable(u, l, w) => l # k /\ InTable(ht, l, w)
      <4>1. ASSUME NEW j \in 0 .. ht.size - 1, u.vec[j] = Full(l, w)
            PROVE  j # i /\ ht.vec[j] = Full(l, w)
        BY <3>1, <4>1, FullFacts
      <4>2. ASSUME NEW j \in 0 .. ht.size - 1, j # i, ht.vec[j] = Full(l, w) PROVE l # k
        BY <1>4, <4>2, FullFacts
      <4>3. QED
        BY <3>1, <4>1, <4>2 DEF InTable
    <3>5. l # k /\ InTable(ht, l, w) => InTable(u, l, w)
      <4>1. ASSUME NEW j \in 0 .. ht.size - 1, ht.vec[j] = Full(l, w), l # k
            PROVE  u.vec[j] = Full(l, w)
        BY <3>1, <3>3, <4>1, FullFacts
      <4>2. QED
        BY <3>1, <4>1 DEF InTable
    <3>6. QED
      BY <3>2, <3>4, <3>5
  <2>3. QED
    BY <2>1, <2>2
<1>7. /\ m \in [Keys -> Values \cup {NoItem}]
      /\ \A l \in Keys, w \in Values : m[l] = w <=> InTable(ht', l, w)
  <2>1. /\ mapped \in [Keys -> Values \cup {NoItem}]
        /\ \A l \in Keys, w \in Values : mapped[l] = w <=> InTable(ht, l, w)
    BY <1>1, IdleMap
  <2> DEFINE f == mapped
  <2> HIDE DEF f
  <2>2. QED
    BY <1>6, <2>1, HashAssumption
<1>8. \A l \in Keys, w \in Values : Has(ht', old', next', l, w) <=> InTable(ht', l, w)
  BY <1>1, <1>2, HasIdle
<1> HIDE DEF m
<1>9. MapOf(ht', old', next') = m
  BY <1>3, <1>7, <1>8, MapIs
<1>10. QED
  BY <1>1, <1>5, <1>9, MappedIs DEF Map!Remove, m

LEMMA DeleteItemsClears ==
  ASSUME HashInv, DeleteItems
  PROVE  Map!Clear
<1> DEFINE m == [k \in Keys |-> NoItem]
<1>1. /\ Idle /\ answer' = << >> /\ old' = old /\ next' = next
      /\ ht' = [ht EXCEPT !.vec = Table(ht.size), !.fill = 0]
  BY DEF DeleteItems
<1>2. next = old.size /\ old.size \in Nat /\ Record(ht) /\ Tables(ht', old', next')
  BY <1>1, IdleFacts, DeleteItemsKeeps DEF Tables, HashInv
<1>3. ht'.vec = Table(ht.size) /\ ht'.size = ht.size
  <2>1. ht = [vec |-> ht.vec, size |-> ht.size, fill |-> ht.fill, capacity |-> ht.capacity]
    BY <1>2 DEF Record
  <2>2. QED
    BY <1>1, <2>1
<1>4. \A k \in Keys, v \in Values : ~InTable(ht', k, v)
  BY <1>3, FullFacts DEF InTable, Table
<1>5. m \in [Keys -> Values \cup {NoItem}] /\ \A k \in Keys, v \in Values : m[k] # v
  BY HashAssumption
<1>6. \A k \in Keys, v \in Values : Has(ht', old', next', k, v) <=> m[k] = v
  BY <1>1, <1>2, <1>4, <1>5, HasIdle
<1> HIDE DEF m
<1>7. MapOf(ht', old', next') = m
  BY <1>2, <1>5, <1>6, MapIs
<1>8. QED
  BY <1>1, <1>7, MappedIs DEF Map!Clear, m

(* A slot that is copied is in one table or the other.                     *)
LEMMA MovedPairs ==
  ASSUME NEW t, NEW o, NEW n, Tables(t, o, n), n < o.size, NEW i \in 0 .. t.size - 1,
         Vacant(t.vec[i]), NEW u, u.size = t.size,
         \A j \in 0 .. t.size - 1 : u.vec[j] = IF j = i THEN o.vec[n] ELSE t.vec[j]
  PROVE  \A k \in Keys, v \in Values : Has(u, o, n + 1, k, v) <=> Has(t, o, n, k, v)
<1>1. /\ \A j \in Waiting(o, n + 1) : j \in Waiting(o, n)
      /\ \A j \in Waiting(o, n) : j = n \/ j \in Waiting(o, n + 1)
      /\ ~Vacant(o.vec[n]) => n \in Waiting(o, n)
  <2>1. o.size \in Nat /\ n \in 0 .. o.size
    BY DEF Tables
  <2>2. QED
    BY <2>1, NextWaiting
<1>2. ASSUME NEW k \in Keys, NEW v \in Values
      PROVE  Has(u, o, n + 1, k, v) <=> Has(t, o, n, k, v)
  <2>1. ~Vacant(Full(k, v))
    BY SlotFacts
  <2>2. InTable(u, k, v) <=> InTable(t, k, v) \/ o.vec[n] = Full(k, v)
    <3>1. u.vec[i] = o.vec[n] /\ t.vec[i] # Full(k, v)
      BY <2>1
    <3>2. \A j \in 0 .. t.size - 1 : j # i => u.vec[j] = t.vec[j]
      OBVIOUS
    <3>3. QED
      BY <3>1, <3>2 DEF InTable
  <2>3. (\E j \in Waiting(o, n) : o.vec[j] = Full(k, v))
        <=> o.vec[n] = Full(k, v) \/ \E j \in Waiting(o, n + 1) : o.vec[j] = Full(k, v)
    BY <1>1, <2>1
  <2>4. QED
    BY <2>2, <2>3 DEF Has
<1>3. QED
  BY <1>2

LEMMA CopyStutters ==
  ASSUME HashInv, CopyStep
  PROVE  mapped' = mapped /\ answer' = answer
<1> DEFINE s == old.vec[next]
<1>1. /\ next < old.size /\ next' = next + 1 /\ old' = old /\ answer' = answer
      /\ Tables(ht, old, next) /\ Tables(ht', old, next + 1)
  BY CopyKeeps DEF CopyStep, HashInv
<1>2. s \in Slot
  BY <1>1 DEF Tables
<1>3. \A k \in Keys, v \in Values : Has(ht', old, next + 1, k, v) <=> Has(ht, old, next, k, v)
  <2>1. CASE s = Empty
    <3>1. ht' = ht
      BY <2>1 DEF CopyStep, Skipped
    <3>2. Waiting(old, next + 1) = Waiting(old, next)
      <4>1. old.size \in Nat /\ next \in 0 .. old.size
        BY <1>1 DEF Tables
      <4>2. next \notin Waiting(old, next) /\ Waiting(old, next + 1) = Waiting(old, next) \ {next}
        BY <1>1, <2>1, <4>1, NextWaiting, SlotFacts
      <4>3. QED
        BY <4>2
    <3>3. QED
      BY <3>1, <3>2 DEF Has
  <2>2. CASE s = Marker
    <3> DEFINE i == FindSlot(ht, DELETED)
    <3>1. Stops(ht, DELETED) # {}
      BY <1>1, CopyEnds DEF Looked
    <3>2. ht' = [ht EXCEPT !.vec[FindSlot(ht, DELETED)] = Marker]
      BY <2>2, <3>1, SlotFacts DEF CopyStep, Skipped
    <3>3. ht' = Put(ht, i, Marker)
      BY <3>2 DEF Put
    <3>4. /\ ht'.size = ht.size /\ i \in 0 .. ht.size - 1 /\ Vacant(ht.vec[i])
          /\ \A j \in 0 .. ht.size - 1 : ht'.vec[j] = IF j = i THEN s ELSE ht.vec[j]
      BY <1>1, <2>2, <3>3, CopyMarker
    <3> HIDE DEF i
    <3>5. QED
      BY <1>1, <3>4, MovedPairs
  <2>3. CASE ~Vacant(s)
    <3> DEFINE i == FindSlot(ht, s.key)
    <3>1. s.key \in Looked /\ s # Empty /\ s # Marker
      BY <1>2, <2>3, SlotFacts DEF Looked
    <3>2. Stops(ht, s.key) # {}
      BY <1>1, <3>1, CopyEnds
    <3>3. ht' = [ht EXCEPT !.vec[FindSlot(ht, s.key)] = s]
      BY <3>1, <3>2 DEF CopyStep, Skipped
    <3>4. ht' = Put(ht, i, s)
      BY <3>3 DEF Put
    <3>5. /\ ht'.size = ht.size /\ i \in 0 .. ht.size - 1 /\ Vacant(ht.vec[i])
          /\ \A j \in 0 .. ht.size - 1 : ht'.vec[j] = IF j = i THEN s ELSE ht.vec[j]
      BY <1>1, <2>3, <3>4, CopyItem
    <3> HIDE DEF i
    <3>6. QED
      BY <1>1, <3>5, MovedPairs
  <2>4. QED
    BY <1>2, <2>1, <2>2, <2>3, SlotFacts
<1> DEFINE m == MapOf(ht, old, next)
<1>4. /\ m \in [Keys -> Values \cup {NoItem}]
      /\ \A k \in Keys, v \in Values : Has(ht, old, next, k, v) <=> m[k] = v
  <2>1. m = [k \in Keys |-> m[k]]
    BY DEF MapOf
  <2>2. \A k \in Keys : /\ m[k] \in Values \cup {NoItem}
                        /\ \A v \in Values : m[k] = v <=> Has(ht, old, next, k, v)
    BY <1>1, MapFacts
  <2> HIDE DEF m
  <2>3. QED
    BY <2>1, <2>2
<1> HIDE DEF m
<1>5. MapOf(ht', old, next + 1) = m
  BY <1>1, <1>3, <1>4, MapIs
<1>6. QED
  BY <1>1, <1>5, MappedIs DEF m

(* Every step of the table is one of the map, or changes nothing of it.    *)
LEMMA StepMaps ==
  ASSUME HashInv, [Next]_vars
  PROVE  [Map!MapNext]_<<mapped, answer>>
<1>1. ASSUME UNCHANGED <<ht, old, next, answer>> PROVE UNCHANGED <<mapped, answer>>
  BY <1>1, MappedIs
<1>2. CASE UNCHANGED vars \/ Stuck \/ \E k \in Keys : Hang(k)
  BY <1>1, <1>2 DEF vars, Stuck, Hang
<1>3. ASSUME NEW k \in Keys, Find(k) \/ Delete(k) PROVE Map!MapNext
  BY <1>3, FindGets, DeleteRemoves DEF Map!MapNext
<1>4. ASSUME NEW k \in Keys, NEW v \in Values, Insert(k, v) PROVE Map!MapNext
  BY <1>4, InsertPuts DEF Map!MapNext
<1>5. CASE DeleteItems
  BY <1>5, DeleteItemsClears DEF Map!MapNext
<1>6. CASE CopyStep
  BY <1>6, CopyStutters
<1>7. QED
  BY <1>2, <1>3, <1>4, <1>5, <1>6 DEF Next

(* The operations of hashtab.c implement those of a finite map: an item    *)
(* that was inserted is found until it is deleted or replaced, a deleted   *)
(* one is not, and the copy into a larger table changes no answer.         *)
THEOREM TableImplementsMap == Spec => ImplementsMap
<1>1. Init => HashInv
  BY InitHash
<1>2. HashInv /\ [Next]_vars => HashInv'
  BY HashStepKeeps
<1>3. Init => Map!MapInit
  BY InitMaps
<1>4. HashInv /\ [Next]_vars => [Map!MapNext]_<<mapped, answer>>
  BY StepMaps
<1>5. QED
  BY <1>1, <1>2, <1>3, <1>4, PTL DEF Spec, ImplementsMap, Map!MapSpec
=============================================================================
