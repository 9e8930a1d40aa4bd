---------------------------- MODULE DiversionProofs -------------------------
(*************************************************************************)
(* Proofs about Diversion, as MCDocuments checks it, for any resources,  *)
(* any number of pages and any order of what is written.                 *)
(*                                                                       *)
(* The invariant says that the text of the diversion is what was written, *)
(* with a NUL for each item that is delayed, and that its derivations are *)
(* those items in their order; so that the dump, which counts the NULs,  *)
(* puts at each what it stands for, the header first.                    *)
(*************************************************************************)
EXTENDS MCDocuments, FiniteSetTheorems, SequenceTheorems, FunctionTheorems, WellFoundedInduction,
        NaturalsInduction, FiniteSetsExt, TLAPS

(* Induction, and the greatest element of what is bounded, from the order  *)
(* of the natural numbers.                                                 *)
LEMMA Least ==
  ASSUME NEW T \in SUBSET Nat, T # {}
  PROVE  \E i \in T : \A k \in T : i <= k
<1> DEFINE Order == OpToRel(<, Nat)
<1>1. IsWellFoundedOn(Order, Nat)
  BY NatLessThanWellFounded
<1>2. PICK i \in T : \A k \in T : <<k, i>> \notin Order
  <2> HIDE DEF Order
  <2>1. QED
    BY <1>1, WFMin
<1>3. ASSUME NEW k \in T
      PROVE  i <= k
  <2>1. <<k, i>> \notin Order
    BY <1>2
  <2>2. k \in Nat /\ i \in Nat
    OBVIOUS
  <2>3. ~(k < i)
    BY <2>1, <2>2 DEF Order, OpToRel
  <2>4. QED
    BY <2>2, <2>3
<1>4. QED
  BY <1>3

LEMMA Induction ==
  ASSUME NEW n \in Nat, NEW T, 0 \in T, \A i \in 1 .. n : i - 1 \in T => i \in T
  PROVE  \A i \in 0 .. n : i \in T
<1> DEFINE S == {i \in 0 .. n : i \notin T}
<1>1. SUFFICES ASSUME S # {}
               PROVE  FALSE
  OBVIOUS
<1>2. S \in SUBSET Nat
  OBVIOUS
<1>3. PICK i \in S : \A k \in S : i <= k
  <2> HIDE DEF S
  <2>1. QED
    BY <1>1, <1>2, Least
<1>4. i \in 1 .. n /\ i - 1 \in 0 .. n /\ ~(i <= i - 1)
  BY <1>3
<1>5. i - 1 \in T
  BY <1>3, <1>4
<1>6. QED
  BY <1>3, <1>4, <1>5

(* Sequences of anything, what they contain, and those without repetition. *)
IsSeq(s) == \E S : s \in Seq(S)
Terms(s) == {s[i] : i \in DOMAIN s}
OneToOne(s) == \A i, j \in DOMAIN s : s[i] = s[j] => i = j

LEMMA SeqFacts ==
  ASSUME NEW s, IsSeq(s)
  PROVE  /\ Len(s) \in Nat /\ DOMAIN s = 1 .. Len(s) /\ (s = << >> <=> Len(s) = 0)
         /\ \A e : /\ IsSeq(Append(s, e)) /\ DOMAIN Append(s, e) = 1 .. Len(s) + 1
                   /\ Len(Append(s, e)) = Len(s) + 1
                   /\ \A i \in 1 .. Len(s) : Append(s, e)[i] = s[i]
                   /\ Append(s, e)[Len(s) + 1] = e
         /\ s # << >> => /\ IsSeq(Tail(s)) /\ DOMAIN Tail(s) = 1 .. Len(s) - 1
                         /\ \A i \in 1 .. Len(s) - 1 : Tail(s)[i] = s[i + 1]
<1>1. PICK S : s \in Seq(S)
  BY DEF IsSeq
<1>2. Len(s) \in Nat /\ DOMAIN s = 1 .. Len(s) /\ (s = << >> <=> Len(s) = 0)
  BY <1>1
<1>3. ASSUME NEW e
      PROVE  /\ IsSeq(Append(s, e)) /\ DOMAIN Append(s, e) = 1 .. Len(s) + 1
             /\ Len(Append(s, e)) = Len(s) + 1
             /\ \A i \in 1 .. Len(s) : Append(s, e)[i] = s[i]
             /\ Append(s, e)[Len(s) + 1] = e
  <2>1. s \in Seq(S \cup {e}) /\ e \in S \cup {e}
    BY <1>1
  <2>2. Append(s, e) \in Seq(S \cup {e})
    BY <2>1
  <2>3. QED
    BY <1>2, <2>1, <2>2 DEF IsSeq
<1>4. ASSUME s # << >>
      PROVE  /\ IsSeq(Tail(s)) /\ DOMAIN Tail(s) = 1 .. Len(s) - 1
             /\ \A i \in 1 .. Len(s) - 1 : Tail(s)[i] = s[i + 1]
  <2>1. Tail(s) \in Seq(S) /\ Len(Tail(s)) = Len(s) - 1
    BY <1>1, <1>4
  <2>2. QED
    BY <1>1, <1>2, <1>4, <2>1 DEF IsSeq
<1>5. QED
  BY <1>2, <1>3, <1>4

LEMMA Concats ==
  /\ \A a, b : IsSeq(a) /\ IsSeq(b) => IsSeq(a \o b)
  /\ \A a, b, c : IsSeq(a) /\ IsSeq(b) /\ IsSeq(c) => (a \o b) \o c = a \o (b \o c)
  /\ \A a : IsSeq(a) => a \o << >> = a /\ << >> \o a = a
  /\ \A a, e : IsSeq(a) => Append(a, e) = a \o <<e>>
  /\ \A a, e : IsSeq(a) => Len(a \o <<e>>) = Len(a) + 1
  /\ IsSeq(<< >>) /\ \A e : IsSeq(<<e>>)
<1>1. IsSeq(<< >>) /\ \A e : IsSeq(<<e>>)
  <2>1. << >> \in Seq({}) /\ \A e : <<e>> \in Seq({e})
    OBVIOUS
  <2>2. QED
    BY <2>1 DEF IsSeq
<1>2. ASSUME NEW a, NEW b, NEW c, IsSeq(a), IsSeq(b), IsSeq(c)
      PROVE  \E S : a \in Seq(S) /\ b \in Seq(S) /\ c \in Seq(S)
  <2>1. PICK A : a \in Seq(A)
    BY <1>2 DEF IsSeq
  <2>2. PICK B : b \in Seq(B)
    BY <1>2 DEF IsSeq
  <2>3. PICK C : c \in Seq(C)
    BY <1>2 DEF IsSeq
  <2> DEFINE S == A \cup B \cup C
  <2>4. A \subseteq S /\ B \subseteq S /\ C \subseteq S
    OBVIOUS
  <2> HIDE DEF S
  <2>5. a \in Seq(S) /\ b \in Seq(S) /\ c \in Seq(S)
    BY <2>1, <2>2, <2>3, <2>4, SeqMonotonic
  <2>6. QED
    BY <2>5
<1>3. ASSUME NEW a, NEW b, NEW c, IsSeq(a), IsSeq(b), IsSeq(c)
      PROVE  IsSeq(a \o b) /\ (a \o b) \o c = a \o (b \o c) /\ a \o << >> = a /\ << >> \o a = a
  <2>1. PICK S : a \in Seq(S) /\ b \in Seq(S) /\ c \in Seq(S)
    BY <1>2, <1>3
  <2>2. (a \o b) \o c = a \o (b \o c)
    BY <2>1, ConcatAssociative
  <2>3. a \o b \in Seq(S)
    BY <2>1, ConcatProperties
  <2>4. a \o << >> = a /\ << >> \o a = a
    BY <2>1, ConcatEmptySeq
  <2>5. QED
    BY <2>2, <2>3, <2>4 DEF IsSeq
<1>4. ASSUME NEW a, NEW e, IsSeq(a)
      PROVE  Append(a, e) = a \o <<e>> /\ Len(a \o <<e>>) = Len(a) + 1
  <2>1. PICK S : a \in Seq(S)
    BY <1>4 DEF IsSeq
  <2>2. a \in Seq(S \cup {e}) /\ e \in S \cup {e}
    BY <2>1, SeqMonotonic
  <2>3. Append(a, e) = a \o <<e>>
    BY <2>2, AppendIsConcat
  <2>4. Len(Append(a, e)) = Len(a) + 1
    BY <2>2
  <2>5. QED
    BY <2>3, <2>4
<1>5. \A a, b : IsSeq(a) /\ IsSeq(b) => IsSeq(a \o b)
  BY <1>3
<1>6. \A a, b, c : IsSeq(a) /\ IsSeq(b) /\ IsSeq(c) => (a \o b) \o c = a \o (b \o c)
  BY <1>3
<1>7. \A a : IsSeq(a) => a \o << >> = a /\ << >> \o a = a
  BY <1>3
<1>8. QED
  BY <1>1, <1>4, <1>5, <1>6, <1>7

LEMMA Associates ==
  ASSUME NEW a, NEW b, NEW c, IsSeq(a), IsSeq(b), IsSeq(c)
  PROVE  (a \o b) \o c = a \o (b \o c)
BY Concats

(* Prefix by prefix: the pieces of the first i entries are g[i].           *)
Joins(g, s) == g[0] = << >> /\ \A i \in 1 .. Len(s) : g[i] = g[i - 1] \o s[i]

LEMMA JoinsIn ==
  ASSUME NEW S, NEW s \in Seq(Seq(S)), NEW g, Joins(g, s)
  PROVE  \A i \in 0 .. Len(s) : g[i] \in Seq(S)
<1> DEFINE n == Len(s)
           T == {i \in 0 .. n : g[i] \in Seq(S)}
<1>1. n \in Nat /\ \A i \in 1 .. n : s[i] \in Seq(S)
  OBVIOUS
<1>2. 0 \in T
  <2>1. 0 \in 0 .. n /\ << >> \in Seq(S) /\ g[0] = << >>
    BY <1>1 DEF Joins
  <2>2. QED
    BY <2>1
<1>3. ASSUME NEW i \in 1 .. n, i - 1 \in T
      PROVE  i \in T
  <2>1. g[i] = g[i - 1] \o s[i] /\ g[i - 1] \in Seq(S) /\ s[i] \in Seq(S)
    BY <1>1, <1>3 DEF Joins
  <2>2. g[i] \in Seq(S)
    BY <2>1, ConcatProperties
  <2>3. QED
    BY <2>2
<1> HIDE DEF n, T
<1>4. \A i \in 0 .. n : i \in T
  BY <1>1, <1>2, <1>3, Induction
<1>5. QED
  BY <1>4 DEF n, T

LEMMA JoinsSame ==
  ASSUME NEW s, Len(s) \in Nat, NEW g, NEW h, Joins(g, s), Joins(h, s)
  PROVE  g[Len(s)] = h[Len(s)]
<1> DEFINE n == Len(s)
           T == {i \in 0 .. n : g[i] = h[i]}
<1>1. 0 \in T
  BY DEF Joins
<1>2. ASSUME NEW i \in 1 .. n, i - 1 \in T
      PROVE  i \in T
  <2>1. g[i] = g[i - 1] \o s[i] /\ h[i] = h[i - 1] \o s[i]
    BY DEF Joins
  <2>2. g[i - 1] = h[i - 1] /\ i \in 0 .. n
    BY <1>2
  <2>3. QED
    BY <2>1, <2>2
<1>3. n \in Nat
  OBVIOUS
<1> HIDE DEF n, T
<1>4. \A i \in 0 .. n : i \in T
  BY <1>1, <1>2, <1>3, Induction
<1>5. n \in T
  BY <1>3, <1>4
<1>6. QED
  BY <1>5 DEF n, T

LEMMA Joined ==
  ASSUME NEW S, NEW s \in Seq(Seq(S))
  PROVE  \E g : Joins(g, s) /\ g[Len(s)] = D!FlattenSeq(s)
<1> DEFINE n == Len(s)
           Is(f, m) == f = [i \in 1 .. m |-> IF i = 1 THEN s[i] ELSE f[i - 1] \o s[i]]
           T == {m \in 0 .. n : \E f : Is(f, m)}
<1>0. n \in Nat /\ \A m \in 0 .. n : (\E f : Is(f, m)) => m \in T
  <2>1. n \in Nat
    OBVIOUS
  <2>2. \A m \in 0 .. n : (\E f : Is(f, m)) => m \in T
    <3> HIDE DEF Is, n
    <3>1. QED
      OBVIOUS
  <2>3. QED
    BY <2>1, <2>2
<1>1. 0 \in T
  <2> DEFINE f == [i \in 1 .. 0 |-> s[i]]
  <2>1. Is(f, 0)
    OBVIOUS
  <2>2. 0 \in 0 .. n
    BY <1>0
  <2> HIDE DEF Is, f, T
  <2>3. QED
    BY <1>0, <2>1, <2>2
<1>2. ASSUME NEW m \in 1 .. n, m - 1 \in T
      PROVE  m \in T
  <2>1. PICK f : Is(f, m - 1)
    BY <1>2
  <2> DEFINE h == [i \in 1 .. m |-> IF i = m THEN (IF m = 1 THEN s[m] ELSE f[m - 1] \o s[m]) ELSE f[i]]
  <2>2. \A i \in 1 .. m : h[i] = IF i = 1 THEN s[i] ELSE h[i - 1] \o s[i]
    <3>1. \A i \in 1 .. m - 1 : f[i] = IF i = 1 THEN s[i] ELSE f[i - 1] \o s[i]
      BY <2>1
    <3>2. \A i \in 1 .. m : i = m \/ (i \in 1 .. m - 1 /\ (i = 1 \/ i - 1 \in 1 .. m - 1) /\ i # m /\ i - 1 # m)
      OBVIOUS
    <3>3. m - 1 # m /\ m \in 1 .. m /\ (m # 1 => m - 1 \in 1 .. m)
      OBVIOUS
    <3>4. \A i \in 1 .. m - 1 : i \in 1 .. m
      OBVIOUS
    <3>5. QED
      BY <3>1, <3>2, <3>3, <3>4
  <2>3. Is(h, m)
    <3>1. h = [i \in 1 .. m |-> h[i]]
      OBVIOUS
    <3> HIDE DEF h
    <3>2. QED
      BY <2>2, <3>1
  <2>4. m \in 0 .. n
    OBVIOUS
  <2> HIDE DEF Is, h, T
  <2>5. QED
    BY <1>0, <2>3, <2>4
<1>3. n \in T
  <2> HIDE DEF T, n
  <2>1. \A i \in 0 .. n : i \in T
    BY <1>0, <1>1, <1>2, Induction
  <2>2. QED
    BY <1>0, <2>1
<1> DEFINE f == CHOOSE f : Is(f, n)
           g == [i \in 0 .. n |-> IF i = 0 THEN << >> ELSE f[i]]
<1>4. Is(f, n)
  <2>1. \E h : Is(h, n)
    BY <1>3
  <2> HIDE DEF Is
  <2>2. QED
    BY <2>1
<1>5. D!FlattenSeq(s) = IF n = 0 THEN s ELSE f[n]
  BY DEF D!FlattenSeq
<1> HIDE DEF f
<1>6. \A i \in 1 .. n : f[i] = IF i = 1 THEN s[i] ELSE f[i - 1] \o s[i]
  BY <1>4
<1>7. \A i \in 1 .. n : s[i] \in Seq(S)
  OBVIOUS
<1>8. Joins(g, s)
  <2>1. g[0] = << >> /\ \A i \in 1 .. n : g[i] = f[i]
    BY <1>0
  <2>2. ASSUME NEW i \in 1 .. n
        PROVE  g[i] = g[i - 1] \o s[i]
    <3>1. CASE i = 1
      <4>1. g[i] = s[i] /\ g[i - 1] = << >>
        BY <1>6, <2>1, <2>2, <3>1
      <4>2. << >> \o s[i] = s[i]
        BY <1>7, <2>2, ConcatEmptySeq
      <4>3. QED
        BY <4>1, <4>2
    <3>2. CASE i # 1
      <4>1. i - 1 \in 1 .. n
        BY <2>2, <3>2
      <4> HIDE DEF g
      <4>2. QED
        BY <1>6, <2>1, <2>2, <3>2, <4>1
    <3>3. QED
      BY <3>1, <3>2
  <2> HIDE DEF g
  <2>3. QED
    BY <2>1, <2>2 DEF Joins
<1>9. g[n] = D!FlattenSeq(s)
  <2>1. CASE n = 0
    <3>1. s = << >>
      BY <2>1
    <3>2. QED
      BY <1>5, <2>1, <3>1
  <2>2. CASE n # 0
    BY <1>0, <1>5, <2>2
  <2>3. QED
    BY <2>1, <2>2
<1> HIDE DEF g
<1>10. QED
  BY <1>8, <1>9

LEMMA FlattenIn ==
  ASSUME NEW S, NEW s \in Seq(Seq(S))
  PROVE  D!FlattenSeq(s) \in Seq(S)
<1>1. PICK g : Joins(g, s) /\ g[Len(s)] = D!FlattenSeq(s)
  BY Joined
<1>2. Len(s) \in 0 .. Len(s)
  OBVIOUS
<1>3. QED
  BY <1>1, <1>2, JoinsIn

Lists(s) == IsSeq(s) /\ \A i \in DOMAIN s : IsSeq(s[i])

LEMMA ListsIn ==
  ASSUME NEW s, Lists(s)
  PROVE  \E S : s \in Seq(Seq(S))
<1>1. PICK T : s \in Seq(T)
  BY DEF Lists, IsSeq
<1>2. Len(s) \in Nat /\ DOMAIN s = 1 .. Len(s)
  BY <1>1
<1> DEFINE S == UNION {Terms(s[i]) : i \in DOMAIN s}
<1>3. ASSUME NEW i \in DOMAIN s
      PROVE  s[i] \in Seq(S)
  <2>1. PICK A : s[i] \in Seq(A)
    BY DEF Lists, IsSeq
  <2> DEFINE B == Terms(s[i])
  <2>2. s[i] \in Seq(B)
    BY <2>1 DEF Terms
  <2>3. B \subseteq S
    OBVIOUS
  <2> HIDE DEF B, S
  <2>4. QED
    BY <2>2, <2>3, SeqMonotonic
<1> HIDE DEF S
<1>4. s \in Seq(Seq(S))
  BY <1>1, <1>2, <1>3
<1>5. QED
  BY <1>4

LEMMA UpToD ==
  ASSUME NEW k \in Nat \ {0}
  PROVE  D!Max(1 .. k) = k /\ (1 .. k) \ {k} = 1 .. k - 1 /\ 1 .. k # {}
<1>1. k \in 1 .. k /\ \A x \in 1 .. k : k >= x
  OBVIOUS
<1>2. \A y \in 1 .. k : (\A x \in 1 .. k : y >= x) => y = k
  OBVIOUS
<1>3. D!Max(1 .. k) = k
  BY <1>1, <1>2 DEF D!Max
<1>4. QED
  BY <1>1, <1>3

(* What of a set is in a sequence, as it is gathered.                      *)
LEMMA TakeChain ==
  ASSUME NEW S, NEW s, Len(s) \in Nat, DOMAIN s = 1 .. Len(s)
  PROVE  \E g : /\ g[0] = << >> /\ g[Len(s)] = D!Among(s, S)
               /\ \A k \in 1 .. Len(s) : g[k] = D!Take(S, g[k - 1], s[k])
<1> DEFINE n == Len(s)
           Next0(it, t) == IF t = {} THEN << >> ELSE D!Take(S, it[t \ {D!Max(t)}], s[D!Max(t)])
           Good(it, k) == /\ it = [t \in SUBSET (1 .. n) |-> it[t]]
                          /\ \A t \in SUBSET (1 .. n) : t \subseteq 1 .. k => it[t] = Next0(it, t)
           T == {k \in 0 .. n : \E it : Good(it, k)}
<1>1. 0 \in T
  <2> DEFINE it == [t \in SUBSET (1 .. n) |-> << >>]
  <2>1. \A t \in SUBSET (1 .. n) : t \subseteq 1 .. 0 => t = {}
    OBVIOUS
  <2>2. Good(it, 0)
    BY <2>1
  <2> HIDE DEF Good
  <2>3. (\E ju : Good(ju, 0)) /\ 0 \in 0 .. n
    BY <2>2
  <2>4. QED
    BY <2>3
<1>2. ASSUME NEW k \in 1 .. n, k - 1 \in T
      PROVE  k \in T
  <2>1. PICK it : Good(it, k - 1)
    BY <1>2
  <2> DEFINE ju == [t \in SUBSET (1 .. n) |-> IF k \in t THEN Next0(it, t) ELSE it[t]]
  <2>2. ASSUME NEW t \in SUBSET (1 .. n), t \subseteq 1 .. k
        PROVE  ju[t] = Next0(ju, t)
    <3>1. CASE k \in t
      <4>1. D!Max(t) = k
        <5>1. \A x \in t : k >= x
          BY <2>2
        <5>2. \A y \in t : (\A x \in t : y >= x) => y = k
          BY <3>1, <5>1, <2>2
        <5>3. QED
          BY <3>1, <5>1, <5>2 DEF D!Max
      <4>2. t \ {k} \in SUBSET (1 .. n) /\ k \notin t \ {k}
        BY <2>2
      <4>3. ju[t \ {k}] = it[t \ {k}]
        BY <4>2
      <4>4. QED
        BY <3>1, <4>1, <4>3
    <3>2. CASE k \notin t
      <4>1. t \subseteq 1 .. k - 1
        BY <3>2, <2>2
      <4>2. it[t] = Next0(it, t) /\ ju[t] = it[t]
        BY <2>1, <3>2, <4>1
      <4>3. t # {} => k \notin t \ {D!Max(t)} /\ t \ {D!Max(t)} \in SUBSET (1 .. n)
        BY <3>2
      <4>4. t # {} => ju[t \ {D!Max(t)}] = it[t \ {D!Max(t)}]
        BY <4>3
      <4>5. QED
        BY <4>2, <4>4
    <3>3. QED
      BY <3>1, <3>2
  <2>3. ju = [t \in SUBSET (1 .. n) |-> ju[t]]
    OBVIOUS
  <2> HIDE DEF ju
  <2>4. Good(ju, k)
    BY <2>2, <2>3
  <2> HIDE DEF Good
  <2>5. (\E v : Good(v, k)) /\ k \in 0 .. n
    BY <2>4
  <2>6. QED
    BY <2>5
<1>3. n \in T
  <2>1. n \in Nat /\ n \in 0 .. n
    OBVIOUS
  <2> HIDE DEF T
  <2>2. \A i \in 0 .. n : i \in T
    BY <1>1, <1>2, <2>1, Induction
  <2>3. QED
    BY <2>1, <2>2
<1>4. PICK it : Good(it, n)
  BY <1>3
<1> DEFINE Eq(u) == u = [t \in SUBSET (DOMAIN s) |-> IF t = {} THEN << >> ELSE LET x == D!Max(t) IN D!Take(S, u[t \ {x}], s[x])]
           f == CHOOSE u : Eq(u)
           g == [k \in 0 .. n |-> f[1 .. k]]
<1>5. Eq(it)
  BY <1>4
<1>6. Eq(f)
  <2> HIDE DEF Eq
  <2>1. QED
    BY <1>5
<1>7. D!Among(s, S) = f[DOMAIN s]
  BY DEF D!Among, D!FoldLeft, D!MapThenFoldSet
<1> HIDE DEF f
<1>8. \A k \in 0 .. n : 1 .. k \in SUBSET (DOMAIN s)
  OBVIOUS
<1>9. f[1 .. 0] = << >>
  <2>1. 1 .. 0 = {} /\ 1 .. 0 \in SUBSET (DOMAIN s)
    OBVIOUS
  <2>2. QED
    BY <1>6, <2>1
<1>10. ASSUME NEW k \in 1 .. n
       PROVE  f[1 .. k] = D!Take(S, f[1 .. k - 1], s[k])
  <2>1. D!Max(1 .. k) = k /\ (1 .. k) \ {k} = 1 .. k - 1 /\ 1 .. k # {} /\ 1 .. k \in SUBSET (DOMAIN s)
    BY UpToD, <1>8
  <2>2. QED
    BY <1>6, <2>1
<1>11. g[0] = << >> /\ \A k \in 1 .. n : g[k] = D!Take(S, g[k - 1], s[k])
  <2>1. \A k \in 1 .. n : k \in 0 .. n /\ k - 1 \in 0 .. n
    OBVIOUS
  <2>2. QED
    BY <1>9, <1>10, <2>1
<1>12. g[n] = D!Among(s, S)
  <2>1. n \in 0 .. n /\ 1 .. n = DOMAIN s
    OBVIOUS
  <2>2. g[n] = f[1 .. n]
    BY <2>1
  <2>3. QED
    BY <1>7, <2>1, <2>2
<1>13. QED
  <2> HIDE DEF g
  <2>1. QED
    BY <1>11, <1>12

LEMMA AmongFacts ==
  ASSUME NEW s, IsSeq(s), NEW S
  PROVE  LET t == D!Among(s, S)
         IN /\ IsSeq(t) /\ Terms(t) = Terms(s) \cap S
            /\ OneToOne(s) => OneToOne(t)
<1>1. Len(s) \in Nat /\ DOMAIN s = 1 .. Len(s)
  BY SeqFacts
<1>2. PICK g : /\ g[0] = << >> /\ g[Len(s)] = D!Among(s, S)
               /\ \A k \in 1 .. Len(s) : g[k] = D!Take(S, g[k - 1], s[k])
  BY <1>1, TakeChain
<1> DEFINE Upto(k) == {s[i] : i \in 1 .. k}
           Good(k) == /\ IsSeq(g[k]) /\ Terms(g[k]) = Upto(k) \cap S
                      /\ OneToOne(s) => OneToOne(g[k])
           T == {k \in 0 .. Len(s) : Good(k)}
<1>3. 0 \in T
  <2>1. IsSeq(<< >>) /\ Terms(<< >>) = {} /\ OneToOne(<< >>)
    BY Concats DEF Terms, OneToOne
  <2>2. Upto(0) = {}
    OBVIOUS
  <2>3. QED
    BY <1>1, <1>2, <2>1, <2>2
<1>4. ASSUME NEW k \in 1 .. Len(s), k - 1 \in T
      PROVE  k \in T
  <2> DEFINE t == g[k - 1]
             x == s[k]
  <2>1. IsSeq(t) /\ Terms(t) = Upto(k - 1) \cap S /\ (OneToOne(s) => OneToOne(t))
    BY <1>4
  <2>2. g[k] = IF x \in S THEN Append(t, x) ELSE t
    BY <1>2 DEF D!Take
  <2>3. Upto(k) = Upto(k - 1) \cup {x}
    <3>1. \A i \in 1 .. k : i \in 1 .. k - 1 \/ i = k
      OBVIOUS
    <3>2. k \in 1 .. k /\ \A i \in 1 .. k - 1 : i \in 1 .. k
      OBVIOUS
    <3>3. QED
      BY <3>1, <3>2
  <2>4. OneToOne(s) => x \notin Upto(k - 1)
    <3>1. \A i \in 1 .. k - 1 : i \in DOMAIN s /\ k \in DOMAIN s /\ i # k
      BY <1>1
    <3>2. QED
      BY <3>1 DEF OneToOne
  <2> HIDE DEF t, x, Upto
  <2>5. CASE x \notin S
    <3>1. Good(k)
      BY <2>1, <2>2, <2>3, <2>5
    <3>2. QED
      BY <3>1
  <2>6. CASE x \in S
    <3>1. /\ IsSeq(g[k]) /\ DOMAIN g[k] = 1 .. Len(t) + 1 /\ Len(t) \in Nat /\ DOMAIN t = 1 .. Len(t)
          /\ \A i \in 1 .. Len(t) : g[k][i] = t[i]
          /\ g[k][Len(t) + 1] = x
      BY <2>1, <2>2, <2>6, SeqFacts
    <3>2. \A i \in DOMAIN g[k] : (i \in DOMAIN t /\ g[k][i] = t[i]) \/ (i = Len(t) + 1 /\ g[k][i] = x)
      BY <3>1
    <3>3. (\A i \in DOMAIN t : i \in DOMAIN g[k]) /\ Len(t) + 1 \in DOMAIN g[k]
      BY <3>1
    <3>4. Terms(g[k]) = Terms(t) \cup {x}
      BY <3>1, <3>2, <3>3 DEF Terms
    <3>5. OneToOne(s) => OneToOne(g[k])
      <4> SUFFICES ASSUME OneToOne(s), NEW i \in DOMAIN g[k], NEW j \in DOMAIN g[k], g[k][i] = g[k][j]
                   PROVE  i = j
        BY DEF OneToOne
      <4>1. \A m \in DOMAIN t : t[m] # x
        BY <2>1, <2>4 DEF Terms
      <4>2. QED
        BY <2>1, <3>2, <4>1 DEF OneToOne
    <3>6. Good(k)
      BY <2>1, <2>3, <2>6, <3>1, <3>4, <3>5
    <3>7. QED
      BY <3>6
  <2>7. QED
    BY <2>5, <2>6
<1> HIDE DEF T
<1>5. \A k \in 0 .. Len(s) : k \in T
  BY <1>1, <1>3, <1>4, Induction
<1>6. Good(Len(s))
  <2>1. Len(s) \in 0 .. Len(s)
    BY <1>1
  <2>2. QED
    BY <1>5, <2>1 DEF T
<1>7. Terms(s) = Upto(Len(s))
  BY <1>1 DEF Terms
<1>8. QED
  BY <1>2, <1>6, <1>7

(* A sequence without repetition has as many entries as values.            *)
LEMMA OneToOneCount ==
  ASSUME NEW s, IsSeq(s), OneToOne(s)
  PROVE  IsFiniteSet(Terms(s)) /\ Cardinality(Terms(s)) = Len(s)
<1>1. Len(s) \in Nat /\ DOMAIN s = 1 .. Len(s)
  BY SeqFacts
<1>2. s \in Bijection(1 .. Len(s), Terms(s))
  <2>1. PICK S : s \in Seq(S)
    BY DEF IsSeq
  <2>2. s \in [1 .. Len(s) -> Terms(s)]
    BY <1>1, <2>1 DEF Terms
  <2>3. \A a, b \in 1 .. Len(s) : s[a] = s[b] => a = b
    BY <1>1 DEF OneToOne
  <2>4. \A t \in Terms(s) : \E a \in 1 .. Len(s) : s[a] = t
    BY <1>1 DEF Terms
  <2>5. QED
    BY <2>2, <2>3, <2>4, Fun_IsBij
<1>3. ExistsBijection(1 .. Len(s), Terms(s))
  BY <1>2 DEF ExistsBijection
<1> DEFINE n == Len(s)
           V == Terms(s)
<1>4. n \in Nat /\ ExistsBijection(1 .. n, V)
  BY <1>1, <1>3
<1> HIDE DEF n, V
<1>5. IsFiniteSet(V) /\ Cardinality(V) = n
  BY <1>4, FS_NatBijection, FS_CountingElements
<1>6. QED
  BY <1>5 DEF n, V

LEMMA JoinFacts ==
  ASSUME NEW a, NEW b, IsSeq(a), IsSeq(b)
  PROVE  LET c == a \o b
         IN /\ Len(a) \in Nat /\ Len(b) \in Nat /\ DOMAIN a = 1 .. Len(a) /\ DOMAIN b = 1 .. Len(b)
            /\ IsSeq(c) /\ Len(c) = Len(a) + Len(b) /\ DOMAIN c = 1 .. Len(a) + Len(b)
            /\ \A i \in 1 .. Len(a) : c[i] = a[i]
            /\ \A k \in 1 .. Len(b) : c[Len(a) + k] = b[k]
<1>1. PICK A : a \in Seq(A)
  BY DEF IsSeq
<1>2. PICK B : b \in Seq(B)
  BY DEF IsSeq
<1> DEFINE S == A \cup B
           c == a \o b
<1>3. A \subseteq S /\ B \subseteq S
  OBVIOUS
<1> HIDE DEF S
<1>4. a \in Seq(S) /\ b \in Seq(S)
  BY <1>1, <1>2, <1>3, SeqMonotonic
<1>5. /\ c \in Seq(S) /\ Len(c) = Len(a) + Len(b)
      /\ \A i \in 1 .. Len(a) + Len(b) : c[i] = IF i <= Len(a) THEN a[i] ELSE b[i - Len(a)]
  BY <1>4, ConcatProperties
<1> HIDE DEF c
<1>6. Len(a) \in Nat /\ Len(b) \in Nat /\ DOMAIN a = 1 .. Len(a) /\ DOMAIN b = 1 .. Len(b)
  BY SeqFacts
<1>7. \A i \in 1 .. Len(a) : c[i] = a[i]
  BY <1>5, <1>6
<1>8. ASSUME NEW k \in 1 .. Len(b)
      PROVE  c[Len(a) + k] = b[k]
  <2> DEFINE i == Len(a) + k
  <2>1. i \in 1 .. Len(a) + Len(b) /\ ~(i <= Len(a)) /\ i - Len(a) = k
    BY <1>6
  <2> HIDE DEF i
  <2>2. c[i] = b[i - Len(a)]
    BY <1>5, <2>1
  <2>3. QED
    BY <2>1, <2>2 DEF i
<1>9. IsSeq(c) /\ DOMAIN c = 1 .. Len(a) + Len(b)
  BY <1>5 DEF IsSeq
<1>10. QED
  BY <1>5, <1>6, <1>7, <1>8, <1>9 DEF c

(* What a piece of code writes, item by item.                              *)
LEMMA PutChain ==
  ASSUME NEW out, NEW items, Len(items) \in Nat, DOMAIN items = 1 .. Len(items)
  PROVE  \E g : /\ g[0] = out /\ g[Len(items)] = D!Puts(out, items)
               /\ \A k \in 1 .. Len(items) : g[k] = D!Put(g[k - 1], items[k])
<1> DEFINE n == Len(items)
           Next0(it, t) == IF t = {} THEN out ELSE D!Put(it[t \ {D!Max(t)}], items[D!Max(t)])
           Good(it, k) == /\ it = [t \in SUBSET (1 .. n) |-> it[t]]
                          /\ \A t \in SUBSET (1 .. n) : t \subseteq 1 .. k => it[t] = Next0(it, t)
           T == {k \in 0 .. n : \E it : Good(it, k)}
<1>1. 0 \in T
  <2> DEFINE it == [t \in SUBSET (1 .. n) |-> out]
  <2>1. \A t \in SUBSET (1 .. n) : t \subseteq 1 .. 0 => t = {}
    OBVIOUS
  <2>2. Good(it, 0)
    BY <2>1
  <2> HIDE DEF Good
  <2>3. (\E ju : Good(ju, 0)) /\ 0 \in 0 .. n
    BY <2>2
  <2>4. QED
    BY <2>3
<1>2. ASSUME NEW k \in 1 .. n, k - 1 \in T
      PROVE  k \in T
  <2>1. PICK it : Good(it, k - 1)
    BY <1>2
  <2> DEFINE ju == [t \in SUBSET (1 .. n) |-> IF k \in t THEN Next0(it, t) ELSE it[t]]
  <2>2. ASSUME NEW t \in SUBSET (1 .. n), t \subseteq 1 .. k
        PROVE  ju[t] = Next0(ju, t)
    <3>1. CASE k \in t
      <4>1. D!Max(t) = k
        <5>1. \A x \in t : k >= x
          BY <2>2
        <5>2. \A y \in t : (\A x \in t : y >= x) => y = k
          BY <3>1, <5>1, <2>2
        <5>3. QED
          BY <3>1, <5>1, <5>2 DEF D!Max
      <4>2. t \ {k} \in SUBSET (1 .. n) /\ k \notin t \ {k}
        BY <2>2
      <4>3. ju[t \ {k}] = it[t \ {k}]
        BY <4>2
      <4>4. QED
        BY <3>1, <4>1, <4>3
    <3>2. CASE k \notin t
      <4>1. t \subseteq 1 .. k - 1
        BY <3>2, <2>2
      <4>2. it[t] = Next0(it, t) /\ ju[t] = it[t]
        BY <2>1, <3>2, <4>1
      <4>3. t # {} => k \notin t \ {D!Max(t)} /\ t \ {D!Max(t)} \in SUBSET (1 .. n)
        BY <3>2
      <4>4. t # {} => ju[t \ {D!Max(t)}] = it[t \ {D!Max(t)}]
        BY <4>3
      <4>5. QED
        BY <4>2, <4>4
    <3>3. QED
      BY <3>1, <3>2
  <2>3. ju = [t \in SUBSET (1 .. n) |-> ju[t]]
    OBVIOUS
  <2> HIDE DEF ju
  <2>4. Good(ju, k)
    BY <2>2, <2>3
  <2> HIDE DEF Good
  <2>5. (\E v : Good(v, k)) /\ k \in 0 .. n
    BY <2>4
  <2>6. QED
    BY <2>5
<1>3. n \in T
  <2>1. n \in Nat /\ n \in 0 .. n
    OBVIOUS
  <2> HIDE DEF T
  <2>2. \A i \in 0 .. n : i \in T
    BY <1>1, <1>2, <2>1, Induction
  <2>3. QED
    BY <2>1, <2>2
<1>4. PICK it : Good(it, n)
  BY <1>3
<1> DEFINE Eq(u) == u = [t \in SUBSET (DOMAIN items) |-> IF t = {} THEN out ELSE LET x == D!Max(t) IN D!Put(u[t \ {x}], items[x])]
           f == CHOOSE u : Eq(u)
           g == [k \in 0 .. n |-> f[1 .. k]]
<1>5. Eq(it)
  BY <1>4
<1>6. Eq(f)
  <2> HIDE DEF Eq
  <2>1. QED
    BY <1>5
<1>7. D!Puts(out, items) = f[DOMAIN items]
  BY DEF D!Puts, D!FoldLeft, D!MapThenFoldSet
<1> HIDE DEF f
<1>8. \A k \in 0 .. n : 1 .. k \in SUBSET (DOMAIN items)
  OBVIOUS
<1>9. f[1 .. 0] = out
  <2>1. 1 .. 0 = {} /\ 1 .. 0 \in SUBSET (DOMAIN items)
    OBVIOUS
  <2>2. QED
    BY <1>6, <2>1
<1>10. ASSUME NEW k \in 1 .. n
       PROVE  f[1 .. k] = D!Put(f[1 .. k - 1], items[k])
  <2>1. D!Max(1 .. k) = k /\ (1 .. k) \ {k} = 1 .. k - 1 /\ 1 .. k # {} /\ 1 .. k \in SUBSET (DOMAIN items)
    BY UpToD, <1>8
  <2>2. QED
    BY <1>6, <2>1
<1>11. g[0] = out /\ \A k \in 1 .. n : g[k] = D!Put(g[k - 1], items[k])
  <2>1. \A k \in 1 .. n : k \in 0 .. n /\ k - 1 \in 0 .. n
    OBVIOUS
  <2>2. QED
    BY <1>9, <1>10, <2>1
<1>12. g[n] = D!Puts(out, items)
  <2>1. n \in 0 .. n /\ 1 .. n = DOMAIN items
    OBVIOUS
  <2>2. g[n] = f[1 .. n]
    BY <2>1
  <2>3. QED
    BY <1>7, <2>1, <2>2
<1>13. QED
  <2> HIDE DEF g
  <2>1. QED
    BY <1>11, <1>12

(* The dump, derivation by derivation.                                     *)
LEMMA DumpChain ==
  ASSUME NEW out, NEW order, Len(out.derivations) \in Nat, DOMAIN out.derivations = 1 .. Len(out.derivations)
  PROVE  \E g : /\ g[0] = [text |-> D!Piece(out, 1), piece |-> D!End(out, 1)] /\ g[Len(out.derivations)].text = D!OutputDump(out, order)
               /\ \A k \in 1 .. Len(out.derivations) : g[k] = D!Dump(out, order, g[k - 1], out.derivations[k])
<1> DEFINE n == Len(out.derivations)
           Next0(it, t) == IF t = {} THEN [text |-> D!Piece(out, 1), piece |-> D!End(out, 1)] ELSE D!Dump(out, order, it[t \ {D!Max(t)}], out.derivations[D!Max(t)])
           Good(it, k) == /\ it = [t \in SUBSET (1 .. n) |-> it[t]]
                          /\ \A t \in SUBSET (1 .. n) : t \subseteq 1 .. k => it[t] = Next0(it, t)
           T == {k \in 0 .. n : \E it : Good(it, k)}
<1>1. 0 \in T
  <2> DEFINE it == [t \in SUBSET (1 .. n) |-> [text |-> D!Piece(out, 1), piece |-> D!End(out, 1)]]
  <2>1. \A t \in SUBSET (1 .. n) : t \subseteq 1 .. 0 => t = {}
    OBVIOUS
  <2>2. Good(it, 0)
    BY <2>1
  <2> HIDE DEF Good
  <2>3. (\E ju : Good(ju, 0)) /\ 0 \in 0 .. n
    BY <2>2
  <2>4. QED
    BY <2>3
<1>2. ASSUME NEW k \in 1 .. n, k - 1 \in T
      PROVE  k \in T
  <2>1. PICK it : Good(it, k - 1)
    BY <1>2
  <2> DEFINE ju == [t \in SUBSET (1 .. n) |-> IF k \in t THEN Next0(it, t) ELSE it[t]]
  <2>2. ASSUME NEW t \in SUBSET (1 .. n), t \subseteq 1 .. k
        PROVE  ju[t] = Next0(ju, t)
    <3>1. CASE k \in t
      <4>1. D!Max(t) = k
        <5>1. \A x \in t : k >= x
          BY <2>2
        <5>2. \A y \in t : (\A x \in t : y >= x) => y = k
          BY <3>1, <5>1, <2>2
        <5>3. QED
          BY <3>1, <5>1, <5>2 DEF D!Max
      <4>2. t \ {k} \in SUBSET (1 .. n) /\ k \notin t \ {k}
        BY <2>2
      <4>3. ju[t \ {k}] = it[t \ {k}]
        BY <4>2
      <4>4. QED
        BY <3>1, <4>1, <4>3
    <3>2. CASE k \notin t
      <4>1. t \subseteq 1 .. k - 1
        BY <3>2, <2>2
      <4>2. it[t] = Next0(it, t) /\ ju[t] = it[t]
        BY <2>1, <3>2, <4>1
      <4>3. t # {} => k \notin t \ {D!Max(t)} /\ t \ {D!Max(t)} \in SUBSET (1 .. n)
        BY <3>2
      <4>4. t # {} => ju[t \ {D!Max(t)}] = it[t \ {D!Max(t)}]
        BY <4>3
      <4>5. QED
        BY <4>2, <4>4
    <3>3. QED
      BY <3>1, <3>2
  <2>3. ju = [t \in SUBSET (1 .. n) |-> ju[t]]
    OBVIOUS
  <2> HIDE DEF ju
  <2>4. Good(ju, k)
    BY <2>2, <2>3
  <2> HIDE DEF Good
  <2>5. (\E v : Good(v, k)) /\ k \in 0 .. n
    BY <2>4
  <2>6. QED
    BY <2>5
<1>3. n \in T
  <2>1. n \in Nat /\ n \in 0 .. n
    OBVIOUS
  <2> HIDE DEF T
  <2>2. \A i \in 0 .. n : i \in T
    BY <1>1, <1>2, <2>1, Induction
  <2>3. QED
    BY <2>1, <2>2
<1>4. PICK it : Good(it, n)
  BY <1>3
<1> DEFINE Eq(u) == u = [t \in SUBSET (DOMAIN out.derivations) |-> IF t = {} THEN [text |-> D!Piece(out, 1), piece |-> D!End(out, 1)] ELSE LET x == D!Max(t) IN D!Dump(out, order, u[t \ {x}], out.derivations[x])]
           f == CHOOSE u : Eq(u)
           g == [k \in 0 .. n |-> f[1 .. k]]
<1>5. Eq(it)
  BY <1>4
<1>6. Eq(f)
  <2> HIDE DEF Eq
  <2>1. QED
    BY <1>5
<1>7. D!OutputDump(out, order) = f[DOMAIN out.derivations].text
  BY DEF D!OutputDump, D!FoldLeft, D!MapThenFoldSet
<1> HIDE DEF f
<1>8. \A k \in 0 .. n : 1 .. k \in SUBSET (DOMAIN out.derivations)
  OBVIOUS
<1>9. f[1 .. 0] = [text |-> D!Piece(out, 1), piece |-> D!End(out, 1)]
  <2>1. 1 .. 0 = {} /\ 1 .. 0 \in SUBSET (DOMAIN out.derivations)
    OBVIOUS
  <2>2. QED
    BY <1>6, <2>1
<1>10. ASSUME NEW k \in 1 .. n
       PROVE  f[1 .. k] = D!Dump(out, order, f[1 .. k - 1], out.derivations[k])
  <2>1. D!Max(1 .. k) = k /\ (1 .. k) \ {k} = 1 .. k - 1 /\ 1 .. k # {} /\ 1 .. k \in SUBSET (DOMAIN out.derivations)
    BY UpToD, <1>8
  <2>2. QED
    BY <1>6, <2>1
<1>11. g[0] = [text |-> D!Piece(out, 1), piece |-> D!End(out, 1)] /\ \A k \in 1 .. n : g[k] = D!Dump(out, order, g[k - 1], out.derivations[k])
  <2>1. \A k \in 1 .. n : k \in 0 .. n /\ k - 1 \in 0 .. n
    OBVIOUS
  <2>2. QED
    BY <1>9, <1>10, <2>1
<1>12. g[n].text = D!OutputDump(out, order)
  <2>1. n \in 0 .. n /\ 1 .. n = DOMAIN out.derivations
    OBVIOUS
  <2>2. g[n] = f[1 .. n]
    BY <2>1
  <2>3. QED
    BY <1>7, <2>1, <2>2
<1>13. QED
  <2> HIDE DEF g
  <2>1. QED
    BY <1>11, <1>12

(* A chunk that has room for its text and the NUL that ends it.            *)
Shaped(out) ==
  /\ out = [content |-> out.content, len |-> out.len, size |-> out.size,
            derivations |-> out.derivations, to_void |-> out.to_void]
  /\ IsSeq(out.content) /\ IsSeq(out.derivations) /\ out.to_void \in BOOLEAN
  /\ out.len \in Nat /\ out.size \in Nat /\ MinContent <= out.size /\ out.len < out.size

(* The text of a chunk is what the first n items of w give, and its        *)
(* derivations are those of the items that are delayed, in their order.    *)
Marks(h, derivations, w, n) ==
  /\ h[0] = 0
  /\ \A k \in 1 .. Len(derivations) :
       /\ h[k] \in 1 .. n /\ h[k - 1] < h[k] /\ derivations[k] = w[h[k]] /\ w[h[k]].type # "text"
  /\ \A i \in 1 .. n : w[i].type # "text" => \E k \in 1 .. Len(derivations) : h[k] = i

Holed(out, w, n) ==
  /\ Len(out.content) = n
  /\ \A i \in 1 .. n : out.content[i] = IF w[i].type = "text" THEN w[i].arg ELSE D!Nul
  /\ \E h : Marks(h, out.derivations, w, n)

LEMMA RoomFacts ==
  ASSUME D!DiversionAssumption, NEW out, Shaped(out)
  PROVE  /\ D!Room(out.size, out.size < out.len + Margin) \in Nat
         /\ MinContent <= D!Room(out.size, out.size < out.len + Margin)
         /\ out.len + Margin - 1 \in Nat
         /\ out.len + Margin - 1 < D!Room(out.size, out.size < out.len + Margin)
         /\ D!Room(out.size, out.len + 2 >= out.size) \in Nat
         /\ MinContent <= D!Room(out.size, out.len + 2 >= out.size)
         /\ out.len + 1 \in Nat
         /\ out.len + 1 < D!Room(out.size, out.len + 2 >= out.size)
<1>1. MinContent \in Nat /\ Margin \in 1 .. MinContent
  BY DEF D!DiversionAssumption
<1>2. out.len \in Nat /\ out.size \in Nat /\ MinContent <= out.size /\ out.len < out.size
  BY DEF Shaped
<1>3. QED
  BY <1>1, <1>2 DEF D!Room

LEMMA OutputFacts ==
  ASSUME D!DiversionAssumption, NEW out, Shaped(out), ~out.to_void, NEW text
  PROVE  LET o == D!Output(out, text)
         IN Shaped(o) /\ ~o.to_void /\ o.content = Append(out.content, text) /\ o.derivations = out.derivations
<1> DEFINE content == Append(out.content, text)
           len == out.len + Margin - 1
           size == D!Room(out.size, out.size < out.len + Margin)
           o == D!Output(out, text)
<1>1. o = [content |-> content, len |-> len, size |-> size, derivations |-> out.derivations, to_void |-> out.to_void]
  BY DEF D!Output, Shaped
<1>2. len \in Nat /\ size \in Nat /\ MinContent <= size /\ len < size
  BY RoomFacts
<1>3. IsSeq(content) /\ IsSeq(out.derivations) /\ out.to_void \in BOOLEAN
  BY SeqFacts DEF Shaped
<1> HIDE DEF content, len, size, o
<1>4. o.content = content /\ o.len = len /\ o.size = size /\ o.derivations = out.derivations /\ o.to_void = out.to_void
  BY <1>1
<1>5. Shaped(o)
  BY <1>1, <1>2, <1>3, <1>4 DEF Shaped
<1>6. QED
  BY <1>4, <1>5 DEF o, content

LEMMA DelayedFacts ==
  ASSUME D!DiversionAssumption, NEW out, Shaped(out), ~out.to_void, NEW d
  PROVE  LET o == D!OutputDelayed(out, d)
         IN /\ Shaped(o) /\ ~o.to_void /\ o.content = Append(out.content, D!Nul)
            /\ o.derivations = Append(out.derivations, d)
<1> DEFINE content == Append(out.content, D!Nul)
           derivations == Append(out.derivations, d)
           len == out.len + 1
           size == D!Room(out.size, out.len + 2 >= out.size)
           o == D!OutputDelayed(out, d)
<1>1. o = [content |-> content, len |-> len, size |-> size, derivations |-> derivations, to_void |-> out.to_void]
  BY DEF D!OutputDelayed, D!OutputChar, Shaped
<1>2. len \in Nat /\ size \in Nat /\ MinContent <= size /\ len < size
  BY RoomFacts
<1>3. IsSeq(content) /\ IsSeq(derivations) /\ out.to_void \in BOOLEAN
  BY SeqFacts DEF Shaped
<1> HIDE DEF content, derivations, len, size, o
<1>4. o.content = content /\ o.len = len /\ o.size = size /\ o.derivations = derivations /\ o.to_void = out.to_void
  BY <1>1
<1>5. Shaped(o)
  BY <1>1, <1>2, <1>3, <1>4 DEF Shaped
<1>6. QED
  BY <1>4, <1>5 DEF o, content, derivations

(* An item that is written goes on with what was written.                  *)
LEMMA PutFacts ==
  ASSUME D!DiversionAssumption, NEW out, Shaped(out), ~out.to_void,
         NEW w, NEW n \in Nat, Holed(out, w, n)
  PROVE  LET o == D!Put(out, w[n + 1]) IN Shaped(o) /\ ~o.to_void /\ Holed(o, w, n + 1)
<1> DEFINE item == w[n + 1]
           o == D!Put(out, item)
           c == out.content
           d == out.derivations
<1>1. IsSeq(c) /\ IsSeq(d) /\ Len(c) = n
  BY DEF Shaped, Holed
<1>2. \A i \in 1 .. n : c[i] = IF w[i].type = "text" THEN w[i].arg ELSE D!Nul
  BY DEF Holed
<1>3. PICK h : Marks(h, d, w, n)
  BY DEF Holed
<1>4. CASE item.type = "text"
  <2>1. Shaped(o) /\ ~o.to_void /\ o.content = Append(c, item.arg) /\ o.derivations = d
    BY <1>4, OutputFacts DEF D!Put
  <2> HIDE DEF c, d, o
  <2>2. Len(o.content) = n + 1 /\ (\A i \in 1 .. n : o.content[i] = c[i]) /\ o.content[n + 1] = item.arg
    BY <1>1, <2>1, SeqFacts
  <2>3. \A i \in 1 .. n + 1 : i \in 1 .. n \/ i = n + 1
    OBVIOUS
  <2>4. Marks(h, o.derivations, w, n + 1)
    BY <1>3, <1>4, <2>1, <2>3 DEF Marks
  <2>5. \A i \in 1 .. n + 1 : o.content[i] = IF w[i].type = "text" THEN w[i].arg ELSE D!Nul
    BY <1>2, <1>4, <2>2, <2>3
  <2>6. QED
    BY <2>1, <2>2, <2>4, <2>5 DEF Holed, o
<1>5. CASE item.type # "text"
  <2>1. Shaped(o) /\ ~o.to_void /\ o.content = Append(c, D!Nul) /\ o.derivations = Append(d, item)
    BY <1>5, DelayedFacts DEF D!Put
  <2> HIDE DEF c, d, o
  <2>2. Len(o.content) = n + 1 /\ (\A i \in 1 .. n : o.content[i] = c[i]) /\ o.content[n + 1] = D!Nul
    BY <1>1, <2>1, SeqFacts
  <2>3. \A i \in 1 .. n + 1 : i \in 1 .. n \/ i = n + 1
    OBVIOUS
  <2>4. /\ Len(d) \in Nat /\ Len(o.derivations) = Len(d) + 1 /\ o.derivations[Len(d) + 1] = item
        /\ \A k \in 1 .. Len(d) : o.derivations[k] = d[k]
    BY <1>1, <2>1, SeqFacts
  <2> DEFINE g == [k \in 0 .. Len(d) + 1 |-> IF k = Len(d) + 1 THEN n + 1 ELSE h[k]]
  <2>5. g[0] = 0 /\ g[Len(d) + 1] = n + 1 /\ \A k \in 1 .. Len(d) : g[k] = h[k] /\ g[k - 1] = h[k - 1]
    BY <1>3, <2>4 DEF Marks
  <2>6. h[Len(d)] \in 0 .. n /\ g[Len(d)] = h[Len(d)]
    <3>1. CASE Len(d) = 0
      BY <1>3, <2>4, <2>5, <3>1 DEF Marks
    <3>2. CASE Len(d) # 0
      <4>1. Len(d) \in 1 .. Len(d)
        BY <2>4, <3>2
      <4>2. QED
        BY <1>3, <2>5, <4>1 DEF Marks
    <3>3. QED
      BY <3>1, <3>2
  <2> HIDE DEF g
  <2>7. ASSUME NEW k \in 1 .. Len(o.derivations)
        PROVE  /\ g[k] \in 1 .. n + 1 /\ g[k - 1] < g[k] /\ o.derivations[k] = w[g[k]] /\ w[g[k]].type # "text"
    <3>1. CASE k \in 1 .. Len(d)
      <4>1. h[k] \in 1 .. n /\ h[k - 1] < h[k] /\ d[k] = w[h[k]] /\ w[h[k]].type # "text"
        BY <1>3, <3>1 DEF Marks
      <4>2. QED
        BY <2>4, <2>5, <3>1, <4>1
    <3>2. CASE k = Len(d) + 1
      BY <1>5, <2>4, <2>5, <2>6, <3>2
    <3>3. QED
      BY <2>4, <3>1, <3>2
  <2>8. ASSUME NEW i \in 1 .. n + 1, w[i].type # "text"
        PROVE  \E k \in 1 .. Len(o.derivations) : g[k] = i
    <3>1. CASE i = n + 1
      <4>1. Len(d) + 1 \in 1 .. Len(o.derivations)
        BY <2>4
      <4>2. QED
        BY <2>5, <3>1, <4>1
    <3>2. CASE i \in 1 .. n
      <4>1. PICK k \in 1 .. Len(d) : h[k] = i
        BY <1>3, <2>8, <3>2 DEF Marks
      <4>2. k \in 1 .. Len(o.derivations)
        BY <2>4
      <4>3. QED
        BY <2>5, <4>1, <4>2
    <3>3. QED
      BY <2>3, <3>1, <3>2
  <2>9. Marks(g, o.derivations, w, n + 1)
    BY <2>5, <2>7, <2>8 DEF Marks
  <2>10. \A i \in 1 .. n + 1 : o.content[i] = IF w[i].type = "text" THEN w[i].arg ELSE D!Nul
    BY <1>2, <1>5, <2>2, <2>3
  <2>11. QED
    BY <2>1, <2>2, <2>9, <2>10 DEF Holed, o
<1>6. QED
  BY <1>4, <1>5

(* So does a sequence of items; but nothing is written in the void.        *)
LEMMA PutsFacts ==
  ASSUME D!DiversionAssumption, NEW out, Shaped(out), NEW items, IsSeq(items),
         NEW w, IsSeq(w), Holed(out, w, Len(w))
  PROVE  LET o == D!Puts(out, items)
         IN /\ Shaped(o) /\ o.to_void = out.to_void
            /\ out.to_void => o = out
            /\ ~out.to_void => Holed(o, w \o items, Len(w \o items))
<1> DEFINE W == w \o items
           o == D!Puts(out, items)
           n == Len(w)
           m == Len(items)
<1>1. /\ n \in Nat /\ m \in Nat /\ DOMAIN items = 1 .. m
      /\ IsSeq(W) /\ Len(W) = n + m /\ \A i \in 1 .. n : W[i] = w[i]
      /\ \A k \in 1 .. m : W[n + k] = items[k]
  BY JoinFacts
<1>2. PICK g : /\ g[0] = out /\ g[m] = o
               /\ \A k \in 1 .. m : g[k] = D!Put(g[k - 1], items[k])
  BY <1>1, PutChain
<1> HIDE DEF W, o, n, m
<1>3. CASE out.to_void
  <2> DEFINE T == {k \in 0 .. m : g[k] = out}
  <2>1. 0 \in T
    BY <1>1, <1>2
  <2>2. ASSUME NEW k \in 1 .. m, k - 1 \in T
        PROVE  k \in T
    <3>1. g[k] = D!Put(out, items[k])
      BY <1>2, <2>2
    <3>2. g[k] = out
      BY <1>3, <3>1 DEF D!Put, D!Output, D!OutputDelayed
    <3>3. QED
      BY <3>2
  <2> HIDE DEF T
  <2>3. \A k \in 0 .. m : k \in T
    BY <1>1, <2>1, <2>2, Induction
  <2>4. m \in 0 .. m
    BY <1>1
  <2>5. o = out
    BY <1>2, <2>3, <2>4 DEF T
  <2>6. QED
    BY <1>3, <2>5 DEF o
<1>4. CASE ~out.to_void
  <2> DEFINE Good(k) == Shaped(g[k]) /\ ~g[k].to_void /\ Holed(g[k], W, n + k)
             T == {k \in 0 .. m : Good(k)}
  <2>1. 0 \in T
    <3>1. \E h : Marks(h, out.derivations, W, n)
      <4>1. PICK h : Marks(h, out.derivations, w, n)
        BY DEF Holed, n
      <4>2. Marks(h, out.derivations, W, n)
        BY <1>1, <4>1 DEF Marks
      <4>3. QED
        BY <4>2
    <3>2. Holed(out, W, n)
      BY <1>1, <3>1 DEF Holed, n
    <3>3. n + 0 = n /\ 0 \in 0 .. m
      BY <1>1
    <3>4. Good(0)
      BY <1>2, <1>4, <3>2, <3>3
    <3>5. QED
      BY <3>3, <3>4
  <2>2. ASSUME NEW k \in 1 .. m, k - 1 \in T
        PROVE  k \in T
    <3> DEFINE p == g[k - 1]
               j == n + (k - 1)
    <3>1. Shaped(p) /\ ~p.to_void /\ Holed(p, W, j) /\ j \in Nat /\ j + 1 = n + k
      BY <1>1, <2>2
    <3>2. g[k] = D!Put(p, W[j + 1])
      BY <1>1, <1>2, <3>1
    <3> HIDE DEF p, j
    <3>3. Shaped(g[k]) /\ ~g[k].to_void /\ Holed(g[k], W, j + 1)
      BY <3>1, <3>2, PutFacts
    <3>4. QED
      BY <3>1, <3>3
  <2> HIDE DEF T
  <2>3. \A k \in 0 .. m : k \in T
    BY <1>1, <2>1, <2>2, Induction
  <2>4. m \in 0 .. m
    BY <1>1
  <2>5. Good(m)
    BY <2>3, <2>4 DEF T
  <2>6. QED
    BY <1>1, <1>2, <1>4, <2>5 DEF o, W, Shaped
<1>5. out.to_void \in BOOLEAN
  BY DEF Shaped
<1>6. QED
  BY <1>3, <1>4, <1>5

(* The marks of the derivations grow.                                      *)
LEMMA MarksGrow ==
  ASSUME NEW h, NEW d, NEW w, NEW n \in Nat, IsSeq(d), Marks(h, d, w, n),
         NEW a \in 0 .. Len(d), NEW b \in 0 .. Len(d), a < b
  PROVE  h[a] < h[b]
<1> DEFINE T == {k \in 0 .. Len(d) : a < k => h[a] < h[k]}
<1>1. Len(d) \in Nat
  BY SeqFacts
<1>2. \A k \in 0 .. Len(d) : h[k] \in 0 .. n
  <2>1. \A k \in 0 .. Len(d) : k = 0 \/ k \in 1 .. Len(d)
    BY <1>1
  <2>2. QED
    BY <2>1 DEF Marks
<1>3. 0 \in T
  BY <1>1
<1>4. ASSUME NEW k \in 1 .. Len(d), k - 1 \in T
      PROVE  k \in T
  <2>1. h[k - 1] < h[k] /\ k - 1 \in 0 .. Len(d) /\ k \in 0 .. Len(d)
    BY <1>1 DEF Marks
  <2>2. a < k => a = k - 1 \/ a < k - 1
    OBVIOUS
  <2>3. a < k => h[a] < h[k]
    BY <1>2, <1>4, <2>1, <2>2
  <2>4. QED
    BY <2>1, <2>3
<1> HIDE DEF T
<1>5. \A k \in 0 .. Len(d) : k \in T
  BY <1>1, <1>3, <1>4, Induction
<1>6. QED
  BY <1>5 DEF T

(* The place of the next mark, or the end.                                 *)
Mark(h, d, n, k) == IF k < Len(d) THEN h[k + 1] ELSE n + 1

Printable(w, n) == \A i \in 1 .. n : w[i].type = "text" => w[i].arg # D!Nul

LEMMA EndFacts ==
  ASSUME NEW out, IsSeq(out.derivations), NEW w, NEW n \in Nat, Holed(out, w, n), Printable(w, n),
         NEW h, Marks(h, out.derivations, w, n), NEW k \in 0 .. Len(out.derivations)
  PROVE  LET m == Mark(h, out.derivations, n, k)
         IN /\ h[k] \in 0 .. n /\ m \in h[k] + 1 .. n + 1
            /\ \A i \in h[k] + 1 .. m - 1 : i \in 1 .. n /\ w[i].type = "text"
            /\ D!End(out, h[k] + 1) = m
            /\ D!Piece(out, h[k] + 1) = SubSeq(out.content, h[k] + 1, m - 1)
<1> DEFINE d == out.derivations
           m == Mark(h, d, n, k)
<1>1. Len(d) \in Nat /\ k \in Nat
  BY SeqFacts
<1>1a. /\ Len(out.content) = n
       /\ \A i \in 1 .. n : out.content[i] = IF w[i].type = "text" THEN w[i].arg ELSE D!Nul
       /\ \A i \in 1 .. n : w[i].type = "text" => w[i].arg # D!Nul
  BY DEF Holed, Printable
<1>2. h[k] \in 0 .. n
  <2>1. k = 0 \/ k \in 1 .. Len(d)
    BY <1>1
  <2>2. QED
    BY <2>1 DEF Marks
<1>3. m \in h[k] + 1 .. n + 1
  <2>1. CASE k < Len(d)
    <3>1. k + 1 \in 1 .. Len(d) /\ (k + 1) - 1 = k
      BY <1>1, <2>1
    <3>2. h[k + 1] \in 1 .. n /\ h[k] < h[k + 1]
      BY <3>1 DEF Marks
    <3>3. QED
      BY <1>2, <2>1, <3>2 DEF Mark
  <2>2. CASE ~(k < Len(d))
    BY <1>2, <2>2 DEF Mark
  <2>3. QED
    BY <2>1, <2>2
<1>4. ASSUME NEW i \in h[k] + 1 .. m - 1
      PROVE  i \in 1 .. n /\ w[i].type = "text"
  <2>1. i \in 1 .. n
    BY <1>2, <1>3
  <2>2. ASSUME w[i].type # "text"
        PROVE  FALSE
    <3>1. PICK j \in 1 .. Len(d) : h[j] = i
      BY <2>1, <2>2 DEF Marks
    <3>2. j \in 0 .. Len(d) /\ h[k] < h[j]
      BY <1>1, <1>2, <3>1
    <3>3. k < j
      <4>1. j < k => h[j] < h[k]
        BY <1>1, <3>2, MarksGrow
      <4>2. QED
        BY <1>2, <3>1, <3>2, <4>1
    <3>4. k < Len(d) /\ k + 1 \in 0 .. Len(d) /\ m = h[k + 1]
      BY <1>1, <3>1, <3>3 DEF Mark
    <3>5. k + 1 < j => h[k + 1] < h[j]
      BY <3>2, <3>4, MarksGrow
    <3>6. k + 1 = j \/ k + 1 < j
      BY <1>1, <3>1, <3>3
    <3>7. h[k + 1] <= h[j]
      BY <1>3, <3>1, <3>4, <3>5, <3>6
    <3>8. QED
      BY <1>3, <3>1, <3>4, <3>7
  <2>3. QED
    BY <2>1, <2>2
<1> DEFINE S == {i \in h[k] + 1 .. n + 1 : i = n + 1 \/ out.content[i] = D!Nul}
<1>5. m \in S
  <2>1. CASE k < Len(d)
    <3>1. k + 1 \in 1 .. Len(d) /\ m = h[k + 1]
      BY <1>1, <2>1 DEF Mark
    <3>2. m \in 1 .. n /\ w[m].type # "text"
      BY <3>1 DEF Marks
    <3> HIDE DEF m
    <3>3. QED
      BY <1>1a, <1>3, <3>2
  <2>2. CASE ~(k < Len(d))
    BY <1>3, <2>2 DEF Mark
  <2>3. QED
    BY <2>1, <2>2
<1> HIDE DEF m
<1>6. \A i \in S : m <= i
  <2> SUFFICES ASSUME NEW i \in S, ~(m <= i)
               PROVE  FALSE
    OBVIOUS
  <2>1. i \in h[k] + 1 .. m - 1 /\ i # n + 1
    BY <1>2, <1>3
  <2>2. i \in 1 .. n /\ w[i].type = "text" /\ out.content[i] = D!Nul
    BY <1>4, <2>1
  <2>3. QED
    BY <1>1a, <2>2
<1>7. D!Min(S) = m
  <2>1. \A x \in S : (\A y \in S : x <= y) => x = m
    BY <1>2, <1>3, <1>5, <1>6
  <2> HIDE DEF S
  <2>2. QED
    BY <1>5, <1>6, <2>1 DEF D!Min
<1>8. ~(h[k] + 1 > n + 1)
  BY <1>2
<1>9. D!End(out, h[k] + 1) = m
  BY <1>1a, <1>7, <1>8 DEF D!End
<1>10. D!Piece(out, h[k] + 1) = SubSeq(out.content, h[k] + 1, m - 1)
  BY <1>1a, <1>8, <1>9 DEF D!Piece
<1>11. QED
  BY <1>2, <1>3, <1>4, <1>9, <1>10 DEF m

(* What an item gives, and texts one after another.                        *)
Given(x, order) == IF x.type = "text" THEN <<x.arg>> ELSE D!Underivation(x, order)

LEMMA SubSeqFacts ==
  ASSUME NEW s, IsSeq(s), NEW a \in 1 .. Len(s) + 1, NEW b \in a - 1 .. Len(s)
  PROVE  /\ SubSeq(s, a, a - 1) = << >> /\ IsSeq(SubSeq(s, a, b))
         /\ b < Len(s) => SubSeq(s, a, b + 1) = Append(SubSeq(s, a, b), s[b + 1])
<1>1. PICK S : s \in Seq(S)
  BY DEF IsSeq
<1>2. Len(s) \in Nat /\ DOMAIN s = 1 .. Len(s)
  BY SeqFacts
<1>3. SubSeq(s, a, a - 1) = << >>
  BY <1>1, <1>2
<1>4. SubSeq(s, a, b) \in Seq(S) /\ Len(SubSeq(s, a, b)) = b - a + 1
  BY <1>1, <1>2
<1>5. ASSUME b < Len(s)
      PROVE  SubSeq(s, a, b + 1) = Append(SubSeq(s, a, b), s[b + 1])
  <2> DEFINE p == SubSeq(s, a, b)
             q == SubSeq(s, a, b + 1)
  <2>1. q \in Seq(S) /\ Len(q) = (b + 1) - a + 1
    BY <1>1, <1>2, <1>5
  <2>2. s[b + 1] \in S
    BY <1>1, <1>2, <1>5
  <2>3. Append(p, s[b + 1]) \in Seq(S) /\ Len(Append(p, s[b + 1])) = b - a + 2
    BY <1>4, <2>2
  <2>4. \A i \in 1 .. Len(q) : q[i] = s[a + i - 1]
    BY <1>1, <1>2, <1>5
  <2>5. \A i \in 1 .. Len(p) : p[i] = s[a + i - 1]
    BY <1>1, <1>2
  <2>6. \A i \in 1 .. Len(q) : Append(p, s[b + 1])[i] = q[i]
    BY <1>4, <2>1, <2>2, <2>4, <2>5
  <2>7. Len(q) = Len(Append(p, s[b + 1]))
    BY <2>1, <2>3
  <2> HIDE DEF p, q
  <2>8. q = Append(p, s[b + 1])
    BY <2>1, <2>3, <2>6, <2>7, SeqEqual
  <2>9. QED
    BY <2>8 DEF p, q
<1>6. QED
  BY <1>3, <1>4, <1>5 DEF IsSeq

Runs(J, c, a, b) ==
  /\ \A i \in 0 .. Len(c) : IsSeq(J[i])
  /\ \A i \in a + 1 .. b - 1 : J[i] = J[i - 1] \o <<c[i]>>

LEMMA TextRun ==
  ASSUME NEW c, IsSeq(c), NEW J, NEW a \in 0 .. Len(c), NEW b \in a + 1 .. Len(c) + 1,
         Runs(J, c, a, b)
  PROVE  J[b - 1] = J[a] \o SubSeq(c, a + 1, b - 1)
<1> DEFINE n == (b - 1) - a
           T == {k \in 0 .. n : J[a + k] = J[a] \o SubSeq(c, a + 1, a + k)}
<1>1. Len(c) \in Nat /\ n \in Nat /\ a + n = b - 1
  BY SeqFacts
<1>2. 0 \in T
  <2>1. SubSeq(c, a + 1, (a + 1) - 1) = << >>
    BY <1>1, SubSeqFacts
  <2>2. a + 0 = (a + 1) - 1 /\ a + 0 = a /\ 0 \in 0 .. n
    BY <1>1
  <2>3. J[a] = J[a] \o << >>
    BY Concats DEF Runs
  <2>4. QED
    BY <2>1, <2>2, <2>3
<1>3. ASSUME NEW k \in 1 .. n, k - 1 \in T
      PROVE  k \in T
  <2> DEFINE p == a + (k - 1)
             u == SubSeq(c, a + 1, p)
             x == c[p + 1]
  <2>1. p \in (a + 1) - 1 .. Len(c) /\ p < Len(c) /\ p + 1 = a + k /\ a + 1 \in 1 .. Len(c) + 1
        /\ p + 1 \in a + 1 .. b - 1 /\ (p + 1) - 1 = p
    BY <1>1
  <2>2. IsSeq(u) /\ SubSeq(c, a + 1, p + 1) = Append(u, x)
    BY <2>1, SubSeqFacts
  <2>3. J[p + 1] = J[p] \o <<x>> /\ J[p] = J[a] \o u
    <3>1. J[p + 1] = J[(p + 1) - 1] \o <<c[p + 1]>>
      BY <2>1 DEF Runs
    <3>2. J[p] = J[a] \o u
      BY <1>3
    <3>3. QED
      BY <2>1, <3>1, <3>2
  <2> HIDE DEF u, x, p
  <2>4. IsSeq(J[a]) /\ IsSeq(<<x>>)
    BY Concats DEF Runs
  <2> DEFINE v == J[a]
             y == <<x>>
  <2>5. J[p + 1] = (v \o u) \o y
    BY <2>3
  <2>5a. IsSeq(v) /\ IsSeq(u) /\ IsSeq(y)
    BY <2>2, <2>4
  <2>6. Append(u, x) = u \o y
    BY <2>2, Concats
  <2> HIDE DEF v, y
  <2>7. (v \o u) \o y = v \o (u \o y)
    BY <2>5a, Associates
  <2>8. J[p + 1] = v \o SubSeq(c, a + 1, p + 1)
    BY <2>2, <2>5, <2>6, <2>7
  <2>9. J[a + k] = J[a] \o SubSeq(c, a + 1, a + k)
    BY <2>1, <2>8 DEF v
  <2>10. k \in 0 .. n
    BY <1>1
  <2>11. QED
    BY <2>9, <2>10
<1> HIDE DEF T
<1>4. \A k \in 0 .. n : k \in T
  BY <1>1, <1>2, <1>3, Induction
<1>5. n \in 0 .. n
  BY <1>1
<1>6. J[a + n] = J[a] \o SubSeq(c, a + 1, a + n)
  BY <1>4, <1>5 DEF T
<1>7. QED
  BY <1>1, <1>6

(* The dump is what the items give, one after another: no hole is filled   *)
(* by the derivation of another.                                           *)
LEMMA DumpGives ==
  ASSUME NEW out, IsSeq(out.content), IsSeq(out.derivations), NEW w, IsSeq(w), Holed(out, w, Len(w)),
         Printable(w, Len(w)),
         NEW order, \A i \in 1 .. Len(w) : w[i].type # "text" => IsSeq(D!Underivation(w[i], order)),
         NEW J, J[0] = << >>, \A i \in 1 .. Len(w) : J[i] = J[i - 1] \o Given(w[i], order)
  PROVE  D!OutputDump(out, order) = J[Len(w)]
<1> DEFINE n == Len(w)
           c == out.content
           d == out.derivations
           K == Len(d)
<1>1. n \in Nat /\ Len(c) = n /\ K \in Nat /\ DOMAIN d = 1 .. K
  BY SeqFacts DEF Holed
<1>2. PICK h : Marks(h, d, w, n)
  BY DEF Holed
<1>3. PICK g : /\ g[0] = [text |-> D!Piece(out, 1), piece |-> D!End(out, 1)]
               /\ g[K].text = D!OutputDump(out, order)
               /\ \A k \in 1 .. K : g[k] = D!Dump(out, order, g[k - 1], d[k])
  BY <1>1, DumpChain
<1> DEFINE M(k) == Mark(h, d, n, k)
<1>4. \A i \in 1 .. n : c[i] = IF w[i].type = "text" THEN w[i].arg ELSE D!Nul
  BY DEF Holed
<1>5. ASSUME NEW k \in 0 .. K
      PROVE  /\ h[k] \in 0 .. n /\ M(k) \in h[k] + 1 .. n + 1
             /\ \A i \in h[k] + 1 .. M(k) - 1 : i \in 1 .. n /\ w[i].type = "text"
             /\ D!End(out, h[k] + 1) = M(k)
             /\ D!Piece(out, h[k] + 1) = SubSeq(c, h[k] + 1, M(k) - 1)
  <2>1. IsSeq(d) /\ n \in Nat /\ Holed(out, w, n) /\ Printable(w, n) /\ Marks(h, d, w, n) /\ k \in 0 .. Len(d)
    BY <1>1, <1>2
  <2> HIDE DEF n
  <2>2. QED
    BY <2>1, EndFacts
<1>6. \A i \in 1 .. n : IsSeq(Given(w[i], order))
  BY Concats DEF Given
<1>7. \A i \in 0 .. n : IsSeq(J[i])
  <2> DEFINE T == {i \in 0 .. n : IsSeq(J[i])}
  <2>1. 0 \in T
    BY <1>1, Concats
  <2>2. ASSUME NEW i \in 1 .. n, i - 1 \in T
        PROVE  i \in T
    <3>1. IsSeq(J[i - 1]) /\ IsSeq(Given(w[i], order)) /\ J[i] = J[i - 1] \o Given(w[i], order)
      BY <1>6, <2>2
    <3>2. IsSeq(J[i])
      BY <3>1, Concats
    <3>3. QED
      BY <3>2
  <2> HIDE DEF T, n
  <2>3. \A i \in 0 .. n : i \in T
    BY <1>1, <2>1, <2>2, Induction
  <2>4. QED
    BY <2>3 DEF T
<1>8. ASSUME NEW k \in 0 .. K
      PROVE  J[M(k) - 1] = J[h[k]] \o D!Piece(out, h[k] + 1)
  <2> DEFINE a == h[k]
             b == M(k)
  <2>1. a \in 0 .. Len(c) /\ b \in a + 1 .. Len(c) + 1 /\ \A i \in 0 .. Len(c) : IsSeq(J[i])
    BY <1>1, <1>5, <1>7
  <2>2. ASSUME NEW i \in a + 1 .. b - 1
        PROVE  J[i] = J[i - 1] \o <<c[i]>>
    <3>1. i \in 1 .. n /\ w[i].type = "text"
      BY <1>5
    <3>2. QED
      BY <1>4, <3>1 DEF Given
  <2>3. D!Piece(out, a + 1) = SubSeq(c, a + 1, b - 1)
    BY <1>5
  <2> HIDE DEF a, b, c
  <2>4. J[b - 1] = J[a] \o SubSeq(c, a + 1, b - 1)
    BY <2>1, <2>2, TextRun DEF c, Runs
  <2>5. QED
    BY <2>3, <2>4 DEF a, b
<1> DEFINE Good(k) == g[k].piece = M(k) /\ g[k].text = J[M(k) - 1]
           T == {k \in 0 .. K : Good(k)}
<1>9. 0 \in T
  <2>1. h[0] = 0 /\ 0 \in 0 .. K /\ 0 + 1 = 1
    BY <1>1, <1>2 DEF Marks
  <2>2. g[0].piece = M(0)
    BY <1>3, <1>5, <2>1
  <2>3. J[M(0) - 1] = J[0] \o D!Piece(out, 1)
    BY <1>8, <2>1
  <2>4. IsSeq(D!Piece(out, 1))
    <3>1. D!Piece(out, 1) = SubSeq(c, 1, M(0) - 1) /\ M(0) \in 1 .. n + 1
      BY <1>5, <2>1
    <3>2. 1 \in 1 .. Len(c) + 1 /\ M(0) - 1 \in 1 - 1 .. Len(c)
      BY <1>1, <3>1
    <3> HIDE DEF M
    <3>3. IsSeq(SubSeq(c, 1, M(0) - 1))
      BY <3>2, SubSeqFacts
    <3>4. QED
      BY <3>1, <3>3
  <2>5. << >> \o D!Piece(out, 1) = D!Piece(out, 1)
    BY <2>4, Concats
  <2>6. g[0].text = J[M(0) - 1]
    BY <1>3, <2>3, <2>5
  <2>7. QED
    BY <2>1, <2>2, <2>6
<1>10. ASSUME NEW k \in 1 .. K, k - 1 \in T
       PROVE  k \in T
  <2>1. k - 1 \in 0 .. K /\ k \in 0 .. K /\ k - 1 < K /\ (k - 1) + 1 = k
    BY <1>1
  <2>2. M(k - 1) = h[k]
    BY <2>1 DEF Mark
  <2>3. g[k - 1].piece = h[k] /\ g[k - 1].text = J[h[k] - 1]
    BY <1>10, <2>2
  <2>4. h[k] \in 1 .. n /\ d[k] = w[h[k]] /\ w[h[k]].type # "text"
    BY <1>2 DEF Marks
  <2> DEFINE u == D!Underivation(w[h[k]], order)
             p == D!Piece(out, h[k] + 1)
  <2>5. g[k].text = (J[h[k] - 1] \o u) \o p /\ g[k].piece = D!End(out, h[k] + 1)
    <3>1. g[k] = D!Dump(out, order, g[k - 1], w[h[k]])
      BY <1>3, <2>4
    <3> DEFINE acc == g[k - 1]
               x == w[h[k]]
    <3>2. g[k] = D!Dump(out, order, acc, x)
      BY <3>1
    <3> HIDE DEF acc, x
    <3> DEFINE text == (acc.text \o D!Underivation(x, order)) \o D!Piece(out, acc.piece + 1)
               piece == D!End(out, acc.piece + 1)
    <3>2a. g[k] = [text |-> text, piece |-> piece]
      BY <3>2, Zenon DEF D!Dump
    <3> HIDE DEF text, piece
    <3>2b. g[k].text = text /\ g[k].piece = piece
      BY <3>2a
    <3>3. /\ g[k].text = (acc.text \o D!Underivation(x, order)) \o D!Piece(out, acc.piece + 1)
          /\ g[k].piece = D!End(out, acc.piece + 1)
      BY <3>2b DEF text, piece
    <3>4. QED
      BY <2>3, <3>3 DEF acc, x
  <2>6. J[h[k]] = J[h[k] - 1] \o u
    BY <2>4 DEF Given
  <2>7. g[k].text = J[M(k) - 1]
    BY <1>8, <2>1, <2>5, <2>6
  <2>8. g[k].piece = M(k)
    BY <1>5, <2>1, <2>5
  <2>9. QED
    BY <2>1, <2>7, <2>8
<1> HIDE DEF T
<1>11. \A k \in 0 .. K : k \in T
  <2> HIDE DEF K
  <2>1. QED
    BY <1>1, <1>9, <1>10, Induction
<1>12. Good(K) /\ M(K) = n + 1
  <2>1. K \in 0 .. K /\ ~(K < K)
    BY <1>1
  <2>2. QED
    BY <1>11, <2>1 DEF T, Mark
<1>13. M(K) - 1 = n
  BY <1>1, <1>12
<1>14. QED
  BY <1>3, <1>12, <1>13

LEMMA FunSeq ==
  ASSUME NEW n \in Nat, NEW f, DOMAIN f = 1 .. n, f = [i \in 1 .. n |-> f[i]]
  PROVE  IsSeq(f) /\ Len(f) = n
<1> DEFINE S == {f[i] : i \in 1 .. n}
<1>1. f \in Seq(S)
  OBVIOUS
<1>2. Len(f) = n
  BY <1>1
<1>3. QED
  BY <1>1, <1>2 DEF IsSeq

(* What two sequences contain together.                                    *)
LEMMA JoinTerms ==
  ASSUME NEW a, NEW b, IsSeq(a), IsSeq(b)
  PROVE  /\ Terms(a \o b) = Terms(a) \cup Terms(b)
         /\ OneToOne(a) /\ OneToOne(b) /\ Terms(a) \cap Terms(b) = {} => OneToOne(a \o b)
<1> DEFINE c == a \o b
           m == Len(a)
           n == Len(b)
<1>1. /\ m \in Nat /\ n \in Nat /\ DOMAIN a = 1 .. m /\ DOMAIN b = 1 .. n
      /\ IsSeq(c) /\ Len(c) = m + n /\ DOMAIN c = 1 .. m + n
      /\ \A i \in 1 .. m : c[i] = a[i]
      /\ \A k \in 1 .. n : c[m + k] = b[k]
  BY JoinFacts
<1> HIDE DEF c, m, n
<1>2. ASSUME NEW i \in DOMAIN c
      PROVE  \/ i \in DOMAIN a /\ c[i] = a[i]
             \/ \E k \in DOMAIN b : i = m + k /\ c[i] = b[k]
  <2>1. CASE i \in 1 .. m
    BY <1>1, <2>1
  <2>2. CASE i \notin 1 .. m
    <3> DEFINE k == i - m
    <3>1. k \in 1 .. n /\ i = m + k
      BY <1>1, <2>2
    <3> HIDE DEF k
    <3>2. QED
      BY <1>1, <3>1
  <2>3. QED
    BY <2>1, <2>2
<1>3. ASSUME NEW i \in DOMAIN a
      PROVE  i \in DOMAIN c /\ c[i] = a[i]
  BY <1>1
<1>4. ASSUME NEW k \in DOMAIN b
      PROVE  m + k \in DOMAIN c /\ c[m + k] = b[k]
  BY <1>1
<1>5. Terms(c) = Terms(a) \cup Terms(b)
  BY <1>2, <1>3, <1>4 DEF Terms
<1>6. ASSUME OneToOne(a), OneToOne(b), Terms(a) \cap Terms(b) = {}
      PROVE  OneToOne(c)
  <2> SUFFICES ASSUME NEW i \in DOMAIN c, NEW j \in DOMAIN c, c[i] = c[j]
               PROVE  i = j
    BY DEF OneToOne
  <2>1. (\A x \in DOMAIN a : a[x] \in Terms(a)) /\ (\A x \in DOMAIN b : b[x] \in Terms(b))
    BY DEF Terms
  <2>2. \A x \in DOMAIN a, y \in DOMAIN b : a[x] # b[y]
    BY <1>6, <2>1
  <2>3. QED
    BY <1>2, <1>6, <2>2 DEF OneToOne
<1>7. QED
  BY <1>5, <1>6 DEF c

(* What is in the concatenation of sequences.                              *)
LEMMA FlattenTerms ==
  ASSUME NEW s, Lists(s)
  PROVE  /\ IsSeq(D!FlattenSeq(s))
         /\ Terms(D!FlattenSeq(s)) = UNION {Terms(s[i]) : i \in DOMAIN s}
         /\ (\A i \in DOMAIN s : OneToOne(s[i]))
            /\ (\A i, j \in DOMAIN s : i # j => Terms(s[i]) \cap Terms(s[j]) = {})
              => OneToOne(D!FlattenSeq(s))
<1>1. PICK S : s \in Seq(Seq(S))
  BY ListsIn
<1>2. PICK g : Joins(g, s) /\ g[Len(s)] = D!FlattenSeq(s)
  BY <1>1, Joined
<1> DEFINE n == Len(s)
           All(k) == UNION {Terms(s[i]) : i \in 1 .. k}
           Apart == /\ \A i \in DOMAIN s : OneToOne(s[i])
                    /\ \A i, j \in DOMAIN s : i # j => Terms(s[i]) \cap Terms(s[j]) = {}
           Good(k) == IsSeq(g[k]) /\ Terms(g[k]) = All(k) /\ (Apart => OneToOne(g[k]))
           T == {k \in 0 .. n : Good(k)}
<1>3. n \in Nat /\ DOMAIN s = 1 .. n /\ \A i \in DOMAIN s : IsSeq(s[i])
  BY SeqFacts DEF Lists
<1>4. 0 \in T
  <2>1. IsSeq(<< >>) /\ Terms(<< >>) = {} /\ OneToOne(<< >>)
    BY Concats DEF Terms, OneToOne
  <2>2. All(0) = {} /\ g[0] = << >>
    BY <1>2 DEF Joins
  <2> HIDE DEF All, Apart
  <2>2a. IsSeq(g[0]) /\ OneToOne(g[0]) /\ Terms(g[0]) = All(0)
    <3>1. Terms(g[0]) = {}
      BY <2>1, <2>2
    <3>2. QED
      BY <2>1, <2>2, <3>1
  <2>3. Good(0) /\ 0 \in 0 .. n
    BY <1>3, <2>2a
  <2>4. QED
    BY <2>3
<1>5. ASSUME NEW k \in 1 .. n, k - 1 \in T
      PROVE  k \in T
  <2> DEFINE a == g[k - 1]
             b == s[k]
  <2>1. IsSeq(a) /\ Terms(a) = All(k - 1) /\ (Apart => OneToOne(a)) /\ IsSeq(b)
    BY <1>3, <1>5
  <2>2. g[k] = a \o b
    BY <1>2 DEF Joins
  <2>3. All(k) = All(k - 1) \cup Terms(b)
    <3>1. \A i \in 1 .. k : i \in 1 .. k - 1 \/ i = k
      OBVIOUS
    <3>2. k \in 1 .. k /\ \A i \in 1 .. k - 1 : i \in 1 .. k
      OBVIOUS
    <3>3. QED
      BY <3>1, <3>2
  <2>4. Apart => OneToOne(b) /\ All(k - 1) \cap Terms(b) = {}
    <3> SUFFICES ASSUME Apart
                 PROVE  OneToOne(b) /\ All(k - 1) \cap Terms(b) = {}
      OBVIOUS
    <3>1. k \in DOMAIN s /\ \A i \in 1 .. k - 1 : i \in DOMAIN s /\ i # k
      BY <1>3
    <3>2. \A i \in 1 .. k - 1 : Terms(s[i]) \cap Terms(b) = {}
      BY <3>1
    <3>3. QED
      BY <3>1, <3>2
  <2> HIDE DEF All, Apart, a, b
  <2>5. /\ IsSeq(a \o b) /\ Terms(a \o b) = Terms(a) \cup Terms(b)
        /\ OneToOne(a) /\ OneToOne(b) /\ Terms(a) \cap Terms(b) = {} => OneToOne(a \o b)
    BY <2>1, Concats, JoinTerms
  <2> DEFINE c == a \o b
  <2>6. /\ IsSeq(c) /\ Terms(c) = Terms(a) \cup Terms(b) /\ g[k] = c
        /\ OneToOne(a) /\ OneToOne(b) /\ Terms(a) \cap Terms(b) = {} => OneToOne(c)
    BY <2>2, <2>5
  <2> HIDE DEF c
  <2>7. Good(k)
    BY <2>1, <2>3, <2>4, <2>6
  <2>8. QED
    BY <2>7
<1> HIDE DEF T
<1>6. \A k \in 0 .. n : k \in T
  <2> HIDE DEF n
  <2>1. QED
    BY <1>3, <1>4, <1>5, Induction
<1>7. Good(n)
  <2>1. n \in 0 .. n
    BY <1>3
  <2>2. QED
    BY <1>6, <2>1 DEF T
<1>8. QED
  BY <1>2, <1>3, <1>7

LEMMA SortedFacts ==
  ASSUME D!DiversionAssumption, NEW V
  PROVE  LET t == D!Sorted(V)
         IN IsSeq(t) /\ OneToOne(t) /\ Terms(t) = V \cap D!ToSet(Names) /\ DOMAIN t = 1 .. Len(t) /\ Len(t) \in Nat
<1>1. IsSeq(Names) /\ OneToOne(Names) /\ Terms(Names) = D!ToSet(Names)
  <2>1. Names \in Seq(D!ToSet(Names)) /\ D!IsInjective(Names)
    BY DEF D!DiversionAssumption
  <2>2. IsSeq(Names)
    BY <2>1 DEF IsSeq
  <2>3. OneToOne(Names)
    BY <2>1 DEF OneToOne, D!IsInjective
  <2>4. Terms(Names) = D!ToSet(Names)
    BY DEF Terms, D!ToSet
  <2>5. QED
    BY <2>2, <2>3, <2>4
<1> DEFINE t == D!Among(Names, V)
<1>2. IsSeq(t) /\ Terms(t) = Terms(Names) \cap V /\ OneToOne(t)
  BY <1>1, AmongFacts
<1>3. DOMAIN t = 1 .. Len(t) /\ Len(t) \in Nat
  BY <1>2, SeqFacts
<1> HIDE DEF t
<1>4. Terms(t) = V \cap D!ToSet(Names)
  BY <1>1, <1>2
<1>5. QED
  BY <1>2, <1>3, <1>4 DEF t, D!Sorted

Named(e) == {<<e[i][2], e[i][3]>> : i \in DOMAIN e}

(* The lines of the entries of some types name each of their couples once, *)
(* and the first of them names the comment.                                *)
LEMMA EntriesFacts ==
  ASSUME D!DiversionAssumption, NEW table, NEW types, IsSeq(types), OneToOne(types),
         Terms(types) \subseteq DOMAIN table, NEW comment,
         NEW dump, dump = D!EntriesDump(comment, table, types)
  PROVE  /\ IsSeq(dump)
         /\ \A i \in DOMAIN dump : dump[i][1] = IF i = 1 THEN comment ELSE "%%+"
         /\ Named(dump) = D!Pairs(table, Terms(types))
         /\ IsFiniteSet(D!Pairs(table, Terms(types)))
         /\ Len(dump) = Cardinality(D!Pairs(table, Terms(types)))
<1> DEFINE V(i) == D!Sorted(table[types[i]])
           s == [i \in DOMAIN types |-> [k \in DOMAIN V(i) |-> <<types[i], V(i)[k]>>]]
           rows == D!FlattenSeq(s)
           e == [i \in DOMAIN rows |-> <<IF i = 1 THEN comment ELSE "%%+", rows[i][1], rows[i][2]>>]
           N == D!ToSet(Names)
<1>1. e = dump
  BY DEF D!EntriesDump
<1>2. Len(types) \in Nat /\ DOMAIN types = 1 .. Len(types)
  BY SeqFacts
<1>3. \A i \in DOMAIN types :
        /\ IsSeq(V(i)) /\ OneToOne(V(i)) /\ Terms(V(i)) = table[types[i]] \cap N
        /\ DOMAIN V(i) = 1 .. Len(V(i)) /\ Len(V(i)) \in Nat
  BY SortedFacts
<1> HIDE DEF V, N
<1>4. ASSUME NEW i \in DOMAIN types
      PROVE  /\ s[i] = [k \in DOMAIN V(i) |-> <<types[i], V(i)[k]>>]
             /\ IsSeq(s[i]) /\ OneToOne(s[i])
             /\ Terms(s[i]) = {<<types[i], v>> : v \in table[types[i]] \cap N}
  <2> DEFINE a == s[i]
             n == Len(V(i))
  <2>1. a = [k \in 1 .. n |-> <<types[i], V(i)[k]>>] /\ n \in Nat /\ DOMAIN V(i) = 1 .. n
    BY <1>3
  <2> HIDE DEF a, n
  <2>2. DOMAIN a = 1 .. n /\ a = [k \in 1 .. n |-> a[k]]
    BY <2>1
  <2>3. IsSeq(a)
    BY <2>1, <2>2, FunSeq
  <2>4. OneToOne(a)
    BY <1>3, <2>1, <2>2 DEF OneToOne
  <2>5. Terms(a) = {<<types[i], v>> : v \in Terms(V(i))}
    BY <2>1, <2>2 DEF Terms
  <2>6. QED
    BY <1>3, <2>1, <2>3, <2>4, <2>5 DEF a
<1>5. DOMAIN s = DOMAIN types /\ s = [i \in DOMAIN types |-> s[i]]
  OBVIOUS
<1> HIDE DEF s
<1>6. Lists(s)
  <2>1. IsSeq(s)
    BY <1>2, <1>5, FunSeq
  <2>2. QED
    BY <1>4, <1>5, <2>1 DEF Lists
<1>7. \A i, j \in DOMAIN s : i # j => Terms(s[i]) \cap Terms(s[j]) = {}
  BY <1>4, <1>5 DEF OneToOne
<1>8. IsSeq(rows) /\ Terms(rows) = UNION {Terms(s[i]) : i \in DOMAIN s} /\ OneToOne(rows)
  BY <1>4, <1>5, <1>6, <1>7, FlattenTerms
<1>9. Terms(rows) = D!Pairs(table, Terms(types))
  <2>1. \A p \in Terms(rows) : p \in D!Pairs(table, Terms(types))
    <3> SUFFICES ASSUME NEW p \in Terms(rows)
                 PROVE  p \in D!Pairs(table, Terms(types))
      OBVIOUS
    <3>1. PICK i \in DOMAIN types : p \in Terms(s[i])
      BY <1>5, <1>8
    <3>1a. p \in {<<types[i], v>> : v \in table[types[i]] \cap N}
      BY <1>4, <3>1
    <3>2. PICK v \in table[types[i]] \cap N : p = <<types[i], v>>
      BY <3>1a
    <3>3. types[i] \in Terms(types)
      BY DEF Terms
    <3>4. QED
      BY <3>2, <3>3 DEF D!Pairs, N
  <2>2. \A p \in D!Pairs(table, Terms(types)) : p \in Terms(rows)
    <3> SUFFICES ASSUME NEW p \in D!Pairs(table, Terms(types))
                 PROVE  p \in Terms(rows)
      OBVIOUS
    <3>1. p = <<p[1], p[2]>> /\ p[1] \in Terms(types) /\ p[2] \in table[p[1]] \cap N
      BY DEF D!Pairs, N
    <3>2. PICK i \in DOMAIN types : types[i] = p[1]
      BY <3>1 DEF Terms
    <3>2a. p \in {<<types[i], v>> : v \in table[types[i]] \cap N}
      BY <3>1, <3>2
    <3>3. p \in Terms(s[i])
      BY <1>4, <3>2a
    <3>4. QED
      BY <1>5, <1>8, <3>3
  <2>3. QED
    BY <2>1, <2>2
<1>10. IsFiniteSet(Terms(rows)) /\ Cardinality(Terms(rows)) = Len(rows)
  BY <1>8, OneToOneCount
<1>11. Len(rows) \in Nat /\ DOMAIN rows = 1 .. Len(rows)
  BY <1>8, SeqFacts
<1> HIDE DEF rows
<1>12. DOMAIN e = 1 .. Len(rows) /\ e = [i \in 1 .. Len(rows) |-> e[i]]
  BY <1>11
<1>13. IsSeq(e) /\ Len(e) = Len(rows)
  <2> HIDE DEF e
  <2>1. QED
    BY <1>11, <1>12, FunSeq
<1>14. \A i \in DOMAIN e : e[i][1] = (IF i = 1 THEN comment ELSE "%%+") /\ <<e[i][2], e[i][3]>> = rows[i]
  <2>1. \A i \in DOMAIN rows : rows[i] = <<rows[i][1], rows[i][2]>>
    BY <1>9 DEF Terms, D!Pairs
  <2>2. QED
    BY <2>1
<1>15. {<<e[i][2], e[i][3]>> : i \in DOMAIN e} = Terms(rows)
  <2> HIDE DEF e
  <2>1. Terms(rows) = {rows[i] : i \in DOMAIN e}
    BY <1>11, <1>12 DEF Terms
  <2>2. QED
    BY <1>14, <2>1
<1> HIDE DEF e
<1>16. Named(e) = Terms(rows)
  BY <1>15 DEF Named
<1>17. QED
  BY <1>1, <1>9, <1>10, <1>13, <1>14, <1>16

(* A sequence has another one after that many entries.                     *)
Has(s, n, e) == \A i \in 1 .. Len(e) : s[n + i] = e[i]

LEMMA HasJoined ==
  ASSUME NEW a, NEW b, IsSeq(a), IsSeq(b), NEW n \in Nat, NEW e, Len(e) \in Nat, n + Len(e) <= Len(a), Has(a, n, e)
  PROVE  Has(a \o b, n, e)
<1>1. Len(a) \in Nat /\ \A i \in 1 .. Len(a) : (a \o b)[i] = a[i]
  BY JoinFacts
<1>2. ASSUME NEW i \in 1 .. Len(e)
      PROVE  (a \o b)[n + i] = e[i]
  <2>1. n + i \in 1 .. Len(a)
    BY <1>1
  <2>2. QED
    BY <1>1, <2>1 DEF Has
<1>3. QED
  BY <1>2 DEF Has

LEMMA JoinHas ==
  ASSUME NEW a, NEW b, IsSeq(a), IsSeq(b)
  PROVE  /\ IsSeq(a \o b) /\ Len(a \o b) = Len(a) + Len(b) /\ Len(a) \in Nat /\ Len(b) \in Nat
         /\ Has(a \o b, 0, a) /\ Has(a \o b, Len(a), b)
<1>1. /\ IsSeq(a \o b) /\ Len(a \o b) = Len(a) + Len(b) /\ Len(a) \in Nat /\ Len(b) \in Nat
      /\ \A i \in 1 .. Len(a) : (a \o b)[i] = a[i]
      /\ \A k \in 1 .. Len(b) : (a \o b)[Len(a) + k] = b[k]
  BY JoinFacts
<1>2. \A i \in 1 .. Len(a) : 0 + i = i
  BY <1>1
<1>3. QED
  BY <1>1, <1>2 DEF Has

Placed(s, a, b, c, d, e) ==
  /\ IsSeq(s) /\ Len(s) = Len(a) + Len(b) + Len(c) + Len(d) + Len(e)
  /\ Has(s, 0, a) /\ Has(s, Len(a), b) /\ Has(s, Len(a) + Len(b), c)
  /\ Has(s, Len(a) + Len(b) + Len(c), d) /\ Has(s, Len(a) + Len(b) + Len(c) + Len(d), e)

LEMMA FiveJoined ==
  ASSUME NEW a, NEW b, NEW c, NEW d, NEW e, IsSeq(a), IsSeq(b), IsSeq(c), IsSeq(d), IsSeq(e)
  PROVE  Placed((((a \o b) \o c) \o d) \o e, a, b, c, d, e)
<1> DEFINE p == a \o b
           q == p \o c
           r == q \o d
           s == r \o e
           i == Len(a)
           j == Len(b)
           k == Len(c)
           l == Len(d)
           m == Len(e)
<1>0. i \in Nat /\ j \in Nat /\ k \in Nat /\ l \in Nat /\ m \in Nat
  BY SeqFacts
<1>1. IsSeq(p) /\ Len(p) = i + j /\ Has(p, 0, a) /\ Has(p, i, b)
  BY JoinHas
<1>2. IsSeq(q) /\ Len(q) = i + j + k /\ Has(q, i + j, c)
  <2> HIDE DEF p
  <2>1. QED
    BY <1>1, JoinHas
<1>3. Has(q, 0, a) /\ Has(q, i, b)
  <2> HIDE DEF p, i, j
  <2>1. 0 + i <= Len(p) /\ i + j <= Len(p) /\ 0 \in Nat
    BY <1>0, <1>1
  <2>2. Has(q, 0, a)
    BY <1>0, <1>1, <2>1, HasJoined DEF i
  <2>3. Has(q, i, b)
    BY <1>0, <1>1, <2>1, HasJoined DEF j
  <2>4. QED
    BY <2>2, <2>3
<1> HIDE DEF q
<1>4. IsSeq(r) /\ Len(r) = i + j + k + l /\ Has(r, i + j + k, d)
  BY <1>2, JoinHas
<1>5. Has(r, 0, a) /\ Has(r, i, b) /\ Has(r, i + j, c)
  <2> HIDE DEF p, i, j, k
  <2>1. 0 + i <= Len(q) /\ i + j <= Len(q) /\ 0 \in Nat /\ i + j \in Nat /\ (i + j) + k <= Len(q)
    BY <1>0, <1>2
  <2>2. Has(r, 0, a)
    BY <1>0, <1>2, <1>3, <2>1, HasJoined DEF i
  <2>3. Has(r, i, b)
    BY <1>0, <1>2, <1>3, <2>1, HasJoined DEF j
  <2>4. Has(r, i + j, c)
    BY <1>0, <1>2, <2>1, HasJoined DEF k
  <2>5. QED
    BY <2>2, <2>3, <2>4
<1> HIDE DEF r
<1>6. IsSeq(s) /\ Len(s) = i + j + k + l + m /\ Has(s, i + j + k + l, e)
  BY <1>4, JoinHas
<1>7. Has(s, 0, a) /\ Has(s, i, b) /\ Has(s, i + j, c) /\ Has(s, i + j + k, d)
  <2> HIDE DEF p, i, j, k, l
  <2>1. /\ 0 + i <= Len(r) /\ i + j <= Len(r) /\ 0 \in Nat /\ i + j \in Nat /\ (i + j) + k <= Len(r)
        /\ i + j + k \in Nat /\ (i + j + k) + l <= Len(r)
    BY <1>0, <1>4
  <2>2. Has(s, 0, a)
    BY <1>0, <1>4, <1>5, <2>1, HasJoined DEF i
  <2>3. Has(s, i, b)
    BY <1>0, <1>4, <1>5, <2>1, HasJoined DEF j
  <2>4. Has(s, i + j, c)
    BY <1>0, <1>4, <1>5, <2>1, HasJoined DEF k
  <2>5. Has(s, i + j + k, d)
    BY <1>0, <1>4, <2>1, HasJoined DEF l
  <2>6. QED
    BY <2>2, <2>3, <2>4, <2>5
<1> HIDE DEF s
<1>8. Placed(s, a, b, c, d, e)
  BY <1>6, <1>7 DEF Placed
<1>9. QED
  BY <1>8 DEF p, q, r, s

(* The comments of the header: two that tell of the document, those of the *)
(* resources of each kind, and the last.                                   *)
Zoned(H, a, b, c) ==
  /\ IsSeq(H) /\ Len(H) = 3 + a + b + c
  /\ H[1][1] = "magic" /\ H[2] = <<"Pages", ToString(sheets), "">> /\ H[3 + a + b + c][1] = "EndComments"
  /\ \A i \in 1 .. a : H[2 + i][1] = IF i = 1 THEN "needed" ELSE "%%+"
  /\ \A i \in 1 .. b : H[2 + a + i][1] = "colors"
  /\ \A i \in 1 .. c : H[2 + a + b + i][1] = IF i = 1 THEN "supplied" ELSE "%%+"
Names2(H, n, m) == {<<H[n + i][2], H[n + i][3]>> : i \in 1 .. m}

LEMMA CommentsFacts ==
  ASSUME D!DiversionAssumption, NEW order, IsSeq(order), OneToOne(order), Terms(order) = D!Types
  PROVE  LET H == D!DumpComments(order)
             N == D!Pairs(resources.needed, D!Types \ {"color", "file"})
             C == D!Pairs(resources.needed, {"color"})
             S == D!Pairs(resources.supplied, D!Types)
             a == Cardinality(N)
             b == Cardinality(C)
             c == Cardinality(S)
         IN /\ a \in Nat /\ b \in Nat /\ c \in Nat /\ Zoned(H, a, b, c)
            /\ Names2(H, 2, a) = N /\ Names2(H, 2 + a, b) = C /\ Names2(H, 2 + a + b, c) = S
<1> DEFINE H == D!DumpComments(order)
           N == D!Pairs(resources.needed, D!Types \ {"color", "file"})
           C == D!Pairs(resources.needed, {"color"})
           S == D!Pairs(resources.supplied, D!Types)
           p == <<<<"magic", "", "">>, <<"Pages", ToString(sheets), "">>>>
           q == D!DumpNeeded(resources.needed, order)
           r == D!DumpColors
           s == D!EntriesDump("supplied", resources.supplied, D!Among(order, DOMAIN resources.supplied))
           t == <<<<"EndComments", "", "">>>>
<1>1. /\ IsSeq(q) /\ (\A i \in DOMAIN q : q[i][1] = IF i = 1 THEN "needed" ELSE "%%+")
      /\ Named(q) = N /\ IsFiniteSet(N) /\ Len(q) = Cardinality(N)
  <2> DEFINE table == resources.needed
             types == D!Among(order, DOMAIN table \ {"color", "file"})
  <2>1. IsSeq(types) /\ OneToOne(types) /\ Terms(types) = D!Types \cap (DOMAIN table \ {"color", "file"})
    BY AmongFacts
  <2>2. q = D!EntriesDump("needed", table, types)
    BY DEF D!DumpNeeded
  <2> HIDE DEF types, q
  <2>3. /\ IsSeq(q) /\ (\A i \in DOMAIN q : q[i][1] = IF i = 1 THEN "needed" ELSE "%%+")
        /\ Named(q) = D!Pairs(table, Terms(types))
        /\ IsFiniteSet(D!Pairs(table, Terms(types))) /\ Len(q) = Cardinality(D!Pairs(table, Terms(types)))
    BY <2>1, <2>2, EntriesFacts
  <2>4. D!Pairs(table, Terms(types)) = N
    BY <2>1 DEF D!Pairs
  <2>5. QED
    BY <2>3, <2>4
<1>2. /\ IsSeq(s) /\ (\A i \in DOMAIN s : s[i][1] = IF i = 1 THEN "supplied" ELSE "%%+")
      /\ Named(s) = S /\ IsFiniteSet(S) /\ Len(s) = Cardinality(S)
  <2> DEFINE table == resources.supplied
             types == D!Among(order, DOMAIN table)
  <2>1. IsSeq(types) /\ OneToOne(types) /\ Terms(types) = D!Types \cap DOMAIN table
    BY AmongFacts
  <2>2. s = D!EntriesDump("supplied", table, types)
    OBVIOUS
  <2>2a. Terms(types) \subseteq DOMAIN table
    BY <2>1
  <2> HIDE DEF types, s, table
  <2>3a. IsSeq(types) /\ OneToOne(types)
    BY <2>1
  <2>3. /\ IsSeq(s) /\ (\A i \in DOMAIN s : s[i][1] = IF i = 1 THEN "supplied" ELSE "%%+")
        /\ Named(s) = D!Pairs(table, Terms(types))
        /\ IsFiniteSet(D!Pairs(table, Terms(types))) /\ Len(s) = Cardinality(D!Pairs(table, Terms(types)))
    BY <2>3a, <2>2, <2>2a, EntriesFacts
  <2>4. D!Pairs(table, Terms(types)) = S
    BY <2>1 DEF D!Pairs, table
  <2>5. QED
    BY <2>3, <2>4
<1>3. /\ IsSeq(r) /\ (\A i \in DOMAIN r : r[i][1] = "colors")
      /\ Named(r) = C /\ IsFiniteSet(C) /\ Len(r) = Cardinality(C)
  <2> DEFINE V == D!Values(resources.needed, "color")
             colors == D!Sorted(V)
             n == Len(colors)
  <2>1. /\ IsSeq(colors) /\ OneToOne(colors) /\ Terms(colors) = V \cap D!ToSet(Names)
        /\ DOMAIN colors = 1 .. n /\ n \in Nat
    BY SortedFacts
  <2>2. r = [k \in 1 .. n |-> <<"colors", "color", colors[k]>>]
    BY <2>1 DEF D!DumpColors
  <2>3. C = {<<"color", v>> : v \in V \cap D!ToSet(Names)}
    BY DEF D!Pairs, D!Values
  <2> HIDE DEF r, colors, n, V, C
  <2>4. DOMAIN r = 1 .. n /\ r = [k \in 1 .. n |-> r[k]]
    BY <2>2
  <2>5. IsSeq(r) /\ Len(r) = n
    BY <2>1, <2>4, FunSeq
  <2> DEFINE u == [k \in 1 .. n |-> <<"color", colors[k]>>]
  <2>6. DOMAIN u = 1 .. n /\ u = [k \in 1 .. n |-> u[k]]
    OBVIOUS
  <2>7. OneToOne(u)
    BY <2>1 DEF OneToOne
  <2>8. Terms(u) = C
    <3>1. Terms(u) = {<<"color", v>> : v \in Terms(colors)}
      BY <2>1 DEF Terms
    <3>2. QED
      BY <2>1, <2>3, <3>1
  <2>9. Named(r) = Terms(u)
    <3>1. \A i \in 1 .. n : <<r[i][2], r[i][3]>> = u[i]
      BY <2>2
    <3> HIDE DEF u
    <3>2. QED
      BY <2>4, <2>6, <3>1 DEF Terms, Named
  <2> HIDE DEF u
  <2>10. IsSeq(u) /\ Len(u) = n
    BY <2>1, <2>6, FunSeq
  <2>11. IsFiniteSet(Terms(u)) /\ Cardinality(Terms(u)) = n
    BY <2>7, <2>10, OneToOneCount
  <2>12. \A i \in DOMAIN r : r[i][1] = "colors"
    BY <2>2
  <2>13. QED
    BY <2>5, <2>8, <2>9, <2>11, <2>12
<1>4. IsSeq(p) /\ Len(p) = 2 /\ p[1][1] = "magic" /\ p[2] = <<"Pages", ToString(sheets), "">>
  <2> DEFINE x == <<"magic", "", "">>
             y == <<"Pages", ToString(sheets), "">>
  <2>1. IsSeq(<<x, y>>)
    <3> HIDE DEF x, y
    <3>1. <<x, y>> \in Seq({x, y})
      OBVIOUS
    <3>2. QED
      BY <3>1 DEF IsSeq
  <2>2. QED
    BY <2>1
<1>5. IsSeq(t) /\ Len(t) = 1 /\ t[1][1] = "EndComments"
  BY Concats
<1>6. H = (((p \o q) \o r) \o s) \o t
  BY DEF D!DumpComments
<1> HIDE DEF p, q, r, s, t, N, C, S
<1>7. /\ IsSeq(H) /\ Len(H) = Len(p) + Len(q) + Len(r) + Len(s) + Len(t)
      /\ Has(H, 0, p) /\ Has(H, Len(p), q) /\ Has(H, Len(p) + Len(q), r)
      /\ Has(H, Len(p) + Len(q) + Len(r), s) /\ Has(H, Len(p) + Len(q) + Len(r) + Len(s), t)
  <2>1. IsSeq(p) /\ IsSeq(q) /\ IsSeq(r) /\ IsSeq(s) /\ IsSeq(t)
    BY <1>1, <1>2, <1>3, <1>4, <1>5
  <2> HIDE DEF H
  <2>2. Placed((((p \o q) \o r) \o s) \o t, p, q, r, s, t)
    BY <2>1, FiveJoined
  <2>3. Placed(H, p, q, r, s, t)
    BY <1>6, <2>2
  <2>4. QED
    BY <2>3 DEF Placed
<1> HIDE DEF H
<1> DEFINE a == Len(q)
           b == Len(r)
           c == Len(s)
<1>6a. /\ \A i \in DOMAIN q : q[i][1] = IF i = 1 THEN "needed" ELSE "%%+"
       /\ \A i \in DOMAIN r : r[i][1] = "colors"
       /\ \A i \in DOMAIN s : s[i][1] = IF i = 1 THEN "supplied" ELSE "%%+"
  BY <1>1, <1>2, <1>3
<1>7a. Len(q) = a /\ Len(r) = b /\ Len(s) = c
  OBVIOUS
<1>8. a \in Nat /\ b \in Nat /\ c \in Nat /\ DOMAIN q = 1 .. a /\ DOMAIN r = 1 .. b /\ DOMAIN s = 1 .. c
  BY <1>1, <1>2, <1>3, SeqFacts
<1> HIDE DEF a, b, c
<1>9. /\ \A i \in 1 .. 2 : H[i] = p[i]
      /\ \A i \in 1 .. a : H[2 + i] = q[i]
      /\ \A i \in 1 .. b : H[2 + a + i] = r[i]
      /\ \A i \in 1 .. c : H[2 + a + b + i] = s[i]
      /\ H[2 + a + b + c + 1] = t[1]
      /\ Len(H) = 3 + a + b + c
  <2>1. 1 \in 1 .. 1 /\ (\A i \in 1 .. 2 : 0 + i = i)
    OBVIOUS
  <2>1a. /\ Has(H, 0, p) /\ Has(H, 2, q) /\ Has(H, 2 + a, r) /\ Has(H, 2 + a + b, s) /\ Has(H, 2 + a + b + c, t)
         /\ Len(H) = 2 + a + b + c + 1
    BY <1>4, <1>5, <1>7, <1>7a
  <2>2. (\A i \in 1 .. 2 : H[i] = p[i]) /\ H[2 + a + b + c + 1] = t[1]
    BY <1>4, <1>5, <2>1, <2>1a DEF Has
  <2>3. /\ \A i \in 1 .. a : H[2 + i] = q[i]
        /\ \A i \in 1 .. b : H[2 + a + i] = r[i]
        /\ \A i \in 1 .. c : H[2 + a + b + i] = s[i]
    BY <1>7a, <2>1a DEF Has
  <2>4. QED
    BY <1>8, <2>1a, <2>2, <2>3
<1>9a. \A i \in 1 .. a : H[2 + i] = q[i]
  BY <1>9
<1>9b. \A i \in 1 .. b : H[2 + a + i] = r[i]
  BY <1>9
<1>9c. \A i \in 1 .. c : H[2 + a + b + i] = s[i]
  BY <1>9
<1>6b. \A i \in DOMAIN q : q[i][1] = IF i = 1 THEN "needed" ELSE "%%+"
  BY <1>6a
<1>6c. \A i \in DOMAIN r : r[i][1] = "colors"
  BY <1>6a
<1>6d. \A i \in DOMAIN s : s[i][1] = IF i = 1 THEN "supplied" ELSE "%%+"
  BY <1>6a
<1>10. 2 + a + b + c + 1 = 3 + a + b + c /\ 1 \in 1 .. 2 /\ 2 \in 1 .. 2
  BY <1>8
<1>11. Zoned(H, a, b, c)
  <2>1. H[1][1] = "magic" /\ H[2] = <<"Pages", ToString(sheets), "">>
    BY <1>4, <1>9, <1>10
  <2>2. H[3 + a + b + c][1] = "EndComments"
    BY <1>5, <1>9, <1>10
  <2>3. \A i \in 1 .. a : H[2 + i][1] = IF i = 1 THEN "needed" ELSE "%%+"
    BY <1>6b, <1>8, <1>9a
  <2>4. \A i \in 1 .. b : H[2 + a + i][1] = "colors"
    BY <1>6c, <1>8, <1>9b
  <2>5. \A i \in 1 .. c : H[2 + a + b + i][1] = IF i = 1 THEN "supplied" ELSE "%%+"
    <3>1. DOMAIN s = 1 .. c
      BY <1>8
    <3>2. QED
      BY <1>6d, <1>9c, <3>1
  <2>6. QED
    BY <1>7, <1>9, <2>1, <2>2, <2>3, <2>4, <2>5 DEF Zoned
<1>12. Names2(H, 2, a) = N /\ Names2(H, 2 + a, b) = C /\ Names2(H, 2 + a + b, c) = S
  <2>1. Names2(H, 2, a) = Named(q)
    BY <1>8, <1>9a DEF Names2, Named
  <2>2. Names2(H, 2 + a, b) = Named(r)
    BY <1>8, <1>9b DEF Names2, Named
  <2>3. Names2(H, 2 + a + b, c) = Named(s)
    BY <1>8, <1>9c DEF Names2, Named
  <2>4. QED
    BY <1>1, <1>2, <1>3, <2>1, <2>2, <2>3
<1>13. QED
  BY <1>7a, <1>1, <1>2, <1>3, <1>8, <1>11, <1>12 DEF H, N, C, S

Kind(k, a, b, c) ==
  CASE k = 1 -> "magic" [] k = 2 -> "Pages"
    [] k \in 3 .. 2 + a -> "needed" [] k \in 3 + a .. 2 + a + b -> "colors"
    [] k \in 3 + a + b .. 2 + a + b + c -> "supplied" [] k = 3 + a + b + c -> "EndComments"

LEMMA ZonedLines ==
  ASSUME NEW a \in Nat, NEW b \in Nat, NEW c \in Nat, NEW H, Zoned(H, a, b, c)
  PROVE  /\ IsSeq(H) /\ Len(H) = 3 + a + b + c /\ DOMAIN H = 1 .. 3 + a + b + c
         /\ \A k \in 1 .. 3 + a + b + c :
              H[k][1] = IF k \in 4 .. 2 + a \/ k \in 4 + a + b .. 2 + a + b + c THEN "%%+" ELSE Kind(k, a, b, c)
<1>1. IsSeq(H) /\ Len(H) = 3 + a + b + c
  BY DEF Zoned
<1>2. DOMAIN H = 1 .. 3 + a + b + c
  BY <1>1, SeqFacts
<1>3. ASSUME NEW k \in 1 .. 3 + a + b + c
      PROVE  H[k][1] = IF k \in 4 .. 2 + a \/ k \in 4 + a + b .. 2 + a + b + c THEN "%%+" ELSE Kind(k, a, b, c)
  <2>1. \/ k = 1 \/ k = 2 \/ k \in 3 .. 2 + a \/ k \in 3 + a .. 2 + a + b
        \/ k \in 3 + a + b .. 2 + a + b + c \/ k = 3 + a + b + c
    OBVIOUS
  <2>2. CASE k = 1
    <3>1. H[1][1] = "magic"
      BY DEF Zoned
    <3>2. QED
      BY <2>2, <3>1 DEF Kind
  <2>3. CASE k = 2
    <3> DEFINE x == ToString(sheets)
               y == ""
    <3>0. H[2] = <<"Pages", x, y>>
      BY DEF Zoned
    <3> HIDE DEF x, y
    <3>1. H[2][1] = "Pages"
      BY <3>0
    <3>2. QED
      BY <2>3, <3>1 DEF Kind
  <2>4. CASE k \in 3 .. 2 + a
    <3> DEFINE i == k - 2
    <3>1. i \in 1 .. a /\ 2 + i = k /\ (i = 1 <=> k = 3)
      BY <2>4
    <3> HIDE DEF i
    <3>2. H[2 + i][1] = IF i = 1 THEN "needed" ELSE "%%+"
      BY <3>1 DEF Zoned
    <3>3. H[k][1] = IF k = 3 THEN "needed" ELSE "%%+"
      BY <3>1, <3>2
    <3>4. QED
      BY <2>4, <3>3 DEF Kind
  <2>5. CASE k \in 3 + a .. 2 + a + b
    <3> DEFINE i == k - (2 + a)
    <3>1. i \in 1 .. b /\ 2 + a + i = k
      BY <2>5
    <3> HIDE DEF i
    <3>2. H[2 + a + i][1] = "colors"
      BY <3>1 DEF Zoned
    <3>3. H[k][1] = "colors"
      BY <3>1, <3>2
    <3>4. QED
      BY <2>5, <3>3 DEF Kind
  <2>6. CASE k \in 3 + a + b .. 2 + a + b + c
    <3> DEFINE i == k - (2 + a + b)
    <3>1. i \in 1 .. c /\ 2 + a + b + i = k /\ (i = 1 <=> k = 3 + a + b)
      BY <2>6
    <3> HIDE DEF i
    <3>2. H[2 + a + b + i][1] = IF i = 1 THEN "supplied" ELSE "%%+"
      BY <3>1 DEF Zoned
    <3>3. H[k][1] = IF k = 3 + a + b THEN "supplied" ELSE "%%+"
      BY <3>1, <3>2
    <3>4. QED
      BY <2>6, <3>3 DEF Kind
  <2>7. CASE k = 3 + a + b + c
    <3>1. H[3 + a + b + c][1] = "EndComments"
      BY DEF Zoned
    <3>2. QED
      BY <2>7, <3>1 DEF Kind
  <2>8. QED
    BY <2>1, <2>2, <2>3, <2>4, <2>5, <2>6, <2>7
<1>4. QED
  BY <1>1, <1>2, <1>3

(* The header of a document that begins with it.                           *)
LEMMA HeaderBegins ==
  ASSUME NEW a \in Nat, NEW b \in Nat, NEW c \in Nat, NEW H, Zoned(H, a, b, c), NEW rest, IsSeq(rest)
  PROVE  D!HeaderOf(H \o rest) = H
<1> DEFINE n == 3 + a + b + c
           d == H \o rest
<1>1. IsSeq(H) /\ Len(H) = n /\ DOMAIN H = 1 .. n
  BY ZonedLines
<1>2. \A k \in 1 .. n :
        H[k][1] = IF k \in 4 .. 2 + a \/ k \in 4 + a + b .. 2 + a + b + c THEN "%%+" ELSE Kind(k, a, b, c)
  BY ZonedLines
<1>3. \A k \in 1 .. n : H[k][1] = "EndComments" <=> k = n
  BY <1>2 DEF Kind
<1>4. n \in Nat /\ n >= 3
  OBVIOUS
<1> HIDE DEF n
<1>5. /\ IsSeq(d) /\ Len(d) = n + Len(rest) /\ DOMAIN d = 1 .. n + Len(rest) /\ Len(rest) \in Nat
      /\ \A i \in 1 .. n : d[i] = H[i]
  BY <1>1, JoinFacts
<1> HIDE DEF d
<1> DEFINE S == {i \in DOMAIN d : d[i][1] = "EndComments"}
<1>6. n \in S /\ \A i \in S : n <= i
  BY <1>3, <1>4, <1>5
<1>7. \A x \in S : (\A y \in S : x <= y) => x = n
  BY <1>4, <1>5, <1>6
<1>8. D!Min(S) = n
  <2> HIDE DEF S
  <2>1. QED
    BY <1>6, <1>7 DEF D!Min
<1>9. D!HeaderOf(d) = SubSeq(d, 1, n)
  BY <1>8 DEF D!HeaderOf
<1>10. SubSeq(d, 1, n) = H
  <2>1. PICK A : d \in Seq(A)
    BY <1>5 DEF IsSeq
  <2>2. PICK B : H \in Seq(B)
    BY <1>1 DEF IsSeq
  <2> DEFINE p == SubSeq(d, 1, n)
  <2>3. p \in Seq(A) /\ Len(p) = n /\ \A i \in 1 .. n : p[i] = d[i]
    BY <1>4, <1>5, <2>1
  <2> HIDE DEF p
  <2>4. p = H
    <3>1. \A i \in 1 .. Len(p) : p[i] = H[i]
      BY <1>5, <2>3
    <3>2. Len(p) = Len(H)
      BY <1>1, <2>3
    <3>3. QED
      BY <2>2, <2>3, <3>1, <3>2, SeqEqual
  <2>5. QED
    BY <2>4 DEF p
<1>11. QED
  BY <1>9, <1>10 DEF d

(* The comment that a line of the header belongs to.                       *)
LEMMA CommentIs ==
  ASSUME NEW i \in Nat, NEW m \in 1 .. i, D!Header[m][1] # "%%+",
         \A k \in m + 1 .. i : D!Header[k][1] = "%%+"
  PROVE  D!Comment(i) = D!Header[m][1]
<1> DEFINE S == {k \in 1 .. i : D!Header[k][1] # "%%+"}
<1>1. m \in S /\ \A k \in S : m >= k
  <2>1. \A k \in 1 .. i : k <= m \/ k \in m + 1 .. i
    OBVIOUS
  <2>2. QED
    BY <2>1
<1>2. \A x \in S : (\A y \in S : x >= y) => x = m
  BY <1>1
<1>3. D!Max(S) = m
  <2> HIDE DEF S
  <2>1. QED
    BY <1>1, <1>2 DEF D!Max
<1>4. QED
  BY <1>3 DEF D!Comment

LEMMA ToldFacts ==
  ASSUME NEW a \in Nat, NEW b \in Nat, NEW c \in Nat, Zoned(D!Header, a, b, c)
  PROVE  /\ D!Told("needed") = Names2(D!Header, 2, a)
         /\ D!Told("colors") = Names2(D!Header, 2 + a, b)
         /\ D!Told("supplied") = Names2(D!Header, 2 + a + b, c)
<1> DEFINE H == D!Header
           n == 3 + a + b + c
<1>1. /\ DOMAIN H = 1 .. n
      /\ \A k \in 1 .. n :
           H[k][1] = IF k \in 4 .. 2 + a \/ k \in 4 + a + b .. 2 + a + b + c THEN "%%+" ELSE Kind(k, a, b, c)
  BY ZonedLines
<1>2. ASSUME NEW k \in 1 .. n
      PROVE  D!Comment(k) = Kind(k, a, b, c)
  <2>1. CASE k \in 4 .. 2 + a
    <3>1. 3 \in 1 .. k /\ 3 \in 1 .. n /\ k \in Nat /\ \A j \in 3 + 1 .. k : j \in 4 .. 2 + a /\ j \in 1 .. n
      BY <2>1
    <3>2. H[3][1] = "needed" /\ \A j \in 3 + 1 .. k : H[j][1] = "%%+"
      BY <1>1, <3>1, <2>1 DEF Kind
    <3> HIDE DEF n
    <3>3. D!Comment(k) = "needed"
      BY <3>1, <3>2, CommentIs
    <3>4. QED
      BY <2>1, <3>3 DEF Kind
  <2>2. CASE k \in 4 + a + b .. 2 + a + b + c
    <3> DEFINE m == 3 + a + b
    <3>1. m \in 1 .. k /\ m \in 1 .. n /\ k \in Nat
          /\ \A j \in m + 1 .. k : j \in 4 + a + b .. 2 + a + b + c /\ j \in 1 .. n
      BY <2>2
    <3>2. H[m][1] = "supplied"
      <4>1. m \notin 4 .. 2 + a /\ m \notin 4 + a + b .. 2 + a + b + c /\ m \in 3 + a + b .. 2 + a + b + c
            /\ m \notin 3 .. 2 + a /\ m \notin 3 + a .. 2 + a + b /\ m # 1 /\ m # 2
        BY <2>2
      <4>2. H[m][1] = Kind(m, a, b, c)
        BY <1>1, <3>1, <4>1
      <4> HIDE DEF m
      <4>3. QED
        BY <4>1, <4>2 DEF Kind
    <3>2a. \A j \in m + 1 .. k : H[j][1] = "%%+"
      BY <1>1, <3>1
    <3> HIDE DEF n, m
    <3>3. D!Comment(k) = "supplied"
      BY <3>1, <3>2, <3>2a, CommentIs
    <3>4. QED
      BY <2>2, <3>3 DEF Kind
  <2>3. CASE k \notin 4 .. 2 + a /\ k \notin 4 + a + b .. 2 + a + b + c
    <3>1. H[k][1] = Kind(k, a, b, c)
      BY <1>1, <2>3
    <3>2. Kind(k, a, b, c) # "%%+"
      <4>1. \/ k = 1 \/ k = 2 \/ k \in 3 .. 2 + a \/ k \in 3 + a .. 2 + a + b
            \/ k \in 3 + a + b .. 2 + a + b + c \/ k = 3 + a + b + c
        OBVIOUS
      <4>2. QED
        BY <4>1 DEF Kind
    <3>3. k \in Nat /\ k \in 1 .. k /\ \A j \in k + 1 .. k : FALSE
      OBVIOUS
    <3>4. D!Comment(k) = H[k][1]
      BY <3>1, <3>2, <3>3, CommentIs
    <3>5. QED
      BY <3>1, <3>4
  <2>4. QED
    BY <2>1, <2>2, <2>3
<1>3. ASSUME NEW x, NEW low \in Nat, NEW m \in Nat, \A k \in 1 .. n : Kind(k, a, b, c) = x <=> k \in low + 1 .. low + m,
             low + m <= n
      PROVE  D!Told(x) = Names2(H, low, m)
  <2> DEFINE S == {k \in DOMAIN H : D!Comment(k) = x}
  <2>1. S = low + 1 .. low + m
    <3>1. \A k \in low + 1 .. low + m : k \in 1 .. n
      BY <1>3
    <3>2. QED
      BY <1>1, <1>2, <1>3, <3>1
  <2> HIDE DEF S
  <2>2. D!Told(x) = {<<H[i][2], H[i][3]>> : i \in S}
    BY DEF D!Told, S
  <2>3. \A k \in S : k - low \in 1 .. m /\ low + (k - low) = k
    BY <2>1
  <2>4. \A i \in 1 .. m : low + i \in S
    BY <2>1
  <2>5. {<<H[i][2], H[i][3]>> : i \in S} = {<<H[low + i][2], H[low + i][3]>> : i \in 1 .. m}
    BY <2>3, <2>4
  <2>6. QED
    BY <2>2, <2>5 DEF Names2
<1>4. /\ \A k \in 1 .. n : Kind(k, a, b, c) = "needed" <=> k \in 2 + 1 .. 2 + a
      /\ 2 + a <= n /\ 2 \in Nat
  BY DEF Kind
<1>5. /\ \A k \in 1 .. n : Kind(k, a, b, c) = "colors" <=> k \in (2 + a) + 1 .. (2 + a) + b
      /\ (2 + a) + b <= n /\ 2 + a \in Nat
  BY DEF Kind
<1>6. /\ \A k \in 1 .. n : Kind(k, a, b, c) = "supplied" <=> k \in (2 + a + b) + 1 .. (2 + a + b) + c
      /\ (2 + a + b) + c <= n /\ 2 + a + b \in Nat
  BY DEF Kind
<1> HIDE DEF n, H
<1>7. D!Told("needed") = Names2(H, 2, a)
  BY <1>3, <1>4
<1>8. D!Told("colors") = Names2(H, 2 + a, b)
  BY <1>3, <1>5
<1>9. D!Told("supplied") = Names2(H, 2 + a + b, c)
  BY <1>3, <1>6
<1>10. QED
  BY <1>7, <1>8, <1>9 DEF H

(* What is written: the header's place first, then items that no two       *)
(* kinds of share; and as many pages as labels.                            *)
Ordinary(x) ==
  \/ x.type = "text" /\ x.arg # D!Nul /\ x.arg[1] # "Page"
  \/ x.type = "size_t"
  \/ x.type = "routine" /\ x.arg # "prolog comments" /\ x.arg # "Page"
Item(x, n) == Ordinary(x) \/ x = D!Line("Page") \/ (x.type = "string" /\ x.arg \in 1 .. n)
Strings(w) == {i \in DOMAIN w : w[i].type = "string"}
PageLines(w) == {i \in DOMAIN w : w[i] = D!Line("Page")}
WellWritten(w, n) ==
  /\ w # << >> /\ w[1] = D!Routine("prolog comments")
  /\ \A i \in 2 .. Len(w) : Item(w[i], n)
  /\ Cardinality(Strings(w)) = n /\ Cardinality(PageLines(w)) = n

LEMMA OrdinaryItems ==
  /\ \A a, b, c : a # "Page" /\ a # "NUL" => Ordinary(D!Text(a, b, c))
  /\ \A a : a # "Page" /\ a # "NUL" => Ordinary(D!Line(a))
  /\ \A a : a # "prolog comments" /\ a # "Page" => Ordinary(D!Routine(a))
  /\ \A a : Ordinary(D!Delayed("size_t", a))
<1>1. ASSUME NEW a, NEW b, NEW c, a # "Page", a # "NUL"
      PROVE  Ordinary(D!Text(a, b, c))
  <2> DEFINE e == ""
             x == <<a, b, c>>
  <2>1. D!Text(a, b, c) = [type |-> "text", arg |-> x]
    BY DEF D!Text
  <2>2. x # <<"NUL", e, e>> /\ x[1] # "Page"
    <3> HIDE DEF e
    <3>1. QED
      BY <1>1
  <2>3. x # D!Nul
    BY <2>2 DEF D!Nul
  <2> HIDE DEF x
  <2>4. D!Text(a, b, c).type = "text" /\ D!Text(a, b, c).arg = x
    BY <2>1
  <2>5. QED
    BY <2>2, <2>3, <2>4 DEF Ordinary
<1>2. \A a : a # "Page" /\ a # "NUL" => Ordinary(D!Line(a))
  BY <1>1 DEF D!Line
<1>3. \A a : a # "prolog comments" /\ a # "Page" => Ordinary(D!Routine(a))
  BY DEF D!Routine, D!Delayed, Ordinary
<1>4. \A a : Ordinary(D!Delayed("size_t", a))
  BY DEF D!Delayed, Ordinary
<1>5. QED
  BY <1>1, <1>2, <1>3, <1>4

(* A set of places counted in two parts.                                   *)
Moved(B, m) == {m + k : k \in B}

LEMMA CountOn ==
  ASSUME NEW m \in Nat, NEW n \in Nat, NEW A \in SUBSET (1 .. m), NEW B \in SUBSET (1 .. n)
  PROVE  Cardinality(A \cup Moved(B, m)) = Cardinality(A) + Cardinality(B)
<1>1. IsFiniteSet(1 .. m) /\ IsFiniteSet(1 .. n)
  BY FS_Interval
<1>2. IsFiniteSet(A) /\ IsFiniteSet(B)
  BY <1>1, FS_Subset
<1> DEFINE f == [k \in B |-> m + k]
           D1 == {m + k : k \in B}
<1>3. f \in Bijection(B, D1)
  <2>1. f \in [B -> D1] /\ (\A x, y \in B : f[x] = f[y] => x = y) /\ \A t \in D1 : \E x \in B : f[x] = t
    OBVIOUS
  <2> HIDE DEF f, D1
  <2>2. QED
    BY <2>1, Fun_IsBij
<1>4. IsFiniteSet(D1) /\ Cardinality(D1) = Cardinality(B)
  <2>1. ExistsBijection(B, D1)
    BY <1>3 DEF ExistsBijection
  <2> HIDE DEF D1
  <2>2. QED
    BY <1>2, <2>1, FS_Bijection
<1>5. A \cap D1 = {}
  OBVIOUS
<1> HIDE DEF D1
<1>6. IsFiniteSet(A \cup D1) /\ Cardinality(A \cup D1) = Cardinality(A) + Cardinality(D1) - Cardinality(A \cap D1)
  BY <1>2, <1>4, FS_Union
<1>7. Cardinality(A \cap D1) = 0
  BY <1>5, FS_EmptySet
<1>8. Cardinality(A) \in Nat /\ Cardinality(B) \in Nat
  BY <1>2, FS_CardinalityType
<1>9. QED
  BY <1>2, <1>4, <1>6, <1>7, <1>8 DEF D1, Moved

LEMMA WrittenOn ==
  ASSUME NEW w, IsSeq(w), NEW n \in Nat, WellWritten(w, n), NEW items, IsSeq(items), NEW k \in Nat,
         \A i \in DOMAIN items : Item(items[i], n + k),
         Cardinality(Strings(items)) = k, Cardinality(PageLines(items)) = k
  PROVE  IsSeq(w \o items) /\ WellWritten(w \o items, n + k)
<1> DEFINE v == w \o items
           p == Len(w)
           q == Len(items)
<1>1. /\ p \in Nat /\ q \in Nat /\ DOMAIN w = 1 .. p /\ DOMAIN items = 1 .. q
      /\ IsSeq(v) /\ Len(v) = p + q /\ DOMAIN v = 1 .. p + q
      /\ \A i \in 1 .. p : v[i] = w[i]
      /\ \A j \in 1 .. q : v[p + j] = items[j]
  BY JoinFacts
<1>2. p >= 1
  <2>1. w # << >> /\ (w = << >> <=> Len(w) = 0)
    BY SeqFacts DEF WellWritten
  <2>2. p # 0
    BY <2>1
  <2> HIDE DEF p
  <2>3. QED
    BY <1>1, <2>2
<1> HIDE DEF v, p, q
<1>3. \A i \in 1 .. p + q : i \in 1 .. p \/ (i - p \in 1 .. q /\ p + (i - p) = i)
  BY <1>1
<1>4. v # << >> /\ v[1] = D!Routine("prolog comments")
  <2>1. 1 \in 1 .. p
    BY <1>1, <1>2
  <2>2. v[1] = w[1]
    BY <1>1, <2>1
  <2>3. Len(v) # 0
    BY <1>1, <1>2
  <2>4. v # << >>
    BY <1>1, <2>3, SeqFacts
  <2>5. QED
    BY <2>2, <2>4 DEF WellWritten
<1>5. ASSUME NEW i \in 2 .. Len(v)
      PROVE  Item(v[i], n + k)
  <2>1. CASE i \in 1 .. p
    <3>1. i \in 2 .. Len(w) /\ v[i] = w[i]
      BY <1>1, <2>1 DEF p
    <3>2. Item(w[i], n)
      BY <3>1 DEF WellWritten
    <3>3. Item(w[i], n + k)
      <4>1. \A a \in 1 .. n : a \in 1 .. n + k
        OBVIOUS
      <4>2. QED
        BY <3>2, <4>1 DEF Item
    <3>4. QED
      BY <3>1, <3>3
  <2>2. CASE i \notin 1 .. p
    <3> DEFINE j == i - p
    <3>1. j \in 1 .. q /\ v[i] = items[j]
      <4>1. j \in 1 .. q /\ p + j = i
        BY <1>1, <1>3, <2>2
      <4> HIDE DEF j
      <4>2. QED
        BY <1>1, <4>1
    <3>2. QED
      BY <1>1, <3>1
  <2>3. QED
    BY <2>1, <2>2
<1>6. Cardinality(Strings(v)) = n + k
  <2>1. Strings(w) \in SUBSET (1 .. p) /\ Strings(items) \in SUBSET (1 .. q)
    BY <1>1 DEF Strings
  <2> DEFINE B == Strings(items)
  <2>2. Strings(v) = Strings(w) \cup Moved(B, p)
    <3>1. \A i \in Strings(v) : i \in Strings(w) \cup Moved(B, p)
      <4> SUFFICES ASSUME NEW i \in Strings(v), i \notin Strings(w)
                   PROVE  i \in Moved(B, p)
        OBVIOUS
      <4> DEFINE j == i - p
      <4>1. i \notin 1 .. p /\ i \in 1 .. p + q
        BY <1>1 DEF Strings
      <4>2. j \in 1 .. q /\ p + j = i
        BY <1>1, <4>1
      <4> HIDE DEF j
      <4>3. j \in B
        BY <1>1, <4>2 DEF Strings
      <4>4. QED
        BY <4>2, <4>3 DEF Moved
    <3>2. \A i \in Strings(w) : i \in Strings(v)
      BY <1>1 DEF Strings
    <3>3. \A j \in B : p + j \in Strings(v)
      BY <1>1 DEF Strings
    <3> HIDE DEF B
    <3>4. QED
      BY <3>1, <3>2, <3>3 DEF Moved
  <2>2a. B \in SUBSET (1 .. q)
    BY <2>1
  <2> HIDE DEF B
  <2> DEFINE A == Strings(w)
             C == Strings(v)
  <2>2b. p \in Nat /\ q \in Nat /\ A \in SUBSET (1 .. p) /\ C = A \cup Moved(B, p)
    BY <1>1, <2>1, <2>2
  <2> HIDE DEF A, C
  <2>3. Cardinality(A \cup Moved(B, p)) = Cardinality(A) + Cardinality(B)
    <3>1. p \in Nat /\ q \in Nat /\ A \in SUBSET (1 .. p)
      BY <2>2b
    <3>2. QED
      BY <2>2a, <3>1, CountOn
  <2>4. QED
    BY <2>2b, <2>3 DEF WellWritten, A, B, C
<1>7. Cardinality(PageLines(v)) = n + k
  <2>1. PageLines(w) \in SUBSET (1 .. p) /\ PageLines(items) \in SUBSET (1 .. q)
    BY <1>1 DEF PageLines
  <2> DEFINE B == PageLines(items)
  <2>2. PageLines(v) = PageLines(w) \cup Moved(B, p)
    <3>1. \A i \in PageLines(v) : i \in PageLines(w) \cup Moved(B, p)
      <4> SUFFICES ASSUME NEW i \in PageLines(v), i \notin PageLines(w)
                   PROVE  i \in Moved(B, p)
        OBVIOUS
      <4> DEFINE j == i - p
      <4>1. i \notin 1 .. p /\ i \in 1 .. p + q
        BY <1>1 DEF PageLines
      <4>2. j \in 1 .. q /\ p + j = i
        BY <1>1, <4>1
      <4> HIDE DEF j
      <4>3. j \in B
        BY <1>1, <4>2 DEF PageLines
      <4>4. QED
        BY <4>2, <4>3 DEF Moved
    <3>2. \A i \in PageLines(w) : i \in PageLines(v)
      BY <1>1 DEF PageLines
    <3>3. \A j \in B : p + j \in PageLines(v)
      BY <1>1 DEF PageLines
    <3> HIDE DEF B
    <3>4. QED
      BY <3>1, <3>2, <3>3 DEF Moved
  <2>2a. B \in SUBSET (1 .. q)
    BY <2>1
  <2> HIDE DEF B
  <2> DEFINE A == PageLines(w)
             C == PageLines(v)
  <2>2b. p \in Nat /\ q \in Nat /\ A \in SUBSET (1 .. p) /\ C = A \cup Moved(B, p)
    BY <1>1, <2>1, <2>2
  <2> HIDE DEF A, C
  <2>3. Cardinality(A \cup Moved(B, p)) = Cardinality(A) + Cardinality(B)
    <3>1. p \in Nat /\ q \in Nat /\ A \in SUBSET (1 .. p)
      BY <2>2b
    <3>2. QED
      BY <2>2a, <3>1, CountOn
  <2>4. QED
    BY <2>2b, <2>3 DEF WellWritten, A, B, C
<1>8. QED
  BY <1>1, <1>4, <1>5, <1>6, <1>7 DEF WellWritten, v

(* Ordinary items change neither count.                                    *)
LEMMA OrdinaryCount ==
  ASSUME NEW items, IsSeq(items), \A i \in DOMAIN items : Ordinary(items[i]), NEW n
  PROVE  /\ \A i \in DOMAIN items : Item(items[i], n)
         /\ Cardinality(Strings(items)) = 0 /\ Cardinality(PageLines(items)) = 0
<1>1. \A i \in DOMAIN items : items[i].type # "string"
  BY DEF Ordinary
<1>2. \A i \in DOMAIN items : items[i] # D!Line("Page")
  <2> SUFFICES ASSUME NEW i \in DOMAIN items, items[i] = D!Line("Page")
               PROVE  FALSE
    OBVIOUS
  <2> DEFINE e == ""
             x == <<"Page", e, e>>
  <2>1. items[i] = [type |-> "text", arg |-> x]
    BY DEF D!Line, D!Text
  <2>2. x[1] = "Page"
    <3> HIDE DEF e
    <3>1. QED
      OBVIOUS
  <2> HIDE DEF x
  <2>3. items[i].type = "text" /\ items[i].arg = x
    BY <2>1
  <2>4. QED
    BY <2>2, <2>3 DEF Ordinary
<1>3. Strings(items) = {} /\ PageLines(items) = {}
  BY <1>1, <1>2 DEF Strings, PageLines
<1>4. QED
  BY <1>3, FS_EmptySet DEF Item

(* The diversion and its history, after ordinary items.                    *)
LEMMA Diverted ==
  ASSUME D!DiversionAssumption, NEW out, Shaped(out), NEW w, IsSeq(w), Holed(out, w, Len(w)),
         NEW n \in Nat, WellWritten(w, n),
         NEW items, IsSeq(items), \A i \in DOMAIN items : Ordinary(items[i]),
         NEW o, o = D!Puts(out, items), NEW v, v = IF out.to_void THEN w ELSE w \o items
  PROVE  Shaped(o) /\ o.to_void = out.to_void /\ IsSeq(v) /\ Holed(o, v, Len(v)) /\ WellWritten(v, n)
<1>1. /\ Shaped(o) /\ o.to_void = out.to_void
      /\ out.to_void => o = out
      /\ ~out.to_void => Holed(o, w \o items, Len(w \o items))
  BY PutsFacts
<1>2. IsSeq(w \o items) /\ WellWritten(w \o items, n + 0)
  <2>1. /\ \A i \in DOMAIN items : Item(items[i], n + 0)
        /\ Cardinality(Strings(items)) = 0 /\ Cardinality(PageLines(items)) = 0
    BY OrdinaryCount
  <2>2. QED
    BY <2>1, WrittenOn
<1>3. n + 0 = n
  OBVIOUS
<1>4. CASE out.to_void
  BY <1>1, <1>4
<1>5. CASE ~out.to_void
  BY <1>1, <1>2, <1>3, <1>5
<1>6. QED
  BY <1>4, <1>5

(* Whether the diversion is the void makes no difference to its text.      *)
LEMMA Voided ==
  ASSUME NEW out, Shaped(out), NEW w, NEW b \in BOOLEAN, NEW o, o = [out EXCEPT !.to_void = b]
  PROVE  Shaped(o) /\ o.to_void = b /\ (Holed(out, w, Len(w)) => Holed(o, w, Len(w)))
<1>1. o = [content |-> out.content, len |-> out.len, size |-> out.size,
            derivations |-> out.derivations, to_void |-> b]
  BY DEF Shaped
<1>2. /\ o.content = out.content /\ o.len = out.len /\ o.size = out.size
      /\ o.derivations = out.derivations /\ o.to_void = b
  BY <1>1
<1>3. QED
  BY <1>1, <1>2 DEF Shaped, Holed

TypeNames == {"procset", "file", "color", "font", "encoding"}
Holder(out) == Shaped(out) /\ ~out.to_void /\ \A i \in DOMAIN out.content : out.content[i][1] # "Page"

DivChunks ==
  /\ outs = [divertion |-> outs.divertion, setup |-> outs.setup, encodings |-> outs.encodings]
  /\ Shaped(outs.divertion) /\ Holder(outs.setup) /\ Holder(outs.encodings)
DivText ==
  /\ IsSeq(written) /\ Holed(outs.divertion, written, Len(written))
  /\ phase = "begin" => written = << >> /\ ~outs.divertion.to_void /\ sheets = 0
  /\ phase # "begin" => WellWritten(written, sheets)
DivLabels ==
  /\ sheets \in Nat /\ IsSeq(labels) /\ Len(labels) = sheets
  /\ \A i \in 1 .. sheets :
       \/ labels[i] = "page " \o ToString(i)
       \/ i = sheets /\ labels[i] = "" /\ phase \notin {"ended", "dumped"}
DivTables ==
  /\ resources = [needed |-> resources.needed, supplied |-> resources.supplied]
  /\ DOMAIN resources.needed \subseteq TypeNames /\ DOMAIN resources.supplied \subseteq TypeNames
  /\ D!Values(resources.supplied, "font") \subseteq D!ToSet(Names)
DivSteps ==
  /\ phase \in {"begin", "prologue", "pages", "ended", "dumped"} /\ steps \in 0 .. MaxLines + MaxEvents
Dumped(order) == stream = D!FlattenSeq([i \in DOMAIN written |-> Given(written[i], order)])
DivDumped == phase = "dumped" => \E order \in D!SetToSeqs(D!Types) : Dumped(order)

DivInv == DivChunks /\ DivText /\ DivLabels /\ DivTables /\ DivSteps /\ DivDumped

LEMMA DivInit ==
  ASSUME D!DiversionAssumption, D!Init
  PROVE  DivInv
<1>0. outs = [o \in {"divertion", "setup", "encodings"} |-> D!NewOutput]
  BY DEF D!Init
<1>1. outs.divertion = D!NewOutput /\ outs.setup = D!NewOutput /\ outs.encodings = D!NewOutput
  BY <1>0
<1>1a. outs = [divertion |-> outs.divertion, setup |-> outs.setup, encodings |-> outs.encodings]
  BY <1>0
<1> DEFINE n == D!NewOutput
<1>2. n = [content |-> << >>, len |-> 0, size |-> MinContent, derivations |-> << >>, to_void |-> FALSE]
  BY DEF D!NewOutput
<1> HIDE DEF n
<1>3. n.content = << >> /\ n.len = 0 /\ n.size = MinContent /\ n.derivations = << >> /\ n.to_void = FALSE
  BY <1>2
<1>4. MinContent \in Nat /\ 0 < MinContent /\ MaxLines \in Nat /\ MaxEvents \in Nat
  BY DEF D!DiversionAssumption
<1>5. IsSeq(<< >>) /\ Len(<< >>) = 0 /\ DOMAIN << >> = {}
  BY Concats
<1>6. Shaped(n) /\ Holder(n)
  BY <1>2, <1>3, <1>4, <1>5 DEF Shaped, Holder
<1>7. Holed(n, << >>, 0)
  <2> DEFINE h == [k \in 0 .. 0 |-> 0]
             e == << >>
  <2>1. h[0] = 0 /\ Len(e) = 0
    OBVIOUS
  <2> HIDE DEF h, e
  <2>2. Marks(h, e, e, 0)
    BY <2>1 DEF Marks
  <2>3. n.content = e /\ n.derivations = e
    BY <1>3 DEF e
  <2>4. Holed(n, e, 0)
    BY <2>1, <2>2, <2>3 DEF Holed
  <2>5. QED
    BY <2>4 DEF e
<1>8. /\ resources = [needed |-> << >>, supplied |-> << >>] /\ labels = << >> /\ sheets = 0
      /\ phase = "begin" /\ steps = 0 /\ written = << >>
  BY DEF D!Init
<1>9. DivChunks
  BY <1>1, <1>1a, <1>6 DEF DivChunks, n
<1>10. DivText
  BY <1>1, <1>3, <1>5, <1>7, <1>8 DEF DivText, n
<1>11. DivLabels /\ DivSteps /\ DivDumped
  BY <1>4, <1>5, <1>8 DEF DivLabels, DivSteps, DivDumped
<1>12. DivTables
  <2>1. resources.needed = << >> /\ resources.supplied = << >>
    BY <1>8
  <2>2. DOMAIN resources.needed = {} /\ DOMAIN resources.supplied = {}
    BY <1>5, <2>1
  <2>3. resources = [needed |-> resources.needed, supplied |-> resources.supplied]
    BY <1>8
  <2>4. QED
    BY <2>2, <2>3 DEF DivTables, D!Values
<1>13. QED
  BY <1>9, <1>10, <1>11, <1>12 DEF DivInv

(* A piece of text for the setup, or for the encodings.                    *)
LEMMA HolderOutput ==
  ASSUME D!DiversionAssumption, NEW out, Holder(out), NEW text, text[1] # "Page"
  PROVE  Holder(D!Output(out, text))
<1> DEFINE o == D!Output(out, text)
           c == out.content
<1>1. Shaped(out) /\ ~out.to_void /\ IsSeq(c) /\ \A i \in DOMAIN c : c[i][1] # "Page"
  BY DEF Holder, Shaped
<1>2. Shaped(o) /\ ~o.to_void /\ o.content = Append(c, text)
  BY <1>1, OutputFacts
<1> HIDE DEF o, c
<1>3. /\ DOMAIN o.content = 1 .. Len(c) + 1 /\ DOMAIN c = 1 .. Len(c) /\ Len(c) \in Nat
      /\ \A i \in 1 .. Len(c) : o.content[i] = c[i]
      /\ o.content[Len(c) + 1] = text
  BY <1>1, <1>2, SeqFacts
<1>4. ASSUME NEW i \in DOMAIN o.content
      PROVE  o.content[i][1] # "Page"
  <2>1. i \in 1 .. Len(c) \/ i = Len(c) + 1
    BY <1>3
  <2>2. QED
    BY <1>1, <1>3, <2>1
<1>5. QED
  BY <1>2, <1>4 DEF Holder, o

(* The tables, after a couple.                                             *)
LEMMA Coupled ==
  ASSUME NEW table, DOMAIN table \subseteq TypeNames, NEW type \in TypeNames, NEW value,
         NEW new, new = D!Couple(table, type, value)
  PROVE  /\ DOMAIN new \subseteq TypeNames
         /\ D!Values(new, "font") \subseteq D!Values(table, "font") \cup IF type = "font" THEN {value} ELSE {}
<1>1. DOMAIN new = DOMAIN table \cup {type}
  BY DEF D!Couple
<1>2. "font" \in DOMAIN new => new["font"] = D!Values(table, "font") \cup IF "font" = type THEN {value} ELSE {}
  BY DEF D!Couple
<1>3. QED
  BY <1>1, <1>2 DEF D!Values

Orderly(items) == IsSeq(items) /\ \A i \in DOMAIN items : Ordinary(items[i])

LEMMA OrderlyItems ==
  ASSUME NEW items, NEW S, items \in Seq(S), \A x \in S : Ordinary(x)
  PROVE  Orderly(items)
<1>1. \A i \in DOMAIN items : items[i] \in S
  OBVIOUS
<1>2. QED
  BY <1>1 DEF Orderly, IsSeq

LEMMA OrderlyZero == Orderly(<< >>)
<1> DEFINE s == << >>
           S == {}
<1>1. s \in Seq(S)
  OBVIOUS
<1>2. \A x \in S : Ordinary(x)
  OBVIOUS
<1> HIDE DEF s, S
<1>3. Orderly(s)
  BY <1>1, <1>2, OrderlyItems
<1>4. QED
  BY <1>3 DEF s

LEMMA OrderlyOne ==
  ASSUME NEW a,
         Ordinary(a)
  PROVE  Orderly(<<a>>)
<1> DEFINE s == <<a>>
           S == {a}
<1>1. s \in Seq(S)
  OBVIOUS
<1>2. \A x \in S : Ordinary(x)
  OBVIOUS
<1> HIDE DEF s, S
<1>3. Orderly(s)
  BY <1>1, <1>2, OrderlyItems
<1>4. QED
  BY <1>3 DEF s

LEMMA OrderlyTwo ==
  ASSUME NEW a, NEW b,
         Ordinary(a), Ordinary(b)
  PROVE  Orderly(<<a, b>>)
<1> DEFINE s == <<a, b>>
           S == {a, b}
<1>1. s \in Seq(S)
  OBVIOUS
<1>2. \A x \in S : Ordinary(x)
  OBVIOUS
<1> HIDE DEF s, S
<1>3. Orderly(s)
  BY <1>1, <1>2, OrderlyItems
<1>4. QED
  BY <1>3 DEF s

LEMMA OrderlyThree ==
  ASSUME NEW a, NEW b, NEW c,
         Ordinary(a), Ordinary(b), Ordinary(c)
  PROVE  Orderly(<<a, b, c>>)
<1> DEFINE s == <<a, b, c>>
           S == {a, b, c}
<1>1. s \in Seq(S)
  OBVIOUS
<1>2. \A x \in S : Ordinary(x)
  OBVIOUS
<1> HIDE DEF s, S
<1>3. Orderly(s)
  BY <1>1, <1>2, OrderlyItems
<1>4. QED
  BY <1>3 DEF s

LEMMA OrderlySix ==
  ASSUME NEW a, NEW b, NEW c, NEW d, NEW e, NEW f,
         Ordinary(a), Ordinary(b), Ordinary(c), Ordinary(d), Ordinary(e), Ordinary(f)
  PROVE  Orderly(<<a, b, c, d, e, f>>)
<1> DEFINE s == <<a, b, c, d, e, f>>
           S == {a, b, c, d, e, f}
<1>1. s \in Seq(S)
  OBVIOUS
<1>2. \A x \in S : Ordinary(x)
  OBVIOUS
<1> HIDE DEF s, S
<1>3. Orderly(s)
  BY <1>1, <1>2, OrderlyItems
<1>4. QED
  BY <1>3 DEF s

LEMMA OrderlyNine ==
  ASSUME NEW a, NEW b, NEW c, NEW d, NEW e, NEW f, NEW g, NEW h, NEW i,
         Ordinary(a), Ordinary(b), Ordinary(c), Ordinary(d), Ordinary(e), Ordinary(f), Ordinary(g), Ordinary(h), Ordinary(i)
  PROVE  Orderly(<<a, b, c, d, e, f, g, h, i>>)
<1> DEFINE s == <<a, b, c, d, e, f, g, h, i>>
           S == {a, b, c, d, e, f, g, h, i}
<1>1. s \in Seq(S)
  OBVIOUS
<1>2. \A x \in S : Ordinary(x)
  OBVIOUS
<1> HIDE DEF s, S
<1>3. Orderly(s)
  BY <1>1, <1>2, OrderlyItems
<1>4. QED
  BY <1>3 DEF s

LEMMA DivertStep ==
  ASSUME D!DiversionAssumption, DivChunks, DivText, sheets \in Nat, phase # "begin", phase' # "begin",
         NEW items, Orderly(items), D!Divert(items), sheets' = sheets
  PROVE  DivChunks' /\ DivText'
<1> DEFINE out == outs.divertion
           o == D!Puts(out, items)
           v == IF out.to_void THEN written ELSE written \o items
<1>1. /\ Shaped(out) /\ IsSeq(written) /\ Holed(out, written, Len(written)) /\ WellWritten(written, sheets)
      /\ IsSeq(items) /\ \A i \in DOMAIN items : Ordinary(items[i])
  BY DEF DivChunks, DivText, Orderly
<1>2. Shaped(o) /\ IsSeq(v) /\ Holed(o, v, Len(v)) /\ WellWritten(v, sheets)
  <2> HIDE DEF out
  <2>1. QED
    BY <1>1, Diverted
<1>3. outs' = [outs EXCEPT !.divertion = o] /\ written' = v
  BY DEF D!Divert
<1> HIDE DEF o, v
<1>4. outs = [divertion |-> out, setup |-> outs.setup, encodings |-> outs.encodings]
  BY DEF DivChunks
<1>5. outs' = [divertion |-> o, setup |-> outs.setup, encodings |-> outs.encodings]
  BY <1>3, <1>4
<1>6. outs'.divertion = o /\ outs'.setup = outs.setup /\ outs'.encodings = outs.encodings
  BY <1>5
<1>7. DivChunks'
  BY <1>2, <1>5, <1>6 DEF DivChunks
<1>8. DivText'
  BY <1>2, <1>3, <1>6 DEF DivText
<1>9. QED
  BY <1>7, <1>8

LEMMA KeptText ==
  ASSUME DivChunks, DivText, outs' = outs, written' = written, sheets' = sheets, phase # "begin", phase' # "begin"
  PROVE  DivChunks' /\ DivText'
BY DEF DivChunks, DivText

LEMMA KeptLabels ==
  ASSUME DivLabels, labels' = labels, sheets' = sheets, phase \notin {"ended", "dumped"} => phase' \notin {"ended", "dumped"}
  PROVE  DivLabels'
BY DEF DivLabels

LEMMA KeptTables ==
  ASSUME DivTables, resources' = resources
  PROVE  DivTables'
BY DEF DivTables

LEMMA NeedingStep ==
  ASSUME DivTables, NEW type \in TypeNames, NEW value, resources' = D!Needing(type, value)
  PROVE  DivTables'
<1> DEFINE new == D!Couple(resources.needed, type, value)
           old == resources.supplied
<1>1. DOMAIN new \subseteq TypeNames
  BY Coupled DEF DivTables
<1>2. resources' = [needed |-> new, supplied |-> old]
  <2> HIDE DEF new
  <2>1. resources' = [resources EXCEPT !.needed = new]
    BY DEF D!Needing, new
  <2>2. QED
    BY <2>1 DEF DivTables
<1> HIDE DEF new, old
<1>3. resources'.needed = new /\ resources'.supplied = old
  BY <1>2
<1>4. DOMAIN old \subseteq TypeNames /\ D!Values(old, "font") \subseteq D!ToSet(Names)
  BY DEF DivTables, old
<1>5. QED
  BY <1>1, <1>2, <1>3, <1>4 DEF DivTables

LEMMA SupplyingStep ==
  ASSUME DivTables, NEW type \in TypeNames, NEW value, type = "font" => value \in D!ToSet(Names),
         resources' = D!Supplying(type, value)
  PROVE  DivTables'
<1> DEFINE new == D!Couple(resources.supplied, type, value)
           old == resources.needed
<1>1. DOMAIN new \subseteq TypeNames /\ D!Values(new, "font") \subseteq D!ToSet(Names)
  BY Coupled DEF DivTables
<1>2. resources' = [needed |-> old, supplied |-> new]
  <2> HIDE DEF new
  <2>1. resources' = [resources EXCEPT !.supplied = new]
    BY DEF D!Supplying, new
  <2>2. QED
    BY <2>1 DEF DivTables
<1> HIDE DEF new, old
<1>3. resources'.needed = old /\ resources'.supplied = new
  BY <1>2
<1>4. DOMAIN old \subseteq TypeNames
  BY DEF DivTables, old
<1>5. QED
  BY <1>1, <1>2, <1>3, <1>4 DEF DivTables

(* A step of the bounded kind stays within the bounds.                     *)
LEMMA BoundedSteps ==
  ASSUME D!DiversionAssumption, DivSteps, D!Step(MaxLines) \/ D!Step(MaxEvents), phase' = phase
  PROVE  DivSteps'
<1>1. MaxLines \in Nat /\ MaxEvents \in Nat
  BY DEF D!DiversionAssumption
<1>2. steps \in 0 .. MaxLines + MaxEvents /\ steps' = steps + 1 /\ (steps < MaxLines \/ steps < MaxEvents)
  BY DEF DivSteps, D!Step
<1>3. steps' \in 0 .. MaxLines + MaxEvents
  BY <1>1, <1>2
<1>4. QED
  BY <1>3 DEF DivSteps

LEMMA OrdinaryNot ==
  ASSUME NEW x, Ordinary(x)
  PROVE  x.type # "string" /\ x # D!Line("Page")
<1> DEFINE s == <<x>>
<1>1. Orderly(s) /\ DOMAIN s = 1 .. 1 /\ s[1] = x
  BY OrderlyOne
<1> HIDE DEF s
<1>2. Cardinality(Strings(s)) = 0 /\ Cardinality(PageLines(s)) = 0
  BY <1>1, OrdinaryCount DEF Orderly
<1>3. IsFiniteSet(Strings(s)) /\ IsFiniteSet(PageLines(s))
  <2>0. 1 \in Int
    OBVIOUS
  <2>1. IsFiniteSet(1 .. 1)
    BY <2>0, FS_Interval, Zenon
  <2>2. Strings(s) \subseteq 1 .. 1 /\ PageLines(s) \subseteq 1 .. 1
    BY <1>1 DEF Strings, PageLines
  <2>3. QED
    BY <2>1, <2>2, FS_Subset
<1>4. Strings(s) = {} /\ PageLines(s) = {}
  BY <1>2, <1>3, FS_EmptySet
<1>5. 1 \in DOMAIN s
  BY <1>1
<1>6. QED
  BY <1>1, <1>4, <1>5 DEF Strings, PageLines

LEMMA PageItems ==
  ASSUME NEW n \in Nat, NEW a, NEW b, NEW c, a = D!Line("Page"), b = D!Delayed("string", n + 1),
         Ordinary(c), NEW items, items = <<a, b, c>>
  PROVE  /\ IsSeq(items) /\ \A i \in DOMAIN items : Item(items[i], n + 1)
         /\ Cardinality(Strings(items)) = 1 /\ Cardinality(PageLines(items)) = 1
<1>1. a.type = "text"
  BY DEF D!Line, D!Text
<1>2. b.type = "string" /\ b.arg = n + 1
  BY DEF D!Delayed
<1>4. c.type # "string" /\ c # a
  BY OrdinaryNot
<1>6. IsSeq(items) /\ DOMAIN items = 1 .. 3 /\ items[1] = a /\ items[2] = b /\ items[3] = c
  <2>1. items \in Seq({a, b, c})
    OBVIOUS
  <2>2. IsSeq(items)
    BY <2>1 DEF IsSeq
  <2>3. QED
    BY <2>2
<1>7. b # a
  BY <1>1, <1>2
<1>8. \A i \in 1 .. 3 : i = 1 \/ i = 2 \/ i = 3
  OBVIOUS
<1>9. Strings(items) = {2}
  BY <1>1, <1>2, <1>4, <1>6, <1>8 DEF Strings
<1>10. PageLines(items) = {1}
  BY <1>4, <1>6, <1>7, <1>8 DEF PageLines
<1>11. \A i \in DOMAIN items : Item(items[i], n + 1)
  BY <1>2, <1>6, <1>8 DEF Item
<1>12. QED
  BY <1>6, <1>9, <1>10, <1>11, FS_Singleton

LEMMA OutputPrologStep ==
  ASSUME D!DiversionAssumption, DivInv, D!OutputProlog
  PROVE  DivInv'
<1> DEFINE a == D!Routine("prolog comments")
           b == D!Line("a2psdict")
           c == D!Line("BeginProlog")
           items == <<a, b, c>>
           out == outs.divertion
           o == D!Puts(out, items)
<1>1. /\ phase = "begin" /\ phase' = "prologue" /\ resources' = resources /\ labels' = labels
      /\ sheets' = sheets /\ steps' = steps /\ D!Divert(items)
  BY DEF D!OutputProlog
<1>2. Shaped(out) /\ written = << >> /\ ~out.to_void /\ sheets = 0 /\ Holed(out, written, Len(written))
  BY <1>1 DEF DivInv, DivText, DivChunks
<1>3. Ordinary(b) /\ Ordinary(c)
  BY OrdinaryItems
<1>4. a.type = "routine" /\ a # D!Line("Page")
  <2>1. a.type = "routine" /\ D!Line("Page").type = "text"
    BY DEF D!Routine, D!Delayed, D!Line, D!Text
  <2>2. QED
    BY <2>1
<1>5. a = D!Routine("prolog comments")
  OBVIOUS
<1> HIDE DEF a, b, c
<1>6. IsSeq(items) /\ Len(items) = 3 /\ DOMAIN items = 1 .. 3 /\ items[1] = a /\ items[2] = b /\ items[3] = c
  <2>1. items \in Seq({a, b, c})
    OBVIOUS
  <2>2. IsSeq(items)
    BY <2>1 DEF IsSeq
  <2>3. QED
    BY <2>2
<1> HIDE DEF items, out
<1>7. IsSeq(<< >>) /\ << >> \o items = items
  BY <1>6, Concats
<1>8. Shaped(o) /\ Holed(o, items, Len(items))
  <2>1. Shaped(o) /\ Holed(o, written \o items, Len(written \o items))
    BY <1>2, <1>6, <1>7, PutsFacts
  <2>2. QED
    BY <1>2, <1>7, <2>1
<1>9. WellWritten(items, 0)
  <2>1. \A i \in 1 .. 3 : i = 1 \/ i = 2 \/ i = 3
    OBVIOUS
  <2>2. b.type # "string" /\ c.type # "string" /\ b # D!Line("Page") /\ c # D!Line("Page")
    BY <1>3, OrdinaryNot
  <2>3. Strings(items) = {}
    BY <1>4, <1>6, <2>1, <2>2 DEF Strings
  <2>4. PageLines(items) = {}
    BY <1>4, <1>6, <2>1, <2>2 DEF PageLines
  <2>5. items # << >>
    <3>1. items = << >> <=> Len(items) = 0
      BY <1>6, SeqFacts
    <3>2. QED
      BY <1>6, <3>1
  <2>6. \A i \in 2 .. Len(items) : Item(items[i], 0)
    <3>1. \A i \in 2 .. 3 : i = 2 \/ i = 3
      OBVIOUS
    <3>2. QED
      BY <1>3, <1>6, <3>1 DEF Item
  <2>7. Cardinality(Strings(items)) = 0 /\ Cardinality(PageLines(items)) = 0
    BY <2>3, <2>4, FS_EmptySet
  <2>8. QED
    BY <1>5, <1>6, <2>5, <2>6, <2>7 DEF WellWritten
<1>10. outs' = [outs EXCEPT !.divertion = o] /\ written' = items
  <2>1. outs' = [outs EXCEPT !.divertion = o] /\ written' = written \o items
    BY <1>1, <1>2 DEF D!Divert, out
  <2>2. QED
    BY <1>2, <1>7, <2>1
<1> HIDE DEF o
<1>11. outs' = [divertion |-> o, setup |-> outs.setup, encodings |-> outs.encodings]
  BY <1>10 DEF DivInv, DivChunks
<1>12. outs'.divertion = o /\ outs'.setup = outs.setup /\ outs'.encodings = outs.encodings
  BY <1>11
<1>13. DivChunks'
  BY <1>8, <1>11, <1>12 DEF DivInv, DivChunks
<1>14. DivText'
  BY <1>1, <1>2, <1>6, <1>8, <1>9, <1>10, <1>12 DEF DivText
<1>15. DivLabels' /\ DivTables'
  BY <1>1, KeptLabels, KeptTables DEF DivInv
<1>16. DivSteps' /\ DivDumped'
  BY <1>1 DEF DivInv, DivSteps, DivDumped
<1>17. QED
  BY <1>13, <1>14, <1>15, <1>16 DEF DivInv

LEMMA PrologueLineStep ==
  ASSUME D!DiversionAssumption, DivInv, D!PrologueLine
  PROVE  DivInv'
<1>1. /\ phase = "prologue" /\ phase' = phase /\ D!Step(MaxLines) /\ labels' = labels /\ sheets' = sheets
  BY DEF D!PrologueLine
<1>2. DivChunks /\ DivText /\ DivLabels /\ DivTables /\ DivSteps /\ sheets \in Nat
  BY DEF DivInv, DivLabels
<1>3. DivLabels' /\ DivSteps' /\ DivDumped'
  BY <1>1, <1>2, KeptLabels, BoundedSteps DEF DivDumped
<1>4. CASE D!Divert(<<D!Line("text")>>) /\ resources' = resources
  <2>1. Orderly(<<D!Line("text")>>)
    BY OrdinaryItems, OrderlyOne
  <2>2. DivChunks' /\ DivText'
    BY <1>1, <1>2, <1>4, <2>1, DivertStep
  <2>3. DivTables'
    BY <1>2, <1>4, KeptTables
  <2>4. QED
    BY <1>3, <2>2, <2>3 DEF DivInv
<1>5. CASE /\ outs' = [outs EXCEPT !.setup = D!Output(@, <<"setup text", "", "">>)]
           /\ resources' = resources /\ written' = written
  <2> DEFINE text == <<"setup text", "", "">>
             o == D!Output(outs.setup, text)
  <2>1. text[1] # "Page"
    OBVIOUS
  <2> HIDE DEF text
  <2>2. Holder(o)
    BY <1>2, <2>1, HolderOutput DEF DivChunks
  <2>3. outs' = [outs EXCEPT !.setup = o]
    BY <1>5 DEF text
  <2> HIDE DEF o
  <2>4. outs' = [divertion |-> outs.divertion, setup |-> o, encodings |-> outs.encodings]
    BY <1>2, <2>3 DEF DivChunks
  <2>5. outs'.divertion = outs.divertion /\ outs'.setup = o /\ outs'.encodings = outs.encodings
    BY <2>4
  <2>6. DivChunks'
    BY <1>2, <2>2, <2>4, <2>5 DEF DivChunks
  <2>7. DivText'
    BY <1>1, <1>2, <1>5, <2>5 DEF DivText
  <2>8. DivTables'
    BY <1>2, <1>5, KeptTables
  <2>9. QED
    BY <1>3, <2>6, <2>7, <2>8 DEF DivInv
<1>6. CASE /\ D!Divert(<<D!Text("BeginResource", "procset", "a2ps")>>)
           /\ resources' = D!Supplying("procset", "a2ps")
  <2>1. Orderly(<<D!Text("BeginResource", "procset", "a2ps")>>)
    BY OrdinaryItems, OrderlyOne
  <2>2. DivChunks' /\ DivText'
    BY <1>1, <1>2, <1>6, <2>1, DivertStep
  <2>3. DivTables'
    <3>1. "procset" \in TypeNames /\ "procset" # "font"
      BY DEF TypeNames
    <3>2. QED
      BY <1>2, <1>6, <3>1, SupplyingStep
  <2>4. QED
    BY <1>3, <2>2, <2>3 DEF DivInv
<1>7. CASE \E type \in {"file", "color"} : resources' = D!Needing(type, "base") /\ UNCHANGED <<outs, written>>
  <2>1. PICK type \in {"file", "color"} : resources' = D!Needing(type, "base") /\ UNCHANGED <<outs, written>>
    BY <1>7
  <2>2. DivTables'
    <3>1. type \in TypeNames
      BY DEF TypeNames
    <3>2. QED
      BY <1>2, <2>1, <3>1, NeedingStep
  <2>3. DivChunks' /\ DivText'
    BY <1>1, <1>2, <2>1, KeptText
  <2>4. QED
    BY <1>3, <2>2, <2>3 DEF DivInv
<1>8. CASE /\ D!Divert(<<D!Text("IncludeResource", "procset", "base")>>)
           /\ resources' = D!Needing("procset", "base")
  <2>1. Orderly(<<D!Text("IncludeResource", "procset", "base")>>)
    BY OrdinaryItems, OrderlyOne
  <2>2. DivChunks' /\ DivText'
    BY <1>1, <1>2, <1>8, <2>1, DivertStep
  <2>3. DivTables'
    <3>1. "procset" \in TypeNames
      BY DEF TypeNames
    <3>2. QED
      BY <1>2, <1>8, <3>1, NeedingStep
  <2>4. QED
    BY <1>3, <2>2, <2>3 DEF DivInv
<1>9. QED
  BY <1>4, <1>5, <1>6, <1>7, <1>8 DEF D!PrologueLine

LEMMA DocumentSetupStep ==
  ASSUME D!DiversionAssumption, DivInv, D!DocumentSetup
  PROVE  DivInv'
<1> DEFINE items ==
      <<D!Line("EndProlog"), D!Line("BeginSetup"), D!Routine("encodings"), D!Routine("fonts"),
        D!Line("page description"), D!Routine("encodings setup"), D!Routine("setup"),
        D!Routine("special fonts"), D!Line("EndSetup")>>
<1>1. /\ phase = "prologue" /\ phase' = "pages" /\ steps' = 0 /\ D!Divert(items)
      /\ resources' = resources /\ labels' = labels /\ sheets' = sheets
  BY DEF D!DocumentSetup
<1>2. Orderly(items)
  <2>1. /\ Ordinary(D!Line("EndProlog")) /\ Ordinary(D!Line("BeginSetup"))
        /\ Ordinary(D!Line("page description")) /\ Ordinary(D!Line("EndSetup"))
    BY OrdinaryItems
  <2>2. /\ Ordinary(D!Routine("encodings")) /\ Ordinary(D!Routine("fonts"))
        /\ Ordinary(D!Routine("encodings setup")) /\ Ordinary(D!Routine("setup"))
        /\ Ordinary(D!Routine("special fonts"))
    BY OrdinaryItems
  <2>3. QED
    BY <2>1, <2>2, OrderlyNine
<1> HIDE DEF items
<1>3. DivChunks' /\ DivText'
  BY <1>1, <1>2, DivertStep DEF DivInv, DivLabels
<1>4. DivLabels' /\ DivTables'
  BY <1>1, KeptLabels, KeptTables DEF DivInv
<1>5. DivSteps' /\ DivDumped'
  BY <1>1 DEF D!DiversionAssumption, DivSteps, DivDumped
<1>6. QED
  BY <1>3, <1>4, <1>5 DEF DivInv

(* Of the labels, at most the last is missing, while its page is open.     *)
LEMMA LabelledFacts ==
  ASSUME DivLabels, phase \notin {"ended", "dumped"}
  PROVE  /\ IsSeq(D!Labelled) /\ Len(D!Labelled) = sheets
         /\ \A i \in 1 .. sheets : D!Labelled[i] = "page " \o ToString(i)
<1> DEFINE Page(i) == "page " \o ToString(i)
           none == ""
           n == Len(labels)
<1>1. /\ n \in Nat /\ IsSeq(labels) /\ n = sheets /\ DOMAIN labels = 1 .. n
      /\ \A i \in 1 .. n : labels[i] = Page(i) \/ (i = n /\ labels[i] = none)
      /\ (labels = << >> <=> n = 0)
  BY SeqFacts DEF DivLabels
<1>2. D!PageOpen <=> labels # << >> /\ labels[n] = none
  BY DEF D!PageOpen, D!Last
<1>3. D!Labelled = IF D!PageOpen THEN Append(SubSeq(labels, 1, n - 1), Page(n)) ELSE labels
  BY <1>1 DEF D!Labelled, D!Front
<1> HIDE DEF Page, none, n
<1>4. CASE D!PageOpen
  <2> DEFINE p == SubSeq(labels, 1, n - 1)
  <2>1. n >= 1
    BY <1>1, <1>2, <1>4
  <2>2. PICK S : labels \in Seq(S)
    BY <1>1 DEF IsSeq
  <2>3. p \in Seq(S) /\ Len(p) = n - 1 /\ \A i \in 1 .. n - 1 : p[i] = labels[i]
    BY <1>1, <2>1, <2>2
  <2> HIDE DEF p
  <2>4. IsSeq(p)
    BY <2>3 DEF IsSeq
  <2>5. /\ IsSeq(Append(p, Page(n))) /\ Len(Append(p, Page(n))) = (n - 1) + 1
        /\ \A i \in 1 .. n - 1 : Append(p, Page(n))[i] = p[i]
        /\ Append(p, Page(n))[(n - 1) + 1] = Page(n)
    BY <2>3, <2>4, SeqFacts
  <2>6. (n - 1) + 1 = n /\ \A i \in 1 .. n : (i \in 1 .. n - 1 /\ i # n) \/ i = n
    BY <1>1, <2>1
  <2>7. \A i \in 1 .. n : Append(p, Page(n))[i] = Page(i)
    BY <1>1, <2>3, <2>5, <2>6
  <2>8. D!Labelled = Append(p, Page(n))
    BY <1>3, <1>4 DEF p
  <2>9. QED
    BY <1>1, <2>5, <2>6, <2>7, <2>8 DEF Page
<1>5. CASE ~D!PageOpen
  <2>1. \A i \in 1 .. n : labels[i] = Page(i)
    BY <1>1, <1>2, <1>5
  <2>2. D!Labelled = labels
    BY <1>3, <1>5
  <2>3. QED
    BY <1>1, <2>1, <2>2 DEF Page, n
<1>6. QED
  BY <1>4, <1>5

LEMMA LabelledStep ==
  ASSUME DivLabels, phase \notin {"ended", "dumped"}, labels' = D!Labelled, sheets' = sheets
  PROVE  DivLabels'
<1>1. /\ IsSeq(D!Labelled) /\ Len(D!Labelled) = sheets
      /\ \A i \in 1 .. sheets : D!Labelled[i] = "page " \o ToString(i)
  BY LabelledFacts
<1> DEFINE new == D!Labelled
           Page(i) == "page " \o ToString(i)
<1>2. IsSeq(new) /\ Len(new) = sheets /\ \A i \in 1 .. sheets : new[i] = Page(i)
  BY <1>1
<1>3. labels' = new /\ sheets' = sheets /\ sheets \in Nat
  BY DEF DivLabels
<1> HIDE DEF new, Page
<1>4. \A i \in 1 .. sheets' : labels'[i] = Page(i)
  BY <1>2, <1>3
<1>5. IsSeq(labels') /\ Len(labels') = sheets' /\ sheets' \in Nat
  BY <1>2, <1>3
<1>6. \A i \in 1 .. sheets' : labels'[i] = "page " \o ToString(i)
  BY <1>4 DEF Page
<1>7. QED
  BY <1>5, <1>6 DEF DivLabels

LEMMA EventFacts ==
  ASSUME D!DiversionAssumption, DivInv, D!Event, phase' = phase
  PROVE  /\ phase = "pages" /\ DivChunks /\ DivText /\ DivLabels /\ DivTables /\ DivSteps /\ sheets \in Nat
         /\ DivSteps' /\ DivDumped' /\ phase # "begin" /\ phase' # "begin" /\ phase \notin {"ended", "dumped"}
<1>1. phase = "pages" /\ D!Step(MaxEvents)
  BY DEF D!Event
<1>2. DivChunks /\ DivText /\ DivLabels /\ DivTables /\ DivSteps /\ sheets \in Nat
  BY DEF DivInv, DivLabels
<1>3. DivSteps'
  BY <1>1, <1>2, BoundedSteps
<1>4. QED
  BY <1>1, <1>2, <1>3 DEF DivDumped

(* The diversion is replaced, the chunks that wait are not.                *)
LEMMA NewDiversion ==
  ASSUME DivChunks, NEW o, Shaped(o), outs' = [outs EXCEPT !.divertion = o]
  PROVE  DivChunks' /\ outs'.divertion = o
<1>1. outs' = [divertion |-> o, setup |-> outs.setup, encodings |-> outs.encodings]
  BY DEF DivChunks
<1>2. outs'.divertion = o /\ outs'.setup = outs.setup /\ outs'.encodings = outs.encodings
  BY <1>1
<1>3. QED
  BY <1>1, <1>2 DEF DivChunks

LEMMA SkipPageStep ==
  ASSUME D!DiversionAssumption, DivInv, D!SkipPage
  PROVE  DivInv'
<1>1. /\ D!Event /\ phase' = phase /\ resources' = resources /\ labels' = labels /\ sheets' = sheets
      /\ written' = written /\ outs' = [outs EXCEPT !.divertion.to_void = TRUE]
  BY DEF D!SkipPage
<1>2. /\ DivChunks /\ DivText /\ DivLabels /\ DivTables /\ DivSteps' /\ DivDumped' /\ phase # "begin" /\ phase' # "begin"
  BY <1>1, EventFacts
<1> DEFINE out == outs.divertion
           o == [out EXCEPT !.to_void = TRUE]
<1>3. outs' = [outs EXCEPT !.divertion = o]
  BY <1>1
<1>4. Shaped(out) /\ Holed(out, written, Len(written))
  BY <1>2 DEF DivChunks, DivText
<1> HIDE DEF out
<1>5. Shaped(o) /\ Holed(o, written, Len(written))
  <2>1. TRUE \in BOOLEAN
    OBVIOUS
  <2>2. QED
    BY <1>4, <2>1, Voided
<1> HIDE DEF o
<1>6. DivChunks' /\ outs'.divertion = o
  BY <1>2, <1>3, <1>5, NewDiversion
<1>7. DivText'
  BY <1>1, <1>2, <1>5, <1>6 DEF DivText
<1>8. DivLabels' /\ DivTables'
  BY <1>1, <1>2, KeptLabels, KeptTables
<1>9. QED
  BY <1>2, <1>6, <1>7, <1>8 DEF DivInv

LEMMA BeginPageStep ==
  ASSUME D!DiversionAssumption, DivInv, D!BeginPage
  PROVE  DivInv'
<1> DEFINE a == D!Line("Page")
           b == D!Delayed("string", Len(labels'))
           none == ""
           c == D!Text("number", ToString(sheets'), none)
           items == <<a, b, c>>
           open == [outs EXCEPT !.divertion.to_void = FALSE]
           p == [outs.divertion EXCEPT !.to_void = FALSE]
           o == D!Puts(p, items)
<1>1. /\ D!Event /\ phase' = phase /\ resources' = resources /\ ~D!PageOpen
      /\ sheets' = sheets + 1 /\ labels' = Append(labels, none)
      /\ outs' = [open EXCEPT !.divertion = D!Puts(@, items)] /\ written' = written \o items
  BY DEF D!BeginPage
<1>5. Ordinary(c)
  BY OrdinaryItems
<1> HIDE DEF c, none
<1>2. /\ phase = "pages" /\ DivChunks /\ DivText /\ DivLabels /\ DivTables /\ DivSteps' /\ DivDumped' /\ phase # "begin" /\ phase' # "begin"
      /\ sheets \in Nat
  BY <1>1, EventFacts
<1>3. outs = [divertion |-> outs.divertion, setup |-> outs.setup, encodings |-> outs.encodings]
  BY <1>2 DEF DivChunks
<1>4. open = [divertion |-> p, setup |-> outs.setup, encodings |-> outs.encodings]
  <2> HIDE DEF c, a, b
  <2>1. open = [outs EXCEPT !.divertion = p]
    OBVIOUS
  <2> HIDE DEF open, p
  <2>2. QED
    BY <1>3, <2>1
<1>6. /\ IsSeq(labels) /\ Len(labels) = sheets /\ IsSeq(labels') /\ Len(labels') = sheets + 1
      /\ (\A i \in 1 .. sheets : labels'[i] = labels[i]) /\ labels'[sheets + 1] = none
  <2>1. IsSeq(labels) /\ Len(labels) = sheets
    BY <1>2 DEF DivLabels
  <2> HIDE DEF items
  <2>1a. labels' = Append(labels, none)
    BY <1>1
  <2>2. QED
    BY <2>1, <2>1a, SeqFacts
<1>7. b = D!Delayed("string", sheets + 1)
  BY <1>6
<1>7a. a = D!Line("Page")
  OBVIOUS
<1> HIDE DEF a, b, p
<1>8. outs' = [outs EXCEPT !.divertion = o]
  <2> HIDE DEF open
  <2>1. open.divertion = p
    BY <1>4
  <2>2. outs' = [open EXCEPT !.divertion = o]
    BY <1>1, <2>1
  <2>3. outs' = [divertion |-> o, setup |-> outs.setup, encodings |-> outs.encodings]
    BY <1>4, <2>2
  <2>4. QED
    BY <1>3, <2>3
<1>9. /\ IsSeq(items) /\ \A i \in DOMAIN items : Item(items[i], sheets + 1)
      /\ Cardinality(Strings(items)) = 1 /\ Cardinality(PageLines(items)) = 1
  BY <1>2, <1>5, <1>7, <1>7a, PageItems
<1> HIDE DEF items
<1>10. Shaped(p) /\ ~p.to_void /\ Holed(p, written, Len(written))
  <2> DEFINE out == outs.divertion
  <2>1. Shaped(out) /\ Holed(out, written, Len(written))
    BY <1>2 DEF DivChunks, DivText
  <2>2. p = [out EXCEPT !.to_void = FALSE] /\ FALSE \in BOOLEAN
    BY DEF p
  <2> HIDE DEF out
  <2>3. Shaped(p) /\ p.to_void = FALSE /\ Holed(p, written, Len(written))
    BY <2>1, <2>2, Voided
  <2>4. QED
    BY <2>3
<1>11. IsSeq(written) /\ WellWritten(written, sheets)
  BY <1>2 DEF DivText
<1>12. Shaped(o) /\ Holed(o, written \o items, Len(written \o items))
  BY <1>9, <1>10, <1>11, PutsFacts
<1>13. IsSeq(written \o items) /\ WellWritten(written \o items, sheets + 1)
  BY <1>2, <1>9, <1>11, WrittenOn
<1> HIDE DEF o, open
<1>14. DivChunks' /\ outs'.divertion = o
  BY <1>2, <1>8, <1>12, NewDiversion
<1>15. DivText'
  BY <1>1, <1>2, <1>12, <1>13, <1>14 DEF DivText
<1>16. DivLabels'
  <2> DEFINE Page(i) == "page " \o ToString(i)
  <2>1. \A i \in 1 .. sheets : D!Labelled[i] = Page(i)
    BY <1>2, LabelledFacts
  <2>2. D!Labelled = labels
    BY <1>1 DEF D!Labelled
  <2> HIDE DEF Page
  <2>3. ASSUME NEW i \in 1 .. sheets + 1
        PROVE  labels'[i] = Page(i) \/ (i = sheets + 1 /\ labels'[i] = none)
    <3>1. i \in 1 .. sheets \/ i = sheets + 1
      BY <1>2
    <3>2. QED
      BY <1>6, <2>1, <2>2, <3>1
  <2>4. sheets' \in Nat /\ phase' \notin {"ended", "dumped"}
    BY <1>1, <1>2
  <2>5. /\ IsSeq(labels') /\ Len(labels') = sheets'
        /\ \A i \in 1 .. sheets' : labels'[i] = Page(i) \/ (i = sheets' /\ labels'[i] = none)
    BY <1>1, <1>6, <2>3
  <2>6. QED
    BY <2>4, <2>5, Zenon DEF DivLabels, Page, none
<1>17. DivTables'
  BY <1>1, <1>2, KeptTables
<1>18. QED
  BY <1>2, <1>14, <1>15, <1>16, <1>17 DEF DivInv

LEMMA EndPageStep ==
  ASSUME D!DiversionAssumption, DivInv, D!EndPage
  PROVE  DivInv'
<1>1. /\ D!Event /\ phase' = phase /\ resources' = resources /\ sheets' = sheets /\ labels' = D!Labelled
      /\ D!Divert(<<D!Line("showpage")>>)
  BY DEF D!EndPage
<1>2. /\ phase = "pages" /\ DivChunks /\ DivText /\ DivLabels /\ DivTables /\ DivSteps' /\ DivDumped' /\ phase # "begin" /\ phase' # "begin"
      /\ sheets \in Nat /\ phase \notin {"ended", "dumped"}
  BY <1>1, EventFacts
<1>3. Orderly(<<D!Line("showpage")>>)
  BY OrdinaryItems, OrderlyOne
<1>4. DivChunks' /\ DivText'
  BY <1>1, <1>2, <1>3, DivertStep
<1>5. DivLabels' /\ DivTables'
  BY <1>1, <1>2, LabelledStep, KeptTables
<1>6. QED
  BY <1>2, <1>4, <1>5 DEF DivInv

LEMMA TotalStep ==
  ASSUME D!DiversionAssumption, DivInv, D!Total
  PROVE  DivInv'
<1>1. /\ D!Event /\ phase' = phase /\ resources' = resources /\ sheets' = sheets /\ labels' = labels
      /\ D!Divert(<<D!Delayed("size_t", "sheets")>>)
  BY DEF D!Total
<1>2. /\ DivChunks /\ DivText /\ DivLabels /\ DivTables /\ DivSteps' /\ DivDumped' /\ phase # "begin" /\ phase' # "begin"
      /\ sheets \in Nat
  BY <1>1, EventFacts
<1>3. Orderly(<<D!Delayed("size_t", "sheets")>>)
  BY OrdinaryItems, OrderlyOne
<1>4. DivChunks' /\ DivText'
  BY <1>1, <1>2, <1>3, DivertStep
<1>5. DivLabels' /\ DivTables'
  BY <1>1, <1>2, KeptLabels, KeptTables
<1>6. QED
  BY <1>2, <1>4, <1>5 DEF DivInv

LEMMA RequireFontStep ==
  ASSUME D!DiversionAssumption, DivInv, D!RequireFont
  PROVE  DivInv'
<1>1. D!Event /\ phase' = phase /\ sheets' = sheets /\ labels' = labels
  BY DEF D!RequireFont
<1>2. /\ DivChunks /\ DivText /\ DivLabels /\ DivTables /\ DivSteps' /\ DivDumped' /\ phase # "begin" /\ phase' # "begin"
      /\ sheets \in Nat
  BY <1>1, EventFacts
<1>3. PICK font \in D!ToSet(Names) :
        IF font \notin Builtin THEN resources' = D!Supplying("font", font) /\ UNCHANGED <<outs, written>>
        ELSE IF font \in D!Values(resources.needed, "font") THEN UNCHANGED <<resources, outs, written>>
        ELSE resources' = D!Needing("font", font) /\ D!Divert(<<D!Text("IncludeResource", "font", font)>>)
  BY DEF D!RequireFont
<1>4. "font" \in TypeNames
  BY DEF TypeNames
<1>5. DivLabels'
  BY <1>1, <1>2, KeptLabels
<1>6. CASE resources' = D!Supplying("font", font) /\ UNCHANGED <<outs, written>>
  <2>1. DivTables'
    BY <1>2, <1>4, <1>6, SupplyingStep
  <2>2. DivChunks' /\ DivText'
    BY <1>1, <1>2, <1>6, KeptText
  <2>3. QED
    BY <1>2, <1>5, <2>1, <2>2 DEF DivInv
<1>7. CASE UNCHANGED <<resources, outs, written>>
  <2>1. DivTables'
    BY <1>2, <1>7, KeptTables
  <2>2. DivChunks' /\ DivText'
    BY <1>1, <1>2, <1>7, KeptText
  <2>3. QED
    BY <1>2, <1>5, <2>1, <2>2 DEF DivInv
<1>8. CASE resources' = D!Needing("font", font) /\ D!Divert(<<D!Text("IncludeResource", "font", font)>>)
  <2>1. DivTables'
    BY <1>2, <1>4, <1>8, NeedingStep
  <2>2. Orderly(<<D!Text("IncludeResource", "font", font)>>)
    BY OrdinaryItems, OrderlyOne
  <2>3. DivChunks' /\ DivText'
    BY <1>1, <1>2, <1>8, <2>2, DivertStep
  <2>4. QED
    BY <1>2, <1>5, <2>1, <2>3 DEF DivInv
<1>9. QED
  BY <1>3, <1>6, <1>7, <1>8

LEMMA SameGiven ==
  ASSUME NEW x, NEW order, outs' = outs, resources' = resources, labels' = labels, sheets' = sheets
  PROVE  Given(x, order)' = Given(x, order)
<1>1. D!DumpColors' = D!DumpColors
  BY DEF D!DumpColors
<1>2. D!DumpFonts' = D!DumpFonts
  BY DEF D!DumpFonts
<1>3. D!DumpComments(order)' = D!DumpComments(order)
  BY <1>1, Zenon DEF D!DumpComments
<1>4. D!Underivation(x, order)' = D!Underivation(x, order)
  BY <1>2, <1>3, Zenon DEF D!Underivation
<1>5. QED
  BY <1>4 DEF Given

LEMMA EncodingSetupStep ==
  ASSUME D!DiversionAssumption, DivInv, D!EncodingSetup
  PROVE  DivInv'
<1> DEFINE text == <<"vector", "", "">>
           o == D!Output(outs.encodings, text)
<1>1. /\ D!Event /\ phase' = phase /\ resources' = D!Supplying("encoding", "base") /\ labels' = labels
      /\ sheets' = sheets /\ written' = written /\ outs' = [outs EXCEPT !.encodings = o]
  BY DEF D!EncodingSetup
<1>2. /\ DivChunks /\ DivText /\ DivLabels /\ DivTables /\ DivSteps' /\ DivDumped' /\ phase # "begin" /\ phase' # "begin"
  BY <1>1, EventFacts
<1>3. text[1] # "Page"
  OBVIOUS
<1> HIDE DEF text
<1>4. Holder(o)
  BY <1>2, <1>3, HolderOutput DEF DivChunks
<1> HIDE DEF o
<1>5. outs' = [divertion |-> outs.divertion, setup |-> outs.setup, encodings |-> o]
  BY <1>1, <1>2 DEF DivChunks
<1>6. outs'.divertion = outs.divertion /\ outs'.setup = outs.setup /\ outs'.encodings = o
  BY <1>5
<1>7. DivChunks'
  BY <1>2, <1>4, <1>5, <1>6 DEF DivChunks
<1>8. DivText'
  BY <1>1, <1>2, <1>6 DEF DivText
<1>9. DivLabels'
  BY <1>1, <1>2, KeptLabels
<1>10. DivTables'
  <2>1. "encoding" \in TypeNames /\ "encoding" # "font"
    BY DEF TypeNames
  <2>2. QED
    BY <1>1, <1>2, <2>1, SupplyingStep
<1>11. QED
  BY <1>2, <1>7, <1>8, <1>9, <1>10 DEF DivInv

LEMMA SubcontractStep ==
  ASSUME D!DiversionAssumption, DivInv, D!Subcontract
  PROVE  DivInv'
<1> DEFINE items == <<D!Line("BeginInclude"), D!Line("BeginDocument"), D!Routine("stream_dump"),
                      D!Routine("unlink2"), D!Line("EndDocument"), D!Line("EndInclude")>>
           out == outs.divertion
           open == [out EXCEPT !.to_void = FALSE]
           p == D!Puts(open, items)
           b == out.to_void
           o == [p EXCEPT !.to_void = b]
<1>1. /\ D!Event /\ phase' = phase /\ labels' = labels /\ sheets' = sheets
      /\ outs' = [outs EXCEPT !.divertion = o] /\ written' = written \o items
  BY DEF D!Subcontract
<1>2. /\ DivChunks /\ DivText /\ DivLabels /\ DivTables /\ DivSteps' /\ DivDumped' /\ phase # "begin" /\ phase' # "begin"
      /\ sheets \in Nat
  BY <1>1, EventFacts
<1>3. PICK type \in {"font", "file"} : resources' = D!Needing(type, "base")
  BY DEF D!Subcontract
<1>4. Orderly(items)
  <2>1. /\ Ordinary(D!Line("BeginInclude")) /\ Ordinary(D!Line("BeginDocument"))
        /\ Ordinary(D!Line("EndDocument")) /\ Ordinary(D!Line("EndInclude"))
    BY OrdinaryItems
  <2>2. Ordinary(D!Routine("stream_dump")) /\ Ordinary(D!Routine("unlink2"))
    BY OrdinaryItems
  <2>3. QED
    BY <2>1, <2>2, OrderlySix
<1>5. Shaped(out) /\ Holed(out, written, Len(written)) /\ IsSeq(written) /\ WellWritten(written, sheets)
  BY <1>2 DEF DivChunks, DivText
<1>6. out.to_void \in BOOLEAN
  BY <1>5 DEF Shaped
<1> HIDE DEF items, out
<1>7. Shaped(open) /\ open.to_void = FALSE /\ Holed(open, written, Len(written))
  <2>1. FALSE \in BOOLEAN
    OBVIOUS
  <2>2. QED
    BY <1>5, <2>1, Voided
<1> HIDE DEF open
<1>8. /\ Shaped(p) /\ IsSeq(written \o items) /\ Holed(p, written \o items, Len(written \o items))
      /\ WellWritten(written \o items, sheets)
  <2> DEFINE v == IF open.to_void THEN written ELSE written \o items
  <2>1. IsSeq(items) /\ \A i \in DOMAIN items : Ordinary(items[i])
    BY <1>4 DEF Orderly
  <2>2. Shaped(p) /\ IsSeq(v) /\ Holed(p, v, Len(v)) /\ WellWritten(v, sheets)
    BY <1>2, <1>5, <1>7, <2>1, Diverted
  <2>3. v = written \o items
    BY <1>7
  <2>4. QED
    BY <2>2, <2>3
<1> HIDE DEF p
<1>9. Shaped(o) /\ Holed(o, written \o items, Len(written \o items))
  <2> DEFINE w == written \o items
  <2>1. b \in BOOLEAN /\ Holed(p, w, Len(w))
    BY <1>6, <1>8
  <2> HIDE DEF b, w
  <2>2. Shaped(o) /\ Holed(o, w, Len(w))
    BY <1>8, <2>1, Voided
  <2>3. QED
    BY <2>2 DEF w, o, b
<1> HIDE DEF o
<1>10. DivChunks' /\ outs'.divertion = o
  BY <1>1, <1>2, <1>9, NewDiversion
<1>11. DivText'
  BY <1>1, <1>2, <1>8, <1>9, <1>10 DEF DivText
<1>12. DivLabels'
  BY <1>1, <1>2, KeptLabels
<1>13. DivTables'
  <2>1. type \in TypeNames
    BY DEF TypeNames
  <2>2. QED
    BY <1>2, <1>3, <2>1, NeedingStep
<1>14. QED
  BY <1>2, <1>10, <1>11, <1>12, <1>13 DEF DivInv

LEMMA OrderlyJoin ==
  ASSUME NEW s, NEW t, Orderly(s), Orderly(t)
  PROVE  Orderly(s \o t)
<1> DEFINE v == s \o t
           p == Len(s)
           q == Len(t)
<1>1. /\ IsSeq(s) /\ IsSeq(t) /\ (\A i \in DOMAIN s : Ordinary(s[i])) /\ (\A i \in DOMAIN t : Ordinary(t[i]))
  BY DEF Orderly
<1>2. /\ p \in Nat /\ q \in Nat /\ DOMAIN s = 1 .. p /\ DOMAIN t = 1 .. q
      /\ IsSeq(v) /\ DOMAIN v = 1 .. p + q
      /\ \A i \in 1 .. p : v[i] = s[i]
      /\ \A j \in 1 .. q : v[p + j] = t[j]
  BY <1>1, JoinFacts
<1> HIDE DEF v, p, q
<1>3. \A i \in 1 .. p + q : i \in 1 .. p \/ (i - p \in 1 .. q /\ p + (i - p) = i)
  BY <1>2
<1>4. \A i \in DOMAIN v : Ordinary(v[i])
  <2> SUFFICES ASSUME NEW i \in DOMAIN v
               PROVE  Ordinary(v[i])
    OBVIOUS
  <2>1. CASE i \in 1 .. p
    BY <1>1, <1>2, <2>1
  <2>2. CASE i \notin 1 .. p
    <3> DEFINE j == i - p
    <3>1. j \in 1 .. q /\ p + j = i
      BY <1>2, <1>3, <2>2
    <3> HIDE DEF j
    <3>2. QED
      BY <1>1, <1>2, <3>1
  <2>3. QED
    BY <2>1, <2>2
<1>5. QED
  BY <1>2, <1>4 DEF Orderly, v

LEMMA EndDocumentStep ==
  ASSUME D!DiversionAssumption, DivInv, D!EndDocument
  PROVE  DivInv'
<1> DEFINE first == IF D!PageOpen THEN <<D!Line("showpage")>> ELSE << >>
           last == <<D!Line("Trailer"), D!Line("EOF")>>
           items == first \o last
           open == [outs EXCEPT !.divertion.to_void = FALSE]
           p == [outs.divertion EXCEPT !.to_void = FALSE]
           o == D!Puts(p, items)
<1>1. /\ phase = "pages" /\ phase' = "ended" /\ resources' = resources /\ labels' = D!Labelled
      /\ sheets' = sheets /\ steps' = steps
      /\ outs' = [open EXCEPT !.divertion = D!Puts(@, items)] /\ written' = written \o items
  BY DEF D!EndDocument
<1>2. DivChunks /\ DivText /\ DivLabels /\ DivTables /\ DivSteps /\ sheets \in Nat
  BY DEF DivInv, DivLabels
<1>3. Orderly(items)
  <2>1. Orderly(<<D!Line("showpage")>>)
    BY OrdinaryItems, OrderlyOne
  <2>2. Orderly(<< >>)
    BY OrderlyZero
  <2>3. Orderly(first)
    BY <2>1, <2>2
  <2>4. Ordinary(D!Line("Trailer")) /\ Ordinary(D!Line("EOF"))
    BY OrdinaryItems
  <2>5. Orderly(last)
    BY <2>4, OrderlyTwo
  <2> HIDE DEF first, last
  <2>6. QED
    BY <2>3, <2>5, OrderlyJoin
<1> HIDE DEF items
<1>4. outs = [divertion |-> outs.divertion, setup |-> outs.setup, encodings |-> outs.encodings]
  BY <1>2 DEF DivChunks
<1>5. open = [divertion |-> p, setup |-> outs.setup, encodings |-> outs.encodings]
  <2>1. open = [outs EXCEPT !.divertion = p]
    OBVIOUS
  <2> HIDE DEF open, p
  <2>2. QED
    BY <1>4, <2>1
<1>6. outs' = [outs EXCEPT !.divertion = o]
  <2> HIDE DEF open, p
  <2>1. open.divertion = p
    BY <1>5
  <2>2. outs' = [open EXCEPT !.divertion = o]
    BY <1>1, <2>1
  <2>3. outs' = [divertion |-> o, setup |-> outs.setup, encodings |-> outs.encodings]
    BY <1>5, <2>2
  <2>4. QED
    BY <1>4, <2>3
<1>7. Shaped(p) /\ ~p.to_void /\ Holed(p, written, Len(written))
  <2> DEFINE out == outs.divertion
  <2>1. Shaped(out) /\ Holed(out, written, Len(written))
    BY <1>2 DEF DivChunks, DivText
  <2>2. p = [out EXCEPT !.to_void = FALSE] /\ FALSE \in BOOLEAN
    BY DEF p
  <2> HIDE DEF out
  <2>3. Shaped(p) /\ p.to_void = FALSE /\ Holed(p, written, Len(written))
    BY <2>1, <2>2, Voided
  <2>4. QED
    BY <2>3
<1>8. IsSeq(written) /\ WellWritten(written, sheets)
  BY <1>1, <1>2 DEF DivText
<1> HIDE DEF p, open
<1>9. /\ Shaped(o) /\ IsSeq(written \o items) /\ Holed(o, written \o items, Len(written \o items))
      /\ WellWritten(written \o items, sheets)
  <2> DEFINE v == IF p.to_void THEN written ELSE written \o items
  <2>1. IsSeq(items) /\ \A i \in DOMAIN items : Ordinary(items[i])
    BY <1>3 DEF Orderly
  <2>2. Shaped(o) /\ IsSeq(v) /\ Holed(o, v, Len(v)) /\ WellWritten(v, sheets)
    BY <1>2, <1>7, <1>8, <2>1, Diverted
  <2>3. v = written \o items
    BY <1>7
  <2>4. QED
    BY <2>2, <2>3
<1> HIDE DEF o
<1>10. DivChunks' /\ outs'.divertion = o
  BY <1>2, <1>6, <1>9, NewDiversion
<1>11. DivText'
  BY <1>1, <1>2, <1>9, <1>10 DEF DivText
<1>12. DivLabels'
  <2>1. /\ IsSeq(D!Labelled) /\ Len(D!Labelled) = sheets
        /\ \A i \in 1 .. sheets : D!Labelled[i] = "page " \o ToString(i)
    BY <1>1, <1>2, LabelledFacts
  <2> DEFINE new == D!Labelled
             Page(i) == "page " \o ToString(i)
  <2>2. IsSeq(new) /\ Len(new) = sheets /\ \A i \in 1 .. sheets : new[i] = Page(i)
    BY <2>1
  <2>3. labels' = new /\ sheets' = sheets
    BY <1>1
  <2> HIDE DEF new, Page
  <2>4. (\A i \in 1 .. sheets' : labels'[i] = Page(i)) /\ IsSeq(labels') /\ Len(labels') = sheets'
    BY <2>2, <2>3
  <2>5. sheets' \in Nat
    BY <1>2, <2>3
  <2>6. QED
    BY <2>4, <2>5, Zenon DEF DivLabels, Page
<1>13. DivTables'
  BY <1>1, <1>2, KeptTables
<1>14. DivSteps' /\ DivDumped'
  BY <1>1, <1>2 DEF DivSteps, DivDumped
<1>15. QED
  BY <1>10, <1>11, <1>12, <1>13, <1>14 DEF DivInv

(* The order in which a table is walked: each of its entries once.         *)
LEMMA OrderFacts ==
  ASSUME NEW T, IsFiniteSet(T), NEW order \in D!SetToSeqs(T)
  PROVE  IsSeq(order) /\ OneToOne(order) /\ Terms(order) = T
<1> DEFINE n == Cardinality(T)
<1>1. n \in Nat
  BY FS_CardinalityType
<1>2. order \in [1 .. n -> T] /\ \A i, j \in 1 .. n : i # j => order[i] # order[j]
  <2>1. D!Cardinality(T) = n
    BY Zenon DEF D!Cardinality, Cardinality, D!IsFiniteSet, IsFiniteSet
  <2>2. QED
    BY <2>1 DEF D!SetToSeqs
<1>3. IsFiniteSet(1 .. n) /\ Cardinality(1 .. n) = n
  <2> HIDE DEF n
  <2>1. 1 \in Int /\ n \in Int
    BY <1>1
  <2>2. IsFiniteSet(1 .. n) /\ Cardinality(1 .. n) = IF 1 > n THEN 0 ELSE n - 1 + 1
    BY <2>1, FS_Interval, Zenon
  <2>3. QED
    BY <1>1, <2>2
<1>4. order \in Injection(1 .. n, T)
  BY <1>2, Fun_IsInj
<1>5. order \in Surjection(1 .. n, T)
  <2> DEFINE A == 1 .. n
  <2>1. IsFiniteSet(A) /\ Cardinality(A) = Cardinality(T) /\ order \in Injection(A, T)
    BY <1>3, <1>4
  <2> HIDE DEF A
  <2>2. order \in Surjection(A, T)
    BY <2>1, FS_Injection
  <2>3. QED
    BY <2>2 DEF A
<1>6. \A t \in T : \E i \in 1 .. n : order[i] = t
  BY <1>5 DEF Surjection
<1> HIDE DEF n
<1>7. IsSeq(order)
  <2>1. DOMAIN order = 1 .. n /\ order = [i \in 1 .. n |-> order[i]]
    BY <1>2
  <2>2. QED
    BY <1>1, <2>1, FunSeq
<1>8. OneToOne(order)
  BY <1>2 DEF OneToOne
<1>9. Terms(order) = T
  BY <1>2, <1>6 DEF Terms
<1>10. QED
  BY <1>7, <1>8, <1>9

LEMMA TypesFinite ==
  ASSUME DivTables
  PROVE  IsFiniteSet(D!Types)
<1>1. D!Types \subseteq TypeNames
  BY DEF DivTables, D!Types
<1>2. IsFiniteSet(TypeNames)
  <2>1. /\ IsFiniteSet({"procset"}) /\ IsFiniteSet({"file"}) /\ IsFiniteSet({"color"})
        /\ IsFiniteSet({"font"}) /\ IsFiniteSet({"encoding"})
    BY FS_Singleton
  <2>2. IsFiniteSet({"procset"} \cup {"file"} \cup {"color"} \cup {"font"} \cup {"encoding"})
    <3>1. IsFiniteSet({"procset"} \cup {"file"})
      BY <2>1, FS_Union
    <3>2. IsFiniteSet({"procset"} \cup {"file"} \cup {"color"})
      BY <2>1, <3>1, FS_Union
    <3>3. IsFiniteSet({"procset"} \cup {"file"} \cup {"color"} \cup {"font"})
      BY <2>1, <3>2, FS_Union
    <3>4. QED
      BY <2>1, <3>3, FS_Union
  <2>3. TypeNames = {"procset"} \cup {"file"} \cup {"color"} \cup {"font"} \cup {"encoding"}
    BY DEF TypeNames
  <2>4. QED
    BY <2>2, <2>3
<1>3. QED
  BY <1>1, <1>2, FS_Subset

LEMMA SameCount ==
  ASSUME NEW S
  PROVE  D!Cardinality(S) = Cardinality(S)
BY Zenon DEF D!Cardinality, Cardinality, D!IsFiniteSet, IsFiniteSet

(* What each item gives, when nothing changes but the document itself.     *)
LEMMA SameDocument ==
  ASSUME NEW order, outs' = outs, resources' = resources, labels' = labels, sheets' = sheets, written' = written
  PROVE  [i \in DOMAIN written |-> Given(written[i], order)]' = [i \in DOMAIN written |-> Given(written[i], order)]
<1>1. \A x : Given(x, order)' = Given(x, order)
  BY SameGiven
<1>2. [i \in DOMAIN written |-> Given(written[i], order)]' = [i \in DOMAIN written' |-> Given(written'[i], order)]
  BY <1>1, Zenon DEF Given
<1>3. QED
  BY <1>2

(* What fills a hole is a sequence of lines.                               *)
LEMMA UnderivationIsSeq ==
  ASSUME D!DiversionAssumption, DivChunks, NEW order, IsSeq(order), OneToOne(order), Terms(order) = D!Types,
         NEW x, x.type \in {"size_t", "string", "routine"}
  PROVE  IsSeq(D!Underivation(x, order))
<1>1. \A e : IsSeq(<<e>>)
  BY Concats
<1>2. IsSeq(D!DumpComments(order))
  BY CommentsFacts DEF Zoned
<1>3. IsSeq(outs.encodings.content) /\ IsSeq(outs.setup.content)
  BY DEF DivChunks, Holder, Shaped
<1>4. IsSeq(D!DumpFonts)
  <2> DEFINE fonts == D!Sorted(D!Values(resources.supplied, "font"))
             n == Len(fonts)
             f == [k \in DOMAIN fonts |-> <<"BeginResource", "font", fonts[k]>>]
  <2>1. n \in Nat /\ DOMAIN fonts = 1 .. n
    BY SortedFacts
  <2>2. DOMAIN f = 1 .. n /\ f = [i \in 1 .. n |-> f[i]]
    <3> HIDE DEF fonts, n
    <3>1. QED
      BY <2>1
  <2> HIDE DEF n, f
  <2>3. IsSeq(f)
    BY <2>1, <2>2, FunSeq
  <2>4. D!DumpFonts = f
    BY DEF D!DumpFonts, f
  <2>5. QED
    BY <2>3, <2>4
<1>5. CASE x.type = "size_t"
  <2>1. D!Underivation(x, order) = <<<<"number", ToString(sheets), "">>>>
    BY <1>5, Zenon DEF D!Underivation
  <2>2. QED
    BY <1>1, <2>1, Zenon
<1>6. CASE x.type = "string"
  <2>1. D!Underivation(x, order) = <<<<"label", labels[x.arg], "">>>>
    BY <1>6, Zenon DEF D!Underivation
  <2>2. QED
    BY <1>1, <2>1, Zenon
<1>7. CASE x.type = "routine"
  <2>1. CASE x.arg = "prolog comments"
    <3>1. D!Underivation(x, order) = D!DumpComments(order)
      BY <1>7, <2>1, Zenon DEF D!Underivation
    <3>2. QED
      BY <1>2, <3>1
  <2>2. CASE x.arg = "encodings"
    <3>1. D!Underivation(x, order) = outs.encodings.content
      BY <1>7, <2>2, Zenon DEF D!Underivation
    <3>2. QED
      BY <1>3, <3>1
  <2>3. CASE x.arg = "setup"
    <3>1. D!Underivation(x, order) = outs.setup.content
      BY <1>7, <2>3, Zenon DEF D!Underivation
    <3>2. QED
      BY <1>3, <3>1
  <2>4. CASE x.arg = "fonts"
    <3>1. D!Underivation(x, order) = D!DumpFonts
      BY <1>7, <2>4, Zenon DEF D!Underivation
    <3>2. QED
      BY <1>4, <3>1
  <2>5. CASE x.arg \notin {"prolog comments", "encodings", "setup", "fonts"}
    <3>1. D!Underivation(x, order) = <<<<x.arg, "", "">>>>
      BY <1>7, <2>5, Zenon DEF D!Underivation
    <3>2. QED
      BY <1>1, <3>1, Zenon
  <2>6. QED
    BY <2>1, <2>2, <2>3, <2>4, <2>5
<1>8. QED
  BY <1>5, <1>6, <1>7

(* What was written can be shown: no text of it is a hole.                 *)
LEMMA WrittenShows ==
  ASSUME NEW w, IsSeq(w), NEW n \in Nat, WellWritten(w, n), NEW i \in 1 .. Len(w)
  PROVE  /\ w[i].type \in {"text", "size_t", "string", "routine"}
         /\ w[i].type = "text" => w[i].arg # D!Nul
         /\ w[i].type = "string" => w[i].arg \in 1 .. n
<1>1. CASE i = 1
  <2>1. w[i].type = "routine"
    <3>1. w[i] = D!Routine("prolog comments")
      BY <1>1 DEF WellWritten
    <3>2. D!Routine("prolog comments").type = "routine"
      BY DEF D!Routine, D!Delayed
    <3>3. QED
      BY <3>1, <3>2
  <2>2. QED
    BY <2>1
<1>2. CASE Ordinary(w[i])
  BY <1>2 DEF Ordinary
<1>3. CASE w[i] = D!Line("Page")
  <2> DEFINE e == ""
             x == <<"Page", e, e>>
  <2>1. D!Line("Page") = [type |-> "text", arg |-> x]
    BY DEF D!Line, D!Text
  <2>2. x # <<"NUL", e, e>>
    <3> HIDE DEF e
    <3>1. QED
      OBVIOUS
  <2>3. x # D!Nul
    BY <2>2 DEF D!Nul
  <2> HIDE DEF x
  <2>4. w[i].type = "text" /\ w[i].arg = x
    BY <1>3, <2>1
  <2>5. QED
    BY <2>3, <2>4
<1>4. CASE w[i].type = "string" /\ w[i].arg \in 1 .. n
  BY <1>4
<1>5. i = 1 \/ i \in 2 .. Len(w)
  <2>1. Len(w) \in Nat
    BY SeqFacts
  <2>2. QED
    BY <2>1
<1>6. i \in 2 .. Len(w) => Item(w[i], n)
  BY DEF WellWritten
<1>7. QED
  BY <1>1, <1>2, <1>3, <1>4, <1>5, <1>6 DEF Item

LEMMA GivenLists ==
  ASSUME D!DiversionAssumption, DivInv, phase # "begin",
         NEW order, IsSeq(order), OneToOne(order), Terms(order) = D!Types,
         NEW s, s = [i \in DOMAIN written |-> Given(written[i], order)]
  PROVE  Lists(s) /\ Len(s) = Len(written) /\ DOMAIN s = 1 .. Len(written) /\ Len(written) \in Nat
<1> DEFINE n == Len(written)
<1>1. DivChunks /\ IsSeq(written) /\ WellWritten(written, sheets) /\ sheets \in Nat
  BY DEF DivInv, DivText, DivLabels
<1>2. n \in Nat /\ DOMAIN written = 1 .. n
  BY <1>1, SeqFacts
<1>3. ASSUME NEW i \in 1 .. n
      PROVE  IsSeq(Given(written[i], order))
  <2>1. written[i].type \in {"text", "size_t", "string", "routine"}
    BY <1>1, <1>3, WrittenShows
  <2>2. CASE written[i].type = "text"
    <3>1. \A e : IsSeq(<<e>>)
      BY Concats
    <3>2. QED
      BY <2>2, <3>1 DEF Given
  <2>3. CASE written[i].type # "text"
    <3> DEFINE x == written[i]
    <3>1. x.type \in {"size_t", "string", "routine"}
      BY <2>1, <2>3
    <3> HIDE DEF x
    <3>2. IsSeq(D!Underivation(x, order))
      BY <1>1, <3>1, UnderivationIsSeq
    <3>3. QED
      BY <2>3, <3>2 DEF Given, x
  <2>4. QED
    BY <2>2, <2>3
<1> HIDE DEF n
<1>4. DOMAIN s = 1 .. n /\ s = [i \in 1 .. n |-> s[i]] /\ \A i \in 1 .. n : s[i] = Given(written[i], order)
  BY <1>2
<1>5. IsSeq(s) /\ Len(s) = n
  BY <1>2, <1>4, FunSeq
<1>6. QED
  BY <1>2, <1>3, <1>4, <1>5 DEF Lists, n

LEMMA UndivertStep ==
  ASSUME D!DiversionAssumption, DivInv, D!Undivert
  PROVE  DivInv'
<1>1. /\ phase = "ended" /\ phase' = "dumped" /\ outs' = outs /\ resources' = resources /\ labels' = labels
      /\ sheets' = sheets /\ steps' = steps /\ written' = written
  BY DEF D!Undivert
<1>2. DivChunks /\ DivText /\ DivLabels /\ DivTables /\ DivSteps /\ sheets \in Nat
  BY DEF DivInv, DivLabels
<1>3. PICK order \in D!SetToSeqs(D!Types) : stream' = D!OutputDump(outs.divertion, order)
  BY DEF D!Undivert
<1>4. IsSeq(order) /\ OneToOne(order) /\ Terms(order) = D!Types
  <2> DEFINE T == D!Types
  <2>1. IsFiniteSet(T) /\ order \in D!SetToSeqs(T)
    BY <1>2, <1>3, TypesFinite
  <2> HIDE DEF T
  <2>2. IsSeq(order) /\ OneToOne(order) /\ Terms(order) = T
    BY <2>1, OrderFacts
  <2>3. QED
    BY <2>2 DEF T
<1> DEFINE s == [i \in DOMAIN written |-> Given(written[i], order)]
           n == Len(written)
           out == outs.divertion
<1>5. Lists(s) /\ Len(s) = n /\ DOMAIN s = 1 .. n /\ n \in Nat
  BY <1>1, <1>4, GivenLists
<1>6. \A i \in 1 .. n : s[i] = Given(written[i], order)
  BY <1>5
<1>7. /\ IsSeq(out.content) /\ IsSeq(out.derivations) /\ IsSeq(written) /\ Holed(out, written, n)
      /\ WellWritten(written, sheets)
  BY <1>1, <1>2 DEF DivChunks, DivText, Shaped
<1>8. Printable(written, n)
  <2>1. \A i \in 1 .. n : written[i].type = "text" => written[i].arg # D!Nul
    BY <1>2, <1>7, WrittenShows
  <2>2. QED
    BY <2>1 DEF Printable
<1>9. \A i \in 1 .. n : written[i].type # "text" => IsSeq(D!Underivation(written[i], order))
  <2>1. \A i \in 1 .. n : IsSeq(s[i])
    <3> HIDE DEF s
    <3>1. QED
      BY <1>5 DEF Lists
  <2>2. QED
    BY <1>6, <2>1 DEF Given
<1> HIDE DEF s, out
<1>10. PICK S : s \in Seq(Seq(S))
  BY <1>5, ListsIn
<1>11. PICK g : Joins(g, s) /\ g[Len(s)] = D!FlattenSeq(s)
  BY <1>10, Joined
<1>12. g[0] = << >> /\ \A i \in 1 .. n : g[i] = g[i - 1] \o Given(written[i], order)
  BY <1>5, <1>6, <1>11 DEF Joins
<1>13. D!OutputDump(out, order) = g[n]
  BY <1>7, <1>8, <1>9, <1>12, DumpGives
<1>14. stream' = D!FlattenSeq(s)
  BY <1>3, <1>5, <1>11, <1>13 DEF out
<1>15. DivDumped'
  <2>1. s' = s
    BY <1>1, SameDocument DEF s
  <2>2. D!Types' = D!Types
    BY <1>1 DEF D!Types
  <2>3. \E order1 \in D!SetToSeqs(D!Types) :
          stream' = D!FlattenSeq([i \in DOMAIN written |-> Given(written[i], order1)]')
    BY <1>3, <1>14, <2>1 DEF s
  <2>4. \E order1 \in D!SetToSeqs(D!Types') :
          stream' = D!FlattenSeq([i \in DOMAIN written |-> Given(written[i], order1)]')
    BY <2>2, <2>3
  <2>5. QED
    BY <2>4 DEF DivDumped, Dumped
<1>16. DivChunks' /\ DivText'
  BY <1>1, <1>2, KeptText
<1>17. DivLabels'
  BY <1>1, <1>2 DEF DivLabels
<1>18. DivTables'
  BY <1>1, <1>2, KeptTables
<1>19. DivSteps'
  BY <1>1, <1>2 DEF DivSteps
<1>20. QED
  BY <1>15, <1>16, <1>17, <1>18, <1>19 DEF DivInv

(* A step that changes nothing of the diversion.                           *)
LEMMA DivKept ==
  ASSUME DivInv, UNCHANGED <<outs, resources, labels, sheets, phase, steps, stream, written>>
  PROVE  DivInv'
<1>1. /\ outs' = outs /\ resources' = resources /\ labels' = labels /\ sheets' = sheets /\ phase' = phase
      /\ steps' = steps /\ stream' = stream /\ written' = written
  OBVIOUS
<1>2. DivChunks' /\ DivText'
  BY <1>1 DEF DivInv, DivChunks, DivText
<1>3. DivLabels' /\ DivTables' /\ DivSteps'
  BY <1>1 DEF DivInv, DivLabels, DivTables, DivSteps
<1>4. DivDumped'
  <2> SUFFICES ASSUME phase = "dumped"
               PROVE  DivDumped'
    BY <1>1 DEF DivDumped
  <2>1. PICK order \in D!SetToSeqs(D!Types) : Dumped(order)
    BY DEF DivInv, DivDumped
  <2>2. D!Types' = D!Types
    BY <1>1 DEF D!Types
  <2>3. [i \in DOMAIN written |-> Given(written[i], order)]' = [i \in DOMAIN written |-> Given(written[i], order)]
    BY <1>1, SameDocument
  <2>4. stream' = D!FlattenSeq([i \in DOMAIN written |-> Given(written[i], order)]')
    BY <1>1, <2>1, <2>3 DEF Dumped
  <2>5. \E order1 \in D!SetToSeqs(D!Types') :
          stream' = D!FlattenSeq([i \in DOMAIN written |-> Given(written[i], order1)]')
    BY <2>1, <2>2, <2>4
  <2>6. QED
    BY <2>5 DEF DivDumped, Dumped
<1>5. QED
  BY <1>2, <1>3, <1>4 DEF DivInv

LEMMA DivNext ==
  ASSUME D!DiversionAssumption, DivInv, D!Next
  PROVE  DivInv'
<1>1. CASE D!OutputProlog \/ D!PrologueLine \/ D!DocumentSetup
  BY <1>1, OutputPrologStep, PrologueLineStep, DocumentSetupStep
<1>2. CASE D!SkipPage \/ D!BeginPage \/ D!EndPage \/ D!Total \/ D!RequireFont
  BY <1>2, SkipPageStep, BeginPageStep, EndPageStep, TotalStep, RequireFontStep
<1>3. CASE D!EncodingSetup \/ D!Subcontract \/ D!EndDocument \/ D!Undivert
  BY <1>3, EncodingSetupStep, SubcontractStep, EndDocumentStep, UndivertStep
<1>4. CASE UNCHANGED D!vars
  BY <1>4, DivKept DEF D!vars
<1>5. QED
  BY <1>1, <1>2, <1>3, <1>4 DEF D!Next

(* The first of the texts is where they begin.                             *)
LEMMA FirstPart ==
  ASSUME NEW s, Lists(s), Len(s) # 0
  PROVE  \E rest : IsSeq(rest) /\ D!FlattenSeq(s) = s[1] \o rest
<1> DEFINE n == Len(s)
<1>1. PICK S : s \in Seq(Seq(S))
  BY ListsIn
<1>2. PICK g : Joins(g, s) /\ g[Len(s)] = D!FlattenSeq(s)
  BY <1>1, Joined
<1>3. n \in Nat \ {0} /\ \A i \in 1 .. n : IsSeq(s[i])
  BY SeqFacts DEF Lists
<1>4. g[0] = << >> /\ \A i \in 1 .. n : g[i] = g[i - 1] \o s[i]
  BY <1>2 DEF Joins
<1>4a. 1 \in 1 .. n
  <2> HIDE DEF n
  <2>1. QED
    BY <1>3
<1>5. g[n] = D!FlattenSeq(s)
  BY <1>2
<1> HIDE DEF n
<1> DEFINE Good(k) == \E r : IsSeq(r) /\ g[k] = s[1] \o r
           T == {k \in 0 .. n : k >= 1 => Good(k)}
<1>6. 0 \in T
  BY <1>3
<1> HIDE DEF Good, T
<1>7. ASSUME NEW i \in 1 .. n, i - 1 \in T
      PROVE  i \in T
  <2>1. IsSeq(s[i]) /\ g[i] = g[i - 1] \o s[i] /\ IsSeq(s[1])
    <3>1. IsSeq(s[i]) /\ IsSeq(s[1])
      BY <1>3, <1>4a
    <3>2. g[i] = g[i - 1] \o s[i]
      BY <1>4
    <3>3. QED
      BY <3>1, <3>2
  <2>2. CASE i = 1
    <3>1. g[i] = << >> \o s[1]
      <4>1. g[i - 1] = << >>
        BY <1>4, <2>2
      <4>2. QED
        BY <2>1, <2>2, <4>1
    <3>2. g[i] = s[1] \o << >> /\ IsSeq(<< >>)
      BY <2>1, <3>1, Concats
    <3>3. Good(i)
      BY <3>2 DEF Good
    <3>4. QED
      BY <3>3 DEF T
  <2>3. CASE i # 1
    <3>1. i - 1 >= 1 /\ i \in 0 .. n
      BY <1>3, <2>3
    <3>2. Good(i - 1)
      BY <1>7, <3>1 DEF T
    <3>3. PICK r : IsSeq(r) /\ g[i - 1] = s[1] \o r
      BY <3>2 DEF Good
    <3>4. IsSeq(r \o s[i])
      BY <2>1, <3>3, Concats
    <3>5. g[i] = s[1] \o (r \o s[i])
      <4>1. g[i] = (s[1] \o r) \o s[i]
        BY <2>1, <3>3
      <4>2. (s[1] \o r) \o s[i] = s[1] \o (r \o s[i])
        <5> DEFINE u == s[1]
                   v == s[i]
        <5>1. IsSeq(u) /\ IsSeq(v)
          BY <2>1
        <5> HIDE DEF u, v
        <5>2. (u \o r) \o v = u \o (r \o v)
          BY <3>3, <5>1, Associates
        <5>3. QED
          BY <5>2 DEF u, v
      <4>3. QED
        BY <4>1, <4>2
    <3>6. Good(i)
      BY <3>4, <3>5 DEF Good
    <3>7. QED
      BY <3>1, <3>6 DEF T
  <2>4. QED
    BY <2>2, <2>3
<1>8. \A i \in 0 .. n : i \in T
  <2>1. n \in Nat
    BY <1>3
  <2>2. QED
    BY <1>6, <1>7, <2>1, Induction
<1>9. Good(n)
  <2>1. n \in 0 .. n /\ n >= 1
    BY <1>3
  <2>2. n \in T
    BY <1>8, <2>1
  <2>3. QED
    BY <2>1, <2>2 DEF T
<1>10. QED
  BY <1>5, <1>9 DEF Good

(* The header of the document, when it is dumped, is the one that was      *)
(* asked for in its first place.                                           *)
LEMMA DumpedHeader ==
  ASSUME D!DiversionAssumption, DivInv, phase = "dumped"
  PROVE  \E order : /\ IsSeq(order) /\ OneToOne(order) /\ Terms(order) = D!Types /\ Dumped(order)
                    /\ D!Header = D!DumpComments(order)
<1>1. PICK order \in D!SetToSeqs(D!Types) : Dumped(order)
  BY DEF DivInv, DivDumped
<1>2. IsSeq(order) /\ OneToOne(order) /\ Terms(order) = D!Types
  <2> DEFINE T == D!Types
  <2>1. IsFiniteSet(T) /\ order \in D!SetToSeqs(T)
    BY <1>1, TypesFinite DEF DivInv
  <2> HIDE DEF T
  <2>2. IsSeq(order) /\ OneToOne(order) /\ Terms(order) = T
    BY <2>1, OrderFacts
  <2>3. QED
    BY <2>2 DEF T
<1> DEFINE s == [i \in DOMAIN written |-> Given(written[i], order)]
           n == Len(written)
           H == D!DumpComments(order)
<1>3. Lists(s) /\ Len(s) = n /\ DOMAIN s = 1 .. n /\ n \in Nat
  <2>1. phase # "begin"
    OBVIOUS
  <2>2. QED
    BY <1>2, <2>1, GivenLists
<1>4. n # 0 /\ written[1] = D!Routine("prolog comments")
  <2>1. IsSeq(written) /\ WellWritten(written, sheets)
    BY DEF DivInv, DivText
  <2>2. written # << >> /\ written[1] = D!Routine("prolog comments")
    BY <2>1 DEF WellWritten
  <2>3. written = << >> <=> n = 0
    BY <2>1, SeqFacts
  <2>4. QED
    BY <2>2, <2>3
<1>5. s[1] = H
  <2>1. 1 \in 1 .. n
    <3>1. n \in Nat
      BY <1>3
    <3>2. n # 0
      BY <1>4
    <3> HIDE DEF s, n
    <3>3. QED
      BY <3>1, <3>2
  <2>2. s[1] = Given(written[1], order)
    BY <1>3, <2>1
  <2> DEFINE x == D!Routine("prolog comments")
  <2>3. x.type = "routine" /\ x.arg = "prolog comments"
    BY DEF D!Routine, D!Delayed
  <2>4. written[1] = x
    BY <1>4
  <2> HIDE DEF x, s
  <2>5. Given(x, order) = D!Underivation(x, order)
    BY <2>3 DEF Given
  <2>6. D!Underivation(x, order) = D!DumpComments(order)
    BY <2>3, Zenon DEF D!Underivation
  <2>7. QED
    BY <2>2, <2>4, <2>5, <2>6
<1>6. stream = D!FlattenSeq(s)
  BY <1>1 DEF Dumped
<1> HIDE DEF s, n
<1>7. PICK rest : IsSeq(rest) /\ D!FlattenSeq(s) = s[1] \o rest
  BY <1>3, <1>4, FirstPart
<1>8. D!HeaderOf(H \o rest) = H
  <2>1. PICK a \in Nat, b \in Nat, c \in Nat : Zoned(H, a, b, c)
    BY <1>2, CommentsFacts
  <2> HIDE DEF H
  <2>2. QED
    BY <1>7, <2>1, HeaderBegins
<1>9. D!Header = H
  BY <1>5, <1>6, <1>7, <1>8 DEF D!Header
<1>10. QED
  BY <1>1, <1>2, <1>9

(* The string items are as many as the sheets.                             *)
LEMMA StringItems ==
  ASSUME DivInv, phase # "begin"
  PROVE  D!Cardinality({i \in DOMAIN written : written[i].type = "string"}) = sheets
<1>1. Cardinality(Strings(written)) = sheets
  BY DEF DivInv, DivText, WellWritten
<1>2. D!Cardinality({i \in DOMAIN written : written[i].type = "string"}) = Cardinality(Strings(written))
  BY SameCount DEF Strings
<1>3. QED
  BY <1>1, <1>2

(* The fonts that are supplied have a name each.                           *)
LEMMA FontDefinitions ==
  ASSUME D!DiversionAssumption, DivTables
  PROVE  LET V == D!Values(resources.supplied, "font")
         IN D!DumpFonts = [k \in 1 .. D!Cardinality(V) |-> <<"BeginResource", "font", D!Sorted(V)[k]>>]
<1> DEFINE V == D!Values(resources.supplied, "font")
           t == D!Sorted(V)
<1>1. IsSeq(t) /\ OneToOne(t) /\ Terms(t) = V \cap D!ToSet(Names) /\ DOMAIN t = 1 .. Len(t)
  BY SortedFacts
<1>2. V \subseteq D!ToSet(Names)
  BY DEF DivTables
<1>3. D!DumpFonts = [k \in DOMAIN t |-> <<"BeginResource", "font", t[k]>>]
  BY DEF D!DumpFonts
<1> HIDE DEF V, t
<1>4. Terms(t) = V
  BY <1>1, <1>2
<1>5. Cardinality(V) = Len(t)
  BY <1>1, <1>4, OneToOneCount
<1>6. D!Cardinality(V) = Len(t)
  BY <1>5, SameCount
<1>7. D!DumpFonts = [k \in 1 .. D!Cardinality(V) |-> <<"BeginResource", "font", t[k]>>]
  BY <1>1, <1>3, <1>6
<1>8. QED
  BY <1>7 DEF V, t

(* What an item gives is what its reader expects of it.                    *)
LEMMA GivenShown ==
  ASSUME D!DiversionAssumption, DivInv, phase = "dumped",
         NEW order, D!Header = D!DumpComments(order), NEW i \in 1 .. Len(written)
  PROVE  Given(written[i], order) = D!Shown(written[i])
<1> DEFINE x == written[i]
<1>1. /\ x.type \in {"text", "size_t", "string", "routine"}
      /\ x.type = "string" => x.arg \in 1 .. sheets
  <2>1. IsSeq(written) /\ WellWritten(written, sheets) /\ sheets \in Nat
    BY DEF DivInv, DivText, DivLabels
  <2>2. QED
    BY <2>1, WrittenShows
<1>2. DivTables
  BY DEF DivInv
<1>3. D!Cardinality({k \in DOMAIN written : written[k].type = "string"}) = sheets
  BY StringItems
<1>4. \A k \in 1 .. sheets : labels[k] = "page " \o ToString(k)
  BY DEF DivInv, DivLabels
<1> HIDE DEF x
<1>5. CASE x.type = "text"
  BY <1>5, Zenon DEF Given, D!Shown, x
<1>6. CASE x.type = "size_t"
  <2>1. Given(x, order) = <<<<"number", ToString(sheets), "">>>>
    BY <1>6, Zenon DEF Given, D!Underivation
  <2>2. D!Shown(x) = <<<<"number", ToString(sheets), "">>>>
    BY <1>3, <1>6, Zenon DEF D!Shown
  <2>3. QED
    BY <2>1, <2>2, Zenon DEF x
<1>7. CASE x.type = "string"
  <2>0. labels[x.arg] = "page " \o ToString(x.arg)
    BY <1>1, <1>4, <1>7, Zenon
  <2>1. Given(x, order) = <<<<"label", labels[x.arg], "">>>>
    BY <1>7, Zenon DEF Given, D!Underivation
  <2>2. D!Shown(x) = <<<<"label", "page " \o ToString(x.arg), "">>>>
    BY <1>7, Zenon DEF D!Shown
  <2>3. QED
    BY <2>0, <2>1, <2>2, Zenon DEF x
<1>8. CASE x.type = "routine"
  <2>1. CASE x.arg = "prolog comments"
    BY <1>8, <2>1, Zenon DEF Given, D!Underivation, D!Shown, x
  <2>2. CASE x.arg = "encodings"
    BY <1>8, <2>2, Zenon DEF Given, D!Underivation, D!Shown, x
  <2>3. CASE x.arg = "setup"
    BY <1>8, <2>3, Zenon DEF Given, D!Underivation, D!Shown, x
  <2>4. CASE x.arg = "fonts"
    <3>1. Given(x, order) = D!DumpFonts
      BY <1>8, <2>4, Zenon DEF Given, D!Underivation
    <3>2. QED
      BY <1>2, <1>8, <2>4, <3>1, FontDefinitions, Zenon DEF D!Shown, x
  <2>5. CASE x.arg \notin {"prolog comments", "encodings", "setup", "fonts"}
    <3>1. Given(x, order) = <<<<x.arg, "", "">>>>
      BY <1>8, <2>5, Zenon DEF Given, D!Underivation
    <3>2. D!Shown(x) = <<<<x.arg, "", "">>>>
      BY <1>8, <2>5, Zenon DEF D!Shown
    <3>3. QED
      BY <3>1, <3>2, Zenon DEF x
  <2>6. QED
    BY <2>1, <2>2, <2>3, <2>4, <2>5
<1>9. QED
  BY <1>1, <1>5, <1>6, <1>7, <1>8 DEF x

LEMMA DumpIsOrdered ==
  ASSUME D!DiversionAssumption, DivInv
  PROVE  D!DumpOrdered
<1> SUFFICES ASSUME phase = "dumped"
             PROVE  stream = D!FlattenSeq([i \in DOMAIN written |-> D!Shown(written[i])])
  BY DEF D!DumpOrdered
<1>1. PICK order : Dumped(order) /\ D!Header = D!DumpComments(order)
  BY DumpedHeader
<1>2. DOMAIN written = 1 .. Len(written)
  BY SeqFacts DEF DivInv, DivText
<1>3. \A i \in DOMAIN written : Given(written[i], order) = D!Shown(written[i])
  BY <1>1, <1>2, GivenShown
<1>4. [i \in DOMAIN written |-> Given(written[i], order)] = [i \in DOMAIN written |-> D!Shown(written[i])]
  BY <1>3, Zenon
<1>5. QED
  BY <1>1, <1>4 DEF Dumped

LEMMA DiversionTyped ==
  ASSUME D!DiversionAssumption, DivInv
  PROVE  D!TypeOK /\ D!ChunksHold
<1>1. sheets = Len(labels)
  BY DEF DivInv, DivLabels
<1>2. phase \in {"begin", "prologue", "pages", "ended", "dumped"} /\ steps \in 0 .. MaxLines + MaxEvents
  BY DEF DivInv, DivSteps
<1>3. Shaped(outs.divertion) /\ Shaped(outs.setup) /\ Shaped(outs.encodings)
  BY DEF DivInv, DivChunks, Holder
<1>4. DOMAIN outs = {"divertion", "setup", "encodings"}
  BY DEF DivInv, DivChunks
<1>5. ASSUME NEW o \in DOMAIN outs
      PROVE  outs[o].len \in Nat /\ outs[o].to_void \in BOOLEAN /\ outs[o].len < outs[o].size
  <2>1. Shaped(outs[o])
    BY <1>3, <1>4
  <2>2. QED
    BY <2>1 DEF Shaped
<1>6. QED
  BY <1>1, <1>2, <1>5 DEF D!TypeOK, D!ChunksHold

(* The lines that begin a page.                                            *)
Heads(d) == {i \in DOMAIN d : d[i][1] = "Page"}
Plain(d) == \A i \in DOMAIN d : d[i][1] # "Page"

LEMMA HeadsJoin ==
  ASSUME NEW a, NEW b, IsSeq(a), IsSeq(b)
  PROVE  Cardinality(Heads(a \o b)) = Cardinality(Heads(a)) + Cardinality(Heads(b))
<1> DEFINE v == a \o b
           p == Len(a)
           q == Len(b)
           A == Heads(a)
           B == Heads(b)
           C == Heads(v)
<1>1. /\ p \in Nat /\ q \in Nat /\ DOMAIN a = 1 .. p /\ DOMAIN b = 1 .. q
      /\ DOMAIN v = 1 .. p + q
      /\ \A i \in 1 .. p : v[i] = a[i]
      /\ \A j \in 1 .. q : v[p + j] = b[j]
  BY JoinFacts
<1>2. A \in SUBSET (1 .. p) /\ B \in SUBSET (1 .. q)
  BY <1>1 DEF Heads
<1> HIDE DEF v, p, q, A, B, C
<1>3. C = A \cup Moved(B, p)
  <2>1. ASSUME NEW i \in C, i \notin A
        PROVE  i \in Moved(B, p)
    <3> DEFINE j == i - p
    <3>1. i \in 1 .. p + q /\ v[i][1] = "Page" /\ i \notin 1 .. p
      BY <1>1, <2>1 DEF A, C, Heads
    <3>2. j \in 1 .. q /\ p + j = i
      BY <1>1, <3>1
    <3> HIDE DEF j
    <3>3. j \in B
      BY <1>1, <3>1, <3>2 DEF B, Heads
    <3>4. QED
      BY <3>2, <3>3 DEF Moved
  <2>2. \A i \in A : i \in C
    BY <1>1 DEF A, C, Heads
  <2>3. \A j \in B : p + j \in C
    BY <1>1 DEF B, C, Heads
  <2>4. QED
    BY <2>1, <2>2, <2>3 DEF Moved
<1>4. Cardinality(A \cup Moved(B, p)) = Cardinality(A) + Cardinality(B)
  <2>1. p \in Nat /\ q \in Nat
    BY <1>1
  <2>2. QED
    BY <1>2, <2>1, CountOn
<1>5. QED
  BY <1>3, <1>4 DEF A, B, C, v

LEMMA PlainCount ==
  ASSUME NEW d, Plain(d)
  PROVE  Cardinality(Heads(d)) = 0
<1>1. Heads(d) = {}
  BY DEF Heads, Plain
<1>2. QED
  BY <1>1, FS_EmptySet

LEMMA PlainLine ==
  ASSUME NEW x, x[1] # "Page"
  PROVE  Plain(<<x>>)
<1> DEFINE s == <<x>>
<1>1. DOMAIN s = 1 .. 1 /\ s[1] = x
  OBVIOUS
<1> HIDE DEF s
<1>2. Plain(s)
  BY <1>1 DEF Plain
<1>3. QED
  BY <1>2 DEF s

LEMMA ZonedPlain ==
  ASSUME NEW a \in Nat, NEW b \in Nat, NEW c \in Nat, NEW H, Zoned(H, a, b, c)
  PROVE  Plain(H)
<1>1. /\ DOMAIN H = 1 .. 3 + a + b + c
      /\ \A k \in 1 .. 3 + a + b + c :
           H[k][1] = IF k \in 4 .. 2 + a \/ k \in 4 + a + b .. 2 + a + b + c THEN "%%+" ELSE Kind(k, a, b, c)
  BY ZonedLines
<1>2. \A k \in 1 .. 3 + a + b + c :
        \/ k = 1 \/ k = 2 \/ k \in 3 .. 2 + a \/ k \in 3 + a .. 2 + a + b
        \/ k \in 3 + a + b .. 2 + a + b + c \/ k = 3 + a + b + c
  OBVIOUS
<1>3. \A k \in 1 .. 3 + a + b + c : Kind(k, a, b, c) # "Page"
  BY <1>2 DEF Kind
<1>4. \A k \in DOMAIN H : H[k][1] # "Page"
  BY <1>1, <1>3
<1>5. QED
  BY <1>4 DEF Plain

(* Only the line of a page begins one.                                     *)
LEMMA GivenPlain ==
  ASSUME D!DiversionAssumption, DivChunks, NEW order, IsSeq(order), OneToOne(order), Terms(order) = D!Types,
         NEW x, Ordinary(x) \/ x.type = "string" \/ (x.type = "routine" /\ x.arg = "prolog comments")
  PROVE  Plain(Given(x, order))
<1> DEFINE none == ""
<1>1. CASE x.type = "text"
  <2>1. x.arg[1] # "Page"
    BY <1>1 DEF Ordinary
  <2>2. QED
    BY <1>1, <2>1, PlainLine DEF Given
<1>2. CASE x.type = "size_t"
  <2> DEFINE l == <<"number", ToString(sheets), none>>
  <2>1. Given(x, order) = <<l>>
    BY <1>2, Zenon DEF Given, D!Underivation
  <2> HIDE DEF none
  <2>2. l[1] # "Page"
    OBVIOUS
  <2> HIDE DEF l
  <2>3. QED
    BY <2>1, <2>2, PlainLine
<1>3. CASE x.type = "string"
  <2> DEFINE l == <<"label", labels[x.arg], none>>
  <2>1. Given(x, order) = <<l>>
    BY <1>3, Zenon DEF Given, D!Underivation
  <2> HIDE DEF none
  <2>2. l[1] # "Page"
    OBVIOUS
  <2> HIDE DEF l
  <2>3. QED
    BY <2>1, <2>2, PlainLine
<1>4. CASE x.type = "routine"
  <2>1. CASE x.arg = "prolog comments"
    <3> DEFINE H == D!DumpComments(order)
    <3>1. Given(x, order) = H
      BY <1>4, <2>1, Zenon DEF Given, D!Underivation
    <3>2. PICK a \in Nat, b \in Nat, c \in Nat : Zoned(H, a, b, c)
      BY CommentsFacts
    <3> HIDE DEF H
    <3>3. Plain(H)
      BY <3>2, ZonedPlain
    <3>4. QED
      BY <3>1, <3>3
  <2>2. CASE x.arg = "encodings"
    <3>1. Given(x, order) = outs.encodings.content
      BY <1>4, <2>2, Zenon DEF Given, D!Underivation
    <3>2. QED
      BY <3>1 DEF Plain, DivChunks, Holder
  <2>3. CASE x.arg = "setup"
    <3>1. Given(x, order) = outs.setup.content
      BY <1>4, <2>3, Zenon DEF Given, D!Underivation
    <3>2. QED
      BY <3>1 DEF Plain, DivChunks, Holder
  <2>4. CASE x.arg = "fonts"
    <3> DEFINE t == D!Sorted(D!Values(resources.supplied, "font"))
    <3>1. Given(x, order) = D!DumpFonts
      BY <1>4, <2>4, Zenon DEF Given, D!Underivation
    <3>2. D!DumpFonts = [k \in DOMAIN t |-> <<"BeginResource", "font", t[k]>>]
      BY DEF D!DumpFonts
    <3> HIDE DEF t
    <3>3. \A k \in DOMAIN t : D!DumpFonts[k][1] # "Page"
      BY <3>2
    <3>4. DOMAIN D!DumpFonts = DOMAIN t
      BY <3>2
    <3>5. QED
      BY <3>1, <3>3, <3>4 DEF Plain
  <2>5. CASE x.arg \notin {"prolog comments", "encodings", "setup", "fonts"}
    <3> DEFINE l == <<x.arg, none, none>>
    <3>1. Given(x, order) = <<l>>
      BY <1>4, <2>5, Zenon DEF Given, D!Underivation
    <3> HIDE DEF none
    <3>2. l[1] # "Page"
      BY <1>4, <2>5 DEF Ordinary
    <3> HIDE DEF l
    <3>3. QED
      BY <3>1, <3>2, PlainLine
  <2>6. QED
    BY <2>1, <2>2, <2>3, <2>4, <2>5
<1>5. x.type \in {"text", "size_t", "string", "routine"}
  BY DEF Ordinary
<1>6. QED
  BY <1>1, <1>2, <1>3, <1>4, <1>5

LEMMA GivenPage ==
  ASSUME NEW order, NEW x, x = D!Line("Page")
  PROVE  Cardinality(Heads(Given(x, order))) = 1
<1> DEFINE none == ""
           l == <<"Page", none, none>>
           s == <<l>>
<1>1. x = [type |-> "text", arg |-> l]
  BY DEF D!Line, D!Text
<1> HIDE DEF none
<1>2. l[1] = "Page"
  OBVIOUS
<1> HIDE DEF l
<1>3. x.type = "text" /\ x.arg = l
  BY <1>1
<1>4. Given(x, order) = s
  BY <1>3 DEF Given
<1>5. DOMAIN s = {1} /\ s[1] = l
  OBVIOUS
<1> HIDE DEF s
<1>6. Heads(s) = {1}
  BY <1>2, <1>5 DEF Heads
<1>7. QED
  BY <1>4, <1>6, FS_Singleton

(* Each of some texts has a page where, and only where, its item is line.  *)
Paged(s, w, line) == \A i \in 1 .. Len(w) : Cardinality(Heads(s[i])) = IF w[i] = line THEN 1 ELSE 0
Where(w, line) == {i \in DOMAIN w : w[i] = line}

LEMMA PagesCounted ==
  ASSUME NEW s, Lists(s), NEW w, IsSeq(w), Len(s) = Len(w), NEW line, Paged(s, w, line)
  PROVE  Cardinality(Heads(D!FlattenSeq(s))) = Cardinality(Where(w, line))
<1> DEFINE n == Len(w)
           P(k) == {i \in 1 .. k : w[i] = line}
<1>1. PICK S : s \in Seq(Seq(S))
  BY ListsIn
<1>2. PICK g : Joins(g, s) /\ g[Len(s)] = D!FlattenSeq(s)
  BY <1>1, Joined
<1>3. n \in Nat /\ DOMAIN w = 1 .. n
  BY SeqFacts
<1>3a. \A i \in 1 .. n : IsSeq(s[i])
  BY SeqFacts DEF Lists
<1>4. g[0] = << >> /\ \A i \in 1 .. n : g[i] = g[i - 1] \o s[i]
  BY <1>2 DEF Joins
<1>5. g[n] = D!FlattenSeq(s)
  BY <1>2
<1>6. \A i \in 1 .. n : Cardinality(Heads(s[i])) = IF w[i] = line THEN 1 ELSE 0
  BY DEF Paged
<1> HIDE DEF n
<1> DEFINE Good(k) == IsSeq(g[k]) /\ Cardinality(Heads(g[k])) = Cardinality(P(k))
           T == {k \in 0 .. n : Good(k)}
<1>7. \A k \in 0 .. n : IsFiniteSet(P(k)) /\ Cardinality(P(k)) \in Nat
  <2> SUFFICES ASSUME NEW k \in 0 .. n
               PROVE  IsFiniteSet(P(k)) /\ Cardinality(P(k)) \in Nat
    OBVIOUS
  <2> DEFINE I == 1 .. k
             A == P(k)
  <2>1. IsFiniteSet(I)
    <3>1. 1 \in Int /\ k \in Int
      BY <1>3
    <3>2. QED
      BY <3>1, FS_Interval
  <2>2. A \subseteq I
    OBVIOUS
  <2> HIDE DEF A, I
  <2>3. IsFiniteSet(A) /\ Cardinality(A) \in Nat
    BY <2>1, <2>2, FS_Subset, FS_CardinalityType
  <2>4. QED
    BY <2>3 DEF A
<1>8. 0 \in T
  <2>1. Heads(<< >>) = {} /\ P(0) = {}
    BY DEF Heads
  <2>2. IsSeq(<< >>)
    BY Concats
  <2> DEFINE A == Heads(g[0])
             B == P(0)
  <2>3. A = {} /\ B = {}
    BY <1>4, <2>1
  <2> HIDE DEF A, B
  <2>4. Cardinality(A) = Cardinality(B)
    BY <2>3
  <2>5. 0 \in 0 .. n
    BY <1>3
  <2>6. Good(0)
    BY <1>4, <2>2, <2>4 DEF A, B
  <2> HIDE DEF Good
  <2>7. QED
    BY <2>5, <2>6
<1>9. ASSUME NEW k \in 1 .. n, k - 1 \in T
      PROVE  k \in T
  <2> DEFINE a == g[k - 1]
             b == s[k]
             A == P(k - 1)
             B == P(k)
             ca == Cardinality(Heads(a))
  <2>1. IsSeq(a) /\ ca = Cardinality(A)
    BY <1>9
  <2>2. IsSeq(b) /\ Cardinality(Heads(b)) = IF w[k] = line THEN 1 ELSE 0
    <3>1. IsSeq(b)
      BY <1>3a
    <3>2. Cardinality(Heads(b)) = IF w[k] = line THEN 1 ELSE 0
      BY <1>6
    <3>3. QED
      BY <3>1, <3>2
  <2>3. g[k] = a \o b
    BY <1>4
  <2>4. IsFiniteSet(A) /\ Cardinality(A) \in Nat
    <3>1. k - 1 \in 0 .. n
      BY <1>3
    <3> HIDE DEF P
    <3>2. QED
      BY <1>7, <3>1
  <2>5. B = A \cup {i \in {k} : w[i] = line} /\ k \notin A
    <3>1. \A i \in 1 .. k : i \in 1 .. k - 1 \/ i = k
      BY <1>3
    <3>2. k \notin 1 .. k - 1 /\ k \in 1 .. k /\ \A i \in 1 .. k - 1 : i \in 1 .. k
      BY <1>3
    <3>3. QED
      BY <3>1, <3>2
  <2> HIDE DEF a, b, A, B, ca, Good, P
  <2>6. IsSeq(a \o b)
    BY <2>1, <2>2, Concats
  <2>7. Cardinality(Heads(a \o b)) = ca + Cardinality(Heads(b))
    BY <2>1, <2>2, HeadsJoin DEF ca
  <2>8. Cardinality(B) = ca + IF w[k] = line THEN 1 ELSE 0
    <3>1. CASE w[k] = line
      <4>1. B = A \cup {k} /\ k \notin A
        BY <2>5, <3>1
      <4>2. Cardinality(A \cup {k}) = Cardinality(A) + 1
        BY <2>4, <4>1, FS_AddElement
      <4>3. QED
        BY <2>1, <3>1, <4>1, <4>2
    <3>2. CASE w[k] # line
      <4>1. B = A
        BY <2>5, <3>2
      <4>2. QED
        BY <2>1, <2>4, <3>2, <4>1
    <3>3. QED
      BY <3>1, <3>2
  <2>9. Cardinality(Heads(a \o b)) = Cardinality(B)
    BY <2>2, <2>7, <2>8
  <2>10. Good(k)
    BY <2>3, <2>6, <2>9 DEF Good, B
  <2>11. k \in 0 .. n
    BY <1>3
  <2>12. QED
    BY <2>10, <2>11
<1>10. \A i \in 0 .. n : i \in T
  <2> HIDE DEF T
  <2>1. n \in Nat
    BY <1>3
  <2>2. QED
    BY <1>8, <1>9, <2>1, Induction
<1>11. Good(n)
  <2>1. n \in 0 .. n
    BY <1>3
  <2> HIDE DEF Good
  <2>2. QED
    BY <1>10, <2>1
<1>12. Cardinality(Heads(g[n])) = Cardinality(P(n))
  BY <1>11
<1>13. P(n) = Where(w, line)
  BY <1>3 DEF Where
<1> HIDE DEF P, Good, T
<1>14. QED
  BY <1>5, <1>12, <1>13

LEMMA DumpedPages ==
  ASSUME D!DiversionAssumption, DivInv, phase = "dumped"
  PROVE  D!Cardinality({i \in DOMAIN stream : stream[i][1] = "Page"}) = sheets
<1>1. PICK order : IsSeq(order) /\ OneToOne(order) /\ Terms(order) = D!Types /\ Dumped(order)
  BY DumpedHeader
<1> DEFINE s == [i \in DOMAIN written |-> Given(written[i], order)]
           n == Len(written)
           line == D!Line("Page")
<1>2. Lists(s) /\ Len(s) = n /\ DOMAIN s = 1 .. n /\ n \in Nat
  <2>1. phase # "begin"
    OBVIOUS
  <2>2. QED
    BY <1>1, <2>1, GivenLists
<1>3. \A i \in 1 .. n : s[i] = Given(written[i], order)
  BY <1>2
<1>4. DivChunks /\ IsSeq(written) /\ WellWritten(written, sheets)
  BY DEF DivInv, DivText
<1>5. stream = D!FlattenSeq(s)
  BY <1>1 DEF Dumped
<1> HIDE DEF s
<1>6. ASSUME NEW i \in 1 .. n
      PROVE  Cardinality(Heads(s[i])) = IF written[i] = line THEN 1 ELSE 0
  <2> DEFINE x == written[i]
  <2>1. s[i] = Given(x, order)
    BY <1>3
  <2>2. x = D!Line("Page") \/ Ordinary(x) \/ x.type = "string" \/ (x.type = "routine" /\ x.arg = "prolog comments")
    <3>1. CASE i = 1
      <4>1. x = D!Routine("prolog comments")
        BY <1>4, <3>1 DEF WellWritten
      <4>2. D!Routine("prolog comments").type = "routine" /\ D!Routine("prolog comments").arg = "prolog comments"
        BY DEF D!Routine, D!Delayed
      <4>3. QED
        BY <4>1, <4>2
    <3>2. CASE i # 1
      <4>1. i \in 2 .. Len(written)
        BY <1>2, <3>2
      <4>2. Item(x, sheets)
        BY <1>4, <4>1 DEF WellWritten
      <4>3. QED
        BY <4>2 DEF Item
    <3>3. QED
      BY <3>1, <3>2
  <2> HIDE DEF x
  <2>3. CASE x = line
    <3>1. Cardinality(Heads(Given(x, order))) = 1
      BY <2>3, GivenPage
    <3>2. QED
      BY <2>1, <2>3, <3>1 DEF x
  <2>4. CASE x # line
    <3>1. Plain(Given(x, order))
      BY <1>1, <1>4, <2>2, <2>4, GivenPlain
    <3>2. Cardinality(Heads(Given(x, order))) = 0
      BY <3>1, PlainCount
    <3>3. QED
      BY <2>1, <2>4, <3>2 DEF x
  <2>5. QED
    BY <2>3, <2>4
<1> HIDE DEF line
<1>7. Cardinality(Heads(D!FlattenSeq(s))) = Cardinality(Where(written, line))
  <2>1. Lists(s) /\ IsSeq(written) /\ Len(s) = Len(written)
    BY <1>2, <1>4
  <2>2. Paged(s, written, line)
    BY <1>6 DEF Paged
  <2> HIDE DEF n
  <2>3. QED
    BY <2>1, <2>2, PagesCounted
<1>8. Cardinality(Where(written, line)) = sheets
  BY <1>4 DEF WellWritten, PageLines, Where, line
<1>9. D!Cardinality({i \in DOMAIN stream : stream[i][1] = "Page"}) = Cardinality(Heads(stream))
  BY SameCount DEF Heads
<1>10. QED
  BY <1>5, <1>7, <1>8, <1>9

(* The header names each resource once, and tells of as many pages as      *)
(* there are.                                                              *)
LEMMA HeaderIsTrue ==
  ASSUME D!DiversionAssumption, DivInv
  PROVE  D!HeaderTells
<1> DEFINE N == D!Pairs(resources.needed, D!Types \ {"color", "file"})
           C == D!Pairs(resources.needed, {"color"})
           S == D!Pairs(resources.supplied, D!Types)
           a == Cardinality(N)
           b == Cardinality(C)
           c == Cardinality(S)
<1> SUFFICES ASSUME phase = "dumped"
             PROVE  /\ D!Told("needed") = N /\ D!Told("supplied") = S /\ D!Told("colors") = C
                    /\ Len(D!Header) = 3 + D!Cardinality(D!Told("needed")) + D!Cardinality(D!Told("supplied"))
                                         + D!Cardinality(D!Told("colors"))
                    /\ D!Header[2] = <<"Pages", ToString(D!Cardinality({i \in DOMAIN stream : stream[i][1] = "Page"})), "">>
  BY Zenon DEF D!HeaderTells
<1>1. PICK order : IsSeq(order) /\ OneToOne(order) /\ Terms(order) = D!Types /\ D!Header = D!DumpComments(order)
  BY DumpedHeader
<1>2. a \in Nat /\ b \in Nat /\ c \in Nat /\ Zoned(D!Header, a, b, c)
  BY <1>1, CommentsFacts
<1>3. Names2(D!Header, 2, a) = N /\ Names2(D!Header, 2 + a, b) = C /\ Names2(D!Header, 2 + a + b, c) = S
  BY <1>1, CommentsFacts
<1> HIDE DEF N, C, S, a, b, c
<1>4. /\ D!Told("needed") = Names2(D!Header, 2, a)
      /\ D!Told("colors") = Names2(D!Header, 2 + a, b)
      /\ D!Told("supplied") = Names2(D!Header, 2 + a + b, c)
  BY <1>2, ToldFacts
<1>5. D!Told("needed") = N /\ D!Told("supplied") = S /\ D!Told("colors") = C
  BY <1>3, <1>4
<1>6. /\ D!Cardinality(D!Told("needed")) = a /\ D!Cardinality(D!Told("supplied")) = c
      /\ D!Cardinality(D!Told("colors")) = b
  BY <1>5, SameCount DEF a, b, c
<1>7. Len(D!Header) = 3 + a + b + c
  BY <1>2, ZonedLines
<1>8. Len(D!Header) = 3 + D!Cardinality(D!Told("needed")) + D!Cardinality(D!Told("supplied"))
                        + D!Cardinality(D!Told("colors"))
  BY <1>2, <1>6, <1>7
<1>9. D!Header[2] = <<"Pages", ToString(sheets), "">>
  BY <1>2, Zenon DEF Zoned
<1>10. D!Cardinality({i \in DOMAIN stream : stream[i][1] = "Page"}) = sheets
  BY DumpedPages
<1>11. D!Header[2] = <<"Pages", ToString(D!Cardinality({i \in DOMAIN stream : stream[i][1] = "Page"})), "">>
  BY <1>9, <1>10, Zenon
<1>12. QED
  BY <1>5, <1>8, <1>11, Zenon

LEMMA DiversionKeeps ==
  ASSUME D!DiversionAssumption, part = "diversion" => DivInv,
         [DocumentsNext]_<<part, vars, resourcesVars, diversionVars>>, part' = "diversion"
  PROVE  DivInv'
<1>1. CASE part = "diversion" /\ D!Next
  BY <1>1, DivNext
<1>2. CASE UNCHANGED <<part, vars, resourcesVars, diversionVars>>
  <2>1. UNCHANGED <<outs, resources, labels, sheets, phase, steps, stream, written>> /\ part = "diversion"
    BY <1>2 DEF resourcesVars, diversionVars
  <2>2. QED
    BY <2>1, DivKept
<1>3. QED
  BY <1>1, <1>2 DEF DocumentsNext, LibraryNext

(* The document that is sent is what the pages, the prologue and the       *)
(* delegations wrote in the diversion, in their order, whatever was        *)
(* skipped: each hole of the text gets what was asked for at its place,    *)
(* with the labels, the counts, the setup and the encodings of the end,    *)
(* although the holes are nothing but NULs that are counted; and no chunk  *)
(* is written beyond its room (output.c:480-560, dstring.c).               *)
THEOREM DumpFaithfulAlways == DocumentsSpec => []DumpFaithful
<1> DEFINE Inv == part = "diversion" => DivInv
           allVars == <<part, vars, resourcesVars, diversionVars>>
<1>1. D!DiversionAssumption
  BY DocumentsAssumption
<1>2. DocumentsInit => Inv
  BY <1>1, DivInit DEF DocumentsInit
<1>3. Inv /\ [DocumentsNext]_allVars => Inv'
  BY <1>1, DiversionKeeps
<1>4. Inv => DumpFaithful
  BY <1>1, DiversionTyped, DumpIsOrdered DEF DumpFaithful
<1>5. QED
  BY <1>2, <1>3, <1>4, PTL DEF DocumentsSpec

(* Whatever resources the document asks for, and in whatever order the     *)
(* tables give them, its header names each of them once, under its own     *)
(* comment, and counts the pages that follow it (dsc.c:166-330).           *)
THEOREM HeaderTrueAlways == DocumentsSpec => []HeaderTrue
<1> DEFINE Inv == part = "diversion" => DivInv
           allVars == <<part, vars, resourcesVars, diversionVars>>
<1>1. D!DiversionAssumption
  BY DocumentsAssumption
<1>2. DocumentsInit => Inv
  BY <1>1, DivInit DEF DocumentsInit
<1>3. Inv /\ [DocumentsNext]_allVars => Inv'
  BY <1>1, DiversionKeeps
<1>4. Inv => HeaderTrue
  BY <1>1, HeaderIsTrue DEF HeaderTrue
<1>5. QED
  BY <1>2, <1>3, <1>4, PTL DEF DocumentsSpec
=============================================================================
