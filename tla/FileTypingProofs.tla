-------------------------- MODULE FileTypingProofs --------------------------
(***************************************************************************)
(* Proofs about FileTyping, for any map, any depth of inclusion, any files *)
(* and any sheets.                                                         *)
(*   MapInv    what was read of sheets.map is what its text means          *)
(*   TypedInv  the sample and the type of the file being dealt with        *)
(*   Linked    the calls of get_style_sheet, and what each waits for       *)
(***************************************************************************)
EXTENDS FileTyping, FiniteSetTheorems, SequenceTheorems, FunctionTheorems, WellFoundedInduction,
        NaturalsInduction, TLAPS

-----------------------------------------------------------------------------
(* Induction, and the greatest element of what is bounded, from the order  *)
(* of the natural numbers.                                                 *)
LEMMA Least ==
  ASSUME NEW T \in SUBSET Nat, T # {}
  PROVE  \E i \in T : \A k \in T : i <= k
<1> DEFINE Order == OpToRel(<, Nat)
<1>1. IsWellFoundedOn(Order, Nat)
  BY NatLessThanWellFounded
<1>2. PICK i \in T : \A k \in T : <<k, i>> \notin Order
  <2> HIDE DEF Order
  <2>1. QED
    BY <1>1, WFMin
<1>3. ASSUME NEW k \in T
      PROVE  i <= k
  <2>1. <<k, i>> \notin Order
    BY <1>2
  <2>2. k \in Nat /\ i \in Nat
    OBVIOUS
  <2>3. ~(k < i)
    BY <2>1, <2>2 DEF Order, OpToRel
  <2>4. QED
    BY <2>2, <2>3
<1>4. QED
  BY <1>3

LEMMA Induction ==
  ASSUME NEW n \in Nat, NEW T, 0 \in T, \A i \in 1 .. n : i - 1 \in T => i \in T
  PROVE  \A i \in 0 .. n : i \in T
<1> DEFINE S == {i \in 0 .. n : i \notin T}
<1>1. SUFFICES ASSUME S # {}
               PROVE  FALSE
  OBVIOUS
<1>2. S \in SUBSET Nat
  OBVIOUS
<1>3. PICK i \in S : \A k \in S : i <= k
  <2> HIDE DEF S
  <2>1. QED
    BY <1>1, <1>2, Least
<1>4. i \in 1 .. n /\ i - 1 \in 0 .. n /\ ~(i <= i - 1)
  BY <1>3
<1>5. i - 1 \in T
  BY <1>3, <1>4
<1>6. QED
  BY <1>3, <1>4, <1>5

-----------------------------------------------------------------------------
(* Sequences joined one after the other, prefix by prefix.                 *)
Joins(g, s) == g[0] = << >> /\ \A i \in 1 .. Len(s) : g[i] = g[i - 1] \o s[i]

LEMMA JoinsIn ==
  ASSUME NEW S, NEW s \in Seq(Seq(S)), NEW g, Joins(g, s)
  PROVE  \A i \in 0 .. Len(s) : g[i] \in Seq(S)
<1> DEFINE n == Len(s)
           T == {i \in 0 .. n : g[i] \in Seq(S)}
<1>1. n \in Nat /\ \A i \in 1 .. n : s[i] \in Seq(S)
  OBVIOUS
<1>2. 0 \in T
  <2>1. 0 \in 0 .. n /\ << >> \in Seq(S) /\ g[0] = << >>
    BY <1>1 DEF Joins
  <2>2. QED
    BY <2>1
<1>3. ASSUME NEW i \in 1 .. n, i - 1 \in T
      PROVE  i \in T
  <2>1. g[i] = g[i - 1] \o s[i] /\ g[i - 1] \in Seq(S) /\ s[i] \in Seq(S)
    BY <1>1, <1>3 DEF Joins
  <2>2. g[i] \in Seq(S)
    BY <2>1, ConcatProperties
  <2>3. QED
    BY <2>2
<1> HIDE DEF n, T
<1>4. \A i \in 0 .. n : i \in T
  BY <1>1, <1>2, <1>3, Induction
<1>5. QED
  BY <1>4 DEF n, T

LEMMA Joined ==
  ASSUME NEW S, NEW s \in Seq(Seq(S))
  PROVE  \E g : Joins(g, s) /\ g[Len(s)] = M!FlattenSeq(s)
<1> DEFINE n == Len(s)
           Is(f, m) == f = [i \in 1 .. m |-> IF i = 1 THEN s[i] ELSE f[i - 1] \o s[i]]
           T == {m \in 0 .. n : \E f : Is(f, m)}
<1>0. n \in Nat /\ \A m \in 0 .. n : (\E f : Is(f, m)) => m \in T
  <2>1. n \in Nat
    OBVIOUS
  <2>2. \A m \in 0 .. n : (\E f : Is(f, m)) => m \in T
    <3> HIDE DEF Is, n
    <3>1. QED
      OBVIOUS
  <2>3. QED
    BY <2>1, <2>2
<1>1. 0 \in T
  <2> DEFINE f == [i \in 1 .. 0 |-> s[i]]
  <2>1. Is(f, 0)
    OBVIOUS
  <2>2. 0 \in 0 .. n
    BY <1>0
  <2> HIDE DEF Is, f, T
  <2>3. QED
    BY <1>0, <2>1, <2>2
<1>2. ASSUME NEW m \in 1 .. n, m - 1 \in T
      PROVE  m \in T
  <2>1. PICK f : Is(f, m - 1)
    BY <1>2
  <2> DEFINE h == [i \in 1 .. m |-> IF i = m THEN (IF m = 1 THEN s[m] ELSE f[m - 1] \o s[m]) ELSE f[i]]
  <2>2. \A i \in 1 .. m : h[i] = IF i = 1 THEN s[i] ELSE h[i - 1] \o s[i]
    <3>1. \A i \in 1 .. m - 1 : f[i] = IF i = 1 THEN s[i] ELSE f[i - 1] \o s[i]
      BY <2>1
    <3>2. \A i \in 1 .. m : i = m \/ (i \in 1 .. m - 1 /\ (i = 1 \/ i - 1 \in 1 .. m - 1) /\ i # m /\ i - 1 # m)
      OBVIOUS
    <3>3. m - 1 # m /\ m \in 1 .. m /\ (m # 1 => m - 1 \in 1 .. m)
      OBVIOUS
    <3>4. \A i \in 1 .. m - 1 : i \in 1 .. m
      OBVIOUS
    <3>5. QED
      BY <3>1, <3>2, <3>3, <3>4
  <2>3. Is(h, m)
    <3>1. h = [i \in 1 .. m |-> h[i]]
      OBVIOUS
    <3> HIDE DEF h
    <3>2. QED
      BY <2>2, <3>1
  <2>4. m \in 0 .. n
    OBVIOUS
  <2> HIDE DEF Is, h, T
  <2>5. QED
    BY <1>0, <2>3, <2>4
<1>3. n \in T
  <2> HIDE DEF T, n
  <2>1. \A i \in 0 .. n : i \in T
    BY <1>0, <1>1, <1>2, Induction
  <2>2. QED
    BY <1>0, <2>1
<1> DEFINE f == CHOOSE f : Is(f, n)
           g == [i \in 0 .. n |-> IF i = 0 THEN << >> ELSE f[i]]
<1>4. Is(f, n)
  <2>1. \E h : Is(h, n)
    BY <1>3
  <2> HIDE DEF Is
  <2>2. QED
    BY <2>1
<1>5. M!FlattenSeq(s) = IF n = 0 THEN s ELSE f[n]
  BY DEF M!FlattenSeq
<1> HIDE DEF f
<1>6. \A i \in 1 .. n : f[i] = IF i = 1 THEN s[i] ELSE f[i - 1] \o s[i]
  BY <1>4
<1>7. \A i \in 1 .. n : s[i] \in Seq(S)
  OBVIOUS
<1>8. Joins(g, s)
  <2>1. g[0] = << >> /\ \A i \in 1 .. n : g[i] = f[i]
    BY <1>0
  <2>2. ASSUME NEW i \in 1 .. n
        PROVE  g[i] = g[i - 1] \o s[i]
    <3>1. CASE i = 1
      <4>1. g[i] = s[i] /\ g[i - 1] = << >>
        BY <1>6, <2>1, <2>2, <3>1
      <4>2. << >> \o s[i] = s[i]
        BY <1>7, <2>2, ConcatEmptySeq
      <4>3. QED
        BY <4>1, <4>2
    <3>2. CASE i # 1
      <4>1. i - 1 \in 1 .. n
        BY <2>2, <3>2
      <4> HIDE DEF g
      <4>2. QED
        BY <1>6, <2>1, <2>2, <3>2, <4>1
    <3>3. QED
      BY <3>1, <3>2
  <2> HIDE DEF g
  <2>3. QED
    BY <2>1, <2>2 DEF Joins
<1>9. g[n] = M!FlattenSeq(s)
  <2>1. CASE n = 0
    <3>1. s = << >>
      BY <2>1
    <3>2. QED
      BY <1>5, <2>1, <3>1
  <2>2. CASE n # 0
    BY <1>0, <1>5, <2>2
  <2>3. QED
    BY <2>1, <2>2
<1> HIDE DEF g
<1>10. QED
  BY <1>8, <1>9


(* Where each of the sequences begins in what they make together.          *)
Placing(st, s, w) ==
  /\ st \in [1 .. Len(s) + 1 -> Nat] /\ st[1] = 0 /\ st[Len(s) + 1] = Len(w)
  /\ \A i \in 1 .. Len(s) :
       /\ st[i + 1] = st[i] + Len(s[i]) /\ st[i + 1] <= Len(w)
       /\ \A k \in 1 .. Len(s[i]) : w[st[i] + k] = s[i][k]

LEMMA JoinsGrow ==
  ASSUME NEW S, NEW s \in Seq(Seq(S)), NEW g, Joins(g, s), NEW i \in 0 .. Len(s)
  PROVE  \A j \in i .. Len(s) : /\ Len(g[i]) <= Len(g[j])
                                /\ \A k \in 1 .. Len(g[i]) : g[j][k] = g[i][k]
<1> DEFINE n == Len(s)
           Grown(j) == Len(g[i]) <= Len(g[j]) /\ \A k \in 1 .. Len(g[i]) : g[j][k] = g[i][k]
           T == {j \in 0 .. n : j >= i => Grown(j)}
<1>1. n \in Nat /\ \A j \in 1 .. n : s[j] \in Seq(S)
  OBVIOUS
<1>2. \A j \in 0 .. n : g[j] \in Seq(S)
  BY JoinsIn
<1>3. Grown(i)
  BY <1>2
<1>4. 0 \in T
  <2>1. 0 >= i => i = 0
    BY <1>1
  <2> HIDE DEF Grown
  <2>2. QED
    BY <1>1, <1>3, <2>1
<1>5. ASSUME NEW j \in 1 .. n, j - 1 \in T
      PROVE  j \in T
  <2>1. CASE j <= i
    <3>1. j >= i => j = i
      BY <1>1, <2>1
    <3> HIDE DEF Grown
    <3>2. QED
      BY <1>3, <3>1
  <2>2. CASE ~(j <= i)
    <3>1. j - 1 >= i /\ j - 1 \in 0 .. n /\ j \in 0 .. n
      BY <1>1, <2>2
    <3>2. Grown(j - 1)
      BY <1>5, <3>1
    <3>3. g[j] = g[j - 1] \o s[j]
      BY DEF Joins
    <3> DEFINE a == g[j - 1]
               b == s[j]
    <3>4. a \in Seq(S) /\ b \in Seq(S) /\ g[i] \in Seq(S)
      BY <1>1, <1>2, <3>1
    <3>5. Len(g[i]) <= Len(a) /\ (\A k \in 1 .. Len(g[i]) : a[k] = g[i][k]) /\ g[j] = a \o b
      BY <3>2, <3>3
    <3> HIDE DEF a, b
    <3>6. Len(a \o b) = Len(a) + Len(b) /\ \A k \in 1 .. Len(a) : (a \o b)[k] = a[k]
      BY <3>4, ConcatProperties
    <3>7. Grown(j)
      BY <3>4, <3>5, <3>6
    <3> HIDE DEF Grown
    <3>8. QED
      BY <3>1, <3>7
  <2>3. QED
    BY <2>1, <2>2
<1> HIDE DEF n, T
<1>6. \A j \in 0 .. n : j \in T
  BY <1>1, <1>4, <1>5, Induction
<1>7. QED
  <2>1. \A j \in i .. n : j \in 0 .. n /\ j >= i
    BY <1>1 DEF n
  <2> HIDE DEF Grown
  <2>2. \A j \in i .. n : Grown(j)
    BY <1>6, <2>1 DEF T
  <2>3. QED
    BY <2>2 DEF Grown, n

LEMMA Placed ==
  ASSUME NEW S, NEW s \in Seq(Seq(S))
  PROVE  M!FlattenSeq(s) \in Seq(S) /\ \E st : Placing(st, s, M!FlattenSeq(s))
<1> DEFINE n == Len(s)
           w == M!FlattenSeq(s)
<1>1. PICK g : Joins(g, s) /\ g[n] = w
  BY Joined
<1>2. \A i \in 0 .. n : g[i] \in Seq(S)
  BY <1>1, JoinsIn
<1>3. n \in Nat /\ \A i \in 1 .. n : s[i] \in Seq(S)
  OBVIOUS
<1> DEFINE st == [i \in 1 .. n + 1 |-> Len(g[i - 1])]
<1>4. st \in [1 .. n + 1 -> Nat] /\ st[1] = 0 /\ st[n + 1] = Len(w)
  <2>1. \A i \in 1 .. n + 1 : i - 1 \in 0 .. n
    BY <1>3
  <2>2. \A i \in 1 .. n + 1 : Len(g[i - 1]) \in Nat
    BY <1>2, <2>1
  <2>3. g[0] = << >> /\ 1 \in 1 .. n + 1 /\ n + 1 \in 1 .. n + 1 /\ (n + 1) - 1 = n /\ 1 - 1 = 0
    BY <1>1, <1>3 DEF Joins
  <2> HIDE DEF w, n
  <2>4. QED
    BY <1>1, <2>2, <2>3
<1>5. ASSUME NEW i \in 1 .. n
      PROVE  /\ st[i + 1] = st[i] + Len(s[i]) /\ st[i + 1] <= Len(w)
             /\ \A k \in 1 .. Len(s[i]) : w[st[i] + k] = s[i][k]
  <2> DEFINE a == g[i - 1]
             b == s[i]
  <2>1. i \in 0 .. n /\ i - 1 \in 0 .. n /\ i + 1 \in 1 .. n + 1 /\ i \in 1 .. n + 1 /\ (i + 1) - 1 = i
        /\ n \in i .. n
    BY <1>3, <1>5
  <2>2. a \in Seq(S) /\ b \in Seq(S) /\ g[i] = a \o b
    BY <1>1, <1>2, <1>3, <2>1 DEF Joins
  <2>3. st[i + 1] = Len(g[i]) /\ st[i] = Len(a)
    BY <2>1
  <2>4. Len(g[i]) <= Len(w) /\ \A k \in 1 .. Len(g[i]) : w[k] = g[i][k]
    <3>1. \A j \in i .. n : /\ Len(g[i]) <= Len(g[j])
                             /\ \A k \in 1 .. Len(g[i]) : g[j][k] = g[i][k]
      <4>1. Joins(g, s)
        BY <1>1
      <4>2. QED
        BY <4>1, <2>1, JoinsGrow
    <3> HIDE DEF n, w
    <3>2. QED
      BY <1>1, <2>1, <3>1
  <2> HIDE DEF a, b, st, w, n
  <2>5. Len(a \o b) = Len(a) + Len(b) /\ \A k \in 1 .. Len(b) : (a \o b)[Len(a) + k] = b[k]
    BY <2>2, ConcatProperties
  <2>6. \A k \in 1 .. Len(b) : Len(a) + k \in 1 .. Len(a) + Len(b)
    BY <2>2
  <2>7. st[i + 1] = st[i] + Len(b) /\ st[i + 1] <= Len(w)
        /\ \A k \in 1 .. Len(b) : w[st[i] + k] = b[k]
    BY <2>2, <2>3, <2>4, <2>5, <2>6
  <2>8. QED
    BY <2>7 DEF b
<1> HIDE DEF st
<1>6. Placing(st, s, w)
  BY <1>4, <1>5 DEF Placing
<1>7. w \in Seq(S)
  BY <1>1, <1>2, <1>3
<1>8. QED
  BY <1>6, <1>7

-----------------------------------------------------------------------------
(* The map with its inclusions in place, depth by depth.                   *)
Below(map, d) == IF d = 0 THEN << >> ELSE M!Expansions(map)[d - 1]
Expanded(map, d, f) == M!Expansions(map)[d][f]
PiecesOf(map, d, f) == M!Pieces(map[f], Below(map, d))

LEMMA ExpansionsUnfold ==
  ASSUME NEW map
  PROVE  \A d \in 0 .. Depth :
           M!Expansions(map)[d] = [f \in DOMAIN map |-> M!FlattenSeq(PiecesOf(map, d, f))]
<1>0. Depth \in Nat
  BY FileTypingAssumption
<1> DEFINE StepOf(deeper) == [f \in DOMAIN map |-> M!FlattenSeq(M!Pieces(map[f], deeper))]
           Is(e, m) == e = [d \in 0 .. m |-> StepOf(IF d = 0 THEN << >> ELSE e[d - 1])]
           T == {m \in 0 .. Depth : \E e : Is(e, m)}
<1> HIDE DEF StepOf
<1>1. \A m \in 0 .. Depth : (\E e : Is(e, m)) => m \in T
  <2> HIDE DEF Is
  <2>1. QED
    OBVIOUS
<1>2. 0 \in T
  <2> DEFINE e == [d \in 0 .. 0 |-> StepOf(<< >>)]
  <2>1. Is(e, 0)
    OBVIOUS
  <2>2. 0 \in 0 .. Depth
    BY <1>0
  <2> HIDE DEF Is, e, T
  <2>3. QED
    BY <1>1, <2>1, <2>2
<1>3. ASSUME NEW m \in 1 .. Depth, m - 1 \in T
      PROVE  m \in T
  <2>1. PICK e : Is(e, m - 1)
    BY <1>3
  <2> DEFINE h == [d \in 0 .. m |-> IF d = m THEN StepOf(e[m - 1]) ELSE e[d]]
  <2>2. \A d \in 0 .. m : h[d] = StepOf(IF d = 0 THEN << >> ELSE h[d - 1])
    <3>1. \A d \in 0 .. m - 1 : e[d] = StepOf(IF d = 0 THEN << >> ELSE e[d - 1])
      BY <2>1
    <3>2. \A d \in 0 .. m : d = m \/ (d \in 0 .. m - 1 /\ (d = 0 \/ d - 1 \in 0 .. m) /\ d # m /\ d - 1 # m)
      BY <1>0
    <3>3. m - 1 # m /\ m \in 0 .. m /\ m - 1 \in 0 .. m /\ m # 0
      BY <1>0
    <3>4. \A d \in 0 .. m - 1 : d \in 0 .. m
      BY <1>0
    <3>5. ASSUME NEW d \in 0 .. m
          PROVE  h[d] = StepOf(IF d = 0 THEN << >> ELSE h[d - 1])
      <4>1. CASE d = m
        BY <3>3, <4>1
      <4>2. CASE d # m /\ d = 0
        <5>1. h[d] = e[d] /\ d \in 0 .. m - 1
          BY <3>2, <4>2
        <5> HIDE DEF h
        <5>2. QED
          BY <3>1, <4>2, <5>1
      <4>3. CASE d # m /\ d # 0
        <5>1. h[d] = e[d] /\ d \in 0 .. m - 1 /\ h[d - 1] = e[d - 1]
          BY <3>2, <4>3
        <5> HIDE DEF h
        <5>2. QED
          BY <3>1, <4>3, <5>1
      <4>4. QED
        BY <4>1, <4>2, <4>3
    <3>6. QED
      BY <3>5
  <2>3. Is(h, m)
    <3>1. h = [d \in 0 .. m |-> h[d]]
      OBVIOUS
    <3> HIDE DEF h
    <3>2. QED
      BY <2>2, <3>1
  <2>4. m \in 0 .. Depth
    OBVIOUS
  <2> HIDE DEF Is, h, T
  <2>5. QED
    BY <1>1, <2>3, <2>4
<1>4. Depth \in T
  <2> HIDE DEF T
  <2>1. \A i \in 0 .. Depth : i \in T
    BY <1>0, <1>2, <1>3, Induction
  <2>2. QED
    BY <1>0, <2>1
<1> DEFINE all == CHOOSE e : Is(e, Depth)
<1>5. Is(all, Depth)
  <2>1. \E e : Is(e, Depth)
    BY <1>4
  <2> HIDE DEF Is
  <2>2. QED
    BY <2>1
<1>6. M!Expansions(map) = all
  BY DEF M!Expansions, StepOf
<1> HIDE DEF all
<1>7. \A d \in 0 .. Depth : all[d] = StepOf(IF d = 0 THEN << >> ELSE all[d - 1])
  BY <1>5
<1>8. QED
  BY <1>6, <1>7 DEF PiecesOf, Below, StepOf

Mistake == [is |-> "error"]
TextOf(map) == UNION {M!ToSet(map[f]) : f \in DOMAIN map}
Tokens(map) == TextOf(map) \cup {Mistake}

(* All that is expanded is made of what the files say.                     *)
LEMMA ExpansionsIn ==
  ASSUME NEW map, M!Written(map)
  PROVE  \A d \in 0 .. Depth : \A f \in DOMAIN map :
           /\ PiecesOf(map, d, f) \in Seq(Seq(Tokens(map)))
           /\ Expanded(map, d, f) = M!FlattenSeq(PiecesOf(map, d, f))
           /\ Expanded(map, d, f) \in Seq(Tokens(map))
<1>0. Depth \in Nat
  BY FileTypingAssumption
<1> DEFINE Q == Tokens(map)
           Fine(d, f) == /\ PiecesOf(map, d, f) \in Seq(Seq(Q))
                         /\ Expanded(map, d, f) = M!FlattenSeq(PiecesOf(map, d, f))
                         /\ Expanded(map, d, f) \in Seq(Q)
           T == {d \in 0 .. Depth : \A f \in DOMAIN map : Fine(d, f)}
<1>1. \A f \in DOMAIN map : map[f] \in Seq(Q)
  <2>1. ASSUME NEW f \in DOMAIN map
        PROVE  map[f] \in Seq(Q)
    <3>1. map[f] \in Seq(M!ToSet(map[f]))
      BY DEF M!Written
    <3>2. M!ToSet(map[f]) \subseteq Q
      BY DEF Tokens, TextOf
    <3> HIDE DEF Q
    <3>3. QED
      BY <3>1, <3>2
  <2>2. QED
    BY <2>1
<1>2. Mistake \in Q
  BY DEF Tokens
<1> HIDE DEF Q
<1>3. ASSUME NEW d \in 0 .. Depth, d = 0 \/ d - 1 \in T, NEW f \in DOMAIN map
      PROVE  Fine(d, f)
  <2> DEFINE toks == map[f]
             deeper == Below(map, d)
  <2>1. \A g \in DOMAIN deeper : deeper[g] \in Seq(Q)
    <3>1. CASE d = 0
      <4>1. deeper = << >>
        BY <3>1 DEF Below
      <4>2. DOMAIN << >> = {}
        OBVIOUS
      <4> HIDE DEF deeper
      <4>3. QED
        BY <4>1, <4>2
    <3>2. CASE d # 0
      <4>1. d - 1 \in 0 .. Depth /\ deeper = M!Expansions(map)[d - 1]
        BY <1>0, <3>2 DEF Below
      <4>2. DOMAIN deeper = DOMAIN map
        <5>1. M!Expansions(map)[d - 1] = [g \in DOMAIN map |-> M!FlattenSeq(PiecesOf(map, d - 1, g))]
          BY <4>1, ExpansionsUnfold
        <5> HIDE DEF deeper
        <5>2. QED
          BY <4>1, <5>1
      <4>3. \A g \in DOMAIN map : M!Expansions(map)[d - 1][g] \in Seq(Q)
        BY <1>3, <3>2 DEF Expanded
      <4> HIDE DEF deeper
      <4>4. QED
        BY <4>1, <4>2, <4>3
    <3>3. QED
      BY <3>1, <3>2
  <2>2. toks \in Seq(Q)
    BY <1>1
  <2> HIDE DEF toks, deeper
  <2>3. \A i \in 1 .. Len(toks) : toks[i] \in Q /\ <<toks[i]>> \in Seq(Q)
    BY <2>2
  <2>4. <<Mistake>> \in Seq(Q)
    BY <1>2
  <2>5. \A i \in 1 .. Len(toks) : M!Spliced(toks[i], deeper) \in Seq(Q)
    BY <2>1, <2>3, <2>4 DEF M!Spliced, Mistake
  <2>6. DOMAIN toks = 1 .. Len(toks) /\ Len(toks) \in Nat
    BY <2>2
  <2> DEFINE P == M!Pieces(toks, deeper)
             R == Seq(Q)
  <2>7. P = [i \in 1 .. Len(toks) |-> M!Spliced(toks[i], deeper)]
    BY <2>6 DEF M!Pieces
  <2>8. P \in Seq(R)
    <3> HIDE DEF P, R
    <3>1. \A i \in 1 .. Len(toks) : M!Spliced(toks[i], deeper) \in R
      BY <2>5 DEF R
    <3>2. P \in [1 .. Len(toks) -> R]
      BY <2>7, <3>1
    <3>3. QED
      BY <2>6, <3>2
  <2>9. M!FlattenSeq(P) \in Seq(Q)
    <3> HIDE DEF P
    <3>1. QED
      BY <2>8, Placed
  <2>10. PiecesOf(map, d, f) = P
    BY DEF PiecesOf, toks, deeper
  <2>11. Expanded(map, d, f) = M!FlattenSeq(PiecesOf(map, d, f))
    <3>1. M!Expansions(map)[d] = [g \in DOMAIN map |-> M!FlattenSeq(PiecesOf(map, d, g))]
      BY ExpansionsUnfold
    <3>2. QED
      BY <3>1 DEF Expanded
  <2> HIDE DEF P
  <2>12. QED
    BY <2>8, <2>9, <2>10, <2>11
<1> HIDE DEF Fine
<1>4. 0 \in T
  BY <1>0, <1>3
<1>5. \A d \in 1 .. Depth : d - 1 \in T => d \in T
  <2>1. \A d \in 1 .. Depth : d \in 0 .. Depth
    BY <1>0
  <2>2. QED
    BY <1>3, <2>1
<1> HIDE DEF T
<1>6. \A d \in 0 .. Depth : d \in T
  BY <1>0, <1>4, <1>5, Induction
<1>7. QED
  BY <1>6 DEF T, Fine, Q

-----------------------------------------------------------------------------
(* What the tokens mean, as they are read.                                 *)
LEMMA SameCount ==
  ASSUME NEW S
  PROVE  M!Cardinality(S) = Cardinality(S)
BY DEF M!Cardinality, Cardinality

Keyed(E) == \A i \in 1 .. Len(E) : E[i].is = "key" => E[i].key # M!NoKey

RulesTo(E, n) == M!RulesIn(E) \cap 1 .. n

ReadTo(E, n, rs, k) ==
  /\ n \in 0 .. Len(E)
  /\ \A i \in 1 .. n : i \notin M!WrongIn(E)
  /\ M!KeysBefore(E, n) = {} => k = M!NoKey
  /\ M!KeysBefore(E, n) # {} => k = E[M!Max(M!KeysBefore(E, n))].key /\ k # M!NoKey
  /\ rs = [j \in 1 .. Cardinality(RulesTo(E, n)) |-> M!RuleAt(E, M!Nth(M!RulesIn(E), j))]

LEMMA RulesCounted ==
  ASSUME NEW E, NEW n \in Nat
  PROVE  IsFiniteSet(RulesTo(E, n)) /\ Cardinality(RulesTo(E, n)) \in Nat
<1>1. RulesTo(E, n) \subseteq 1 .. n /\ IsFiniteSet(1 .. n)
  BY FS_Interval DEF RulesTo
<1>2. QED
  <2>1. IsFiniteSet(RulesTo(E, n))
    BY <1>1, FS_Subset
  <2>2. QED
    BY <2>1, FS_CardinalityType

LEMMA ReadsNothing ==
  ASSUME NEW S, NEW E \in Seq(S)
  PROVE  ReadTo(E, 0, << >>, M!NoKey)
<1>1. RulesTo(E, 0) = {}
  BY DEF RulesTo
<1>2. Cardinality(RulesTo(E, 0)) = 0
  BY <1>1, FS_EmptySet
<1>3. M!KeysBefore(E, 0) = {}
  BY DEF M!KeysBefore
<1>4. << >> = [j \in 1 .. 0 |-> M!RuleAt(E, M!Nth(M!RulesIn(E), j))]
  OBVIOUS
<1>5. 0 \in 0 .. Len(E)
  OBVIOUS
<1>6. QED
  BY <1>2, <1>3, <1>4, <1>5 DEF ReadTo

(* The keys, one token later.                                              *)
LEMMA NoMoreKeys ==
  ASSUME NEW E, NEW n \in Nat, E[n + 1].is # "key"
  PROVE  M!KeysBefore(E, n + 1) = M!KeysBefore(E, n)
<1>1. \A j \in 1 .. n + 1 : j = n + 1 \/ j \in 1 .. n
  OBVIOUS
<1>2. \A j \in 1 .. n : j \in 1 .. n + 1
  OBVIOUS
<1> DEFINE m == n + 1
<1> HIDE DEF m
<1>3. M!KeysBefore(E, m) = M!KeysBefore(E, n)
  BY <1>1, <1>2 DEF M!KeysBefore, m
<1>4. QED
  BY <1>3 DEF m

LEMMA OneMoreKey ==
  ASSUME NEW E, NEW n \in Nat, E[n + 1].is = "key"
  PROVE  M!KeysBefore(E, n + 1) # {} /\ M!Max(M!KeysBefore(E, n + 1)) = n + 1
<1> DEFINE m == n + 1
           K == M!KeysBefore(E, m)
<1>1. m \in 1 .. m /\ \A j \in 1 .. m : m >= j
  OBVIOUS
<1>2. m \in K /\ \A j \in K : m >= j
  BY <1>1 DEF M!KeysBefore
<1>3. \A y \in K : (\A j \in K : y >= j) => y = m
  <2>1. \A y \in K : y \in 1 .. m
    BY DEF M!KeysBefore
  <2> HIDE DEF K
  <2>2. QED
    BY <1>1, <1>2, <2>1
<1> HIDE DEF K, m
<1>4. M!Max(K) = m
  BY <1>2, <1>3 DEF M!Max
<1>5. QED
  BY <1>2, <1>4 DEF K, m

LEMMA ReadsKey ==
  ASSUME NEW S, NEW E \in Seq(S), NEW n, NEW rs, NEW k, ReadTo(E, n, rs, k), Keyed(E),
         n + 1 <= Len(E), E[n + 1].is = "key"
  PROVE  ReadTo(E, n + 1, rs, E[n + 1].key)
<1>1. n \in Nat /\ n + 1 \in 0 .. Len(E) /\ n + 1 \in 1 .. Len(E)
  BY DEF ReadTo
<1>2. M!KeysBefore(E, n + 1) # {} /\ M!Max(M!KeysBefore(E, n + 1)) = n + 1 /\ E[n + 1].key # M!NoKey
  BY <1>1, OneMoreKey DEF Keyed
<1>3. n + 1 \notin M!RulesIn(E) /\ n + 1 \notin M!WrongIn(E)
  BY DEF M!RulesIn, M!WrongIn
<1>4. RulesTo(E, n + 1) = RulesTo(E, n)
  <2>1. \A j \in 1 .. n + 1 : j = n + 1 \/ j \in 1 .. n
    BY <1>1
  <2>2. \A j \in 1 .. n : j \in 1 .. n + 1
    BY <1>1
  <2>3. QED
    BY <1>3, <2>1, <2>2 DEF RulesTo
<1>5. \A i \in 1 .. n + 1 : i \notin M!WrongIn(E)
  <2>1. \A i \in 1 .. n + 1 : i = n + 1 \/ i \in 1 .. n
    BY <1>1
  <2>2. QED
    BY <1>3, <2>1 DEF ReadTo
<1>6. QED
  BY <1>1, <1>2, <1>4, <1>5 DEF ReadTo

(* Which of the rules the next one is.                                     *)
LEMMA NthNext ==
  ASSUME NEW S, NEW E \in Seq(S), NEW n \in Nat, n + 1 \in M!RulesIn(E)
  PROVE  /\ Cardinality(RulesTo(E, n + 1)) = Cardinality(RulesTo(E, n)) + 1
         /\ M!Nth(M!RulesIn(E), Cardinality(RulesTo(E, n)) + 1) = n + 1
<1> DEFINE R == M!RulesIn(E)
           c == Cardinality(RulesTo(E, n))
           Upto(i) == {j \in R : j <= i}
<1>1. R \subseteq 1 .. Len(E) /\ Len(E) \in Nat
  BY DEF M!RulesIn
<1>2. \A i \in Nat : Upto(i) = RulesTo(E, i)
  <2>1. \A j \in R : j \in Nat \ {0}
    BY <1>1
  <2>2. ASSUME NEW i \in Nat
        PROVE  Upto(i) = RulesTo(E, i)
    <3>1. \A j \in R : j <= i <=> j \in 1 .. i
      BY <2>1
    <3>2. QED
      BY <3>1 DEF RulesTo
  <2>3. QED
    BY <2>2
<1>3. IsFiniteSet(RulesTo(E, n)) /\ c \in Nat
  BY RulesCounted
<1>4. RulesTo(E, n + 1) = RulesTo(E, n) \cup {n + 1} /\ n + 1 \notin RulesTo(E, n)
  <2>1. (\A j \in 1 .. n + 1 : j = n + 1 \/ j \in 1 .. n) /\ n + 1 \notin 1 .. n
    OBVIOUS
  <2>2. (\A j \in 1 .. n : j \in 1 .. n + 1) /\ n + 1 \in 1 .. n + 1
    OBVIOUS
  <2>3. QED
    BY <2>1, <2>2 DEF RulesTo
<1>5. Cardinality(RulesTo(E, n + 1)) = c + 1
  BY <1>3, <1>4, FS_AddElement
<1>6. Cardinality(Upto(n + 1)) = c + 1
  <2>1. n + 1 \in Nat
    OBVIOUS
  <2> HIDE DEF Upto, c
  <2>2. QED
    BY <1>2, <1>5, <2>1
<1>7. ASSUME NEW i \in R, Cardinality(Upto(i)) = c + 1
      PROVE  i = n + 1
  <2>1. i \in Nat
    BY <1>1
  <2>2. CASE i <= n
    <3>1. RulesTo(E, i) \subseteq RulesTo(E, n)
      <4>1. \A j \in 1 .. i : j \in 1 .. n
        BY <2>1, <2>2
      <4>2. QED
        BY <4>1 DEF RulesTo
    <3>2. Cardinality(RulesTo(E, i)) <= c /\ Cardinality(RulesTo(E, i)) \in Nat
      BY <1>3, <2>1, <3>1, FS_Subset, RulesCounted
    <3>3. Cardinality(RulesTo(E, i)) = c + 1
      BY <1>2, <1>7, <2>1
    <3>4. QED
      BY <1>3, <3>2, <3>3
  <2>3. CASE i > n + 1
    <3> DEFINE U == RulesTo(E, n + 1) \cup {i}
    <3>1. U \subseteq RulesTo(E, i)
      <4>1. (\A j \in 1 .. n + 1 : j \in 1 .. i) /\ i \in 1 .. i
        BY <2>1, <2>3
      <4>2. QED
        BY <4>1, <1>7 DEF RulesTo
    <3>2. i \notin RulesTo(E, n + 1)
      <4>1. i \notin 1 .. n + 1
        BY <2>1, <2>3
      <4>2. QED
        BY <4>1 DEF RulesTo
    <3>3. IsFiniteSet(RulesTo(E, n + 1)) /\ IsFiniteSet(RulesTo(E, i))
      <4>1. n + 1 \in Nat
        OBVIOUS
      <4>2. QED
        BY <2>1, <4>1, RulesCounted
    <3>4. Cardinality(U) = c + 1 + 1
      <4>1. Cardinality(U) = Cardinality(RulesTo(E, n + 1)) + 1
        BY <3>2, <3>3, FS_AddElement
      <4>2. QED
        BY <1>5, <4>1
    <3> HIDE DEF U
    <3>5. Cardinality(U) <= Cardinality(RulesTo(E, i))
      BY <3>1, <3>3, FS_Subset
    <3>6. Cardinality(RulesTo(E, i)) = c + 1
      BY <1>2, <1>7, <2>1
    <3> HIDE DEF c
    <3>7. QED
      BY <1>3, <3>4, <3>5, <3>6
  <2>4. QED
    BY <2>1, <2>2, <2>3
<1>8. M!Nth(R, c + 1) = CHOOSE i \in R : Cardinality(Upto(i)) = c + 1
  BY SameCount DEF M!Nth
<1> HIDE DEF Upto, R, c
<1>9. n + 1 \in R
  BY DEF R
<1>10. M!Nth(R, c + 1) = n + 1
  BY <1>6, <1>7, <1>8, <1>9
<1>11. QED
  BY <1>5, <1>10 DEF R, c

LEMMA ReadsRule ==
  ASSUME NEW S, NEW E \in Seq(S), NEW n, NEW rs, NEW k, ReadTo(E, n, rs, k),
         n + 1 <= Len(E), E[n + 1].is \in {"name", "file"}, k # M!NoKey
  PROVE  ReadTo(E, n + 1, Append(rs, M!RuleOf(E[n + 1], k)), k)
<1> DEFINE R == M!RulesIn(E)
           c == Cardinality(RulesTo(E, n))
<1>1. n \in Nat /\ n + 1 \in 0 .. Len(E) /\ n + 1 \in 1 .. Len(E)
  BY DEF ReadTo
<1>2. M!KeysBefore(E, n + 1) = M!KeysBefore(E, n)
  BY <1>1, NoMoreKeys
<1>3. M!KeysBefore(E, n) # {} /\ k = E[M!Max(M!KeysBefore(E, n + 1))].key
  BY <1>2 DEF ReadTo
<1>4. n + 1 \in R
  BY <1>1 DEF M!RulesIn
<1>5. n + 1 \notin M!WrongIn(E)
  BY <1>2, <1>3 DEF M!WrongIn
<1>6. \A i \in 1 .. n + 1 : i \notin M!WrongIn(E)
  <2>1. \A i \in 1 .. n + 1 : i = n + 1 \/ i \in 1 .. n
    BY <1>1
  <2>2. QED
    BY <1>5, <2>1 DEF ReadTo
<1>7. Cardinality(RulesTo(E, n + 1)) = c + 1 /\ M!Nth(R, c + 1) = n + 1
  BY <1>1, <1>4, NthNext
<1>8. M!RuleAt(E, n + 1) = M!RuleOf(E[n + 1], k)
  BY <1>3 DEF M!RuleAt
<1>9. c \in Nat
  BY <1>1, RulesCounted
<1> HIDE DEF c, R
<1> DEFINE TheRule(j) == M!RuleAt(E, M!Nth(R, j))
           x == M!RuleOf(E[n + 1], k)
<1>10. rs = [j \in 1 .. c |-> TheRule(j)]
  BY DEF ReadTo, c, R
<1>11. TheRule(c + 1) = x
  BY <1>7, <1>8
<1> HIDE DEF TheRule, x
<1>12. Append(rs, x) = [j \in 1 .. c + 1 |-> TheRule(j)]
  <2> DEFINE V == {TheRule(j) : j \in 1 .. c}
  <2>1. rs \in Seq(V) /\ Len(rs) = c
    BY <1>9, <1>10
  <2> HIDE DEF V
  <2>2. Append(rs, x) = [j \in 1 .. c + 1 |-> IF j <= c THEN rs[j] ELSE x]
    <3> DEFINE W == V \cup {x}
    <3>1. rs \in Seq(W) /\ x \in W
      BY <2>1
    <3> HIDE DEF W
    <3>2. Append(rs, x) \in Seq(W) /\ Len(Append(rs, x)) = c + 1 /\ Append(rs, x)[c + 1] = x
          /\ \A j \in 1 .. c : Append(rs, x)[j] = rs[j]
      BY <2>1, <3>1, <1>9, AppendProperties
    <3>3. \A j \in 1 .. c + 1 : Append(rs, x)[j] = IF j <= c THEN rs[j] ELSE x
      BY <3>2, <1>9
    <3>4. Append(rs, x) = [j \in 1 .. c + 1 |-> Append(rs, x)[j]]
      <4> DEFINE y == Append(rs, x)
      <4>1. y \in Seq(W) /\ Len(y) = c + 1
        BY <3>2
      <4> HIDE DEF y
      <4>2. y = [j \in 1 .. Len(y) |-> y[j]]
        BY <4>1
      <4>3. QED
        BY <4>1, <4>2 DEF y
    <3>5. QED
      BY <3>3, <3>4
  <2>3. \A j \in 1 .. c + 1 : (IF j <= c THEN rs[j] ELSE x) = TheRule(j)
    <3>1. \A j \in 1 .. c + 1 : IF j <= c THEN j \in 1 .. c ELSE j = c + 1
      BY <1>9
    <3>2. QED
      BY <1>10, <1>11, <3>1
  <2>4. QED
    BY <2>2, <2>3
<1>13. Append(rs, x) = [j \in 1 .. Cardinality(RulesTo(E, n + 1)) |-> M!RuleAt(E, M!Nth(R, j))]
  BY <1>7, <1>12 DEF TheRule, c, R
<1>14. M!KeysBefore(E, n + 1) # {}
  BY <1>2, <1>3
<1>15. QED
  BY <1>1, <1>3, <1>6, <1>13, <1>14 DEF ReadTo, R, x

(* What stops the scanner is wrong, and nothing before it is.              *)
LEMMA ReadsWrong ==
  ASSUME NEW S, NEW E \in Seq(S), NEW n, NEW rs, NEW k, ReadTo(E, n, rs, k), n + 1 <= Len(E),
         E[n + 1].is = "error" \/ (E[n + 1].is \in {"name", "file"} /\ k = M!NoKey)
  PROVE  n + 1 \in M!WrongIn(E)
<1>1. n \in Nat /\ n + 1 \in DOMAIN E
  BY DEF ReadTo
<1>2. CASE E[n + 1].is = "error"
  BY <1>1, <1>2 DEF M!WrongIn
<1>3. CASE E[n + 1].is \in {"name", "file"} /\ k = M!NoKey
  <2>1. M!KeysBefore(E, n + 1) = {}
    BY <1>1, <1>3, NoMoreKeys DEF ReadTo
  <2>2. n + 1 \in M!RulesIn(E)
    BY <1>1, <1>3 DEF M!RulesIn
  <2>3. QED
    BY <2>1, <2>2 DEF M!WrongIn
<1>4. QED
  BY <1>2, <1>3

LEMMA ValidFrom ==
  ASSUME NEW S, NEW E \in Seq(S), NEW n, NEW rs, NEW k, ReadTo(E, n, rs, k)
  PROVE  /\ RulesTo(E, n) \subseteq M!Valid(E) /\ IsFiniteSet(M!Valid(E))
         /\ n + 1 \in M!WrongIn(E) \/ n = Len(E) => M!Valid(E) = RulesTo(E, n)
         /\ n = Len(E) => M!WrongIn(E) = {}
<1>1. n \in Nat /\ Len(E) \in Nat /\ n <= Len(E) /\ DOMAIN E = 1 .. Len(E)
  BY DEF ReadTo
<1>2. M!WrongIn(E) \subseteq 1 .. Len(E) /\ M!RulesIn(E) \subseteq 1 .. Len(E)
  BY <1>1 DEF M!WrongIn, M!RulesIn
<1>3. \A j \in M!WrongIn(E) : j \notin 1 .. n
  BY DEF ReadTo
<1>4. \A i \in 1 .. n, j \in M!WrongIn(E) : i < j
  BY <1>1, <1>2, <1>3
<1>5. RulesTo(E, n) \subseteq M!Valid(E)
  BY <1>4 DEF RulesTo, M!Valid
<1>6. IsFiniteSet(M!Valid(E))
  <2>1. M!Valid(E) \subseteq 1 .. Len(E) /\ IsFiniteSet(1 .. Len(E))
    BY <1>1, <1>2, FS_Interval DEF M!Valid
  <2>2. QED
    BY <2>1, FS_Subset
<1>7. ASSUME n + 1 \in M!WrongIn(E)
      PROVE  M!Valid(E) \subseteq RulesTo(E, n)
  <2>1. \A i \in M!Valid(E) : i \in 1 .. Len(E) /\ i < n + 1 /\ i \in M!RulesIn(E)
    BY <1>2, <1>7 DEF M!Valid
  <2>2. \A i \in M!Valid(E) : i \in 1 .. n
    BY <1>1, <2>1
  <2>3. QED
    BY <2>1, <2>2 DEF RulesTo
<1>8. ASSUME n = Len(E)
      PROVE  M!Valid(E) \subseteq RulesTo(E, n) /\ M!WrongIn(E) = {}
  <2>1. \A i \in M!Valid(E) : i \in 1 .. n /\ i \in M!RulesIn(E)
    BY <1>2, <1>8 DEF M!Valid
  <2>2. QED
    BY <1>2, <1>3, <1>8, <2>1 DEF RulesTo
<1>9. QED
  BY <1>5, <1>6, <1>7, <1>8

(* Thus what was read is the beginning of what is meant.                   *)
LEMMA ReadIsMeant ==
  ASSUME NEW S, NEW E \in Seq(S), NEW n, NEW rs, NEW k, ReadTo(E, n, rs, k)
  PROVE  /\ M!IsPrefix(rs, M!Meant(E))
         /\ n + 1 \in M!WrongIn(E) => ~M!Sound(E) /\ rs = M!Meant(E)
         /\ n = Len(E) => M!Sound(E) /\ rs = M!Meant(E)
<1> DEFINE c == Cardinality(RulesTo(E, n))
           v == Cardinality(M!Valid(E))
           TheRule(j) == M!RuleAt(E, M!Nth(M!RulesIn(E), j))
<1>1. c \in Nat /\ v \in Nat /\ c <= v
  <2>1. n \in Nat
    BY DEF ReadTo
  <2>2. QED
    BY <2>1, ValidFrom, RulesCounted, FS_Subset, FS_CardinalityType
<1>2. n + 1 \in M!WrongIn(E) \/ n = Len(E) => c = v
  BY ValidFrom
<1>3. M!Meant(E) = [j \in 1 .. v |-> TheRule(j)]
  BY SameCount DEF M!Meant
<1>4. rs = [j \in 1 .. c |-> TheRule(j)]
  BY DEF ReadTo
<1>5. n + 1 \in M!WrongIn(E) => ~M!Sound(E)
  BY DEF M!Sound
<1>6. n = Len(E) => M!Sound(E)
  BY ValidFrom DEF M!Sound
<1> HIDE DEF c, v, TheRule
<1>7. M!IsPrefix(rs, M!Meant(E))
  <2> DEFINE V == {TheRule(j) : j \in 1 .. v}
             me == M!Meant(E)
  <2>1. \A j \in 1 .. c : j \in 1 .. v
    BY <1>1
  <2>2. rs \in Seq(V) /\ me \in Seq(V) /\ Len(rs) = c /\ Len(me) = v
    BY <1>1, <1>3, <1>4, <2>1
  <2>3. \A j \in 1 .. c : rs[j] = me[j]
    BY <1>3, <1>4, <2>1
  <2> HIDE DEF V, me
  <2>4. SubSeq(rs, 1, c) = [j \in 1 .. c |-> rs[j]] /\ SubSeq(me, 1, c) = [j \in 1 .. c |-> me[j]]
    BY <1>1, <2>2
  <2>5. QED
    BY <1>1, <2>2, <2>3, <2>4 DEF M!IsPrefix, me
<1>8. QED
  BY <1>2, <1>3, <1>4, <1>5, <1>6, <1>7

-----------------------------------------------------------------------------
(* Where the scanner is in the map with its inclusions in place: each file *)
(* of the stack is expanded somewhere in it, one inside the other.         *)
Start(map, d, f) == CHOOSE st : Placing(st, PiecesOf(map, d, f), Expanded(map, d, f))

Within(map, d, f, at) ==
  /\ at + Len(Expanded(map, d, f)) <= Len(M!Expansion(map))
  /\ \A k \in 1 .. Len(Expanded(map, d, f)) : M!Expansion(map)[at + k] = Expanded(map, d, f)[k]

Frame(map) == [file : DOMAIN map, place : Nat \ {0}]

Frames(map, inc) ==
  /\ inc \in Seq(Frame(map)) /\ Len(inc) \in 1 .. Depth + 1 /\ inc[1].file = M!Main
  /\ \A l \in 1 .. Len(inc) : inc[l].place <= Len(map[inc[l].file]) + 1

Length(map, inc, l) == Len(Expanded(map, Depth + 1 - l, inc[l].file))
Place(map, inc, l) == Start(map, Depth + 1 - l, inc[l].file)[inc[l].place]

Stacked(map, inc, o, n) ==
  /\ Frames(map, inc)
  /\ o \in [1 .. Len(inc) -> Nat] /\ o[1] = 0
  /\ \A l \in 1 .. Len(inc) : Within(map, Depth + 1 - l, inc[l].file, o[l])
  /\ \A l \in 1 .. Len(inc) - 1 : o[l] + Place(map, inc, l) = o[l + 1] + Length(map, inc, l + 1)
  /\ n = o[Len(inc)] + Place(map, inc, Len(inc))

LEMMA Starts ==
  ASSUME NEW map, M!Written(map), NEW d \in 0 .. Depth, NEW f \in DOMAIN map
  PROVE  /\ Len(PiecesOf(map, d, f)) = Len(map[f]) /\ Len(map[f]) \in Nat
         /\ DOMAIN map[f] = 1 .. Len(map[f])
         /\ Start(map, d, f) \in [1 .. Len(map[f]) + 1 -> Nat] /\ Start(map, d, f)[1] = 0
         /\ Start(map, d, f)[Len(map[f]) + 1] = Len(Expanded(map, d, f))
         /\ Len(Expanded(map, d, f)) \in Nat
         /\ Placing(Start(map, d, f), PiecesOf(map, d, f), Expanded(map, d, f))
<1>1. /\ PiecesOf(map, d, f) \in Seq(Seq(Tokens(map)))
      /\ Expanded(map, d, f) = M!FlattenSeq(PiecesOf(map, d, f))
      /\ Expanded(map, d, f) \in Seq(Tokens(map))
  BY ExpansionsIn
<1>2. \E st : Placing(st, PiecesOf(map, d, f), Expanded(map, d, f))
  BY <1>1, Placed
<1>3. Placing(Start(map, d, f), PiecesOf(map, d, f), Expanded(map, d, f))
  BY <1>2 DEF Start
<1>4. map[f] \in Seq(M!ToSet(map[f]))
  BY DEF M!Written
<1>5. DOMAIN map[f] = 1 .. Len(map[f]) /\ Len(map[f]) \in Nat
  BY <1>4
<1>6. Len(PiecesOf(map, d, f)) = Len(map[f])
  <2> DEFINE p == PiecesOf(map, d, f)
             Q == Seq(Tokens(map))
  <2>1. DOMAIN p = 1 .. Len(map[f])
    BY <1>5 DEF PiecesOf, M!Pieces
  <2>2. p \in Seq(Q)
    BY <1>1
  <2> HIDE DEF p, Q
  <2>3. DOMAIN p = 1 .. Len(p) /\ Len(p) \in Nat
    BY <2>2
  <2>4. Len(p) = Len(map[f])
    BY <1>5, <2>1, <2>3
  <2>5. QED
    BY <2>4 DEF p
<1>7. Len(Expanded(map, d, f)) \in Nat
  BY <1>1
<1>8. QED
  BY <1>3, <1>5, <1>6, <1>7 DEF Placing

(* A token of a file, in its place.                                        *)
LEMMA TokenWithin ==
  ASSUME NEW map, M!Written(map), NEW d \in 0 .. Depth, NEW f \in DOMAIN map, NEW at \in Nat,
         M!Main \in DOMAIN map, Within(map, d, f, at), NEW p \in 1 .. Len(map[f])
  PROVE  LET st    == Start(map, d, f)
             piece == M!Spliced(map[f][p], Below(map, d))
         IN /\ st[p] \in Nat /\ st[p + 1] = st[p] + Len(piece) /\ Len(piece) \in Nat
            /\ at + st[p + 1] <= Len(M!Expansion(map))
            /\ \A k \in 1 .. Len(piece) : M!Expansion(map)[at + st[p] + k] = piece[k]
<1> DEFINE st == Start(map, d, f)
           piece == M!Spliced(map[f][p], Below(map, d))
           s == PiecesOf(map, d, f)
           w == Expanded(map, d, f)
           E == M!Expansion(map)
<1>1. Len(s) = Len(map[f]) /\ DOMAIN map[f] = 1 .. Len(map[f]) /\ Placing(st, s, w) /\ Len(map[f]) \in Nat
      /\ Len(w) \in Nat
  BY Starts
<1>2. s[p] = piece
  BY <1>1 DEF PiecesOf, M!Pieces
<1>3. piece \in Seq(Tokens(map))
  <2> DEFINE Q == Seq(Tokens(map))
  <2>1. s \in Seq(Q)
    BY ExpansionsIn
  <2> HIDE DEF Q, s, piece
  <2>2. s[p] \in Q
    BY <1>1, <2>1
  <2>3. QED
    BY <1>2, <2>2 DEF Q
<1>4. at + Len(w) <= Len(E) /\ \A k \in 1 .. Len(w) : E[at + k] = w[k]
  BY DEF Within
<1>5. /\ st \in [1 .. Len(s) + 1 -> Nat] /\ st[p + 1] = st[p] + Len(s[p]) /\ st[p + 1] <= Len(w)
      /\ \A k \in 1 .. Len(s[p]) : w[st[p] + k] = s[p][k]
  BY <1>1 DEF Placing
<1>6. Len(E) \in Nat
  <2>1. Depth \in Nat /\ Depth \in 0 .. Depth
    BY FileTypingAssumption
  <2>2. E = Expanded(map, Depth, M!Main)
    BY DEF M!Expansion, Expanded
  <2>3. E \in Seq(Tokens(map))
    BY <2>1, <2>2, ExpansionsIn
  <2> HIDE DEF E
  <2>4. QED
    BY <2>3
<1> HIDE DEF st, piece, s, w, E
<1>7. st[p] \in Nat /\ Len(piece) \in Nat /\ st[p + 1] = st[p] + Len(piece)
  BY <1>1, <1>2, <1>3, <1>5
<1>8. at + st[p + 1] <= Len(E)
  BY <1>1, <1>4, <1>5, <1>6, <1>7
<1>9. ASSUME NEW k \in 1 .. Len(piece)
      PROVE  E[at + st[p] + k] = piece[k]
  <2> DEFINE q == st[p] + k
  <2>1. q \in 1 .. Len(w) /\ w[q] = piece[k]
    BY <1>1, <1>2, <1>5, <1>7
  <2>2. at + st[p] + k = at + q
    BY <1>7
  <2> HIDE DEF q
  <2>3. QED
    BY <1>4, <2>1, <2>2
<1>10. QED
  BY <1>7, <1>8, <1>9 DEF st, piece, s, w, E

(* The top of the stack goes on by one token.                              *)
Adv(inc) == [inc EXCEPT ![Len(inc)].place = @ + 1]

LEMMA AdvIs ==
  ASSUME NEW map, NEW inc, Frames(map, inc)
  PROVE  LET m == Len(inc)
         IN /\ Adv(inc) \in Seq(Frame(map)) /\ Len(Adv(inc)) = m /\ m \in Nat \ {0}
            /\ \A l \in 1 .. m : Adv(inc)[l].file = inc[l].file
            /\ \A l \in 1 .. m - 1 : Adv(inc)[l] = inc[l]
            /\ Adv(inc)[m].place = inc[m].place + 1
            /\ \A l \in 1 .. m : inc[l].file \in DOMAIN map /\ inc[l].place \in Nat \ {0}
                                 /\ Depth + 1 - l \in 0 .. Depth
<1> DEFINE m == Len(inc)
           a == Adv(inc)
           R == Frame(map)
           top == [inc[m] EXCEPT !.place = @ + 1]
<1>0. Depth \in Nat
  BY FileTypingAssumption
<1>1. inc \in Seq(R) /\ m \in 1 .. Depth + 1
  BY DEF Frames
<1>2. \A l \in 1 .. m : inc[l] \in R
  BY <1>1
<1>3. \A l \in 1 .. m : inc[l].file \in DOMAIN map /\ inc[l].place \in Nat \ {0}
  BY <1>2 DEF Frame
<1>4. \A l \in 1 .. m : Depth + 1 - l \in 0 .. Depth
  BY <1>0, <1>1
<1>5. m \in 1 .. m
  BY <1>0, <1>1
<1>6. top \in R /\ top.place = inc[m].place + 1 /\ top.file = inc[m].file
  <2>1. inc[m] \in [file : DOMAIN map, place : Nat \ {0}]
    BY <1>2, <1>5 DEF Frame
  <2> DEFINE t == inc[m]
  <2> HIDE DEF t
  <2>2. [t EXCEPT !.place = @ + 1] = [file |-> t.file, place |-> t.place + 1]
    BY <2>1 DEF t
  <2>3. t.file \in DOMAIN map /\ t.place + 1 \in Nat \ {0} /\ top = [t EXCEPT !.place = @ + 1]
    BY <2>1 DEF t
  <2> HIDE DEF top
  <2>4. QED
    BY <2>2, <2>3 DEF t, Frame
<1>7. a = [inc EXCEPT ![m] = top]
  BY DEF Adv
<1> HIDE DEF top, a, R, m
<1>8. a \in Seq(R) /\ Len(a) = Len(inc) /\ a[m] = top /\ \A l \in 1 .. Len(inc) : l # m => a[l] = inc[l]
  BY <1>1, <1>5, <1>6, <1>7 DEF m
<1>9. \A l \in 1 .. m : a[l].file = inc[l].file
  BY <1>6, <1>8 DEF m
<1>10. \A l \in 1 .. m - 1 : l \in 1 .. m /\ l # m
  BY <1>0, <1>1
<1>11. QED
  BY <1>0, <1>1, <1>3, <1>4, <1>6, <1>8, <1>9, <1>10 DEF a, m, R

LEMMA StackTakes ==
  ASSUME NEW map, M!Written(map), M!Main \in DOMAIN map, NEW inc, NEW o, NEW n, Stacked(map, inc, o, n),
         inc[Len(inc)].place <= Len(map[inc[Len(inc)].file])
  PROVE  LET m     == Len(inc)
             piece == M!Spliced(map[inc[m].file][inc[m].place], Below(map, Depth + 1 - m))
         IN /\ n \in Nat /\ Len(piece) \in Nat /\ n + Len(piece) <= Len(M!Expansion(map))
            /\ \A k \in 1 .. Len(piece) : M!Expansion(map)[n + k] = piece[k]
            /\ o[m] + Place(map, Adv(inc), m) = n + Len(piece)
            /\ \A l \in 1 .. m - 1 : Place(map, Adv(inc), l) = Place(map, inc, l)
            /\ \A l \in 1 .. m : Length(map, Adv(inc), l) = Length(map, inc, l)
            /\ Frames(map, Adv(inc))
<1> DEFINE m == Len(inc)
           f == inc[m].file
           p == inc[m].place
           d == Depth + 1 - m
           a == Adv(inc)
           E == M!Expansion(map)
           piece == M!Spliced(map[f][p], Below(map, d))
           st == Start(map, d, f)
<1>1. Frames(map, inc) /\ o \in [1 .. m -> Nat] /\ n = o[m] + Place(map, inc, m)
      /\ (\A l \in 1 .. m : Within(map, Depth + 1 - l, inc[l].file, o[l]))
  BY DEF Stacked
<1>2. /\ a \in Seq(Frame(map)) /\ Len(a) = m /\ m \in Nat \ {0}
      /\ \A l \in 1 .. m : a[l].file = inc[l].file
      /\ \A l \in 1 .. m - 1 : a[l] = inc[l]
      /\ a[m].place = p + 1
      /\ \A l \in 1 .. m : inc[l].file \in DOMAIN map /\ inc[l].place \in Nat \ {0}
                           /\ Depth + 1 - l \in 0 .. Depth
  BY <1>1, AdvIs
<1>3. m \in 1 .. m /\ m \in Nat \ {0} /\ f \in DOMAIN map /\ p \in Nat \ {0} /\ d \in 0 .. Depth /\ o[m] \in Nat
  BY <1>1, <1>2
<1>4. Within(map, d, f, o[m])
  BY <1>1, <1>3
<1>5. DOMAIN map[f] = 1 .. Len(map[f]) /\ Len(map[f]) \in Nat
  BY <1>3, Starts
<1>6. p \in 1 .. Len(map[f])
  BY <1>3, <1>5
<1>7. /\ st[p] \in Nat /\ st[p + 1] = st[p] + Len(piece) /\ Len(piece) \in Nat
      /\ o[m] + st[p + 1] <= Len(E)
      /\ \A k \in 1 .. Len(piece) : E[o[m] + st[p] + k] = piece[k]
  <2> DEFINE b == o[m]
  <2>1. b \in Nat /\ Within(map, d, f, b)
    BY <1>3, <1>4
  <2> HIDE DEF m, f, p, d, b, E
  <2>2. LET st0 == Start(map, d, f)
            piece0 == M!Spliced(map[f][p], Below(map, d))
        IN /\ st0[p] \in Nat /\ st0[p + 1] = st0[p] + Len(piece0) /\ Len(piece0) \in Nat
           /\ b + st0[p + 1] <= Len(M!Expansion(map))
           /\ \A k \in 1 .. Len(piece0) : M!Expansion(map)[b + st0[p] + k] = piece0[k]
    BY <1>3, <1>6, <2>1, TokenWithin
  <2>3. QED
    BY <2>2 DEF E, b
<1>8. n = o[m] + st[p]
  BY <1>1 DEF Place
<1>9. o[m] + Place(map, a, m) = n + Len(piece)
  <2>1. Place(map, a, m) = st[p + 1]
    BY <1>2, <1>3 DEF Place
  <2> HIDE DEF m, st, piece, p, a
  <2>2. QED
    BY <1>3, <1>7, <1>8, <2>1
<1>10. \A l \in 1 .. m - 1 : Place(map, a, l) = Place(map, inc, l)
  BY <1>2 DEF Place
<1>11. \A l \in 1 .. m : Length(map, a, l) = Length(map, inc, l)
  BY <1>2 DEF Length
<1>12. Frames(map, a)
  <2>1. m \in 1 .. Depth + 1 /\ inc[1].file = M!Main /\ \A l \in 1 .. m : inc[l].place <= Len(map[inc[l].file]) + 1
    BY <1>1 DEF Frames
  <2>2. a[1].file = M!Main
    <3>1. 1 \in 1 .. m
      BY <1>3
    <3> HIDE DEF m, a
    <3>2. QED
      BY <1>2, <2>1, <3>1
  <2>3. ASSUME NEW l \in 1 .. m
        PROVE  a[l].place <= Len(map[a[l].file]) + 1
    <3>1. CASE l = m
      <4>1. a[l].place = p + 1 /\ a[l].file = f
        BY <1>2, <1>3, <3>1
      <4>2. p + 1 <= Len(map[f]) + 1
        BY <1>5, <1>6
      <4> HIDE DEF m, a, p, f
      <4>3. QED
        BY <4>1, <4>2
    <3>2. CASE l # m
      <4>1. l \in 1 .. m - 1
        BY <1>3, <3>2
      <4>2. a[l] = inc[l]
        BY <1>2, <4>1
      <4> HIDE DEF m, a
      <4>3. QED
        BY <2>1, <4>2
    <3>3. QED
      BY <3>1, <3>2
  <2> HIDE DEF a, m
  <2>4. QED
    BY <1>2, <2>1, <2>2, <2>3 DEF Frames
<1>13. n \in Nat /\ n + Len(piece) <= Len(E) /\ \A k \in 1 .. Len(piece) : E[n + k] = piece[k]
  <2> HIDE DEF piece, E, st, m, p
  <2>1. n \in Nat
    BY <1>3, <1>7, <1>8
  <2>2. n + Len(piece) = o[m] + st[p + 1]
    BY <1>3, <1>7, <1>8
  <2>3. QED
    BY <1>7, <1>8, <2>1, <2>2
<1>14. QED
  BY <1>7, <1>9, <1>10, <1>11, <1>12, <1>13

(* One token that is not an inclusion.                                     *)
LEMMA StackReads ==
  ASSUME NEW map, M!Written(map), M!Main \in DOMAIN map, NEW inc, NEW o, NEW n, Stacked(map, inc, o, n),
         inc[Len(inc)].place <= Len(map[inc[Len(inc)].file]),
         map[inc[Len(inc)].file][inc[Len(inc)].place].is # "include"
  PROVE  /\ n \in Nat /\ n + 1 <= Len(M!Expansion(map))
         /\ M!Expansion(map)[n + 1] = map[inc[Len(inc)].file][inc[Len(inc)].place]
         /\ Stacked(map, Adv(inc), o, n + 1)
<1> DEFINE m == Len(inc)
           a == Adv(inc)
           found == map[inc[m].file][inc[m].place]
           E == M!Expansion(map)
<1>1. Len(M!Spliced(found, Below(map, Depth + 1 - m))) = 1 /\ M!Spliced(found, Below(map, Depth + 1 - m))[1] = found
  <2>1. M!Spliced(found, Below(map, Depth + 1 - m)) = <<found>>
    BY DEF M!Spliced
  <2> HIDE DEF found
  <2>2. QED
    BY <2>1
<1>2. /\ n \in Nat /\ n + 1 <= Len(E)
      /\ E[n + 1] = M!Spliced(found, Below(map, Depth + 1 - m))[1]
      /\ o[m] + Place(map, a, m) = n + 1
      /\ \A l \in 1 .. m - 1 : Place(map, a, l) = Place(map, inc, l)
      /\ \A l \in 1 .. m : Length(map, a, l) = Length(map, inc, l)
      /\ Frames(map, a)
  <2> DEFINE piece == M!Spliced(found, Below(map, Depth + 1 - m))
  <2>1. /\ n \in Nat /\ Len(piece) \in Nat /\ n + Len(piece) <= Len(E)
        /\ \A k \in 1 .. Len(piece) : E[n + k] = piece[k]
        /\ o[m] + Place(map, a, m) = n + Len(piece)
        /\ \A l \in 1 .. m - 1 : Place(map, a, l) = Place(map, inc, l)
        /\ \A l \in 1 .. m : Length(map, a, l) = Length(map, inc, l)
        /\ Frames(map, a)
    BY StackTakes
  <2>2. Len(piece) = 1 /\ 1 \in 1 .. 1
    BY <1>1
  <2> HIDE DEF piece, a, m, E
  <2>3. QED
    BY <2>1, <2>2 DEF piece
<1>3. E[n + 1] = found
  BY <1>1, <1>2
<1>4. Stacked(map, a, o, n + 1)
  <2>1. /\ Len(a) = m /\ m \in Nat \ {0}
        /\ \A l \in 1 .. m : a[l].file = inc[l].file
    BY AdvIs DEF Stacked
  <2>2. /\ o \in [1 .. m -> Nat] /\ o[1] = 0
        /\ \A l \in 1 .. m : Within(map, Depth + 1 - l, inc[l].file, o[l])
        /\ \A l \in 1 .. m - 1 : o[l] + Place(map, inc, l) = o[l + 1] + Length(map, inc, l + 1)
    BY DEF Stacked
  <2> HIDE DEF m, a, E
  <2>3. \A l \in 1 .. m : Within(map, Depth + 1 - l, a[l].file, o[l])
    BY <2>1, <2>2
  <2>4. \A l \in 1 .. m - 1 : o[l] + Place(map, a, l) = o[l + 1] + Length(map, a, l + 1)
    <3>1. \A l \in 1 .. m - 1 : l + 1 \in 1 .. m
      BY <2>1
    <3>2. QED
      BY <1>2, <2>2, <3>1
  <2>5. QED
    BY <1>2, <2>1, <2>2, <2>3, <2>4 DEF Stacked
<1>5. QED
  BY <1>2, <1>3, <1>4

(* An inclusion that cannot be made.                                       *)
LEMMA StackFails ==
  ASSUME NEW map, M!Written(map), M!Main \in DOMAIN map, NEW inc, NEW o, NEW n, Stacked(map, inc, o, n),
         inc[Len(inc)].place <= Len(map[inc[Len(inc)].file]),
         map[inc[Len(inc)].file][inc[Len(inc)].place].is = "include",
         \/ Len(inc) - 1 >= Depth
         \/ map[inc[Len(inc)].file][inc[Len(inc)].place].file \notin DOMAIN map
  PROVE  /\ n \in Nat /\ n + 1 <= Len(M!Expansion(map))
         /\ M!Expansion(map)[n + 1].is = "error"
<1> DEFINE m == Len(inc)
           found == map[inc[m].file][inc[m].place]
           E == M!Expansion(map)
           d == Depth + 1 - m
           piece == M!Spliced(found, Below(map, d))
<1>0. Depth \in Nat /\ m \in 1 .. Depth + 1
  BY FileTypingAssumption DEF Stacked, Frames
<1>1. found.file \notin DOMAIN Below(map, d)
  <2>1. CASE d = 0
    <3>1. Below(map, d) = << >>
      BY <2>1 DEF Below
    <3>2. DOMAIN << >> = {}
      OBVIOUS
    <3> HIDE DEF d, found
    <3>3. QED
      BY <3>1, <3>2
  <2>2. CASE d # 0
    <3>1. found.file \notin DOMAIN map /\ d - 1 \in 0 .. Depth
      BY <1>0, <2>2
    <3>2. M!Expansions(map)[d - 1] = [g \in DOMAIN map |-> M!FlattenSeq(PiecesOf(map, d - 1, g))]
      BY <3>1, ExpansionsUnfold
    <3> HIDE DEF d, found
    <3>3. QED
      BY <2>2, <3>1, <3>2 DEF Below
  <2>3. QED
    BY <2>1, <2>2
<1>2. piece = <<Mistake>>
  BY <1>1 DEF M!Spliced, Mistake
<1> HIDE DEF piece
<1>3. Len(piece) = 1 /\ piece[1] = Mistake
  BY <1>2
<1>4. n \in Nat /\ n + Len(piece) <= Len(E) /\ \A k \in 1 .. Len(piece) : E[n + k] = piece[k]
  BY StackTakes DEF piece
<1>5. E[n + 1] = Mistake /\ n + 1 <= Len(E)
  BY <1>3, <1>4
<1>6. Mistake.is = "error"
  BY DEF Mistake
<1>7. QED
  BY <1>4, <1>5, <1>6

(* An inclusion: its file is expanded where the scanner is.                *)
LEMMA StackPushes ==
  ASSUME NEW map, M!Written(map), M!Main \in DOMAIN map, NEW inc, NEW o, NEW n, Stacked(map, inc, o, n),
         inc[Len(inc)].place <= Len(map[inc[Len(inc)].file]),
         map[inc[Len(inc)].file][inc[Len(inc)].place].is = "include",
         Len(inc) - 1 < Depth,
         map[inc[Len(inc)].file][inc[Len(inc)].place].file \in DOMAIN map
  PROVE  \E q : Stacked(map, Append(Adv(inc), [file |-> map[inc[Len(inc)].file][inc[Len(inc)].place].file,
                                               place |-> 1]), q, n)
<1> DEFINE m == Len(inc)
           found == map[inc[m].file][inc[m].place]
           g == found.file
           E == M!Expansion(map)
           d == Depth + 1 - m
           piece == M!Spliced(found, Below(map, d))
           a == Adv(inc)
           fr == [file |-> g, place |-> 1]
           b == Append(a, fr)
<1>0. Depth \in Nat /\ m \in 1 .. Depth
  BY FileTypingAssumption DEF Stacked, Frames
<1>1. piece = Expanded(map, d - 1, g) /\ d - 1 \in 0 .. Depth /\ Depth + 1 - (m + 1) = d - 1
  <2>1. d # 0 /\ d - 1 \in 0 .. Depth /\ Depth + 1 - (m + 1) = d - 1
    BY <1>0
  <2>2. M!Expansions(map)[d - 1] = [h \in DOMAIN map |-> M!FlattenSeq(PiecesOf(map, d - 1, h))]
    BY <2>1, ExpansionsUnfold
  <2>3. Below(map, d) = M!Expansions(map)[d - 1]
    BY <2>1 DEF Below
  <2>4. g \in DOMAIN Below(map, d)
    <3> HIDE DEF d, found
    <3>1. QED
      BY <2>2, <2>3 DEF found
  <2>5. piece = Below(map, d)[g]
    BY <2>4 DEF M!Spliced
  <2>6. QED
    BY <2>1, <2>3, <2>5 DEF Expanded
<1>2. /\ n \in Nat /\ Len(piece) \in Nat /\ n + Len(piece) <= Len(E)
      /\ \A k \in 1 .. Len(piece) : E[n + k] = piece[k]
      /\ o[m] + Place(map, a, m) = n + Len(piece)
      /\ \A l \in 1 .. m - 1 : Place(map, a, l) = Place(map, inc, l)
      /\ \A l \in 1 .. m : Length(map, a, l) = Length(map, inc, l)
      /\ Frames(map, a)
  BY StackTakes
<1>3. /\ a \in Seq(Frame(map)) /\ Len(a) = m
      /\ \A l \in 1 .. m : a[l].file = inc[l].file
  BY AdvIs DEF Stacked
<1>4. /\ o \in [1 .. m -> Nat] /\ o[1] = 0
      /\ \A l \in 1 .. m : Within(map, Depth + 1 - l, inc[l].file, o[l])
      /\ \A l \in 1 .. m - 1 : o[l] + Place(map, inc, l) = o[l + 1] + Length(map, inc, l + 1)
  BY DEF Stacked
<1>5. fr \in Frame(map) /\ fr.file = g /\ fr.place = 1 /\ g \in DOMAIN map
  BY DEF Frame
<1> DEFINE q == [l \in 1 .. m + 1 |-> IF l <= m THEN o[l] ELSE n]
           V == Frame(map)
<1>6. /\ b \in Seq(V) /\ Len(b) = m + 1 /\ b[m + 1] = fr /\ \A l \in 1 .. m : b[l] = a[l]
  <2> HIDE DEF V, fr, a, m
  <2>1. a \in Seq(V) /\ Len(a) = m /\ fr \in V
    BY <1>3, <1>5 DEF V
  <2>2. m \in Nat
    BY <1>0
  <2>3. QED
    BY <2>1, <2>2, AppendProperties
<1> HIDE DEF b, fr, a, piece, g, found, E
<1>7. /\ q \in [1 .. m + 1 -> Nat] /\ (\A l \in 1 .. m : q[l] = o[l]) /\ q[m + 1] = n
  <2> HIDE DEF m
  <2>1. (\A l \in 1 .. m : l \in 1 .. m + 1 /\ l <= m) /\ m + 1 \in 1 .. m + 1 /\ ~(m + 1 <= m)
    BY <1>0
  <2>2. \A l \in 1 .. m + 1 : l <= m => l \in 1 .. m
    BY <1>0
  <2>3. QED
    BY <1>2, <1>4, <2>1, <2>2
<1> HIDE DEF q
<1>8. \A l \in 1 .. m + 1 : l \in 1 .. m \/ l = m + 1
  BY <1>0
<1>9. Frames(map, b)
  <2>1. /\ m \in 1 .. Depth + 1 /\ a[1].file = M!Main
        /\ \A l \in 1 .. m : a[l].place <= Len(map[a[l].file]) + 1
    BY <1>2, <1>3 DEF Frames
  <2>2. m + 1 \in 1 .. Depth + 1 /\ 1 \in 1 .. m
    BY <1>0
  <2>3. Len(map[g]) \in Nat
    BY <1>1, <1>5, Starts
  <2>4. b[m + 1].place <= Len(map[b[m + 1].file]) + 1
    BY <1>5, <1>6, <2>3
  <2> HIDE DEF m
  <2>5. \A l \in 1 .. m + 1 : b[l].place <= Len(map[b[l].file]) + 1
    BY <1>6, <1>8, <2>1, <2>4
  <2>6. b[1].file = M!Main
    BY <1>6, <2>1, <2>2
  <2>7. QED
    BY <1>6, <2>2, <2>5, <2>6 DEF Frames, V
<1>10. \A l \in 1 .. m + 1 : Within(map, Depth + 1 - l, b[l].file, q[l])
  <2>1. Within(map, d - 1, g, n)
    BY <1>1, <1>2 DEF Within, E
  <2>2. Within(map, Depth + 1 - (m + 1), b[m + 1].file, q[m + 1])
    BY <1>1, <1>5, <1>6, <1>7, <2>1
  <2>3. \A l \in 1 .. m : Within(map, Depth + 1 - l, b[l].file, q[l])
    BY <1>3, <1>4, <1>6, <1>7
  <2> HIDE DEF m, d
  <2>4. QED
    BY <1>8, <2>2, <2>3
<1>11. \A l \in 1 .. m : Place(map, b, l) = Place(map, a, l) /\ Length(map, b, l) = Length(map, inc, l)
  BY <1>3, <1>6 DEF Place, Length
<1>12. Place(map, b, m + 1) = 0 /\ Length(map, b, m + 1) = Len(piece)
  <2>1. Start(map, d - 1, g)[1] = 0
    BY <1>1, <1>5, Starts
  <2> HIDE DEF m, d
  <2>2. QED
    BY <1>1, <1>5, <1>6, <2>1 DEF Place, Length
<1>13. \A l \in 1 .. (m + 1) - 1 : q[l] + Place(map, b, l) = q[l + 1] + Length(map, b, l + 1)
  <2>1. \A l \in 1 .. (m + 1) - 1 : l \in 1 .. m /\ (l = m \/ (l \in 1 .. m - 1 /\ l + 1 \in 1 .. m))
    BY <1>0
  <2>2. \A l \in 1 .. m - 1 : l + 1 \in 1 .. m /\ l \in 1 .. m
    BY <1>0
  <2> HIDE DEF m
  <2>3. \A l \in 1 .. m - 1 : q[l] + Place(map, b, l) = q[l + 1] + Length(map, b, l + 1)
    BY <1>2, <1>4, <1>7, <1>11, <2>2
  <2>4. q[m] + Place(map, b, m) = q[m + 1] + Length(map, b, m + 1)
    <3>1. m \in 1 .. m
      BY <1>0
    <3>2. QED
      BY <1>2, <1>7, <1>11, <1>12, <3>1
  <2>5. QED
    BY <2>1, <2>3, <2>4
<1>14. q[1] = 0 /\ n = q[m + 1] + Place(map, b, m + 1)
  <2>1. 1 \in 1 .. m
    BY <1>0
  <2> HIDE DEF m
  <2>2. QED
    BY <1>2, <1>4, <1>7, <1>12, <2>1
<1>15. Stacked(map, b, q, n)
  <2> HIDE DEF m
  <2>1. QED
    BY <1>6, <1>7, <1>9, <1>10, <1>13, <1>14 DEF Stacked
<1>16. QED
  BY <1>15 DEF b, a, fr, g, found

(* The end of a file.                                                      *)
LEMMA StackPops ==
  ASSUME NEW map, M!Written(map), M!Main \in DOMAIN map, NEW inc, NEW o, NEW n, Stacked(map, inc, o, n),
         inc[Len(inc)].place > Len(map[inc[Len(inc)].file])
  PROVE  /\ Len(inc) = 1 => n = Len(M!Expansion(map))
         /\ Len(inc) # 1 => \E q : Stacked(map, M!Front(inc), q, n)
<1> DEFINE m == Len(inc)
           f == inc[m].file
           d == Depth + 1 - m
           b == M!Front(inc)
           V == Frame(map)
<1>0. Depth \in Nat /\ m \in 1 .. Depth + 1 /\ m \in Nat \ {0} /\ Frames(map, inc)
  BY FileTypingAssumption DEF Stacked, Frames
<1>1. /\ inc \in Seq(V) /\ inc[1].file = M!Main
      /\ \A l \in 1 .. m : inc[l].place <= Len(map[inc[l].file]) + 1
  BY <1>0 DEF Frames
<1>2. /\ o \in [1 .. m -> Nat] /\ o[1] = 0
      /\ \A l \in 1 .. m : Within(map, Depth + 1 - l, inc[l].file, o[l])
      /\ \A l \in 1 .. m - 1 : o[l] + Place(map, inc, l) = o[l + 1] + Length(map, inc, l + 1)
      /\ n = o[m] + Place(map, inc, m)
  BY DEF Stacked
<1>3. m \in 1 .. m /\ f \in DOMAIN map /\ d \in 0 .. Depth /\ inc[m].place \in Nat
  BY <1>0, AdvIs
<1>4. /\ Len(map[f]) \in Nat /\ Start(map, d, f)[Len(map[f]) + 1] = Len(Expanded(map, d, f))
      /\ Len(Expanded(map, d, f)) \in Nat
  BY <1>3, Starts
<1>5. inc[m].place = Len(map[f]) + 1
  BY <1>1, <1>3, <1>4
<1>6. Place(map, inc, m) = Length(map, inc, m) /\ n = o[m] + Length(map, inc, m) /\ o[m] \in Nat
      /\ Length(map, inc, m) \in Nat
  BY <1>2, <1>3, <1>4, <1>5 DEF Place, Length
<1>7. CASE m = 1
  <2>1. d = Depth /\ f = M!Main
    BY <1>0, <1>1, <1>7
  <2>2. Length(map, inc, m) = Len(M!Expansion(map))
    BY <2>1 DEF Length, Expanded, M!Expansion
  <2> HIDE DEF m
  <2>3. n = Len(M!Expansion(map))
    BY <1>2, <1>6, <1>7, <2>2
  <2>4. QED
    BY <1>7, <2>3 DEF m
<1>8. CASE m # 1
  <2> DEFINE q == [l \in 1 .. m - 1 |-> o[l]]
  <2>0. m - 1 \in 1 .. Depth + 1 /\ m - 1 \in 1 .. m - 1 /\ 1 \in 1 .. m - 1 /\ (m - 1) + 1 = m
    <3> HIDE DEF m
    <3>1. QED
      BY <1>0, <1>8
  <2>1. b \in Seq(V) /\ Len(b) = m - 1 /\ \A l \in 1 .. m - 1 : b[l] = inc[l]
    <3>1. b = SubSeq(inc, 1, m - 1)
      BY DEF M!Front
    <3> HIDE DEF b, V
    <3>2. \A j \in 1 .. m - 1 : j + 1 - 1 = j /\ j \in 1 .. m
      BY <1>0
    <3>3. inc \in Seq(V) /\ m - 1 \in 1 .. Len(inc) /\ Len(inc) \in Nat /\ m = Len(inc)
      BY <1>0, <1>1, <2>0
    <3> HIDE DEF m
    <3> DEFINE k == m - 1
    <3>4. k \in 1 .. Len(inc) /\ b = SubSeq(inc, 1, k)
      BY <3>1, <3>3
    <3> HIDE DEF k
    <3>5. b \in Seq(V) /\ Len(b) = k /\ \A l \in 1 .. k : b[l] = inc[l]
      BY <3>3, <3>4
    <3>6. QED
      BY <3>5 DEF k
  <2> HIDE DEF b
  <2>2. \A l \in 1 .. m - 1 : l \in 1 .. m
    BY <1>0
  <2> HIDE DEF m
  <2>3. q \in [1 .. m - 1 -> Nat] /\ \A l \in 1 .. m - 1 : q[l] = o[l]
    BY <1>2, <2>2
  <2> HIDE DEF q
  <2>4. \A l \in 1 .. m - 1 : Place(map, b, l) = Place(map, inc, l) /\ Length(map, b, l) = Length(map, inc, l)
    BY <2>1 DEF Place, Length
  <2>5. Frames(map, b)
    <3>1. \A l \in 1 .. m - 1 : b[l].place <= Len(map[b[l].file]) + 1
      BY <1>1, <2>1, <2>2
    <3>2. QED
      BY <1>1, <2>0, <2>1, <3>1 DEF Frames, V
  <2>6. \A l \in 1 .. m - 1 : Within(map, Depth + 1 - l, b[l].file, q[l])
    BY <1>2, <2>1, <2>2, <2>3
  <2>7. \A l \in 1 .. (m - 1) - 1 : q[l] + Place(map, b, l) = q[l + 1] + Length(map, b, l + 1)
    <3>1. \A l \in 1 .. (m - 1) - 1 : l \in 1 .. m - 1 /\ l + 1 \in 1 .. m - 1
      BY <1>0
    <3>2. QED
      BY <1>2, <2>3, <2>4, <3>1
  <2>8. n = q[m - 1] + Place(map, b, m - 1)
    <3>1. o[m - 1] + Place(map, inc, m - 1) = o[m] + Length(map, inc, m)
      BY <1>2, <2>0
    <3>2. QED
      BY <1>6, <2>0, <2>3, <2>4, <3>1
  <2>9. q[1] = 0
    BY <1>2, <2>0, <2>3
  <2>10. Stacked(map, b, q, n)
    BY <2>1, <2>3, <2>5, <2>6, <2>7, <2>8, <2>9 DEF Stacked
  <2>11. QED
    BY <1>8, <2>10 DEF m, b
<1>9. QED
  BY <1>7, <1>8

LEMMA StackOpens ==
  ASSUME NEW map, M!Written(map), M!Main \in DOMAIN map
  PROVE  \E o : Stacked(map, <<[file |-> M!Main, place |-> 1]>>, o, 0)
<1> DEFINE fr == [file |-> M!Main, place |-> 1]
           b == <<fr>>
           o == [l \in 1 .. 1 |-> 0]
           f == M!Main
<1>0. Depth \in Nat /\ Depth + 1 - 1 = Depth /\ Depth \in 0 .. Depth
  BY FileTypingAssumption
<1>1. fr \in Frame(map) /\ fr.file = f /\ fr.place = 1
  BY DEF Frame
<1> HIDE DEF fr
<1>2. b \in Seq(Frame(map)) /\ Len(b) = 1 /\ b[1] = fr
  BY <1>1
<1>3. Start(map, Depth, f)[1] = 0 /\ Len(map[f]) \in Nat /\ Len(Expanded(map, Depth, f)) \in Nat
  BY <1>0, Starts
<1>4. Expanded(map, Depth, f) = M!Expansion(map)
  BY DEF Expanded, M!Expansion
<1> HIDE DEF f, b
<1>5. Frames(map, b)
  <2>1. \A l \in 1 .. 1 : b[l].place <= Len(map[b[l].file]) + 1
    BY <1>1, <1>2, <1>3
  <2>2. 1 \in 1 .. Depth + 1
    BY <1>0
  <2>3. QED
    BY <1>1, <1>2, <2>1, <2>2 DEF Frames, f
<1>6. Within(map, Depth, f, 0)
  <2>1. \A k \in 1 .. Len(Expanded(map, Depth, f)) : 0 + k = k
    BY <1>3
  <2>2. QED
    BY <1>3, <1>4, <2>1 DEF Within
<1>7. Place(map, b, 1) = 0
  BY <1>0, <1>1, <1>2, <1>3 DEF Place
<1>8. o \in [1 .. 1 -> Nat] /\ o[1] = 0
  OBVIOUS
<1> HIDE DEF o
<1>9. Stacked(map, b, o, 0)
  <2>1. \A l \in 1 .. 1 : Within(map, Depth + 1 - l, b[l].file, o[l])
    BY <1>0, <1>1, <1>2, <1>6, <1>8
  <2>2. \A l \in 1 .. 1 - 1 : l \notin Nat
    OBVIOUS
  <2>3. \A l \in 1 .. 1 - 1 : o[l] + Place(map, b, l) = o[l + 1] + Length(map, b, l + 1)
    OBVIOUS
  <2>4. 0 = o[1] + Place(map, b, 1)
    BY <1>7, <1>8
  <2>5. QED
    BY <1>2, <1>5, <1>8, <2>1, <2>3, <2>4 DEF Stacked
<1>10. QED
  BY <1>9 DEF b, fr, f

LEMMA ExpansionIs ==
  ASSUME NEW map, M!Written(map), M!Main \in DOMAIN map
  PROVE  M!Expansion(map) \in Seq(Tokens(map)) /\ Keyed(M!Expansion(map))
<1>1. Depth \in 0 .. Depth
  BY FileTypingAssumption
<1>2. M!Expansion(map) = Expanded(map, Depth, M!Main)
  BY DEF Expanded, M!Expansion
<1>3. M!Expansion(map) \in Seq(Tokens(map))
  BY <1>1, <1>2, ExpansionsIn
<1>4. ASSUME NEW t \in Tokens(map), t.is = "key"
      PROVE  t.key # M!NoKey
  <2>1. t # Mistake
    BY <1>4 DEF Mistake
  <2>2. t \in TextOf(map)
    BY <1>4, <2>1 DEF Tokens
  <2>3. PICK f \in DOMAIN map : t \in M!ToSet(map[f])
    BY <2>2 DEF TextOf
  <2>4. PICK i \in DOMAIN map[f] : t = map[f][i]
    BY <2>3 DEF M!ToSet
  <2>5. QED
    BY <1>4, <2>3, <2>4 DEF M!Written
<1> DEFINE E == M!Expansion(map)
<1> HIDE DEF E
<1>5. \A i \in 1 .. Len(E) : E[i] \in Tokens(map)
  BY <1>3 DEF E
<1>6. QED
  BY <1>3, <1>4, <1>5 DEF Keyed, E

-----------------------------------------------------------------------------
(* The invariant of the scanner.                                           *)
Scanned(map, rs, inc, k, sc) ==
  \/ sc = "idle" /\ inc = << >> /\ rs = << >>
  \/ sc = "idle" /\ inc = << >> /\ ReadTo(M!Expansion(map), Len(M!Expansion(map)), rs, k)
  \/ sc = "reading" /\ \E n, o : Stacked(map, inc, o, n) /\ ReadTo(M!Expansion(map), n, rs, k)
  \/ /\ sc = "exit" /\ Len(inc) <= Depth + 1 /\ Len(inc) \in Nat
     /\ \E n : ReadTo(M!Expansion(map), n, rs, k) /\ n + 1 \in M!WrongIn(M!Expansion(map))

MapInv ==
  /\ M!Written(files)
  /\ M!Main \in DOMAIN files => Scanned(files, rules, include, key, scan)
  /\ M!Main \notin DOMAIN files => scan = "idle" /\ include = << >>

LEMMA MapInvInit == TypingInit => MapInv
<1> SUFFICES ASSUME TypingInit
             PROVE  MapInv
  OBVIOUS
<1>1. rules = << >> /\ include = << >> /\ scan = "idle"
  BY DEF TypingInit, M!MapInit
<1>2. M!Written(files)
  <2>1. PICK s \in Scenarios : files = s.map
    BY DEF TypingInit
  <2>2. QED
    BY <2>1, FileTypingAssumption
<1>3. QED
  BY <1>1, <1>2 DEF MapInv, Scanned

LEMMA MapOpens ==
  ASSUME MapInv, rules = << >>, M!Open
  PROVE  MapInv'
<1>1. files' = files /\ rules' = << >> /\ scan' = "reading" /\ key' = M!NoKey /\ M!Main \in DOMAIN files
      /\ include' = <<[file |-> M!Main, place |-> 1]>> /\ M!Written(files)
  BY DEF M!Open, MapInv
<1>2. PICK o : Stacked(files, <<[file |-> M!Main, place |-> 1]>>, o, 0)
  BY <1>1, StackOpens
<1>3. ReadTo(M!Expansion(files), 0, << >>, M!NoKey)
  BY <1>1, ExpansionIs, ReadsNothing
<1>4. Scanned(files', rules', include', key', scan')
  BY <1>1, <1>2, <1>3 DEF Scanned
<1>5. QED
  BY <1>1, <1>4 DEF MapInv

LEMMA MapScans ==
  ASSUME MapInv, M!Scan
  PROVE  MapInv'
<1> DEFINE m == Len(include)
           found == files[include[m].file][include[m].place]
           E == M!Expansion(files)
<1>1. M!Reading /\ scan = "reading" /\ include # << >> /\ files' = files
  BY DEF M!Scan, M!ReadKey, M!ReadRule, M!IncludePush, M!ReadError, M!IncludePop, M!MoreTokens, M!Reading
<1>2. M!Written(files) /\ M!Main \in DOMAIN files /\ Scanned(files, rules, include, key, scan)
  BY <1>1 DEF MapInv
<1>3. PICK n, o : Stacked(files, include, o, n) /\ ReadTo(E, n, rules, key)
  BY <1>1, <1>2 DEF Scanned
<1>4. E \in Seq(Tokens(files)) /\ Keyed(E)
  BY <1>2, ExpansionIs
<1>5. M!At = include[m] /\ M!Token = found
  BY DEF M!At, M!Token, M!Last
<1>6. SUFFICES Scanned(files, rules', include', key', scan')
  BY <1>1, <1>2 DEF MapInv
<1>7. M!Advanced = Adv(include)
  BY DEF M!Advanced, Adv
<1>8. Len(include) <= Depth + 1 /\ Len(include) \in Nat
  BY <1>3, FileTypingAssumption DEF Stacked, Frames
<1> HIDE DEF E, found
<1>9. CASE M!ReadKey
  <2>1. /\ include[m].place <= Len(files[include[m].file]) /\ found.is = "key" /\ key' = found.key
        /\ include' = Adv(include) /\ rules' = rules /\ scan' = scan
    BY <1>5, <1>7, <1>9 DEF M!ReadKey, M!MoreTokens
  <2>2. n + 1 <= Len(E) /\ E[n + 1] = found /\ Stacked(files, Adv(include), o, n + 1)
    <3>1. found.is # "include"
      BY <2>1
    <3>2. QED
      BY <1>2, <1>3, <2>1, <3>1, StackReads DEF found, E
  <2>3. ReadTo(E, n + 1, rules, found.key)
    BY <1>3, <1>4, <2>1, <2>2, ReadsKey
  <2>4. QED
    BY <1>1, <2>1, <2>2, <2>3 DEF Scanned, E
<1>10. CASE M!ReadRule
  <2>1. /\ include[m].place <= Len(files[include[m].file]) /\ found.is \in {"name", "file"} /\ key' = key
        /\ IF key = M!NoKey THEN scan' = "exit" /\ rules' = rules /\ include' = include
           ELSE /\ rules' = Append(rules, M!RuleOf(found, key))
                /\ include' = Adv(include) /\ scan' = scan
    BY <1>5, <1>7, <1>10 DEF M!ReadRule, M!MoreTokens, M!KeyOfRule
  <2>2. n + 1 <= Len(E) /\ E[n + 1] = found /\ Stacked(files, Adv(include), o, n + 1)
    <3>1. found.is # "include"
      BY <2>1
    <3>2. QED
      BY <1>2, <1>3, <2>1, <3>1, StackReads DEF found, E
  <2>3. CASE key = M!NoKey
    <3>1. n + 1 \in M!WrongIn(E)
      BY <1>3, <1>4, <2>1, <2>2, <2>3, ReadsWrong
    <3>2. QED
      BY <1>3, <1>8, <2>1, <2>3, <3>1 DEF Scanned, E
  <2>4. CASE key # M!NoKey
    <3>1. ReadTo(E, n + 1, Append(rules, M!RuleOf(E[n + 1], key)), key)
      BY <1>3, <1>4, <2>1, <2>2, <2>4, ReadsRule
    <3>2. QED
      BY <1>1, <2>1, <2>2, <2>4, <3>1 DEF Scanned, E
  <2>5. QED
    BY <2>3, <2>4
<1>11. CASE M!IncludePush
  <2>1. /\ include[m].place <= Len(files[include[m].file]) /\ found.is = "include" /\ key' = key /\ rules' = rules
        /\ IF m - 1 >= Depth \/ found.file \notin DOMAIN files THEN scan' = "exit" /\ include' = include
           ELSE include' = Append(Adv(include), [file |-> found.file, place |-> 1]) /\ scan' = scan
    BY <1>5, <1>7, <1>11 DEF M!IncludePush, M!MoreTokens, M!TooDeep
  <2>2. CASE m - 1 >= Depth \/ found.file \notin DOMAIN files
    <3>1. n + 1 <= Len(E) /\ E[n + 1].is = "error"
      BY <1>2, <1>3, <2>1, <2>2, StackFails DEF found, E
    <3>2. n + 1 \in M!WrongIn(E)
      BY <1>3, <1>4, <3>1, ReadsWrong
    <3>3. QED
      BY <1>3, <1>8, <2>1, <2>2, <3>2 DEF Scanned, E
  <2>3. CASE ~(m - 1 >= Depth \/ found.file \notin DOMAIN files)
    <3>1. m \in Nat /\ Depth \in Nat /\ m - 1 < Depth
      BY <1>3, <2>3, FileTypingAssumption DEF Stacked, Frames
    <3>2. \E q : Stacked(files, Append(Adv(include), [file |-> found.file, place |-> 1]), q, n)
      BY <1>2, <1>3, <2>1, <2>3, <3>1, StackPushes DEF found
    <3>3. QED
      BY <1>1, <1>3, <2>1, <2>3, <3>2 DEF Scanned, E
  <2>4. QED
    BY <2>2, <2>3
<1>12. CASE M!ReadError
  <2>1. /\ include[m].place <= Len(files[include[m].file]) /\ found.is = "error" /\ key' = key /\ rules' = rules
        /\ scan' = "exit" /\ include' = include
    BY <1>5, <1>12 DEF M!ReadError, M!MoreTokens
  <2>2. n + 1 <= Len(E) /\ E[n + 1] = found
    <3>1. found.is # "include" /\ include[m].place <= Len(files[include[m].file])
      BY <2>1
    <3>2. n + 1 <= Len(E) /\ E[n + 1] = found /\ Stacked(files, Adv(include), o, n + 1)
      BY <1>2, <1>3, <3>1, StackReads DEF found, E
    <3>3. QED
      BY <3>2
  <2>3. n + 1 \in M!WrongIn(E)
    BY <1>3, <1>4, <2>1, <2>2, ReadsWrong
  <2>4. QED
    BY <1>3, <1>8, <2>1, <2>3 DEF Scanned, E
<1>13. CASE M!IncludePop
  <2>1. /\ include[m].place > Len(files[include[m].file]) /\ include' = M!Front(include)
        /\ scan' = IF m = 1 THEN "idle" ELSE "reading"
        /\ rules' = rules /\ key' = key
    BY <1>5, <1>13 DEF M!IncludePop
  <2>2. /\ m = 1 => n = Len(E)
        /\ m # 1 => \E q : Stacked(files, M!Front(include), q, n)
    BY <1>2, <1>3, <2>1, StackPops DEF E
  <2>3. CASE m = 1
    <3>1. M!Front(include) = << >>
      <4>1. include \in Seq(Frame(files))
        BY <1>3 DEF Stacked, Frames
      <4>2. SubSeq(include, 1, 0) = << >>
        BY <4>1
      <4>3. QED
        BY <2>3, <4>2 DEF M!Front
    <3>2. QED
      BY <1>3, <2>1, <2>2, <2>3, <3>1 DEF Scanned, E
  <2>4. CASE m # 1
    BY <1>3, <2>1, <2>2, <2>4 DEF Scanned, E
  <2>5. QED
    BY <2>3, <2>4
<1>14. QED
  BY <1>9, <1>10, <1>11, <1>12, <1>13 DEF M!Scan

LEMMA MapInvNext == MapInv /\ [TypingNext]_allVars => MapInv'
<1> SUFFICES ASSUME MapInv, [TypingNext]_allVars
             PROVE  MapInv'
  OBVIOUS
<1>1. CASE UNCHANGED mapVars
  <2>1. files' = files /\ rules' = rules /\ include' = include /\ key' = key /\ scan' = scan
    BY <1>1 DEF mapVars
  <2>2. QED
    BY <2>1 DEF MapInv
<1>2. CASE LoadMap
  BY <1>2, MapOpens DEF LoadMap
<1>3. CASE ScanMap
  BY <1>3, MapScans DEF ScanMap
<1>4. CASE UNCHANGED allVars
  <2>1. UNCHANGED mapVars
    BY <1>4 DEF allVars
  <2>2. QED
    BY <1>1, <2>1
<1>5. CASE InputNew \/ GetCommand \/ PrintDirectly \/ AskSheet \/ LoadSheet \/ PrintWithSheet \/ ListSheets
  <2>1. UNCHANGED mapVars
    BY <1>5 DEF InputNew, GetCommand, PrintDirectly, AskSheet, LoadSheet, PrintWithSheet, ListSheets
  <2>2. QED
    BY <1>1, <2>1
<1>6. QED
  BY <1>2, <1>3, <1>4, <1>5 DEF TypingNext

(* The map means what its text means once its inclusions are in place: the *)
(* scanner of sheets-map.l keeps the rules of that text, in their order,   *)
(* each with the last key before it wherever this one is, and stops where  *)
(* the text is wrong; and the stack of inclusions stays within its array.  *)
LEMMA MapInvMeans == MapInv => MapAsWritten
<1> SUFFICES ASSUME MapInv
             PROVE  M!MapAsWritten /\ M!StackBounded
  BY DEF MapAsWritten
<1> DEFINE E == M!Expansion(files)
<1>0. Depth \in Nat /\ M!Written(files)
  BY FileTypingAssumption DEF MapInv
<1>1. CASE M!Main \notin DOMAIN files
  <2>1. include = << >>
    BY <1>1 DEF MapInv
  <2>2. Len(include) - 1 <= Depth
    BY <1>0, <2>1
  <2>3. QED
    BY <1>1, <2>2 DEF M!MapAsWritten, M!StackBounded
<1>2. CASE M!Main \in DOMAIN files
  <2>1. Scanned(files, rules, include, key, scan)
    BY <1>2 DEF MapInv
  <2>2. E \in Seq(Tokens(files))
    BY <1>0, <1>2, ExpansionIs
  <2> HIDE DEF E
  <2>3. SUFFICES /\ M!IsPrefix(rules, M!Meant(E)) /\ Len(include) <= Depth + 1 /\ Len(include) \in Nat
                 /\ scan = "exit" => ~M!Sound(E) /\ rules = M!Meant(E)
                 /\ scan = "idle" /\ rules # << >> => M!Sound(E) /\ rules = M!Meant(E)
    <3>1. Len(include) - 1 <= Depth
      BY <1>0, <2>3
    <3>2. QED
      BY <2>3, <3>1 DEF M!MapAsWritten, M!StackBounded, E
  <2>4. CASE scan = "idle" /\ include = << >> /\ rules = << >>
    <3>1. M!IsPrefix(<< >>, M!Meant(E))
      <4>1. ReadTo(E, 0, << >>, M!NoKey)
        BY <2>2, ReadsNothing
      <4>2. QED
        BY <2>2, <4>1, ReadIsMeant
    <3>2. Len(include) = 0
      BY <2>4
    <3>3. QED
      BY <1>0, <2>4, <3>1, <3>2
  <2>5. CASE scan = "idle" /\ include = << >> /\ ReadTo(E, Len(E), rules, key)
    <3>1. M!IsPrefix(rules, M!Meant(E)) /\ M!Sound(E) /\ rules = M!Meant(E)
      BY <2>2, <2>5, ReadIsMeant
    <3>2. Len(include) = 0
      BY <2>5
    <3>3. QED
      BY <1>0, <2>5, <3>1, <3>2
  <2>6. CASE scan = "reading" /\ \E n, o : Stacked(files, include, o, n) /\ ReadTo(E, n, rules, key)
    <3>1. PICK n, o : Stacked(files, include, o, n) /\ ReadTo(E, n, rules, key)
      BY <2>6
    <3>2. M!IsPrefix(rules, M!Meant(E))
      BY <2>2, <3>1, ReadIsMeant
    <3>3. Len(include) <= Depth + 1 /\ Len(include) \in Nat
      BY <1>0, <3>1 DEF Stacked, Frames
    <3>4. QED
      BY <2>6, <3>2, <3>3
  <2>7. CASE /\ scan = "exit" /\ Len(include) <= Depth + 1 /\ Len(include) \in Nat
             /\ \E n : ReadTo(E, n, rules, key) /\ n + 1 \in M!WrongIn(E)
    <3>1. PICK n : ReadTo(E, n, rules, key) /\ n + 1 \in M!WrongIn(E)
      BY <2>7
    <3>2. M!IsPrefix(rules, M!Meant(E)) /\ ~M!Sound(E) /\ rules = M!Meant(E)
      BY <2>2, <3>1, ReadIsMeant
    <3>3. QED
      BY <2>7, <3>2
  <2>8. QED
    BY <2>1, <2>4, <2>5, <2>6, <2>7 DEF Scanned, E
<1>3. QED
  BY <1>1, <1>2

(* In every state, whatever the map, the files and the sheets.             *)
THEOREM MapAsWrittenAlways == TypingSpec => []MapAsWritten
<1>1. TypingInit => MapInv
  BY MapInvInit
<1>2. MapInv /\ [TypingNext]_allVars => MapInv'
  BY MapInvNext
<1>3. MapInv => MapAsWritten
  BY MapInvMeans
<1>4. QED
  BY <1>1, <1>2, <1>3, PTL DEF TypingSpec

-----------------------------------------------------------------------------
(* The types.  The invariant says, of the file being dealt with, what its  *)
(* sample and its type are when no file before it was the standard input.  *)
LEMMA MapEnds ==
  ASSUME MapInv, M!Scan, scan' = "idle"
  PROVE  rules' = M!Meant(M!Expansion(files))
<1> DEFINE m == Len(include)
           E == M!Expansion(files)
<1>1. M!Reading /\ scan = "reading" /\ include # << >>
  BY DEF M!Scan, M!ReadKey, M!ReadRule, M!IncludePush, M!ReadError, M!IncludePop, M!MoreTokens, M!Reading
<1>2. M!Written(files) /\ M!Main \in DOMAIN files /\ Scanned(files, rules, include, key, scan)
  BY <1>1 DEF MapInv
<1>3. PICK n, o : Stacked(files, include, o, n) /\ ReadTo(E, n, rules, key)
  BY <1>1, <1>2 DEF Scanned
<1>4. M!IncludePop
  BY <1>1 DEF M!Scan, M!ReadKey, M!ReadRule, M!IncludePush, M!ReadError, M!MoreTokens
<1>5. include[m].place > Len(files[include[m].file]) /\ m = 1 /\ rules' = rules
  BY <1>4 DEF M!IncludePop, M!At, M!Last
<1>6. n = Len(E)
  BY <1>2, <1>3, <1>5, StackPops
<1>7. E \in Seq(Tokens(files))
  BY <1>2, ExpansionIs
<1> HIDE DEF E
<1>8. QED
  BY <1>3, <1>5, <1>6, <1>7, ReadIsMeant DEF E

Alone(i) == \A j \in 1 .. i - 1 : input[j].is # "stdin"

Places == {"open", "load", "loading", "typed", "sheet"}

CurrentInv ==
  /\ current \in [i : Nat \ {0}, at : Places]
  /\ (\E S : done \in Seq(S)) /\ Len(done) = current.i - 1
  /\ scan = "reading" => current.at = "loading"
  /\ current.at # "open" => current.i <= Len(input)
  /\ M!Main \notin DOMAIN files => rules = << >>
  /\ M!Main \in DOMAIN files /\ current.at = "loading" /\ scan = "idle"
       => rules = M!Meant(M!Expansion(files))

SampleInv ==
  /\ current.at = "open" /\ Alone(current.i) => sample = "null"
  /\ current.at \in {"load", "loading"} =>
       /\ Printable(File) /\ style_request = None
       /\ Alone(current.i) => sample = IF File.is = "stdin" THEN File.content ELSE "null"
  /\ current.at \in {"typed", "sheet"} /\ Alone(current.i) =>
       /\ type = TypeAlone(File)
       /\ File.is # "stdin" => sample = "null"

TypedInv == MapInv /\ CurrentInv /\ SampleInv /\ TypedAlone

LEMMA TypedInvInit == TypingInit => TypedInv
<1> SUFFICES ASSUME TypingInit
             PROVE  TypedInv
  OBVIOUS
<1>1. rules = << >> /\ scan = "idle" /\ current = [i |-> 1, at |-> "open"] /\ done = << >> /\ sample = "null"
  BY DEF TypingInit, M!MapInit
<1>2. current.i = 1 /\ current.at = "open" /\ current \in [i : Nat \ {0}, at : Places]
  BY <1>1 DEF Places
<1>3. done \in Seq({}) /\ Len(done) = 0
  BY <1>1
<1>4. CurrentInv
  <2>1. \E S : done \in Seq(S)
    BY <1>3
  <2>2. QED
    BY <1>1, <1>2, <1>3, <2>1 DEF CurrentInv
<1>5. SampleInv
  BY <1>1, <1>2 DEF SampleInv
<1>6. TypedAlone
  <2>1. DOMAIN done = {}
    BY <1>1
  <2>2. QED
    BY <2>1 DEF TypedAlone
<1>7. QED
  BY <1>4, <1>5, <1>6, MapInvInit DEF TypedInv

LEMMA TypeAloneKept ==
  ASSUME files' = files, style_request' = style_request, NEW CONSTANT file
  PROVE  TypeAlone(file)' = TypeAlone(file)
BY DEF TypeAlone, Printable

(* get_command: the rules are those that the map means, and the verdict is *)
(* about the content of the file.                                          *)
LEMMA TypeIsAlone ==
  ASSUME MapInv, CurrentInv, SampleInv, MapReady, current.at \in {"load", "loading"}, Alone(current.i)
  PROVE  <<M!GetCommand(File.name, FiledContent)>> = TypeAlone(File)
<1>1. FiledContent = File.content
  BY DEF SampleInv, FiledContent
<1>2. Printable(File) /\ style_request = None
  BY DEF SampleInv
<1>3. CASE M!Main \notin DOMAIN files
  <2>1. rules = << >> /\ DOMAIN rules = {}
    BY <1>3 DEF CurrentInv
  <2>2. M!GetCommand(File.name, FiledContent) = "plain"
    BY <2>1 DEF M!GetCommand
  <2>3. TypeAlone(File) = <<"plain">>
    BY <1>2, <1>3 DEF TypeAlone, Plain
  <2>4. QED
    BY <2>2, <2>3
<1>4. CASE M!Main \in DOMAIN files
  <2> DEFINE meant == M!Meant(M!Expansion(files))
             S == {i \in DOMAIN meant : M!Applies(meant[i], File.name, File.content)}
  <2>1. rules = meant
    <3>1. CASE current.at = "load"
      <4>1. rules # << >> /\ scan # "exit" /\ scan # "reading"
        BY <1>4, <3>1 DEF MapReady, At, CurrentInv
      <4>2. Scanned(files, rules, include, key, scan)
        BY <1>4 DEF MapInv
      <4>3. scan = "idle"
        BY <4>1, <4>2 DEF Scanned
      <4>4. M!MapAsWritten
        BY MapInvMeans DEF MapAsWritten
      <4>5. QED
        BY <1>4, <4>1, <4>3, <4>4 DEF M!MapAsWritten
    <3>2. CASE current.at = "loading"
      BY <1>4, <3>2 DEF MapReady, At, CurrentInv
    <3>3. QED
      BY <3>1, <3>2
  <2>2. TypeAlone(File) = IF S = {} THEN <<"plain">> ELSE <<meant[Max(S)].command>>
    BY <1>2, <1>4 DEF TypeAlone, Plain
  <2>3. M!GetCommand(File.name, File.content) = IF S = {} THEN "plain" ELSE meant[M!Max(S)].command
    BY <2>1 DEF M!GetCommand
  <2>4. M!Max(S) = Max(S)
    BY DEF M!Max, Max
  <2> HIDE DEF S, meant
  <2>5. QED
    BY <1>1, <2>2, <2>3, <2>4
<1>5. QED
  BY <1>3, <1>4

(* A file that is done was typed as it would be alone.                     *)
LEMMA TypedInvDone ==
  ASSUME TypedInv, current.at \in {"typed", "sheet"}, UNCHANGED <<mapVars, input, style_request>>,
         NEW how, Record(how), NextFile, Removed \/ (current.at = "sheet" /\ sample' = sample)
  PROVE  TypedInv'
<1> DEFINE n == current.i
           new == [type |-> type, how |-> how]
<1>1. files' = files /\ rules' = rules /\ include' = include /\ key' = key /\ scan' = scan
      /\ input' = input /\ style_request' = style_request
  BY DEF mapVars
<1>2. MapInv'
  BY <1>1 DEF MapInv, TypedInv
<1>3. current' = [i |-> n + 1, at |-> "open"] /\ n \in Nat \ {0} /\ n <= Len(input)
  BY DEF NextFile, TypedInv, CurrentInv
<1>4. PICK S : done \in Seq(S)
  BY DEF TypedInv, CurrentInv
<1>5. done' = Append(done, new) /\ Len(done) = n - 1
  BY DEF Record, TypedInv, CurrentInv
<1> HIDE DEF new
<1>6. done' \in Seq(S \cup {new}) /\ Len(done') = n /\ done'[n] = new
      /\ DOMAIN done' = 1 .. n /\ \A j \in 1 .. n - 1 : done'[j] = done[j]
  <2> DEFINE T == S \cup {new}
  <2>1. done \in Seq(T) /\ new \in T
    BY <1>4
  <2> HIDE DEF T
  <2>2. Append(done, new) \in Seq(T) /\ Len(Append(done, new)) = n - 1 + 1 /\ Append(done, new)[n - 1 + 1] = new
        /\ \A j \in 1 .. n - 1 : Append(done, new)[j] = done[j]
    BY <1>5, <2>1, AppendProperties
  <2>3. n - 1 + 1 = n
    BY <1>3
  <2>4. QED
    BY <1>5, <2>2, <2>3 DEF T
<1>7. CurrentInv'
  <2>1. current'.i = n + 1 /\ current'.at = "open" /\ current' \in [i : Nat \ {0}, at : Places]
    BY <1>3 DEF Places
  <2>2. \E U : done' \in Seq(U)
    BY <1>6
  <2>3. scan # "reading"
    BY DEF TypedInv, CurrentInv
  <2>4. M!Main \notin DOMAIN files => rules = << >>
    BY DEF TypedInv, CurrentInv
  <2>5. Len(done') = current'.i - 1
    BY <1>3, <1>6, <2>1
  <2>6. QED
    BY <1>1, <2>1, <2>2, <2>3, <2>4, <2>5 DEF CurrentInv
<1>8. Alone(n + 1) => Alone(n) /\ File.is # "stdin"
  <2>1. \A j \in 1 .. n - 1 : j \in 1 .. (n + 1) - 1
    BY <1>3
  <2>2. n \in 1 .. (n + 1) - 1
    BY <1>3
  <2>3. QED
    BY <2>1, <2>2 DEF Alone, File
<1>9. SampleInv'
  <2>1. current'.i = n + 1 /\ current'.at = "open"
    BY <1>3
  <2>2. ASSUME Alone(n + 1)
        PROVE  sample' = "null"
    <3>1. sample = "null"
      BY <1>8, <2>2 DEF TypedInv, SampleInv
    <3>2. QED
      BY <3>1 DEF Removed
  <2>3. Alone(current.i)' <=> Alone(n + 1)
    BY <1>1, <2>1 DEF Alone
  <2>4. QED
    BY <2>1, <2>2, <2>3 DEF SampleInv
<1>10. TypedAlone'
  <2>1. ASSUME NEW i \in 1 .. n, \A j \in 1 .. i - 1 : input[j].is # "stdin"
        PROVE  done'[i].type = TypeAlone(input[i])
    <3>1. CASE i = n
      <4>1. Alone(n)
        BY <2>1, <3>1 DEF Alone
      <4>2. type = TypeAlone(File)
        BY <4>1 DEF TypedInv, SampleInv
      <4>3. done'[i].type = type
        BY <1>6, <3>1 DEF new
      <4>4. QED
        BY <3>1, <4>2, <4>3 DEF File
    <3>2. CASE i # n
      <4>1. i \in 1 .. n - 1 /\ i \in DOMAIN done
        BY <1>3, <1>4, <1>5, <3>2
      <4>2. QED
        BY <1>6, <2>1, <4>1 DEF TypedInv, TypedAlone
    <3>3. QED
      BY <3>1, <3>2
  <2>2. \A i \in 1 .. n : TypeAlone(input[i])' = TypeAlone(input[i])
    BY <1>1 DEF TypeAlone, Printable
  <2>3. QED
    BY <1>1, <1>6, <2>1, <2>2 DEF TypedAlone
<1>11. QED
  BY <1>2, <1>7, <1>9, <1>10 DEF TypedInv

(* What a step that does not finish a file keeps.                          *)
LEMMA TypedAloneKept ==
  ASSUME TypedAlone, UNCHANGED <<files, style_request, input, done>>
  PROVE  TypedAlone'
BY DEF TypedAlone, TypeAlone, Printable

LEMMA TypedInvNext == TypedInv /\ [TypingNext]_allVars => TypedInv'
<1> SUFFICES ASSUME TypedInv, [TypingNext]_allVars
             PROVE  TypedInv'
  OBVIOUS
<1> DEFINE n == current.i
<1>0. /\ current \in [i : Nat \ {0}, at : Places] /\ MapInv /\ CurrentInv /\ SampleInv /\ TypedAlone
      /\ MapInv'
  BY MapInvNext DEF TypedInv, CurrentInv
<1>1. CASE UNCHANGED <<mapVars, fileVars>>
  <2>1. /\ files' = files /\ rules' = rules /\ include' = include /\ key' = key /\ scan' = scan
        /\ input' = input /\ style_request' = style_request /\ sample' = sample /\ current' = current
        /\ type' = type /\ done' = done
    BY <1>1 DEF mapVars, fileVars
  <2>2. CurrentInv'
    BY <1>0, <2>1 DEF CurrentInv
  <2>3. SampleInv'
    BY <1>0, <2>1 DEF SampleInv, Alone, File, Printable, TypeAlone
  <2>4. QED
    BY <1>0, <2>1, <2>2, <2>3, TypedAloneKept DEF TypedInv
<1>2. CASE InputNew
  <2>1. /\ files' = files /\ rules' = rules /\ include' = include /\ key' = key /\ scan' = scan
        /\ input' = input /\ style_request' = style_request /\ done' = done
        /\ scan # "exit" /\ n <= Len(input) /\ current.at = "open"
        /\ sample' = (IF File.is = "stdin" THEN File.content ELSE sample)
    BY <1>2 DEF InputNew, mapVars, At
  <2>2. /\ current'.i = n /\ current' \in [i : Nat \ {0}, at : Places]
        /\ \/ current'.at = "typed" /\ ~Printable(File) /\ type' = <<"UNPRINTABLE">>
           \/ current'.at = "typed" /\ Printable(File) /\ style_request # None /\ type' = style_request
           \/ current'.at = "load" /\ Printable(File) /\ style_request = None
    BY <1>0, <1>2 DEF InputNew, Step, Places
  <2>3. CurrentInv'
    BY <1>0, <2>1, <2>2 DEF CurrentInv
  <2>4. File' = File /\ (Alone(current.i)' <=> Alone(n)) /\ TypeAlone(File)' = TypeAlone(File)
        /\ Printable(File)' = Printable(File)
    BY <2>1, <2>2 DEF File, Alone, TypeAlone, Printable
  <2>5. Alone(n) => sample = "null"
    BY <1>0, <2>1 DEF SampleInv
  <2>6. CASE current'.at = "typed"
    <3>1. type' = TypeAlone(File)
      BY <2>2, <2>6 DEF TypeAlone
    <3>2. Alone(n) => (File.is # "stdin" => sample' = "null")
      BY <2>1, <2>5
    <3> HIDE DEF n
    <3>3. SampleInv'
      BY <2>4, <2>6, <3>1, <3>2 DEF SampleInv
    <3>4. QED
      BY <1>0, <2>1, <2>3, <3>3, TypedAloneKept DEF TypedInv
  <2>7. CASE current'.at = "load"
    <3>1. Printable(File) /\ style_request = None
      BY <2>2, <2>7
    <3>2. Alone(n) => sample' = IF File.is = "stdin" THEN File.content ELSE "null"
      BY <2>1, <2>5
    <3> HIDE DEF n
    <3>3. SampleInv'
      BY <2>1, <2>4, <2>7, <3>1, <3>2 DEF SampleInv
    <3>4. QED
      BY <1>0, <2>1, <2>3, <3>3, TypedAloneKept DEF TypedInv
  <2>8. QED
    BY <2>2, <2>6, <2>7
<1>3. CASE LoadMap
  <2>1. /\ files' = files /\ input' = input /\ style_request' = style_request /\ sample' = sample
        /\ type' = type /\ done' = done /\ current.at = "load" /\ n <= Len(input)
        /\ M!Main \in DOMAIN files /\ scan' = "reading"
    BY <1>3 DEF LoadMap, M!Open, At
  <2>2. current'.i = n /\ current'.at = "loading" /\ current' \in [i : Nat \ {0}, at : Places]
    BY <1>0, <1>3 DEF LoadMap, Step, Places
  <2>3. CurrentInv'
    BY <1>0, <2>1, <2>2 DEF CurrentInv
  <2>4. File' = File /\ (Alone(current.i)' <=> Alone(n)) /\ Printable(File)' = Printable(File)
    BY <2>1, <2>2 DEF File, Alone, Printable
  <2>5. SampleInv'
    <3>1. /\ Printable(File) /\ style_request = None
          /\ Alone(n) => sample = IF File.is = "stdin" THEN File.content ELSE "null"
      BY <1>0, <2>1 DEF SampleInv
    <3> HIDE DEF n
    <3>2. QED
      BY <2>1, <2>2, <2>4, <3>1 DEF SampleInv
  <2>6. QED
    BY <1>0, <2>1, <2>3, <2>5, TypedAloneKept DEF TypedInv
<1>4. CASE ScanMap
  <2>1. /\ input' = input /\ style_request' = style_request /\ sample' = sample /\ current' = current
        /\ type' = type /\ done' = done /\ current.at = "loading" /\ M!Scan
    BY <1>4 DEF ScanMap, fileVars, At
  <2>2. files' = files
    BY <2>1 DEF M!Scan, M!ReadKey, M!ReadRule, M!IncludePush, M!ReadError, M!IncludePop
  <2>3. scan = "reading" /\ M!Main \in DOMAIN files
    <3>1. scan = "reading"
      BY <2>1 DEF M!Scan, M!ReadKey, M!ReadRule, M!IncludePush, M!ReadError, M!IncludePop, M!MoreTokens, M!Reading
    <3>2. QED
      BY <1>0, <3>1 DEF MapInv
  <2>4. scan' = "idle" => rules' = M!Meant(M!Expansion(files))
    BY <1>0, <2>1, MapEnds
  <2>5. CurrentInv'
    BY <1>0, <2>1, <2>2, <2>3, <2>4 DEF CurrentInv
  <2>6. SampleInv'
    BY <1>0, <2>1, <2>2 DEF SampleInv, Alone, File, Printable
  <2>7. QED
    BY <1>0, <2>1, <2>2, <2>5, <2>6, TypedAloneKept DEF TypedInv
<1>5. CASE GetCommand
  <2>1. /\ files' = files /\ rules' = rules /\ include' = include /\ key' = key /\ scan' = scan
        /\ input' = input /\ style_request' = style_request /\ sample' = sample /\ done' = done
        /\ type' = <<M!GetCommand(File.name, FiledContent)>> /\ MapReady
        /\ current.at \in {"load", "loading"} /\ n <= Len(input)
    BY <1>5 DEF GetCommand, mapVars, MapReady, At
  <2>2. current'.i = n /\ current'.at = "typed" /\ current' \in [i : Nat \ {0}, at : Places]
    BY <1>0, <1>5 DEF GetCommand, Step, Places
  <2>3. scan # "reading"
    BY <1>0, <2>1 DEF MapReady, At, CurrentInv
  <2>4. CurrentInv'
    BY <1>0, <2>1, <2>2, <2>3 DEF CurrentInv
  <2>5. File' = File /\ (Alone(current.i)' <=> Alone(n)) /\ TypeAlone(File)' = TypeAlone(File)
    BY <2>1, <2>2 DEF File, Alone, TypeAlone, Printable
  <2>6. Alone(n) => type' = TypeAlone(File)
    BY <1>0, <2>1, TypeIsAlone
  <2>7. Alone(n) /\ File.is # "stdin" => sample = "null"
    BY <1>0, <2>1 DEF SampleInv
  <2>8. SampleInv'
    <3> HIDE DEF n
    <3>1. QED
      BY <2>1, <2>2, <2>5, <2>6, <2>7 DEF SampleInv
  <2>9. QED
    BY <1>0, <2>1, <2>4, <2>8, TypedAloneKept DEF TypedInv
<1>6. CASE PrintDirectly
  <2>1. current.at = "typed" /\ UNCHANGED <<mapVars, input, style_request>> /\ NextFile /\ Removed
    BY <1>6 DEF PrintDirectly, At
  <2>2. PICK how : Record(how)
    BY <1>6 DEF PrintDirectly
  <2>3. QED
    BY <2>1, <2>2, TypedInvDone
<1>7. CASE AskSheet
  <2>1. /\ files' = files /\ rules' = rules /\ include' = include /\ key' = key /\ scan' = scan
        /\ input' = input /\ style_request' = style_request /\ done' = done /\ type' = type
        /\ current.at = "typed" /\ n <= Len(input) /\ sample' = IF sample = "null" THEN "null" ELSE "removed"
    BY <1>7 DEF AskSheet, mapVars, At, Removed
  <2>2. current'.i = n /\ current'.at = "sheet" /\ current' \in [i : Nat \ {0}, at : Places]
    BY <1>0, <1>7 DEF AskSheet, Step, Places
  <2>3. CurrentInv'
    BY <1>0, <2>1, <2>2 DEF CurrentInv
  <2>4. File' = File /\ (Alone(current.i)' <=> Alone(n)) /\ TypeAlone(File)' = TypeAlone(File)
    BY <2>1, <2>2 DEF File, Alone, TypeAlone, Printable
  <2>5. Alone(n) => type = TypeAlone(File) /\ (File.is # "stdin" => sample = "null")
    BY <1>0, <2>1 DEF SampleInv
  <2>6. SampleInv'
    <3> HIDE DEF n
    <3>1. QED
      BY <2>1, <2>2, <2>4, <2>5 DEF SampleInv
  <2>7. QED
    BY <1>0, <2>1, <2>3, <2>6, TypedAloneKept DEF TypedInv
<1>8. CASE LoadSheet \/ ListSheets \/ UNCHANGED allVars
  <2>1. UNCHANGED <<mapVars, fileVars>>
    BY <1>8 DEF LoadSheet, ListSheets, allVars
  <2>2. QED
    BY <1>1, <2>1
<1>9. CASE PrintWithSheet
  <2>1. /\ current.at = "sheet" /\ UNCHANGED <<mapVars, input, style_request>> /\ NextFile
        /\ sample' = sample
    BY <1>9 DEF PrintWithSheet, At
  <2>2. PICK how : Record(how)
    BY <1>9 DEF PrintWithSheet
  <2>3. QED
    BY <2>1, <2>2, TypedInvDone
<1>10. QED
  BY <1>2, <1>3, <1>4, <1>5, <1>6, <1>7, <1>8, <1>9 DEF TypingNext

-----------------------------------------------------------------------------
(* The loader.  The invariant links the calls of get_style_sheet: a frame  *)
(* waits for one of its ancestors, and this is what the call above it asks *)
(* for, loads and gives back; a mixed sheet, at the bottom only, has found *)
(* a part of the key asked for, and strtok holds the rest.                 *)
Lineage(sheet) ==
  /\ {"key", "ancestors"} \subseteq DOMAIN sheet /\ IsList(sheet.ancestors)
  /\ \A j \in 1 .. Len(sheet.ancestors) : Len(sheet.ancestors[j]) = 1

SheetFrame(f) ==
  /\ {"kind", "sheet", "dir", "i"} \subseteq DOMAIN f /\ f.kind = "sheet" /\ Lineage(f.sheet)
  /\ f.dir \in {"forward", "backward"}
  /\ f.i \in 0 .. Len(f.sheet.ancestors) + 1
  /\ f.dir = "forward" => f.i # 0
  /\ f.dir = "backward" => f.i # Len(f.sheet.ancestors) + 1

MixedFrame(f, list, rest) ==
  /\ {"kind", "keys", "key"} \subseteq DOMAIN f /\ f.kind = "mixed" /\ f.keys # << >>
  /\ f.keys \in Seq(ToSet(list)) /\ f.key \in Seq(ToSet(list)) /\ rest \in Seq(ToSet(list))
  /\ f.key \o <<Last(f.keys)>> \o rest = list

Waits(f) == f.kind = "sheet" => f.i \in 1 .. Len(f.sheet.ancestors)
Awaited(f) == IF f.kind = "sheet" THEN f.sheet.ancestors[f.i] ELSE <<Last(f.keys)>>
Needed == IF stack = << >> THEN type ELSE Awaited(stack[Len(stack)])
Pending == stack # << >> => Waits(stack[Len(stack)])

StackInv ==
  /\ IsList(stack)
  /\ \A l \in 1 .. Len(stack) : SheetFrame(stack[l]) \/ (l = 1 /\ MixedFrame(stack[l], type, tok))
  /\ \A l \in 2 .. Len(stack) : Waits(stack[l - 1]) /\ stack[l].sheet.key = Awaited(stack[l - 1])
  /\ stack # << >> /\ stack[1].kind = "sheet" => stack[1].sheet.key = type

CallInv ==
  \/ call.op = "get" /\ Pending /\ call.key = Needed
  \/ call.op = "return" /\ Pending /\ call.key = Needed /\ Needed \in Stored
  \/ call.op = "return" /\ Pending /\ call.key = None /\ (stack = << >> => ToSet(type) \cap DOMAIN lib = {})
  \/ call.op = "resume" /\ stack # << >> /\ SheetFrame(stack[Len(stack)])
  \/ call.op \in {"exit", "crash", "lost"}

Linked ==
  /\ lib \in Libraries /\ Parsed(lib) /\ IsList(style_request)
  /\ type # None => IsList(type)
  /\ current.at = "typed" => type # None
  /\ input # << >> /\ current.at # "sheet" => call = Idle /\ stack = << >>
  /\ input # << >> /\ current.at = "sheet" => type # None /\ Kind = "sheet" /\ StackInv /\ CallInv
  /\ input = << >> => done = << >>

-----------------------------------------------------------------------------
(* What FoldLeft goes through.                                             *)
LEMMA UpTo ==
  ASSUME NEW k \in Nat \ {0}
  PROVE  Max(1 .. k) = k /\ (1 .. k) \ {k} = 1 .. k - 1 /\ 1 .. k # {}
<1>1. k \in 1 .. k /\ \A x \in 1 .. k : k >= x
  OBVIOUS
<1>2. \A y \in 1 .. k : (\A x \in 1 .. k : y >= x) => y = k
  OBVIOUS
<1>3. Max(1 .. k) = k
  BY <1>1, <1>2 DEF Max
<1>4. QED
  BY <1>1, <1>3

(* A sheet, as its definitions are gone through.                           *)
LEMMA DefinedChain ==
  ASSUME NEW words, Len(words) \in Nat, DOMAIN words = 1 .. Len(words)
  PROVE  \E g : /\ g[0] = NewStyleSheet /\ g[Len(words)] = FoldLeft(Defined, NewStyleSheet, words)
               /\ \A k \in 1 .. Len(words) : g[k] = Defined(g[k - 1], words[k])
<1> DEFINE n == Len(words)
           Next0(it, t) == IF t = {} THEN NewStyleSheet ELSE Defined(it[t \ {Max(t)}], words[Max(t)])
           Good(it, k) == /\ it = [t \in SUBSET (1 .. n) |-> it[t]]
                          /\ \A t \in SUBSET (1 .. n) : t \subseteq 1 .. k => it[t] = Next0(it, t)
           T == {k \in 0 .. n : \E it : Good(it, k)}
<1>1. 0 \in T
  <2> DEFINE it == [t \in SUBSET (1 .. n) |-> NewStyleSheet]
  <2>1. \A t \in SUBSET (1 .. n) : t \subseteq 1 .. 0 => t = {}
    OBVIOUS
  <2>2. Good(it, 0)
    BY <2>1
  <2> HIDE DEF Good
  <2>3. (\E ju : Good(ju, 0)) /\ 0 \in 0 .. n
    BY <2>2
  <2>4. QED
    BY <2>3
<1>2. ASSUME NEW k \in 1 .. n, k - 1 \in T
      PROVE  k \in T
  <2>1. PICK it : Good(it, k - 1)
    BY <1>2
  <2> DEFINE ju == [t \in SUBSET (1 .. n) |-> IF k \in t THEN Next0(it, t) ELSE it[t]]
  <2>2. ASSUME NEW t \in SUBSET (1 .. n), t \subseteq 1 .. k
        PROVE  ju[t] = Next0(ju, t)
    <3>1. CASE k \in t
      <4>1. Max(t) = k
        <5>1. \A x \in t : k >= x
          BY <2>2
        <5>2. \A y \in t : (\A x \in t : y >= x) => y = k
          BY <3>1, <5>1, <2>2
        <5>3. QED
          BY <3>1, <5>1, <5>2 DEF Max
      <4>2. t \ {k} \in SUBSET (1 .. n) /\ k \notin t \ {k}
        BY <2>2
      <4>3. ju[t \ {k}] = it[t \ {k}]
        BY <4>2
      <4>4. QED
        BY <3>1, <4>1, <4>3
    <3>2. CASE k \notin t
      <4>1. t \subseteq 1 .. k - 1
        BY <3>2, <2>2
      <4>2. it[t] = Next0(it, t) /\ ju[t] = it[t]
        BY <2>1, <3>2, <4>1
      <4>3. t # {} => k \notin t \ {Max(t)} /\ t \ {Max(t)} \in SUBSET (1 .. n)
        BY <3>2
      <4>4. t # {} => ju[t \ {Max(t)}] = it[t \ {Max(t)}]
        BY <4>3
      <4>5. QED
        BY <4>2, <4>4
    <3>3. QED
      BY <3>1, <3>2
  <2>3. ju = [t \in SUBSET (1 .. n) |-> ju[t]]
    OBVIOUS
  <2> HIDE DEF ju
  <2>4. Good(ju, k)
    BY <2>2, <2>3
  <2> HIDE DEF Good
  <2>5. (\E v : Good(v, k)) /\ k \in 0 .. n
    BY <2>4
  <2>6. QED
    BY <2>5
<1>3. n \in T
  <2>1. n \in Nat /\ n \in 0 .. n
    OBVIOUS
  <2> HIDE DEF T
  <2>2. \A i \in 0 .. n : i \in T
    BY <1>1, <1>2, <2>1, Induction
  <2>3. QED
    BY <2>1, <2>2
<1>4. PICK it : Good(it, n)
  BY <1>3
<1> DEFINE Eq(u) == u = [t \in SUBSET (DOMAIN words) |-> IF t = {} THEN NewStyleSheet ELSE LET x == Max(t) IN Defined(u[t \ {x}], words[x])]
           f == CHOOSE u : Eq(u)
           g == [k \in 0 .. n |-> f[1 .. k]]
<1>5. Eq(it)
  BY <1>4
<1>6. Eq(f)
  <2> HIDE DEF Eq
  <2>1. QED
    BY <1>5
<1>7. FoldLeft(Defined, NewStyleSheet, words) = f[DOMAIN words]
  BY DEF FoldLeft, MapThenFoldSet
<1> HIDE DEF f
<1>8. \A k \in 0 .. n : 1 .. k \in SUBSET (DOMAIN words)
  OBVIOUS
<1>9. f[1 .. 0] = NewStyleSheet
  <2>1. 1 .. 0 = {} /\ 1 .. 0 \in SUBSET (DOMAIN words)
    OBVIOUS
  <2>2. QED
    BY <1>6, <2>1
<1>10. ASSUME NEW k \in 1 .. n
       PROVE  f[1 .. k] = Defined(f[1 .. k - 1], words[k])
  <2>1. Max(1 .. k) = k /\ (1 .. k) \ {k} = 1 .. k - 1 /\ 1 .. k # {} /\ 1 .. k \in SUBSET (DOMAIN words)
    BY UpTo, <1>8
  <2>2. QED
    BY <1>6, <2>1
<1>11. g[0] = NewStyleSheet /\ \A k \in 1 .. n : g[k] = Defined(g[k - 1], words[k])
  <2>1. \A k \in 1 .. n : k \in 0 .. n /\ k - 1 \in 0 .. n
    OBVIOUS
  <2>2. QED
    BY <1>9, <1>10, <2>1
<1>12. g[n] = FoldLeft(Defined, NewStyleSheet, words)
  <2>1. n \in 0 .. n /\ 1 .. n = DOMAIN words
    OBVIOUS
  <2>2. g[n] = f[1 .. n]
    BY <2>1
  <2>3. QED
    BY <1>7, <2>1, <2>2
<1>13. QED
  <2> HIDE DEF g
  <2>1. QED
    BY <1>11, <1>12


(* Lists are sequences of anything.                                        *)
LEMMA ListIs ==
  ASSUME NEW S, NEW s \in Seq(S)
  PROVE  IsList(s)
<1>1. s \in [1 .. Len(s) -> ToSet(s)] /\ Len(s) \in Nat
  BY DEF ToSet
<1>2. QED
  BY <1>1 DEF IsList

LEMMA ListJoin ==
  ASSUME NEW s, NEW t, IsList(s), IsList(t)
  PROVE  IsList(s \o t) /\ \A j \in 1 .. Len(s \o t) : (s \o t)[j] \in ToSet(s) \cup ToSet(t)
<1> DEFINE S == ToSet(s) \cup ToSet(t)
<1>1. s \in Seq(S) /\ t \in Seq(S)
  <2>1. s \in Seq(ToSet(s)) /\ t \in Seq(ToSet(t)) /\ ToSet(s) \subseteq S /\ ToSet(t) \subseteq S
    BY DEF IsList
  <2> HIDE DEF S
  <2>2. QED
    BY <2>1, SeqMonotonic
<1> HIDE DEF S
<1> DEFINE u == s \o t
<1>2. u \in Seq(S)
  BY <1>1
<1> HIDE DEF u
<1>3. IsList(u) /\ \A j \in 1 .. Len(u) : u[j] \in S
  BY <1>2, ListIs
<1>4. QED
  BY <1>3 DEF S, u

(* The parser and the inheritance keep the key and the ancestors.          *)
LEMMA LineageNew == Lineage(NewStyleSheet)
<1>1. {"key", "ancestors"} \subseteq DOMAIN NewStyleSheet /\ NewStyleSheet.ancestors = << >>
  BY DEF NewStyleSheet
<1>2. IsList(<< >>) /\ Len(<< >>) = 0
  <2>1. << >> \in Seq({})
    OBVIOUS
  <2>2. QED
    BY <2>1, ListIs
<1> DEFINE anc == NewStyleSheet.ancestors
<1> HIDE DEF anc
<1>3. IsList(anc) /\ \A j \in 1 .. Len(anc) : Len(anc[j]) = 1
  BY <1>1, <1>2 DEF anc
<1>4. QED
  BY <1>1, <1>3 DEF Lineage, anc

LEMMA LineageDefined ==
  ASSUME NEW sheet, Lineage(sheet), NEW def,
         def.kind = "ancestors" =>
           IsList(def.list) /\ \A name \in ToSet(def.list) : IsList(name) /\ Len(name) = 1
  PROVE  Lineage(Defined(sheet, def))
<1>1. CASE def.kind = "ancestors"
  <2> DEFINE anc == sheet.ancestors \o def.list
  <2>1. Defined(sheet, def) = [sheet EXCEPT !.ancestors = anc]
    BY <1>1 DEF Defined
  <2>2. IsList(anc) /\ \A j \in 1 .. Len(anc) : anc[j] \in ToSet(sheet.ancestors) \cup ToSet(def.list)
    BY <1>1, ListJoin DEF Lineage
  <2>3. \A name \in ToSet(sheet.ancestors) : Len(name) = 1
    <3>1. DOMAIN sheet.ancestors = 1 .. Len(sheet.ancestors)
      BY DEF Lineage, IsList
    <3>2. QED
      BY <3>1 DEF Lineage, ToSet
  <2> HIDE DEF anc
  <2>4. \A j \in 1 .. Len(anc) : Len(anc[j]) = 1
    BY <1>1, <2>2, <2>3
  <2>5. DOMAIN Defined(sheet, def) = DOMAIN sheet /\ Defined(sheet, def).ancestors = anc
    BY <2>1 DEF Lineage
  <2>6. QED
    BY <2>2, <2>4, <2>5 DEF Lineage
<1>2. CASE def.kind # "ancestors"
  <2>1. DOMAIN Defined(sheet, def) = DOMAIN sheet /\ Defined(sheet, def).ancestors = sheet.ancestors
    BY <1>2 DEF Defined, Lineage
  <2>2. QED
    BY <2>1 DEF Lineage
<1>3. QED
  BY <1>1, <1>2

LEMMA LineageParsed ==
  ASSUME NEW k, k[1] \in DOMAIN lib, Parsed(lib)
  PROVE  Lineage(ParseStyleSheet(k)) /\ ParseStyleSheet(k).key = k
<1> DEFINE words == lib[k[1]]
           n == Len(words)
<1>0. n \in Nat /\ DOMAIN words = 1 .. n /\ \A i \in 1 .. n : words[i] \in ToSet(words)
  <2>1. IsList(words)
    BY DEF Parsed
  <2> HIDE DEF words
  <2>2. QED
    BY <2>1 DEF IsList
<1>1. PICK g : /\ g[0] = NewStyleSheet /\ g[n] = FoldLeft(Defined, NewStyleSheet, words)
               /\ \A i \in 1 .. n : g[i] = Defined(g[i - 1], words[i])
  BY <1>0, DefinedChain
<1> DEFINE T == {i \in 0 .. n : Lineage(g[i])}
<1>2. n \in Nat /\ n \in 0 .. n
  BY <1>0
<1>3. 0 \in T
  <2>1. 0 \in 0 .. n
    BY <1>2
  <2>2. QED
    BY <1>1, <2>1, LineageNew
<1>4. ASSUME NEW i \in 1 .. n, i - 1 \in T
      PROVE  i \in T
  <2>1. g[i] = Defined(g[i - 1], words[i]) /\ Lineage(g[i - 1]) /\ i \in 0 .. n
    BY <1>1, <1>4
  <2>2. words[i].kind = "ancestors" =>
          IsList(words[i].list) /\ \A name \in ToSet(words[i].list) : IsList(name) /\ Len(name) = 1
    BY <1>0 DEF Parsed
  <2>3. Lineage(g[i])
    BY <2>1, <2>2, LineageDefined
  <2>4. QED
    BY <2>1, <2>3
<1>5. \A i \in 0 .. n : i \in T
  <2> HIDE DEF T, n
  <2>1. QED
    BY <1>2, <1>3, <1>4, Induction
<1>6. Lineage(FoldLeft(Defined, NewStyleSheet, words))
  <2>1. n \in T
    BY <1>2, <1>5
  <2>2. QED
    BY <1>1, <2>1
<1> DEFINE s == FoldLeft(Defined, NewStyleSheet, words)
<1>7. ParseStyleSheet(k) = [s EXCEPT !.key = k]
  BY DEF ParseStyleSheet
<1> HIDE DEF s
<1>8. Lineage(s)
  BY <1>6 DEF s
<1>9. QED
  BY <1>7, <1>8 DEF Lineage

LEMMA LineageKept ==
  ASSUME NEW sheet, Lineage(sheet), NEW ancestor
  PROVE  /\ Lineage(InheritStrings(sheet, ancestor)) /\ InheritStrings(sheet, ancestor).key = sheet.key
         /\ Lineage(InheritSyntax(sheet, ancestor)) /\ InheritSyntax(sheet, ancestor).key = sheet.key
         /\ InheritStrings(sheet, ancestor).ancestors = sheet.ancestors
         /\ InheritSyntax(sheet, ancestor).ancestors = sheet.ancestors
         /\ Finalized(sheet).key = sheet.key
<1>1. /\ DOMAIN InheritStrings(sheet, ancestor) = DOMAIN sheet
      /\ InheritStrings(sheet, ancestor).key = sheet.key
      /\ InheritStrings(sheet, ancestor).ancestors = sheet.ancestors
  BY DEF InheritStrings, Lineage
<1>2. /\ DOMAIN InheritSyntax(sheet, ancestor) = DOMAIN sheet
      /\ InheritSyntax(sheet, ancestor).key = sheet.key
      /\ InheritSyntax(sheet, ancestor).ancestors = sheet.ancestors
  BY DEF InheritSyntax, Lineage
<1>3. Finalized(sheet).key = sheet.key
  BY DEF Finalized, Lineage
<1>4. QED
  BY <1>1, <1>2, <1>3 DEF Lineage

(* What the stack of calls does.                                           *)
StackKept == type' = type /\ tok' = tok

LEMMA StackFrames ==
  ASSUME StackInv
  PROVE  /\ Len(stack) \in Nat /\ (stack = << >> <=> Len(stack) = 0) /\ DOMAIN stack = 1 .. Len(stack)
         /\ stack # << >> => Len(stack) \in 1 .. Len(stack) /\ Top = stack[Len(stack)]
         /\ \A l \in 1 .. Len(stack) : stack[l].kind = "sheet" => SheetFrame(stack[l])
         /\ \A l \in 1 .. Len(stack) : stack[l].kind # "sheet" => l = 1 /\ MixedFrame(stack[l], type, tok)
<1>1. Len(stack) \in Nat /\ (stack = << >> <=> Len(stack) = 0) /\ DOMAIN stack = 1 .. Len(stack)
  BY DEF StackInv, IsList
<1>2. stack # << >> => Len(stack) \in 1 .. Len(stack)
  BY <1>1
<1>3. \A l \in 1 .. Len(stack) : SheetFrame(stack[l]) \/ (l = 1 /\ MixedFrame(stack[l], type, tok))
  BY DEF StackInv
<1>4. \A f : SheetFrame(f) => f.kind = "sheet"
  BY DEF SheetFrame
<1>5. \A f : MixedFrame(f, type, tok) => f.kind = "mixed"
  BY DEF MixedFrame
<1>6. QED
  BY <1>1, <1>2, <1>3, <1>4, <1>5 DEF Top, Last

LEMMA NeededOne ==
  ASSUME StackInv, Pending, stack # << >>
  PROVE  Len(Needed) = 1 /\ Needed # << >>
<1> DEFINE n == Len(stack)
<1>1. n \in 1 .. n /\ Needed = Awaited(stack[n]) /\ Waits(stack[n])
  BY StackFrames DEF Needed, Pending
<1>2. CASE stack[n].kind = "sheet"
  <2>1. SheetFrame(stack[n]) /\ Needed = stack[n].sheet.ancestors[stack[n].i]
        /\ stack[n].i \in 1 .. Len(stack[n].sheet.ancestors)
    BY <1>1, <1>2, StackFrames DEF Awaited, Waits
  <2>2. Len(Needed) = 1
    BY <2>1 DEF SheetFrame, Lineage
  <2>3. QED
    BY <2>2
<1>3. CASE stack[n].kind # "sheet"
  <2>1. Needed = <<Last(stack[n].keys)>>
    BY <1>1, <1>3 DEF Awaited
  <2>2. QED
    BY <2>1
<1>4. QED
  BY <1>2, <1>3

LEMMA StackSame ==
  ASSUME StackInv, StackKept, stack' = stack
  PROVE  StackInv'
BY DEF StackInv, StackKept

LEMMA StackPush ==
  ASSUME StackInv, StackKept, Pending, NEW f, SheetFrame(f), f.sheet.key = Needed, stack' = Append(stack, f)
  PROVE  StackInv' /\ stack' # << >> /\ stack'[Len(stack')] = f
<1> DEFINE n == Len(stack)
<1>1. n \in Nat /\ (stack = << >> <=> n = 0)
  BY StackFrames
<1>2. PICK S : stack \in Seq(S) /\ f \in S
  <2> DEFINE S == ToSet(stack) \cup {f}
  <2>1. stack \in Seq(ToSet(stack)) /\ ToSet(stack) \subseteq S /\ f \in S
    BY DEF StackInv, IsList
  <2> HIDE DEF S
  <2>2. stack \in Seq(S)
    BY <2>1, SeqMonotonic
  <2>3. QED
    BY <2>1, <2>2
<1>3. stack' \in Seq(S) /\ stack' # << >> /\ Len(stack') = n + 1 /\ stack'[n + 1] = f
      /\ \A l \in 1 .. n : stack'[l] = stack[l]
  BY <1>2, AppendProperties
<1>4. IsList(stack')
  BY <1>3, ListIs
<1> HIDE DEF n
<1>5. \A l \in 1 .. n : SheetFrame(stack[l]) \/ (l = 1 /\ MixedFrame(stack[l], type, tok))
  BY DEF StackInv, n
<1>6. \A l \in 1 .. n + 1 : SheetFrame(stack'[l]) \/ (l = 1 /\ MixedFrame(stack'[l], type, tok))
  <2>1. \A l \in 1 .. n + 1 : l \in 1 .. n \/ l = n + 1
    BY <1>1
  <2>2. QED
    BY <1>3, <1>5, <2>1
<1>7. \A l \in 2 .. n + 1 : Waits(stack'[l - 1]) /\ stack'[l].sheet.key = Awaited(stack'[l - 1])
  <2>1. \A l \in 2 .. n + 1 : (l \in 2 .. n /\ l \in 1 .. n /\ l - 1 \in 1 .. n) \/ (l = n + 1 /\ l - 1 = n /\ n \in 1 .. n)
    BY <1>1
  <2>2. \A l \in 2 .. n : Waits(stack[l - 1]) /\ stack[l].sheet.key = Awaited(stack[l - 1])
    BY DEF StackInv, n
  <2>3. n # 0 => Waits(stack[n]) /\ f.sheet.key = Awaited(stack[n])
    BY <1>1 DEF Pending, Needed, n
  <2>4. QED
    BY <1>1, <1>3, <2>1, <2>2, <2>3
<1>8. stack'[1].kind = "sheet" => stack'[1].sheet.key = type
  <2>1. CASE n = 0
    <3>1. stack'[1] = f /\ f.sheet.key = type
      BY <1>1, <1>3, <2>1 DEF Needed
    <3>2. QED
      BY <3>1
  <2>2. CASE n # 0
    <3>1. 1 \in 1 .. n /\ stack # << >>
      BY <1>1, <2>2
    <3>2. QED
      BY <1>3, <3>1 DEF StackInv
  <2>3. QED
    BY <2>1, <2>2
<1>9. StackInv'
  BY <1>3, <1>4, <1>6, <1>7, <1>8 DEF StackInv, StackKept
<1>10. QED
  BY <1>3, <1>9

LEMMA StackSet ==
  ASSUME StackInv, StackKept, stack # << >>, Top.kind = "sheet",
         NEW f, SheetFrame(f), f.sheet.key = Top.sheet.key, SetTop(f)
  PROVE  StackInv' /\ stack' # << >> /\ stack'[Len(stack')] = f
<1> DEFINE n == Len(stack)
<1>1. n \in 1 .. n /\ n \in Nat /\ Top = stack[n] /\ stack # << >> /\ DOMAIN stack = 1 .. n
  BY StackFrames
<1>2. PICK S : stack \in Seq(S) /\ f \in S
  <2> DEFINE S == ToSet(stack) \cup {f}
  <2>1. stack \in Seq(ToSet(stack)) /\ ToSet(stack) \subseteq S /\ f \in S
    BY DEF StackInv, IsList
  <2> HIDE DEF S
  <2>2. stack \in Seq(S)
    BY <2>1, SeqMonotonic
  <2>3. QED
    BY <2>1, <2>2
<1>3. stack' \in Seq(S) /\ Len(stack') = n /\ stack'[n] = f
      /\ \A l \in 1 .. n - 1 : stack'[l] = stack[l]
  <2>1. stack' = [stack EXCEPT ![n] = f]
    BY DEF SetTop
  <2>2. n = Len(stack) /\ n \in 1 .. Len(stack)
    BY <1>1
  <2> HIDE DEF n
  <2>3. \A l \in 1 .. n - 1 : l \in 1 .. n /\ l # n
    BY <1>1
  <2> DEFINE new == [stack EXCEPT ![n] = f]
  <2>4. new \in Seq(S) /\ Len(new) = Len(stack) /\ \A l \in 1 .. Len(stack) : new[l] = IF l = n THEN f ELSE stack[l]
    BY <1>2, <2>2, ExceptSeq
  <2>5. stack' = new
    BY <2>1
  <2> HIDE DEF new
  <2>6. QED
    BY <1>1, <2>2, <2>3, <2>4, <2>5
<1>4. IsList(stack') /\ stack' # << >>
  BY <1>1, <1>3, ListIs
<1> HIDE DEF n
<1>5. \A l \in 1 .. n : SheetFrame(stack[l]) \/ (l = 1 /\ MixedFrame(stack[l], type, tok))
  BY DEF StackInv, n
<1>6. \A l \in 1 .. n : SheetFrame(stack'[l]) \/ (l = 1 /\ MixedFrame(stack'[l], type, tok))
  <2>1. \A l \in 1 .. n : l \in 1 .. n - 1 \/ l = n
    BY <1>1
  <2>2. QED
    BY <1>3, <1>5, <2>1
<1>7. \A l \in 2 .. n : Waits(stack'[l - 1]) /\ stack'[l].sheet.key = Awaited(stack'[l - 1])
  <2>1. \A l \in 2 .. n : l - 1 \in 1 .. n - 1 /\ (l \in 1 .. n - 1 \/ l = n)
    BY <1>1
  <2>2. \A l \in 2 .. n : Waits(stack[l - 1]) /\ stack[l].sheet.key = Awaited(stack[l - 1])
    BY DEF StackInv, n
  <2>3. f.sheet.key = stack[n].sheet.key
    BY <1>1
  <2>4. QED
    BY <1>3, <2>1, <2>2, <2>3
<1>8. stack'[1].kind = "sheet" => stack'[1].sheet.key = type
  <2>1. CASE n = 1
    <3>1. stack'[1] = f /\ f.sheet.key = type
      BY <1>1, <1>3, <2>1 DEF StackInv
    <3>2. QED
      BY <3>1
  <2>2. CASE n # 1
    <3>1. 1 \in 1 .. n - 1
      BY <1>1, <2>2
    <3>2. QED
      BY <1>1, <1>3, <3>1 DEF StackInv
  <2>3. QED
    BY <2>1, <2>2
<1>9. StackInv'
  BY <1>3, <1>4, <1>6, <1>7, <1>8 DEF StackInv, StackKept
<1>10. QED
  BY <1>3, <1>4, <1>9

LEMMA StackPop ==
  ASSUME StackInv, StackKept, stack # << >>, Top.kind = "sheet", stack' = Front(stack)
  PROVE  StackInv' /\ Pending' /\ Needed' = Top.sheet.key
<1> DEFINE n == Len(stack)
<1>1. n \in 1 .. n /\ n \in Nat /\ Top = stack[n] /\ stack # << >> /\ n # 0
  BY StackFrames
<1>2. PICK S : stack \in Seq(S)
  BY DEF StackInv, IsList
<1>3. stack' \in Seq(S) /\ Len(stack') = n - 1 /\ \A l \in 1 .. n - 1 : stack'[l] = stack[l]
  <2> DEFINE k == n - 1
  <2>1. stack' = SubSeq(stack, 1, k) /\ k \in 0 .. n
    BY <1>1 DEF Front
  <2> HIDE DEF k
  <2>2. stack' \in Seq(S) /\ Len(stack') = k /\ \A l \in 1 .. k : stack'[l] = stack[l]
    BY <1>1, <1>2, <2>1
  <2>3. QED
    BY <2>2 DEF k
<1>4. IsList(stack') /\ (stack' = << >> <=> n = 1)
  BY <1>1, <1>3, ListIs
<1> HIDE DEF n
<1>5. \A l \in 1 .. n : SheetFrame(stack[l]) \/ (l = 1 /\ MixedFrame(stack[l], type, tok))
  BY DEF StackInv, n
<1>6. \A l \in 1 .. n - 1 : SheetFrame(stack'[l]) \/ (l = 1 /\ MixedFrame(stack'[l], type, tok))
  <2>1. \A l \in 1 .. n - 1 : l \in 1 .. n
    BY <1>1
  <2>2. QED
    BY <1>3, <1>5, <2>1
<1>7. \A l \in 2 .. n - 1 : Waits(stack'[l - 1]) /\ stack'[l].sheet.key = Awaited(stack'[l - 1])
  <2>1. \A l \in 2 .. n - 1 : l - 1 \in 1 .. n - 1 /\ l \in 1 .. n - 1 /\ l \in 2 .. n
    BY <1>1
  <2>2. \A l \in 2 .. n : Waits(stack[l - 1]) /\ stack[l].sheet.key = Awaited(stack[l - 1])
    BY DEF StackInv, n
  <2>3. QED
    BY <1>3, <2>1, <2>2
<1>8. stack' # << >> /\ stack'[1].kind = "sheet" => stack'[1].sheet.key = type
  <2>1. n # 1 => 1 \in 1 .. n - 1
    BY <1>1
  <2>2. QED
    BY <1>1, <1>3, <1>4, <2>1 DEF StackInv
<1>9. StackInv'
  BY <1>3, <1>4, <1>6, <1>7, <1>8 DEF StackInv, StackKept
<1>10. Pending' /\ Needed' = Top.sheet.key
  <2>1. CASE n = 1
    <3>1. stack' = << >> /\ type' = type /\ Top.sheet.key = type
      BY <1>1, <1>4, <2>1 DEF StackInv, StackKept
    <3>2. QED
      BY <3>1 DEF Pending, Needed
  <2>2. CASE n # 1
    <3>1. n \in 2 .. n /\ n - 1 \in 1 .. n - 1 /\ stack' # << >>
      BY <1>1, <1>4, <2>2
    <3>2. Waits(stack[n - 1]) /\ stack[n].sheet.key = Awaited(stack[n - 1])
      BY <3>1 DEF StackInv, n
    <3>3. stack'[Len(stack')] = stack[n - 1]
      BY <1>3, <3>1
    <3>4. QED
      BY <1>1, <3>1, <3>2, <3>3 DEF Pending, Needed
  <2>3. QED
    BY <2>1, <2>2
<1>11. QED
  BY <1>9, <1>10

(* What is asked for, and what is answered.                                *)
Known == type # None /\ IsList(type) /\ Kind = "sheet" /\ lib \in Libraries /\ Parsed(lib)

LEMMA CallIs ==
  ASSUME CallInv
  PROVE  /\ call.op = "get" => Pending /\ call.key = Needed
         /\ call.op = "return" => Pending /\ ((call.key = Needed /\ Needed \in Stored) \/ call.key = None)
         /\ call.op = "resume" => stack # << >> /\ SheetFrame(stack[Len(stack)])
BY DEF CallInv

LEMMA BusyIs ==
  ASSUME NEW op, NEW k, call' = Busy(op, k)
  PROVE  call'.op = op /\ call'.key = k
BY DEF Busy

LEMMA GetsKeep ==
  ASSUME Known, StackInv, CallInv, StackKept, GetPlain \/ GetStored \/ GetMissing
  PROVE  StackInv' /\ CallInv' /\ Stored \subseteq Stored'
<1>1. stack' = stack /\ type' = type /\ table' = table /\ lib' = lib
  BY DEF GetPlain, GetStored, GetMissing, StackKept
<1>2. StackInv'
  BY <1>1, StackSame
<1>3. call.op = "get"
  BY DEF GetPlain, GetStored, GetMissing, Busy
<1>4. Pending /\ call.key = Needed
  BY <1>3, CallIs
<1>5. Pending' /\ Needed' = Needed /\ Stored' = Stored
  BY <1>1, <1>4 DEF Pending, Needed, Stored
<1>6. CASE GetPlain
  <2>1. call'.op = "return" /\ call'.key = None /\ call.key = Plain
    BY <1>6 DEF GetPlain, Busy
  <2>2. ASSUME stack = << >>
        PROVE  FALSE
    <3>1. type = Plain
      BY <1>4, <2>1, <2>2 DEF Needed
    <3>2. QED
      BY <3>1 DEF Known, Kind
  <2>3. CallInv'
    BY <1>1, <1>5, <2>1, <2>2 DEF CallInv
  <2>4. QED
    BY <1>2, <1>5, <2>3
<1>7. CASE GetStored
  <2>1. call'.op = "return" /\ call'.key = call.key /\ call.key \in Stored
    BY <1>7 DEF GetStored, Busy
  <2>2. CallInv'
    BY <1>4, <1>5, <2>1 DEF CallInv
  <2>3. QED
    BY <1>2, <1>5, <2>2
<1>8. CASE GetMissing
  <2>1. call'.op = "return" /\ call'.key = None /\ Len(call.key) = 1 /\ call.key[1] \notin DOMAIN lib
    BY <1>8 DEF GetMissing, Busy
  <2>2. ASSUME stack = << >>
        PROVE  ToSet(type) \cap DOMAIN lib = {}
    <3>1. type = call.key
      BY <1>4, <2>2 DEF Needed
    <3>2. DOMAIN type = {1}
      BY <2>1, <3>1 DEF Known, IsList
    <3>3. ToSet(type) = {type[1]}
      BY <3>2 DEF ToSet
    <3>4. QED
      BY <2>1, <3>1, <3>3
  <2>3. CallInv'
    BY <1>1, <1>5, <2>1, <2>2 DEF CallInv
  <2>4. QED
    BY <1>2, <1>5, <2>3
<1>9. QED
  BY <1>6, <1>7, <1>8

LEMMA LoadKeeps ==
  ASSUME Known, StackInv, CallInv, StackKept, Load
  PROVE  StackInv' /\ CallInv' /\ Stored \subseteq Stored'
<1> DEFINE made == ParseStyleSheet(call.key)
           f == [kind |-> "sheet", sheet |-> made, dir |-> "forward", i |-> 1]
<1>1. Pending /\ call.key = Needed /\ Stored' = Stored
  <2>1. call.op = "get" /\ table' = table
    BY DEF Load
  <2>2. QED
    BY <2>1, CallIs DEF Stored
<1>2. CASE TooRecent(call.key)
  <2>1. stack' = stack /\ call'.op = "exit"
    BY <1>2 DEF Load, Busy
  <2>2. StackInv' /\ CallInv'
    BY <2>1, StackSame DEF CallInv
  <2>3. QED
    BY <1>1, <2>2
<1>3. CASE ~TooRecent(call.key)
  <2>1. stack' = Append(stack, f) /\ call'.op = "resume"
    BY <1>3 DEF Load, Busy, Push
  <2>2. Lineage(made) /\ made.key = Needed
    <3>1. call.key[1] \in DOMAIN lib /\ Parsed(lib)
      BY DEF Load, Known
    <3>2. QED
      BY <1>1, <3>1, LineageParsed
  <2>3. SheetFrame(f) /\ f.sheet.key = Needed
    <3> HIDE DEF made
    <3>1. Len(made.ancestors) \in Nat
      BY <2>2 DEF Lineage, IsList
    <3>2. 1 \in 0 .. Len(made.ancestors) + 1
      BY <3>1
    <3>3. QED
      BY <2>2, <3>2 DEF SheetFrame
  <2> HIDE DEF f
  <2>4. StackInv' /\ stack' # << >> /\ stack'[Len(stack')] = f
    BY <1>1, <2>1, <2>3, StackPush
  <2>5. CallInv'
    BY <2>1, <2>3, <2>4 DEF CallInv
  <2>6. QED
    BY <1>1, <2>4, <2>5
<1>4. QED
  BY <1>2, <1>3

LEMMA AskKeeps ==
  ASSUME Known, StackInv, CallInv, StackKept, AskAncestor
  PROVE  StackInv' /\ CallInv' /\ Stored \subseteq Stored'
<1> DEFINE n == Len(stack)
<1>1. stack' = stack /\ table' = table /\ call.op = "resume" /\ call'.op = "get"
      /\ call'.key = Ancestors[Top.i] /\ stack # << >>
  BY DEF AskAncestor, Busy, Reading
<1>2. StackInv' /\ Stored' = Stored
  BY <1>1, StackSame DEF Stored
<1>3. SheetFrame(stack[n]) /\ Top = stack[n] /\ Top.kind = "sheet"
  BY <1>1, CallIs, StackFrames DEF SheetFrame
<1>4. Top.i \in 1 .. Len(Top.sheet.ancestors)
  <2>1. Len(Top.sheet.ancestors) \in Nat
    BY <1>3 DEF SheetFrame, Lineage, IsList
  <2>2. Top.i \in 0 .. Len(Top.sheet.ancestors) + 1
    BY <1>3 DEF SheetFrame
  <2>3. CASE Reading("forward") /\ Top.i <= Len(Ancestors)
    <3>1. Top.i # 0 /\ Top.i <= Len(Top.sheet.ancestors)
      BY <1>3, <2>3 DEF SheetFrame, Reading, Ancestors
    <3>2. QED
      BY <2>1, <2>2, <3>1
  <2>4. CASE Reading("backward") /\ Top.i >= 1
    <3>1. Top.i # Len(Top.sheet.ancestors) + 1
      BY <1>3, <2>4 DEF SheetFrame, Reading
    <3>2. QED
      BY <2>1, <2>2, <2>4, <3>1
  <2>5. QED
    BY <2>3, <2>4 DEF AskAncestor
<1>5. Pending' /\ Needed' = Top.sheet.ancestors[Top.i]
  BY <1>1, <1>3, <1>4 DEF Pending, Needed, Waits, Awaited
<1>6. CallInv'
  BY <1>1, <1>5 DEF CallInv, Ancestors
<1>7. QED
  BY <1>2, <1>6

LEMMA TakesKeep ==
  ASSUME Known, StackInv, CallInv, StackKept, TakeStrings \/ TakeSyntax
  PROVE  StackInv' /\ CallInv' /\ Stored \subseteq Stored'
<1> DEFINE n == Len(stack)
           m == Len(Top.sheet.ancestors)
<1>1. table' = table /\ call.op = "return" /\ call'.op = "resume" /\ stack # << >>
  BY DEF TakeStrings, TakeSyntax, Busy, Reading
<1>2. Stored' = Stored
  BY <1>1 DEF Stored
<1>3. Top = stack[n] /\ Pending /\ Top.kind = "sheet" /\ SheetFrame(Top)
  <2>1. Top.kind = "sheet"
    BY DEF TakeStrings, TakeSyntax, Reading
  <2>2. QED
    BY <1>1, <2>1, CallIs, StackFrames
<1>4. Lineage(Top.sheet) /\ m \in Nat /\ Top.i \in 1 .. m /\ {"kind", "sheet", "dir", "i"} \subseteq DOMAIN Top
  BY <1>1, <1>3 DEF Pending, Waits, SheetFrame, Lineage, IsList
<1>5. \E f : SetTop(f) /\ SheetFrame(f) /\ f.sheet.key = Top.sheet.key
  <2>1. CASE TakeStrings
    <3> DEFINE new == IF call.key = None THEN Top.sheet ELSE InheritStrings(Top.sheet, table[call.key])
               f == [Top EXCEPT !.i = Top.i + 1, !.sheet = new]
    <3>1. SetTop(f) /\ Top.dir = "forward"
      BY <2>1 DEF TakeStrings, Reading
    <3>2. Lineage(new) /\ new.key = Top.sheet.key /\ new.ancestors = Top.sheet.ancestors
      BY <1>4, LineageKept
    <3> HIDE DEF new
    <3>3. f.kind = "sheet" /\ f.dir = "forward" /\ f.i = Top.i + 1 /\ f.sheet = new /\ DOMAIN f = DOMAIN Top
      BY <1>3, <1>4, <3>1
    <3>4. Top.i + 1 \in 0 .. m + 1 /\ Top.i + 1 # 0
      BY <1>4
    <3> HIDE DEF f
    <3>5. SheetFrame(f)
      BY <1>4, <3>2, <3>3, <3>4 DEF SheetFrame
    <3>6. QED
      BY <3>1, <3>2, <3>3, <3>5
  <2>2. CASE TakeSyntax
    <3> DEFINE new == IF call.key = None THEN Top.sheet ELSE InheritSyntax(Top.sheet, table[call.key])
               f == [Top EXCEPT !.i = Top.i - 1, !.sheet = new]
    <3>1. SetTop(f) /\ Top.dir = "backward"
      BY <2>2 DEF TakeSyntax, Reading
    <3>2. Lineage(new) /\ new.key = Top.sheet.key /\ new.ancestors = Top.sheet.ancestors
      BY <1>4, LineageKept
    <3> HIDE DEF new
    <3>3. f.kind = "sheet" /\ f.dir = "backward" /\ f.i = Top.i - 1 /\ f.sheet = new /\ DOMAIN f = DOMAIN Top
      BY <1>3, <1>4, <3>1
    <3>4. Top.i - 1 \in 0 .. m + 1 /\ Top.i - 1 # m + 1
      BY <1>4
    <3> HIDE DEF f
    <3>5. SheetFrame(f)
      BY <1>4, <3>2, <3>3, <3>4 DEF SheetFrame
    <3>6. QED
      BY <3>1, <3>2, <3>3, <3>5
  <2>3. QED
    BY <2>1, <2>2
<1>6. PICK f : SetTop(f) /\ SheetFrame(f) /\ f.sheet.key = Top.sheet.key
  BY <1>5
<1>7. StackInv' /\ stack' # << >> /\ stack'[Len(stack')] = f
  BY <1>1, <1>3, <1>6, StackSet
<1>8. CallInv'
  BY <1>1, <1>6, <1>7 DEF CallInv
<1>9. QED
  BY <1>2, <1>7, <1>8

LEMMA TurnKeeps ==
  ASSUME Known, StackInv, CallInv, StackKept, TurnBack
  PROVE  StackInv' /\ CallInv' /\ Stored \subseteq Stored'
<1> DEFINE m == Len(Top.sheet.ancestors)
           f == [Top EXCEPT !.dir = "backward", !.i = m]
<1>1. table' = table /\ call.op = "resume" /\ call' = call /\ stack # << >> /\ Top.kind = "sheet" /\ SetTop(f)
  BY DEF TurnBack, Busy, Reading, Ancestors
<1>2. Stored' = Stored
  BY <1>1 DEF Stored
<1>3. SheetFrame(Top)
  BY <1>1, StackFrames
<1>4. Lineage(Top.sheet) /\ m \in Nat /\ {"kind", "sheet", "dir", "i"} \subseteq DOMAIN Top
  BY <1>3 DEF SheetFrame, Lineage, IsList
<1>5. f.kind = "sheet" /\ f.dir = "backward" /\ f.i = m /\ f.sheet = Top.sheet /\ DOMAIN f = DOMAIN Top
  BY <1>1, <1>4
<1>6. m \in 0 .. m + 1 /\ m # m + 1
  BY <1>4
<1> HIDE DEF f
<1>7. SheetFrame(f) /\ f.sheet.key = Top.sheet.key
  BY <1>4, <1>5, <1>6 DEF SheetFrame
<1>8. StackInv' /\ stack' # << >> /\ stack'[Len(stack')] = f
  BY <1>1, <1>7, StackSet
<1>9. CallInv'
  BY <1>1, <1>7, <1>8 DEF CallInv
<1>10. QED
  BY <1>2, <1>8, <1>9

LEMMA FinishKeeps ==
  ASSUME Known, StackInv, CallInv, StackKept, Finish
  PROVE  StackInv' /\ CallInv' /\ Stored \subseteq Stored'
<1> DEFINE sheet == Finalized(Top.sheet)
<1>1. /\ stack # << >> /\ Top.kind = "sheet" /\ stack' = Front(stack) /\ Store(sheet)
      /\ call' = Busy(IF sheet.key \in DOMAIN table' THEN "return" ELSE "lost", sheet.key)
  BY DEF Finish, Reading
<1>2. SheetFrame(Top)
  BY <1>1, StackFrames
<1>3. sheet.key = Top.sheet.key
  BY <1>2, LineageKept DEF SheetFrame
<1> HIDE DEF sheet
<1>4. Stored' = Stored \cup {sheet.key}
  BY <1>1 DEF Store, Stored
<1>5. StackInv' /\ Pending' /\ Needed' = sheet.key
  BY <1>1, <1>3, StackPop
<1>6. call'.op = "return" /\ call'.key = sheet.key
  BY <1>1, <1>4 DEF Busy, Stored
<1>7. CallInv'
  BY <1>4, <1>5, <1>6 DEF CallInv
<1>8. QED
  BY <1>4, <1>5, <1>7

LEMMA HeadAndTail ==
  ASSUME NEW S, NEW s \in Seq(S), s # << >>
  PROVE  s[1] \in S /\ Tail(s) \in Seq(S) /\ s = <<s[1]>> \o Tail(s)
<1>1. s[1] \in S /\ Tail(s) \in Seq(S) /\ Len(Tail(s)) = Len(s) - 1 /\ \A i \in 1 .. Len(Tail(s)) : Tail(s)[i] = s[i + 1]
  BY HeadTailProperties
<1> DEFINE t == Tail(s)
           h == <<s[1]>>
           u == h \o t
<1>2. h \in Seq(S) /\ Len(h) = 1 /\ h[1] = s[1]
  BY <1>1
<1>3. t \in Seq(S) /\ Len(t) = Len(s) - 1 /\ Len(s) \in Nat /\ \A i \in 1 .. Len(t) : t[i] = s[i + 1]
  BY <1>1
<1> HIDE DEF h, t
<1>4. u \in Seq(S) /\ Len(u) = 1 + Len(t) /\ \A i \in 1 .. 1 + Len(t) : u[i] = IF i <= 1 THEN h[i] ELSE t[i - 1]
  <2>1. /\ u \in Seq(S) /\ Len(u) = Len(h) + Len(t)
        /\ \A i \in 1 .. Len(h) + Len(t) : u[i] = IF i <= Len(h) THEN h[i] ELSE t[i - Len(h)]
    <3>1. h \in Seq(S) /\ t \in Seq(S)
      BY <1>2, <1>3
    <3>2. QED
      BY ONLY <3>1, ConcatProperties
  <2> HIDE DEF u
  <2>2. QED
    BY <1>2, <2>1
<1> HIDE DEF u
<1>5. Len(u) = Len(s)
  BY <1>3, <1>4
<1>6. ASSUME NEW i \in 1 .. Len(u)
      PROVE  u[i] = s[i]
  <2>1. CASE i = 1
    BY <1>2, <1>3, <1>4, <1>5, <2>1
  <2>2. CASE i # 1
    <3>1. i - 1 \in 1 .. Len(t) /\ i - 1 + 1 = i /\ ~(i <= 1) /\ i \in 1 .. 1 + Len(t)
      BY <1>3, <1>4, <2>2
    <3>2. QED
      BY <1>3, <1>4, <3>1
  <2>3. QED
    BY <2>1, <2>2
<1>7. u = s
  BY <1>4, <1>5, <1>6, SeqEqual
<1>8. QED
  BY <1>1, <1>7 DEF u, h, t

(* style_sheet_mixed_new                                                   *)
LEMMA MixKeeps ==
  ASSUME Known, StackInv, CallInv, type' = type, Mix
  PROVE  StackInv' /\ CallInv' /\ Stored \subseteq Stored'
<1> DEFINE S == ToSet(type)
           f == [kind |-> "mixed", keys |-> <<type[1]>>, key |-> << >>]
<1>1. call.op = "get" /\ Len(call.key) > 1 /\ table' = table
  BY DEF Mix
<1>2. Pending /\ call.key = Needed /\ Stored' = Stored
  BY <1>1, CallIs DEF Stored
<1>3. stack = << >> /\ call.key = type
  <2>1. ASSUME stack # << >>
        PROVE  FALSE
    <3>1. Len(Needed) = 1
      BY <1>2, <2>1, NeededOne
    <3>2. Len(Needed) > 1
      BY <1>1, <1>2
    <3>3. QED
      BY <3>1, <3>2
  <2>2. QED
    BY <1>2, <2>1 DEF Needed
<1>4. stack' = Append(stack, f) /\ tok' = Tail(type) /\ call'.op = "get" /\ call'.key = <<type[1]>>
  BY <1>3 DEF Mix, Push, Busy
<1>5. type \in Seq(S) /\ type # << >>
  BY DEF Known, IsList, None
<1>6. type[1] \in S /\ tok' \in Seq(S) /\ type = <<type[1]>> \o tok'
  <2> HIDE DEF S
  <2>1. QED
    BY <1>4, <1>5, HeadAndTail
<1>7. f.kind = "mixed" /\ f.keys = <<type[1]>> /\ f.key = << >> /\ {"kind", "keys", "key"} \subseteq DOMAIN f
  OBVIOUS
<1> HIDE DEF f
<1>8. stack' = <<f>> /\ Len(stack') = 1 /\ stack'[1] = f /\ stack' # << >>
  BY <1>3, <1>4
<1>9. MixedFrame(f, type', tok')
  <2> DEFINE one == <<type[1]>>
             p == << >> \o one
  <2>1. one \in Seq(S) /\ << >> \in Seq(S) /\ one # << >> /\ Last(one) = type[1]
    BY <1>6 DEF Last
  <2>2. p = one
    <3> HIDE DEF one, S
    <3>1. QED
      BY <2>1, ConcatEmptySeq
  <2> HIDE DEF p
  <2>3. p \o tok' = type
    BY <1>6, <2>2
  <2>4. f.key \o <<Last(f.keys)>> = p
    BY <1>7, <2>1 DEF p
  <2>5. f.key \o <<Last(f.keys)>> \o tok' = type
    BY <2>3, <2>4
  <2>6. QED
    BY <1>6, <1>7, <2>1, <2>5 DEF MixedFrame
<1>10. IsList(stack')
  <2>1. stack' \in Seq({f})
    BY <1>8
  <2>2. QED
    BY <2>1, ListIs
<1>11. StackInv'
  <2>1. 2 .. 1 = {} /\ 1 .. 1 = {1}
    OBVIOUS
  <2>2. QED
    BY <1>7, <1>8, <1>9, <1>10, <2>1 DEF StackInv
<1>12. Needed' = <<type[1]>> /\ Pending'
  BY <1>7, <1>8 DEF Needed, Pending, Awaited, Waits, Last
<1>13. CallInv'
  BY <1>4, <1>12 DEF CallInv
<1>14. QED
  BY <1>2, <1>11, <1>13

(* One turn of its loop: what is left of the key, and what was found.      *)
LEMMA MixNextKeeps ==
  ASSUME Known, StackInv, CallInv, type' = type, MixNext
  PROVE  StackInv' /\ CallInv' /\ Stored \subseteq Stored'
<1> DEFINE S == ToSet(type)
           f == stack[1]
<1>1. call.op = "return" /\ stack # << >> /\ Top.kind = "mixed" /\ table' = table
  BY DEF MixNext
<1>2. Pending /\ ((call.key = Needed /\ Needed \in Stored) \/ call.key = None) /\ Stored' = Stored
  BY <1>1, CallIs DEF Stored
<1>3. Len(stack) = 1 /\ Top = f /\ MixedFrame(f, type, tok)
  BY <1>1, StackFrames
<1>4. f.keys \in Seq(S) /\ f.key \in Seq(S) /\ tok \in Seq(S) /\ f.keys # << >>
      /\ f.key \o <<Last(f.keys)>> \o tok = type /\ {"kind", "keys", "key"} \subseteq DOMAIN f
  BY <1>3 DEF MixedFrame
<1>5. Needed = <<Last(f.keys)>>
  BY <1>1, <1>3 DEF Needed, Awaited
<1>6. CASE call.key = None
  <2>1. stack' = stack /\ tok' = tok /\ call'.op = "crash"
    BY <1>6 DEF MixNext, Busy
  <2>2. StackInv' /\ CallInv'
    BY <2>1, StackSame DEF CallInv, StackKept
  <2>3. QED
    BY <1>2, <2>2
<1> DEFINE k == f.key \o call.key
<1>7. k \in Seq(S) /\ (call.key # None => k \o tok = type)
  <2>1. Last(f.keys) \in S
    <3> HIDE DEF f, S
    <3>1. QED
      BY <1>4 DEF Last
  <2>2. CASE call.key = None
    <3>1. << >> \in Seq(S)
      OBVIOUS
    <3> HIDE DEF f, S
    <3>2. QED
      BY <1>4, <2>2, <3>1 DEF None
  <2>3. CASE call.key # None
    <3>1. call.key = <<Last(f.keys)>>
      BY <1>2, <1>5, <2>3
    <3>2. call.key \in Seq(S)
      BY <2>1, <3>1
    <3> HIDE DEF f, S
    <3>3. k \in Seq(S)
      BY <1>4, <3>2
    <3>4. k \o tok = type
      BY <1>4, <3>1
    <3>5. QED
      BY <3>3, <3>4
  <2>4. QED
    BY <2>2, <2>3
<1>8. ASSUME NEW g, stack' = [stack EXCEPT ![Len(stack)] = g]
      PROVE  Len(stack') = 1 /\ stack'[1] = g /\ stack' # << >> /\ IsList(stack')
  <2> DEFINE T == ToSet(stack) \cup {g}
  <2>1. stack \in Seq(ToSet(stack)) /\ ToSet(stack) \subseteq T /\ g \in T /\ stack' = [stack EXCEPT ![1] = g]
    BY <1>3, <1>8 DEF StackInv, IsList
  <2> HIDE DEF T
  <2>2. stack \in Seq(T) /\ 1 \in 1 .. Len(stack)
    BY <1>3, <2>1, SeqMonotonic
  <2>3. stack' \in Seq(T) /\ Len(stack') = 1 /\ stack'[1] = g /\ stack' # << >>
    BY <1>3, <2>1, <2>2, ExceptSeq
  <2>4. QED
    BY <2>3, ListIs
<1>9. CASE call.key # None /\ tok # << >>
  <2> DEFINE g == [f EXCEPT !.keys = Append(f.keys, tok[1]), !.key = k]
             one == <<tok[1]>>
             t == Tail(tok)
  <2>1. stack' = [stack EXCEPT ![Len(stack)] = g] /\ tok' = t /\ call'.op = "get" /\ call'.key = one
    BY <1>3, <1>9 DEF MixNext, SetTop, Busy
  <2>2. tok[1] \in S /\ t \in Seq(S) /\ tok = one \o t
    <3> HIDE DEF S
    <3>1. QED
      BY <1>4, <1>9, HeadAndTail
  <2>3. f.kind = "mixed"
    BY <1>1, <1>3
  <2> DEFINE keys == Append(f.keys, tok[1])
  <2>4. keys \in Seq(S) /\ keys # << >> /\ Last(keys) = tok[1]
    <3> HIDE DEF S, f
    <3> DEFINE old == f.keys
               w == tok[1]
    <3>1. old \in Seq(S) /\ w \in S /\ keys = Append(old, w)
      BY <1>4, <2>2
    <3> HIDE DEF old, w, keys
    <3>2. keys \in Seq(S) /\ keys # << >> /\ Len(keys) = Len(old) + 1 /\ keys[Len(old) + 1] = w
      BY <3>1, AppendProperties
    <3>3. QED
      BY <3>2 DEF Last, w
  <2> HIDE DEF keys
  <2>5. g.keys = keys /\ g.key = k /\ g.kind = "mixed" /\ DOMAIN g = DOMAIN f
    BY <1>4, <2>3 DEF keys
  <2> HIDE DEF g
  <2>6. one \in Seq(S)
    BY <2>2
  <2>7. k \o one \o t = type
    <3> HIDE DEF k, S, one, t
    <3>1. (k \o one) \o t = k \o (one \o t)
      BY <1>7, <2>2, <2>6, ConcatAssociative
    <3>2. QED
      BY <1>7, <1>9, <2>2, <3>1
  <2>8. MixedFrame(g, type, t)
    BY <1>4, <1>7, <2>2, <2>4, <2>5, <2>7 DEF MixedFrame, one
  <2>9. Len(stack') = 1 /\ stack'[1] = g /\ stack' # << >> /\ IsList(stack')
    BY <1>8, <2>1
  <2>10. StackInv'
    <3>1. 2 .. 1 = {} /\ 1 .. 1 = {1}
      OBVIOUS
    <3>2. MixedFrame(g, type', tok')
      BY <2>1, <2>8
    <3>3. QED
      BY <2>5, <2>9, <3>1, <3>2 DEF StackInv
  <2>11. Needed' = one /\ Pending'
    BY <2>4, <2>5, <2>9 DEF Needed, Pending, Awaited, Waits
  <2>12. CallInv'
    BY <2>1, <2>11 DEF CallInv
  <2>13. QED
    BY <1>2, <2>10, <2>12
<1>10. CASE call.key # None /\ tok = << >>
  <2> DEFINE anc == [j \in DOMAIN f.keys |-> <<f.keys[j]>>]
             made == [NewStyleSheet EXCEPT !.key = k, !.ancestors = anc]
             g == [kind |-> "sheet", dir |-> "forward", i |-> 1, sheet |-> made]
  <2>1. stack' = [stack EXCEPT ![Len(stack)] = g] /\ tok' = tok /\ call'.op = "resume"
    BY <1>3, <1>10 DEF MixNext, SetTop, Busy
  <2>2. k = type
    <3> HIDE DEF k, S
    <3>1. k \o << >> = k
      BY <1>7, ConcatEmptySeq
    <3>2. QED
      BY <1>7, <1>10, <3>1
  <2>3. made.key = type /\ made.ancestors = anc /\ {"key", "ancestors"} \subseteq DOMAIN made
    <3>1. {"key", "ancestors"} \subseteq DOMAIN NewStyleSheet
      BY LineageNew DEF Lineage
    <3> HIDE DEF k, anc
    <3>2. QED
      BY <2>2, <3>1
  <2>4. IsList(anc) /\ \A j \in 1 .. Len(anc) : Len(anc[j]) = 1
    <3> DEFINE m == Len(f.keys)
               T == {<<x>> : x \in S}
    <3>1. m \in Nat /\ DOMAIN f.keys = 1 .. m /\ \A j \in 1 .. m : f.keys[j] \in S
      <4> HIDE DEF S, f
      <4>1. QED
        BY <1>4
    <3> HIDE DEF m
    <3>2. anc \in [1 .. m -> T]
      BY <3>1
    <3>3. \A x \in T : Len(x) = 1
      OBVIOUS
    <3> HIDE DEF anc, T
    <3>4. anc \in Seq(T) /\ \A j \in 1 .. Len(anc) : anc[j] \in T
      BY <3>1, <3>2
    <3>5. QED
      BY <3>3, <3>4, ListIs
  <2> HIDE DEF anc
  <2>5. Lineage(made)
    BY <2>3, <2>4 DEF Lineage
  <2> HIDE DEF made
  <2>6. SheetFrame(g) /\ g.sheet.key = type /\ g.kind = "sheet"
    <3>1. 1 \in 0 .. Len(made.ancestors) + 1
      BY <2>5 DEF Lineage, IsList
    <3>2. QED
      BY <2>3, <2>5, <3>1 DEF SheetFrame
  <2> HIDE DEF g
  <2>7. Len(stack') = 1 /\ stack'[1] = g /\ stack' # << >> /\ IsList(stack')
    BY <1>8, <2>1
  <2>8. StackInv'
    <3>1. 2 .. 1 = {} /\ 1 .. 1 = {1}
      OBVIOUS
    <3>2. QED
      BY <2>6, <2>7, <3>1 DEF StackInv
  <2>9. CallInv'
    BY <2>1, <2>6, <2>7 DEF CallInv
  <2>10. QED
    BY <1>2, <2>8, <2>9
<1>11. QED
  BY <1>6, <1>9, <1>10

LEMMA LoaderKeeps ==
  ASSUME Known, StackInv, CallInv, type' = type, Loader
  PROVE  StackInv' /\ CallInv' /\ Stored \subseteq Stored'
<1>1. Mix \/ MixNext \/ StackKept
  BY DEF Loader, StackKept, GetPlain, GetStored, GetMissing, Load, AskAncestor, TakeStrings, TakeSyntax, TurnBack,
         Finish
<1>2. QED
  BY <1>1, GetsKeep, LoadKeeps, MixKeeps, MixNextKeeps, AskKeeps, TakesKeep, TurnKeeps, FinishKeeps
     DEF Loader, StackKept, GetPlain, GetStored, GetMissing, Load, AskAncestor, TakeStrings, TakeSyntax, TurnBack,
         Finish

-----------------------------------------------------------------------------
(* Printing.                                                               *)
Fits(d) ==
  /\ d.how = "sheet" => d.type \in Stored
  /\ d.how = "plain" => IF d.type = <<"binary">> THEN PrintBinaries
                        ELSE Highlight = 0 \/ ToSet(d.type) \cap DOMAIN lib = {}
  /\ d.how = "ignored" => d.type \in {<<"UNPRINTABLE">>, <<"binary">>}

LEMMA PrintedIs == PrintedAsTyped <=> \A i \in DOMAIN done : Fits(done[i])
BY DEF PrintedAsTyped, Fits

LEMMA PrintedKept ==
  ASSUME PrintedAsTyped, done' = done, lib' = lib, Stored \subseteq Stored'
  PROVE  PrintedAsTyped'
BY DEF PrintedAsTyped

LEMMA PrintedMore ==
  ASSUME PrintedAsTyped, NEW S, done \in Seq(S), UNCHANGED <<lib, table>>,
         NEW d, Fits(d), done' = Append(done, d)
  PROVE  PrintedAsTyped'
<1> DEFINE n == Len(done)
           T == S \cup {d}
<1>1. done \in Seq(T) /\ d \in T /\ n \in Nat /\ DOMAIN done = 1 .. n
  <2>1. S \subseteq T
    OBVIOUS
  <2> HIDE DEF T
  <2>2. done \in Seq(T)
    BY <2>1, SeqMonotonic
  <2>3. QED
    BY <2>2 DEF T
<1> HIDE DEF T
<1>2. DOMAIN done' = 1 .. n + 1 /\ done'[n + 1] = d /\ \A i \in 1 .. n : done'[i] = done[i]
  BY <1>1, AppendProperties
<1> HIDE DEF n
<1>3. \A i \in 1 .. n : Fits(done[i])
  BY <1>1, PrintedIs
<1>4. \A i \in 1 .. n + 1 : i \in 1 .. n \/ i = n + 1
  BY <1>1
<1>5. \A i \in DOMAIN done' : Fits(done'[i])
  BY <1>2, <1>3, <1>4
<1>6. Stored' = Stored /\ lib' = lib
  BY DEF Stored
<1>7. QED
  BY <1>5, <1>6 DEF PrintedAsTyped, Fits

LEMMA KindOfSheet ==
  ASSUME Kind = "sheet"
  PROVE  type # <<"binary">> /\ type # Plain
BY DEF Kind

LEMMA KindFits ==
  ASSUME Kind # "sheet", lib \in Libraries,
         NEW how, how \in IF Kind = "delegate" THEN {"delegated", "failed"} ELSE {Kind}
  PROVE  Fits([type |-> type, how |-> how])
<1> DEFINE d == [type |-> type, how |-> how]
<1>1. d.type = type /\ d.how = how
  OBVIOUS
<1>2. ToSet(Plain) \cap DOMAIN lib = {}
  <2>1. ToSet(Plain) = {"plain"}
    BY DEF ToSet, Plain
  <2>2. "plain" \notin DOMAIN lib
    BY StyleSheetsAssumption
  <2>3. QED
    BY <2>1, <2>2
<1>3. Kind = "delegate" \/ how = Kind
  OBVIOUS
<1> HIDE DEF d
<1>4. CASE Kind = "delegate"
  BY <1>1, <1>4 DEF Fits
<1>5. CASE Kind # "delegate" /\ type = <<"UNPRINTABLE">>
  <2>1. how = "ignored"
    BY <1>3, <1>5 DEF Kind
  <2>2. QED
    BY <1>1, <1>5, <2>1 DEF Fits
<1>6. CASE Kind # "delegate" /\ type # <<"UNPRINTABLE">> /\ type = <<"binary">>
  <2>1. how = IF PrintBinaries THEN "plain" ELSE "ignored"
    BY <1>3, <1>6 DEF Kind
  <2>2. QED
    BY <1>1, <1>6, <2>1 DEF Fits
<1>7. CASE Kind # "delegate" /\ type # <<"UNPRINTABLE">> /\ type # <<"binary">>
  <2>1. how = "plain" /\ (type = Plain \/ Highlight = 0)
    BY <1>3, <1>7 DEF Kind
  <2>2. QED
    BY <1>1, <1>2, <1>7, <2>1 DEF Fits
<1>8. QED
  BY <1>4, <1>5, <1>6, <1>7

PrintInv == TypedInv /\ Linked /\ PrintedAsTyped

LEMMA PrintInvInit == TypingInit => PrintInv
<1> SUFFICES ASSUME TypingInit
             PROVE  PrintInv
  OBVIOUS
<1>1. PICK s \in Scenarios : lib = s.lib /\ style_request = s.style
  BY DEF TypingInit
<1>2. lib \in Libraries /\ Parsed(lib) /\ IsList(style_request)
  BY <1>1, FileTypingAssumption DEF TypingInit, Init
<1>3. type = None /\ call = Idle /\ stack = << >> /\ current.at = "open" /\ done = << >>
  BY DEF TypingInit, Init
<1>4. Linked
  BY <1>2, <1>3 DEF Linked
<1>5. PrintedAsTyped
  BY <1>3 DEF PrintedAsTyped
<1>6. QED
  BY <1>4, <1>5, TypedInvInit DEF PrintInv

LEMMA LinkedLoads ==
  ASSUME Linked, PrintedAsTyped, LoadSheet
  PROVE  Linked' /\ PrintedAsTyped'
<1>1. /\ input' = input /\ style_request' = style_request /\ current' = current /\ type' = type /\ done' = done
      /\ Loader /\ lib' = lib
  BY DEF LoadSheet, fileVars, Loader, GetPlain, GetStored, GetMissing, Load, Mix, MixNext, AskAncestor, TakeStrings,
         TakeSyntax, TurnBack, Finish
<1>2. CASE input = << >>
  <2>1. Linked'
    BY <1>1, <1>2 DEF Linked
  <2>2. done' = << >>
    BY <1>1, <1>2 DEF Linked
  <2>3. QED
    BY <2>1, <2>2 DEF PrintedAsTyped
<1>3. CASE input # << >>
  <2>1. current.at = "sheet"
    BY <1>3 DEF LoadSheet, At
  <2>2. Known /\ StackInv /\ CallInv
    BY <1>3, <2>1 DEF Linked, Known
  <2>3. StackInv' /\ CallInv' /\ Stored \subseteq Stored'
    BY <1>1, <2>2, LoaderKeeps
  <2>4. Kind' = Kind
    BY <1>1 DEF Kind
  <2>5. Linked'
    BY <1>1, <1>3, <2>1, <2>2, <2>3, <2>4 DEF Linked, Known
  <2>6. QED
    BY <1>1, <2>3, <2>5, PrintedKept
<1>4. QED
  BY <1>2, <1>3

LEMMA PrintInvNext == PrintInv /\ [TypingNext]_allVars => PrintInv'
<1> SUFFICES ASSUME PrintInv, [TypingNext]_allVars
             PROVE  PrintInv'
  OBVIOUS
<1>1. TypedInv /\ Linked /\ PrintedAsTyped /\ TypedInv'
  BY TypedInvNext DEF PrintInv
<1>2. SUFFICES Linked' /\ PrintedAsTyped'
  BY <1>1 DEF PrintInv
<1>3. PICK S : done \in Seq(S)
  BY <1>1 DEF TypedInv, CurrentInv
<1>4. current \in [i : Nat \ {0}, at : Places]
  BY <1>1 DEF TypedInv, CurrentInv
<1>5. \A x : IsList(<<x>>)
  <2>1. ASSUME NEW x
        PROVE  IsList(<<x>>)
    <3>1. <<x>> \in Seq({x})
      OBVIOUS
    <3>2. QED
      BY <3>1, ListIs
  <2>2. QED
    BY <2>1
<1>6. CASE UNCHANGED allVars
  <2>1. /\ input' = input /\ style_request' = style_request /\ current' = current /\ type' = type /\ done' = done
        /\ lib' = lib /\ table' = table /\ stack' = stack /\ call' = call /\ tok' = tok
    BY <1>6 DEF allVars, vars, fileVars
  <2>2. StackInv => StackInv'
    BY <2>1, StackSame DEF StackKept
  <2>3. Stored' = Stored
    BY <2>1 DEF Stored
  <2>4. CallInv => CallInv'
    BY <2>1, <2>3 DEF CallInv, Pending, Needed
  <2>5. Kind' = Kind
    BY <2>1 DEF Kind
  <2>6. Linked'
    BY <1>1, <2>1, <2>2, <2>4, <2>5 DEF Linked
  <2>7. QED
    BY <1>1, <2>1, <2>3, <2>6, PrintedKept
<1>7. CASE InputNew \/ LoadMap \/ ScanMap \/ GetCommand
  <2>1. /\ input' = input /\ style_request' = style_request /\ done' = done
        /\ lib' = lib /\ table' = table /\ stack' = stack /\ call' = call
    BY <1>7 DEF InputNew, LoadMap, ScanMap, GetCommand, vars, fileVars
  <2>2. current.at # "sheet" /\ current'.at # "sheet"
    <3>1. current.at # "sheet"
      BY <1>7 DEF InputNew, LoadMap, ScanMap, GetCommand, MapReady, At
    <3>2. current'.at \in {"typed", "load", "loading"}
      BY <1>4, <1>7, <3>1 DEF InputNew, LoadMap, ScanMap, GetCommand, Step, fileVars, At
    <3>3. QED
      BY <3>1, <3>2
  <2>3. (type' # None => IsList(type')) /\ (current'.at = "typed" => type' # None)
    <3>1. \A x : <<x>> # None
      BY DEF None
    <3>2. CASE InputNew
      <4>1. \/ type' = <<"UNPRINTABLE">>
            \/ style_request # None /\ type' = style_request
            \/ type' = type /\ current'.at = "load"
        BY <1>4, <3>2 DEF InputNew, Step
      <4>2. QED
        BY <1>1, <1>5, <3>1, <4>1 DEF Linked
    <3>3. CASE GetCommand
      BY <1>5, <3>1, <3>3 DEF GetCommand
    <3>4. CASE LoadMap \/ ScanMap
      <4>1. type' = type /\ current'.at # "typed"
        BY <1>4, <3>4 DEF LoadMap, ScanMap, fileVars, Step, At
      <4>2. QED
        BY <1>1, <4>1 DEF Linked
    <3>5. QED
      BY <1>7, <3>2, <3>3, <3>4
  <2>4. Linked'
    BY <1>1, <2>1, <2>2, <2>3 DEF Linked
  <2>5. Stored' = Stored
    BY <2>1 DEF Stored
  <2>6. QED
    BY <1>1, <2>1, <2>4, <2>5, PrintedKept
<1>8. CASE PrintDirectly
  <2>1. /\ input' = input /\ style_request' = style_request /\ current.at = "typed" /\ current.i <= Len(input)
        /\ lib' = lib /\ table' = table /\ stack' = stack /\ call' = call
        /\ current'.at = "open" /\ type' = None /\ Kind # "sheet"
    BY <1>8 DEF PrintDirectly, vars, At, NextFile
  <2>2. PICK how \in IF Kind = "delegate" THEN {"delegated", "failed"} ELSE {Kind} : Record(how)
    BY <1>8 DEF PrintDirectly
  <2> DEFINE d == [type |-> type, how |-> how]
  <2>3. Fits(d)
    BY <1>1, <2>1, <2>2, KindFits DEF Linked
  <2>4. done' = Append(done, d)
    BY <2>2 DEF Record
  <2> HIDE DEF d
  <2>5. PrintedAsTyped'
    BY <1>1, <1>3, <2>1, <2>3, <2>4, PrintedMore
  <2>6. input # << >>
    BY <1>4, <2>1
  <2>7. Linked'
    BY <1>1, <2>1, <2>6 DEF Linked
  <2>8. QED
    BY <2>5, <2>7
<1>9. CASE AskSheet
  <2>1. /\ input' = input /\ style_request' = style_request /\ done' = done /\ type' = type
        /\ lib' = lib /\ table' = table /\ stack' = stack /\ stack = << >> /\ Kind = "sheet"
        /\ current.at = "typed" /\ call' = Busy("get", type) /\ current.i <= Len(input)
    BY <1>9 DEF AskSheet, At, RequestFor
  <2>2. current'.at = "sheet"
    BY <1>4, <1>9 DEF AskSheet, Step
  <2>3. StackInv'
    <3>1. << >> \in Seq({}) /\ Len(<< >>) = 0
      OBVIOUS
    <3>2. IsList(stack') /\ Len(stack') = 0 /\ stack' = << >>
      BY <2>1, <3>1, ListIs
    <3>3. 1 .. 0 = {} /\ 2 .. 0 = {}
      OBVIOUS
    <3>4. QED
      BY <3>2, <3>3 DEF StackInv
  <2>4. CallInv'
    <3>1. Pending' /\ Needed' = type
      BY <2>1 DEF Pending, Needed
    <3>2. call'.op = "get" /\ call'.key = type
      BY <2>1 DEF Busy
    <3>3. QED
      BY <3>1, <3>2 DEF CallInv
  <2>5. Kind' = "sheet"
    BY <2>1 DEF Kind
  <2>6. input # << >>
    BY <1>4, <2>1
  <2>7. Linked'
    BY <1>1, <2>1, <2>2, <2>3, <2>4, <2>5, <2>6 DEF Linked
  <2>8. Stored' = Stored
    BY <2>1 DEF Stored
  <2>9. QED
    BY <1>1, <2>1, <2>7, <2>8, PrintedKept
<1>10. CASE LoadSheet
  BY <1>1, <1>10, LinkedLoads
<1>11. CASE PrintWithSheet
  <2>1. /\ input' = input /\ style_request' = style_request /\ current.at = "sheet" /\ current.i <= Len(input)
        /\ lib' = lib /\ table' = table /\ stack' = stack /\ stack = << >> /\ call' = Idle /\ call.op = "return"
        /\ current'.at = "open" /\ type' = None
        /\ done' = Append(done, [type |-> type, how |-> IF call.key = None THEN "plain" ELSE "sheet"])
    BY <1>11 DEF PrintWithSheet, Answer, At, NextFile, Record
  <2>2. input # << >>
    BY <1>4, <2>1
  <2>3. type # None /\ Kind = "sheet" /\ StackInv /\ CallInv
    BY <1>1, <2>1, <2>2 DEF Linked
  <2>4. \/ call.key = type /\ type \in Stored
        \/ call.key = None /\ ToSet(type) \cap DOMAIN lib = {}
    BY <2>1, <2>3 DEF CallInv, Needed
  <2> DEFINE how == IF call.key = None THEN "plain" ELSE "sheet"
             d == [type |-> type, how |-> how]
  <2>5. Fits(d)
    <3>1. d.type = type /\ d.how = how /\ type # <<"binary">>
      BY <2>3, KindOfSheet
    <3> HIDE DEF d
    <3>2. CASE call.key = None
      <4>1. how = "plain" /\ ToSet(type) \cap DOMAIN lib = {}
        BY <2>3, <2>4, <3>2
      <4>2. QED
        BY <3>1, <4>1 DEF Fits
    <3>3. CASE call.key # None
      <4>1. how = "sheet" /\ type \in Stored
        BY <2>4, <3>3
      <4>2. QED
        BY <3>1, <4>1 DEF Fits
    <3>4. QED
      BY <3>2, <3>3
  <2>6. PrintedAsTyped'
    <3>1. done' = Append(done, d)
      BY <2>1
    <3> HIDE DEF d
    <3>2. QED
      BY <1>1, <1>3, <2>1, <2>5, <3>1, PrintedMore
  <2>7. Linked'
    BY <1>1, <2>1, <2>2 DEF Linked
  <2>8. QED
    BY <2>6, <2>7
<1>12. CASE ListSheets
  <2>1. /\ input' = input /\ style_request' = style_request /\ current' = current /\ type' = type /\ done' = done
        /\ lib' = lib /\ input = << >>
    BY <1>12 DEF ListSheets, fileVars, List, ListNext, ListTake
  <2>2. Linked'
    BY <1>1, <2>1 DEF Linked
  <2>3. done' = << >>
    BY <1>1, <2>1 DEF Linked
  <2>4. QED
    BY <2>2, <2>3 DEF PrintedAsTyped
<1>13. QED
  BY <1>6, <1>7, <1>8, <1>9, <1>10, <1>11, <1>12 DEF TypingNext

(* Whatever the map, the files, the sheets and the style asked for: a file *)
(* is typed by its own name and content, whatever was done before it (but  *)
(* for the sample of the standard input), and printed with the sheet of    *)
(* its type, which is loaded then, or as plain text, by an application or  *)
(* not at all, as its type says.                                           *)
THEOREM TypedAndPrintedAlways == TypingSpec => []TypedAndPrinted
<1>1. TypingInit => PrintInv
  BY PrintInvInit
<1>2. PrintInv /\ [TypingNext]_allVars => PrintInv'
  BY PrintInvNext
<1>3. PrintInv => TypedAndPrinted
  BY DEF PrintInv, TypedInv, TypedAndPrinted
<1>4. QED
  BY <1>1, <1>2, <1>3, PTL DEF TypingSpec

=============================================================================
