---------------------------- MODULE LibraryProofs ---------------------------
(*************************************************************************)
(* Proofs about what a document takes from the library, for any files    *)
(* that include each other in any way, any encodings, fonts and faces.   *)
(*                                                                       *)
(* Library: the recursion of output_file is bounded, each file that is   *)
(* included is written once (output.c:330), and the setup sections go to *)
(* the setup of the document, and nothing else.  The invariant says of   *)
(* each call that is running where it was called from.                   *)
(*                                                                       *)
(* Resources: the fonts that the dictionaries define are needed or       *)
(* supplied, and the faces have fonts.  The invariant says of each       *)
(* encoding whose names were read where its fonts are named, and of the  *)
(* faces that the widths are built of them.                              *)
(*************************************************************************)
EXTENDS MCDocuments, FiniteSetTheorems, SequenceTheorems, FunctionTheorems, WellFoundedInduction,
        NaturalsInduction, FiniteSetsExt, TLAPS

(* Induction, and the greatest element of what is bounded, from the order  *)
(* of the natural numbers.                                                 *)
LEMMA Least ==
  ASSUME NEW T \in SUBSET Nat, T # {}
  PROVE  \E i \in T : \A k \in T : i <= k
<1> DEFINE Order == OpToRel(<, Nat)
<1>1. IsWellFoundedOn(Order, Nat)
  BY NatLessThanWellFounded
<1>2. PICK i \in T : \A k \in T : <<k, i>> \notin Order
  <2> HIDE DEF Order
  <2>1. QED
    BY <1>1, WFMin
<1>3. ASSUME NEW k \in T
      PROVE  i <= k
  <2>1. <<k, i>> \notin Order
    BY <1>2
  <2>2. k \in Nat /\ i \in Nat
    OBVIOUS
  <2>3. ~(k < i)
    BY <2>1, <2>2 DEF Order, OpToRel
  <2>4. QED
    BY <2>2, <2>3
<1>4. QED
  BY <1>3

LEMMA Induction ==
  ASSUME NEW n \in Nat, NEW T, 0 \in T, \A i \in 1 .. n : i - 1 \in T => i \in T
  PROVE  \A i \in 0 .. n : i \in T
<1> DEFINE S == {i \in 0 .. n : i \notin T}
<1>1. SUFFICES ASSUME S # {}
               PROVE  FALSE
  OBVIOUS
<1>2. S \in SUBSET Nat
  OBVIOUS
<1>3. PICK i \in S : \A k \in S : i <= k
  <2> HIDE DEF S
  <2>1. QED
    BY <1>1, <1>2, Least
<1>4. i \in 1 .. n /\ i - 1 \in 0 .. n /\ ~(i <= i - 1)
  BY <1>3
<1>5. i - 1 \in T
  BY <1>3, <1>4
<1>6. QED
  BY <1>3, <1>4, <1>5

-----------------------------------------------------------------------------
Dests == {"main", "setup"}
Frame == [file : Files, line : Nat \ {0}, out : Dests, dest : Dests]

Shape ==
  /\ stack \in Seq(Frame) /\ (Reading => stack # << >>)
  /\ needed \subseteq Files /\ IsFiniteSet(needed)
  /\ Len(stack) <= Cardinality(needed) + 1
  /\ wrote \in [Dests -> Seq(Files \X Nat)]
  /\ lines \in [Files -> BoundedSeq(Lines, Length)]
  /\ result \in {"reading", "done"} \cup Errors

(* A call writes where the line that makes it would be written; what goes  *)
(* to the setup is what is in a section of its file or of a caller.        *)
InSections(s, i) == \E k \in 1 .. i : InSection(s[k].file, s[k].line)
Nested(s) ==
  \A i \in 1 .. Len(s) :
    /\ s[i].out = IF i = 1 THEN "main" ELSE s[i - 1].dest
    /\ s[i].dest = "setup" <=> InSections(s, i)
MainPlain == \A i \in DOMAIN wrote["main"] : ~InSection(wrote["main"][i][1], wrote["main"][i][2])

(* A file is recorded before it is read, and read by one call; what was    *)
(* written of it is before the line that is read next.                     *)
Recorded(s, N) == \A i \in 1 .. Len(s) : s[i].file # Prologue => s[i].file \in N
CalledOnce(s) ==
  \A i, k \in 1 .. Len(s) : s[i].file = s[k].file /\ s[i].file # Prologue => i = k
Behind(s, N, l) ==
  l[1] # Prologue =>
    /\ l[1] \in N
    /\ \A i \in 1 .. Len(s) : s[i].file = l[1] => l[2] < s[i].line
WrittenBehind(s, N, w) == \A d \in Dests : \A i \in DOMAIN w[d] : Behind(s, N, w[d][i])

LibraryInv ==
  /\ Shape
  /\ Nested(stack)
  /\ MainPlain
  /\ Recorded(stack, needed)
  /\ CalledOnce(stack)
  /\ WrittenBehind(stack, needed, wrote)
  /\ IncludedOnce
(* What a line does to the sections of its file.                           *)
LEMMA SectionOfNext ==
  ASSUME NEW f, NEW n \in Nat \ {0}
  PROVE  /\ ~InSection(f, 1)
         /\ lines[f][n] = "BeginSetup" => InSection(f, n + 1)
         /\ lines[f][n] = "EndSetup" => ~InSection(f, n + 1)
         /\ lines[f][n] \notin {"BeginSetup", "EndSetup"} => (InSection(f, n + 1) <=> InSection(f, n))
<1>1. ~InSection(f, 1)
  BY DEF InSection
<1>2. ASSUME lines[f][n] = "BeginSetup" PROVE InSection(f, n + 1)
  <2>1. n \in 1 .. (n + 1) - 1 /\ \A j \in n .. (n + 1) - 1 : lines[f][j] # "EndSetup"
    BY <1>2
  <2>2. QED
    BY <1>2, <2>1 DEF InSection
<1>3. ASSUME lines[f][n] = "EndSetup" PROVE ~InSection(f, n + 1)
  <2>1. \A i \in 1 .. (n + 1) - 1 : n \in i .. (n + 1) - 1
    OBVIOUS
  <2>2. QED
    BY <1>3, <2>1 DEF InSection
<1>4. ASSUME lines[f][n] \notin {"BeginSetup", "EndSetup"}
      PROVE  InSection(f, n + 1) <=> InSection(f, n)
  <2>1. (n + 1) - 1 = n /\ 1 .. n = (1 .. n - 1) \cup {n}
    OBVIOUS
  <2>2. \A i \in 1 .. n - 1 : i .. n = (i .. n - 1) \cup {n}
    OBVIOUS
  <2>3. QED
    BY <1>4, <2>1, <2>2 DEF InSection
<1>5. QED
  BY <1>1, <1>2, <1>3, <1>4

LEMMA SectionKept ==
  ASSUME lines' = lines
  PROVE  \A f, n : InSection(f, n)' <=> InSection(f, n)
BY DEF InSection

(* The call on top replaced, or left.                                      *)
LEMMA TopReplaced ==
  ASSUME NEW s \in Seq(Frame), s # << >>, NEW g \in Frame
  PROVE  /\ Append(Front(s), g) \in Seq(Frame) /\ Len(Append(Front(s), g)) = Len(s)
         /\ Append(Front(s), g)[Len(s)] = g
         /\ \A i \in 1 .. Len(s) - 1 : Append(Front(s), g)[i] = s[i]
         /\ Last(s) = s[Len(s)] /\ Last(s) \in Frame /\ Len(s) \in Nat \ {0}
         /\ Front(s) \in Seq(Frame) /\ Len(Front(s)) = Len(s) - 1
         /\ \A i \in 1 .. Len(s) - 1 : Front(s)[i] = s[i]
<1>1. Len(s) \in Nat \ {0} /\ \A i \in 1 .. Len(s) : s[i] \in Frame
  OBVIOUS
<1>2. Front(s) \in Seq(Frame) /\ Len(Front(s)) = Len(s) - 1 /\ \A i \in 1 .. Len(s) - 1 : Front(s)[i] = s[i]
  <2>1. \A i \in 1 .. Len(s) - 1 : s[i] \in Frame
    BY <1>1
  <2> DEFINE b == SubSeq(s, 1, Len(s) - 1)
  <2>2. /\ b \in Seq(Frame)
        /\ Len(b) = IF 1 <= Len(s) - 1 THEN (Len(s) - 1) - 1 + 1 ELSE 0
        /\ \A i \in 1 .. (Len(s) - 1) - 1 + 1 : b[i] = s[1 + i - 1]
    BY <1>1, <2>1, SubSeqProperties
  <2> HIDE DEF b
  <2>3. b \in Seq(Frame) /\ Len(b) = Len(s) - 1 /\ \A i \in 1 .. Len(s) - 1 : b[i] = s[i]
    <3> DEFINE n == Len(s)
    <3>1. /\ n \in Nat \ {0} /\ b \in Seq(Frame)
          /\ Len(b) = IF 1 <= n - 1 THEN (n - 1) - 1 + 1 ELSE 0
          /\ \A i \in 1 .. (n - 1) - 1 + 1 : b[i] = s[1 + i - 1]
      BY <1>1, <2>2
    <3> HIDE DEF n
    <3>2. Len(b) = n - 1 /\ 1 .. n - 1 = 1 .. (n - 1) - 1 + 1
      BY <3>1
    <3>3. ASSUME NEW i \in 1 .. n - 1 PROVE b[i] = s[i]
      <4>1. 1 + i - 1 = i
        OBVIOUS
      <4>2. QED
        BY <3>1, <3>2, <4>1
    <3>4. QED
      BY <3>1, <3>2, <3>3 DEF n
  <2>4. QED
    BY <2>3 DEF b, Front
<1> DEFINE b == Front(s)
<1>3. /\ Append(b, g) \in Seq(Frame) /\ Len(Append(b, g)) = Len(b) + 1
      /\ Append(b, g)[Len(b) + 1] = g
      /\ \A i \in 1 .. Len(b) : Append(b, g)[i] = b[i]
  BY <1>2, AppendProperties
<1> HIDE DEF b
<1>4. Len(b) = Len(s) - 1 /\ \A i \in 1 .. Len(s) - 1 : b[i] = s[i]
  BY <1>2 DEF b
<1>5. /\ Append(b, g) \in Seq(Frame) /\ Len(Append(b, g)) = Len(s)
      /\ Append(b, g)[Len(s)] = g
      /\ \A i \in 1 .. Len(s) - 1 : Append(b, g)[i] = s[i]
  BY <1>1, <1>3, <1>4
<1>6. QED
  BY <1>1, <1>2, <1>5 DEF b, Last

(* The file on top is one line further.                                    *)
LEMMA Advance ==
  ASSUME NEW s \in Seq(Frame), s # << >>, Nested(s), CalledOnce(s),
         NEW g \in Frame, g.file = Last(s).file, g.line = Last(s).line + 1, g.out = Last(s).out,
         g.dest = "setup" <=> InSections(s, Len(s) - 1) \/ InSection(g.file, g.line),
         NEW t, t = Append(Front(s), g)
  PROVE  /\ Nested(t) /\ CalledOnce(t)
         /\ \A N : Recorded(s, N) => Recorded(t, N)
         /\ \A N : \A l \in Files \X Nat : Behind(s, N, l) => Behind(t, N, l)
         /\ \A N : Recorded(s, N) => Behind(t, N, <<Last(s).file, Last(s).line>>)
<1> DEFINE n == Len(s)
<1>1. /\ t \in Seq(Frame) /\ Len(t) = n /\ t[n] = g /\ \A i \in 1 .. n - 1 : t[i] = s[i]
      /\ Last(s) = s[n] /\ s[n] \in Frame /\ n \in Nat \ {0}
  BY TopReplaced
<1> HIDE DEF n
<1>2. \A i \in 1 .. n : t[i].file = s[i].file /\ t[i].out = s[i].out
  BY <1>1
<1>3. \A i \in 1 .. n : t[i].line \in Nat /\ s[i].line \in Nat /\ s[i].line <= t[i].line
  <2>1. \A i \in 1 .. n - 1 : t[i].line = s[i].line
    BY <1>1
  <2>2. \A i \in 1 .. n : s[i] \in Frame
    BY DEF n
  <2>3. t[n].line = s[n].line + 1 /\ \A i \in 1 .. n : s[i].line \in Nat
    BY <1>1, <2>2 DEF Frame
  <2>4. QED
    BY <1>1, <2>1, <2>3
<1>4. Nested(t)
  <2>1. ASSUME NEW i \in 1 .. n - 1 PROVE InSections(t, i) <=> InSections(s, i)
    <3>1. \A k \in 1 .. i : t[k] = s[k]
      BY <1>1
    <3>2. QED
      BY <3>1, Zenon DEF InSections
  <2>2. InSections(t, n) <=> InSections(s, n - 1) \/ InSection(g.file, g.line)
    <3>1. \A k \in 1 .. n - 1 : t[k] = s[k]
      BY <1>1
    <3>2. 1 .. n = (1 .. n - 1) \cup {n}
      BY <1>1
    <3>3. QED
      BY <1>1, <3>1, <3>2, Zenon DEF InSections
  <2>3. ASSUME NEW i \in 1 .. n
        PROVE  /\ t[i].out = IF i = 1 THEN "main" ELSE t[i - 1].dest
               /\ t[i].dest = "setup" <=> InSections(t, i)
    <3>1. CASE i = n
      BY <1>1, <2>2, <3>1 DEF Nested, n
    <3>2. CASE i \in 1 .. n - 1
      BY <1>1, <2>1, <3>2 DEF Nested, n
    <3>3. QED
      BY <1>1, <3>1, <3>2
  <2>4. QED
    BY <1>1, <2>3 DEF Nested
<1>5. CalledOnce(t)
  BY <1>1, <1>2 DEF CalledOnce, n
<1>6. \A N : Recorded(s, N) => Recorded(t, N)
  BY <1>1, <1>2 DEF Recorded, n
<1>7. ASSUME NEW N, NEW l \in Files \X Nat, Behind(s, N, l) PROVE Behind(t, N, l)
  BY <1>1, <1>2, <1>3, <1>7 DEF Behind, n
<1>8. ASSUME NEW N, Recorded(s, N) PROVE Behind(t, N, <<Last(s).file, Last(s).line>>)
  <2>1. s[n].file # Prologue => s[n].file \in N
    BY <1>1, <1>8 DEF Recorded, n
  <2>2. ASSUME NEW i \in 1 .. n, t[i].file = s[n].file, s[n].file # Prologue PROVE s[n].line < t[i].line
    <3>1. i = n
      BY <1>1, <1>2, <2>2 DEF CalledOnce, n
    <3>2. QED
      BY <1>1, <3>1 DEF Frame
  <2>3. QED
    BY <1>1, <2>1, <2>2 DEF Behind
<1>9. QED
  BY <1>4, <1>5, <1>6, <1>7, <1>8

(* A file that is not being read is called.                                *)
LEMMA Push ==
  ASSUME NEW s \in Seq(Frame), s # << >>, Nested(s), CalledOnce(s),
         NEW f \in Files, f # Prologue => \A i \in 1 .. Len(s) : s[i].file # f,
         NEW t, t = Append(s, Call(f, Last(s).dest))
  PROVE  /\ t \in Seq(Frame) /\ Len(t) = Len(s) + 1
         /\ Nested(t) /\ CalledOnce(t)
         /\ \A N : Recorded(s, N) => Recorded(t, N \cup {f})
         /\ \A N, l : f \notin N /\ Behind(s, N, l) => Behind(t, N \cup {f}, l)
<1> DEFINE n == Len(s)  c == Call(f, Last(s).dest)
<1>1. n \in Nat \ {0} /\ Last(s) = s[n] /\ s[n] \in Frame
  BY TopReplaced
<1>2. /\ c \in Frame /\ c.file = f /\ c.line = 1 /\ c.out = s[n].dest /\ c.dest = s[n].dest
  BY <1>1 DEF Frame, Call
<1>3. /\ t \in Seq(Frame) /\ Len(t) = n + 1 /\ t[n + 1] = c /\ \A i \in 1 .. n : t[i] = s[i]
  BY <1>2, AppendProperties
<1> HIDE DEF n, c
<1>4. Nested(t)
  <2>1. ASSUME NEW i \in 1 .. n PROVE InSections(t, i) <=> InSections(s, i)
    <3>1. \A k \in 1 .. i : t[k] = s[k]
      BY <1>1, <1>3
    <3>2. QED
      BY <3>1, Zenon DEF InSections
  <2>2. InSections(t, n + 1) <=> InSections(s, n)
    <3>1. 1 .. n + 1 = (1 .. n) \cup {n + 1}
      BY <1>1
    <3>2. ~InSection(t[n + 1].file, t[n + 1].line)
      <4>1. ~InSection(f, 1)
        BY SectionOfNext, 1 \in Nat \ {0}
      <4>2. QED
        BY <1>2, <1>3, <4>1
    <3>3. QED
      BY <1>3, <3>1, <3>2, Zenon DEF InSections
  <2>3. ASSUME NEW i \in 1 .. n + 1
        PROVE  /\ t[i].out = IF i = 1 THEN "main" ELSE t[i - 1].dest
               /\ t[i].dest = "setup" <=> InSections(t, i)
    <3>1. CASE i = n + 1
      <4>1. s[n].dest = "setup" <=> InSections(s, n)
        BY <1>1 DEF Nested, n
      <4>2. i # 1 /\ i - 1 = n /\ t[i - 1] = s[n]
        BY <1>1, <1>3, <3>1
      <4>3. QED
        BY <1>2, <1>3, <2>2, <3>1, <4>1, <4>2
    <3>2. CASE i \in 1 .. n
      <4>1. /\ s[i].out = IF i = 1 THEN "main" ELSE s[i - 1].dest
            /\ s[i].dest = "setup" <=> InSections(s, i)
        BY <3>2 DEF Nested, n
      <4>2. t[i] = s[i] /\ (i # 1 => t[i - 1] = s[i - 1])
        BY <1>1, <1>3, <3>2
      <4>3. t[i].out = IF i = 1 THEN "main" ELSE t[i - 1].dest
        BY <4>1, <4>2
      <4>4. t[i].dest = "setup" <=> InSections(t, i)
        BY <2>1, <3>2, <4>1, <4>2, Zenon
      <4>5. QED
        BY <4>3, <4>4, Zenon
    <3>3. i = n + 1 \/ i \in 1 .. n
      BY <1>1
    <3>4. QED
      BY <3>1, <3>2, <3>3, Zenon
  <2>4. QED
    BY <1>3, <2>3 DEF Nested
<1>5. CalledOnce(t)
  BY <1>1, <1>2, <1>3 DEF CalledOnce, n
<1>6. ASSUME NEW N, Recorded(s, N) PROVE Recorded(t, N \cup {f})
  BY <1>1, <1>2, <1>3, <1>6 DEF Recorded, n
<1>7. ASSUME NEW N, NEW l, f \notin N, Behind(s, N, l) PROVE Behind(t, N \cup {f}, l)
  <2>1. ASSUME l[1] # Prologue, NEW i \in 1 .. n + 1, t[i].file = l[1] PROVE l[2] < t[i].line
    <3>1. i # n + 1
      BY <1>2, <1>3, <1>7, <2>1 DEF Behind
    <3>2. i \in 1 .. n
      BY <1>1, <3>1
    <3>3. QED
      BY <1>3, <1>7, <2>1, <3>2 DEF Behind, n
  <2>2. QED
    BY <1>3, <1>7, <2>1 DEF Behind
<1>8. QED
  BY <1>3, <1>4, <1>5, <1>6, <1>7 DEF n

(* The call on top returns.                                                *)
LEMMA Pop ==
  ASSUME NEW s \in Seq(Frame), s # << >>, Nested(s), CalledOnce(s), NEW t, t = Front(s)
  PROVE  /\ t \in Seq(Frame) /\ Len(t) = Len(s) - 1
         /\ Nested(t) /\ CalledOnce(t)
         /\ \A N : Recorded(s, N) => Recorded(t, N)
         /\ \A N, l : Behind(s, N, l) => Behind(t, N, l)
<1> DEFINE n == Len(s)
<1>1. /\ t \in Seq(Frame) /\ Len(t) = n - 1 /\ n \in Nat \ {0}
      /\ \A i \in 1 .. n - 1 : t[i] = s[i]
  BY TopReplaced
<1> HIDE DEF n
<1>2. 1 .. n - 1 \subseteq 1 .. n
  BY <1>1
<1>3. ASSUME NEW i \in 1 .. n - 1
      PROVE  /\ t[i].out = IF i = 1 THEN "main" ELSE t[i - 1].dest
             /\ t[i].dest = "setup" <=> InSections(t, i)
  <2>1. \A k \in 1 .. i : t[k] = s[k]
    BY <1>1
  <2>2. InSections(t, i) <=> InSections(s, i)
    BY <2>1, Zenon DEF InSections
  <2>3. QED
    BY <1>1, <1>2, <2>2 DEF Nested, n
<1>4. Nested(t)
  BY <1>1, <1>3 DEF Nested
<1>5. CalledOnce(t)
  BY <1>1, <1>2 DEF CalledOnce, n
<1>6. \A N : Recorded(s, N) => Recorded(t, N)
  BY <1>1, <1>2 DEF Recorded, n
<1>7. \A N, l : Behind(s, N, l) => Behind(t, N, l)
  BY <1>1, <1>2 DEF Behind, n
<1>8. QED
  BY <1>1, <1>4, <1>5, <1>6, <1>7 DEF n
(* What is known of the file that is read.                                 *)
LEMMA TopFacts ==
  ASSUME LibraryInv, Reading
  PROVE  /\ stack \in Seq(Frame) /\ stack # << >> /\ Len(stack) \in Nat \ {0}
         /\ Top = stack[Len(stack)] /\ Top \in Frame /\ Top.line \in Nat \ {0}
         /\ Advanced \in Frame
         /\ Advanced.file = Top.file /\ Advanced.line = Top.line + 1
         /\ Advanced.out = Top.out /\ Advanced.dest = Top.dest
         /\ Top.dest = "setup" <=>
              InSections(stack, Len(stack) - 1) \/ InSection(Top.file, Top.line)
         /\ Top.out = "setup" <=> InSections(stack, Len(stack) - 1)
<1> DEFINE n == Len(stack)
<1>1. stack \in Seq(Frame) /\ stack # << >>
  BY DEF LibraryInv, Shape
<1>2. n \in Nat \ {0} /\ Top = stack[n] /\ Top \in Frame
  BY <1>1, TopReplaced DEF Top
<1>3. /\ Top.line \in Nat \ {0} /\ Advanced \in Frame
      /\ Advanced.file = Top.file /\ Advanced.line = Top.line + 1
      /\ Advanced.out = Top.out /\ Advanced.dest = Top.dest
  BY <1>2 DEF Advanced, Frame
<1> HIDE DEF n
<1>4. /\ Top.dest = "setup" <=> InSections(stack, n)
      /\ Top.out = IF n = 1 THEN "main" ELSE stack[n - 1].dest
  <2>1. n \in 1 .. n
    BY <1>2
  <2>2. /\ stack[n].out = IF n = 1 THEN "main" ELSE stack[n - 1].dest
        /\ stack[n].dest = "setup" <=> InSections(stack, n)
    BY <2>1, Zenon DEF LibraryInv, Nested, n
  <2>3. QED
    BY <1>2, <2>2
<1>5. InSections(stack, n) <=> InSections(stack, n - 1) \/ InSection(Top.file, Top.line)
  <2>1. 1 .. n = (1 .. n - 1) \cup {n}
    BY <1>2
  <2>2. QED
    BY <1>2, <2>1, Zenon DEF InSections
<1>6. Top.out = "setup" <=> InSections(stack, n - 1)
  <2>1. CASE n = 1
    <3>1. 1 .. n - 1 = {}
      BY <2>1
    <3>2. ~InSections(stack, n - 1)
      BY <3>1, Zenon DEF InSections
    <3>3. QED
      BY <1>4, <2>1, <3>2
  <2>2. CASE n # 1
    <3>1. n - 1 \in 1 .. n
      BY <1>2, <2>2
    <3>2. stack[n - 1].dest = "setup" <=> InSections(stack, n - 1)
      BY <3>1 DEF LibraryInv, Nested, n
    <3>3. QED
      BY <1>4, <2>2, <3>2
  <2>3. QED
    BY <2>1, <2>2
<1>7. Top.dest = "setup" <=> InSections(stack, n - 1) \/ InSection(Top.file, Top.line)
  BY <1>4, <1>5, Zenon
<1>8. QED
  BY <1>1, <1>2, <1>3, <1>6, <1>7 DEF n

LEMMA NestedKept ==
  ASSUME lines' = lines, Nested(stack')
  PROVE  Nested(stack)'
<1>1. \A f, n : InSection(f, n)' <=> InSection(f, n)
  BY SectionKept
<1>2. QED
  BY <1>1, Zenon DEF Nested, InSections

(* A line is written.                                                      *)
LEMMA Written ==
  ASSUME wrote \in [Dests -> Seq(Files \X Nat)], NEW d \in Dests, NEW l \in Files \X Nat,
         NEW w, w = [wrote EXCEPT ![d] = Append(@, l)]
  PROVE  /\ w \in [Dests -> Seq(Files \X Nat)]
         /\ \A e \in Dests : \A i \in DOMAIN w[e] :
              \/ i \in DOMAIN wrote[e] /\ w[e][i] = wrote[e][i]
              \/ e = d /\ i = Len(wrote[d]) + 1 /\ w[e][i] = l
<1>1. wrote[d] \in Seq(Files \X Nat)
  OBVIOUS
<1> DEFINE u == Append(wrote[d], l)
<1>2. /\ u \in Seq(Files \X Nat) /\ Len(u) = Len(wrote[d]) + 1
      /\ \A i \in 1 .. Len(wrote[d]) : u[i] = wrote[d][i]
      /\ u[Len(wrote[d]) + 1] = l
  BY <1>1, AppendProperties
<1>3. w = [wrote EXCEPT ![d] = u]
  OBVIOUS
<1> HIDE DEF u
<1>4. /\ w \in [Dests -> Seq(Files \X Nat)] /\ w[d] = u
      /\ \A e \in Dests \ {d} : w[e] = wrote[e]
  BY <1>2, <1>3
<1>5. \A i \in DOMAIN u : \/ i \in DOMAIN wrote[d] /\ u[i] = wrote[d][i]
                          \/ i = Len(wrote[d]) + 1 /\ u[i] = l
  <2>1. DOMAIN u = 1 .. Len(u) /\ DOMAIN wrote[d] = 1 .. Len(wrote[d]) /\ Len(wrote[d]) \in Nat
    BY <1>1, <1>2
  <2>2. QED
    BY <1>2, <2>1
<1>6. QED
  BY <1>4, <1>5

(* Each action keeps the invariant.                                        *)
LEMMA TextKeeps ==
  ASSUME LibraryInv, Text
  PROVE  LibraryInv'
<1> DEFINE l == <<Top.file, Top.line>>  n == Len(stack)
<1>1. /\ Reading /\ Line = "text"
      /\ wrote' = [wrote EXCEPT ![Top.dest] = Append(@, l)]
      /\ stack' = Append(Front(stack), Advanced)
      /\ lines' = lines /\ needed' = needed /\ result' = result
  BY DEF Text, Below
<1>2. /\ stack \in Seq(Frame) /\ stack # << >> /\ n \in Nat \ {0}
      /\ Top = stack[n] /\ Top = Last(stack) /\ Top \in Frame /\ Top.line \in Nat \ {0}
      /\ Advanced \in Frame
      /\ Advanced.file = Top.file /\ Advanced.line = Top.line + 1
      /\ Advanced.out = Top.out /\ Advanced.dest = Top.dest
      /\ Top.dest = "setup" <=> InSections(stack, n - 1) \/ InSection(Top.file, Top.line)
  BY <1>1, TopFacts DEF Top
<1>3. InSection(Top.file, Top.line + 1) <=> InSection(Top.file, Top.line)
  BY <1>1, <1>2, SectionOfNext DEF Line
<1>4. Top.dest \in Dests /\ l \in Files \X Nat
  BY <1>2 DEF Frame
<1>5. /\ wrote' \in [Dests -> Seq(Files \X Nat)]
      /\ \A e \in Dests : \A i \in DOMAIN wrote'[e] :
           \/ i \in DOMAIN wrote[e] /\ wrote'[e][i] = wrote[e][i]
           \/ e = Top.dest /\ i = Len(wrote[Top.dest]) + 1 /\ wrote'[e][i] = l
  <2> DEFINE d == Top.dest
  <2>1. d \in Dests /\ l \in Files \X Nat /\ wrote \in [Dests -> Seq(Files \X Nat)]
    BY <1>4 DEF LibraryInv, Shape
  <2>2. wrote' = [wrote EXCEPT ![d] = Append(@, l)]
    BY <1>1
  <2> HIDE DEF d, l
  <2>3. /\ wrote' \in [Dests -> Seq(Files \X Nat)]
        /\ \A e \in Dests : \A i \in DOMAIN wrote'[e] :
             \/ i \in DOMAIN wrote[e] /\ wrote'[e][i] = wrote[e][i]
             \/ e = d /\ i = Len(wrote[d]) + 1 /\ wrote'[e][i] = l
    BY <2>1, <2>2, Written
  <2>4. QED
    BY <2>3 DEF d
<1> HIDE DEF l, n
<1>6. Advanced.dest = "setup" <=> InSections(stack, n - 1) \/ InSection(Advanced.file, Advanced.line)
  BY <1>2, <1>3
<1>7. /\ Nested(stack') /\ CalledOnce(stack')
      /\ Recorded(stack', needed)
      /\ \A k \in Files \X Nat : Behind(stack, needed, k) => Behind(stack', needed, k)
      /\ Behind(stack', needed, l)
  <2>1. Nested(stack) /\ CalledOnce(stack) /\ Recorded(stack, needed)
    BY DEF LibraryInv
  <2>2. QED
    BY <1>1, <1>2, <1>6, <2>1, Advance DEF l, n
<1>8. Shape'
  <2>1. stack' \in Seq(Frame) /\ Len(stack') = n
    BY <1>1, <1>2, TopReplaced DEF n
  <2>2. QED
    BY <1>1, <1>2, <1>5, <2>1 DEF LibraryInv, Shape, Reading, n
<1>9. MainPlain'
  <2>1. \A f, k : InSection(f, k)' <=> InSection(f, k)
    BY <1>1, SectionKept
  <2>2. Top.dest = "main" => ~InSection(l[1], l[2])
    BY <1>2 DEF l
  <2>3. ASSUME NEW i \in DOMAIN wrote'["main"]
        PROVE  ~InSection(wrote'["main"][i][1], wrote'["main"][i][2])
    BY <1>5, <2>2, <2>3 DEF LibraryInv, MainPlain, Dests
  <2>4. QED
    BY <2>1, <2>3, Zenon DEF MainPlain
<1>10. WrittenBehind(stack', needed, wrote')
  <2>1. ASSUME NEW d \in Dests, NEW i \in DOMAIN wrote'[d] PROVE Behind(stack', needed, wrote'[d][i])
    <3>1. CASE i \in DOMAIN wrote[d] /\ wrote'[d][i] = wrote[d][i]
      <4>1. wrote[d][i] \in Files \X Nat /\ Behind(stack, needed, wrote[d][i])
        BY <3>1 DEF LibraryInv, Shape, WrittenBehind
      <4>2. QED
        BY <1>7, <3>1, <4>1
    <3>2. CASE wrote'[d][i] = l
      BY <1>7, <3>2
    <3>3. QED
      BY <1>5, <3>1, <3>2, Zenon
  <2>2. QED
    BY <2>1 DEF WrittenBehind
<1>11. IncludedOnce'
  <2>1. \A d \in Dests : \A i \in DOMAIN wrote[d] : wrote[d][i] = l => l[1] = Prologue
    <3>1. SUFFICES ASSUME NEW d \in Dests, NEW i \in DOMAIN wrote[d], wrote[d][i] = l, l[1] # Prologue
                   PROVE  FALSE
      OBVIOUS
    <3>2. Behind(stack, needed, l)
      BY <3>1 DEF LibraryInv, WrittenBehind
    <3>3. n \in 1 .. n /\ stack[n].file = l[1] /\ stack[n].line = l[2] /\ l[2] \in Nat
      BY <1>2 DEF l
    <3>4. QED
      BY <3>1, <3>2, <3>3 DEF Behind, n
  <2>2. DOMAIN wrote = Dests /\ DOMAIN wrote' = Dests
    BY <1>5 DEF LibraryInv, Shape
  <2>3. ASSUME NEW d \in DOMAIN wrote', NEW e \in DOMAIN wrote',
               NEW i \in DOMAIN wrote'[d], NEW j \in DOMAIN wrote'[e],
               wrote'[d][i] = wrote'[e][j] /\ wrote'[d][i][1] # Prologue
        PROVE  d = e /\ i = j
    <3>1. d \in Dests /\ e \in Dests /\ d \in DOMAIN wrote /\ e \in DOMAIN wrote
      BY <2>2
    <3>2. \/ i \in DOMAIN wrote[d] /\ wrote'[d][i] = wrote[d][i]
          \/ d = Top.dest /\ i = Len(wrote[Top.dest]) + 1 /\ wrote'[d][i] = l
      BY <1>5, <3>1, Zenon
    <3>3. \/ j \in DOMAIN wrote[e] /\ wrote'[e][j] = wrote[e][j]
          \/ e = Top.dest /\ j = Len(wrote[Top.dest]) + 1 /\ wrote'[e][j] = l
      BY <1>5, <3>1, Zenon
    <3>4. CASE i \in DOMAIN wrote[d] /\ j \in DOMAIN wrote[e] /\ wrote'[d][i] = wrote[d][i] /\ wrote'[e][j] = wrote[e][j]
      <4>1. wrote[d][i] = wrote[e][j] /\ wrote[d][i][1] # Prologue
        BY <2>3, <3>4
      <4>2. QED
        BY <3>1, <3>4, <4>1, Zenon DEF LibraryInv, IncludedOnce
    <3>5. CASE wrote'[d][i] = l
      <4>1. ~(j \in DOMAIN wrote[e] /\ wrote'[e][j] = wrote[e][j]) /\ ~(i \in DOMAIN wrote[d] /\ wrote'[d][i] = wrote[d][i])
        BY <2>1, <2>3, <3>1, <3>5
      <4>2. QED
        BY <3>2, <3>3, <4>1
    <3>6. CASE wrote'[e][j] = l
      <4>1. wrote'[d][i] = l
        BY <2>3, <3>6
      <4>2. QED
        BY <3>5, <4>1
    <3>7. QED
      BY <3>2, <3>3, <3>4, <3>5, <3>6, Zenon
  <2>4. QED
    BY <2>3, Zenon DEF IncludedOnce
<1>12. Nested(stack)'
  BY <1>1, <1>7, NestedKept
<1>13. QED
  BY <1>1, <1>7, <1>8, <1>9, <1>10, <1>11, <1>12 DEF LibraryInv

(* Where nothing is written, the stack says what is to be shown.           *)
LEMMA StackStep ==
  ASSUME LibraryInv, lines' = lines, wrote' = wrote,
         needed' \subseteq Files, IsFiniteSet(needed'),
         stack' \in Seq(Frame), Len(stack') <= Cardinality(needed') + 1,
         result' \in {"reading", "done"} \cup Errors, result' = "reading" => stack' # << >>,
         Nested(stack'), CalledOnce(stack'), Recorded(stack', needed'),
         \A l \in Files \X Nat : Behind(stack, needed, l) => Behind(stack', needed', l)
  PROVE  LibraryInv'
<1>1. Shape'
  BY DEF LibraryInv, Shape, Reading
<1>2. Nested(stack)'
  BY NestedKept
<1>3. MainPlain'
  <2>1. \A f, k : InSection(f, k)' <=> InSection(f, k)
    BY SectionKept
  <2>2. QED
    BY <2>1, Zenon DEF LibraryInv, MainPlain
<1>4. WrittenBehind(stack', needed', wrote')
  <2>1. ASSUME NEW d \in Dests, NEW i \in DOMAIN wrote[d]
        PROVE  Behind(stack', needed', wrote[d][i])
    <3>1. wrote[d][i] \in Files \X Nat /\ Behind(stack, needed, wrote[d][i])
      BY DEF LibraryInv, Shape, WrittenBehind
    <3>2. QED
      BY <3>1
  <2>2. QED
    BY <2>1 DEF WrittenBehind
<1>5. IncludedOnce'
  BY DEF LibraryInv, IncludedOnce
<1>6. QED
  BY <1>1, <1>2, <1>3, <1>4, <1>5 DEF LibraryInv

(* The line was an order to output_file itself: the file goes on, with     *)
(* what is now the destination.                                            *)
LEMMA LineKeeps ==
  ASSUME LibraryInv, Reading, lines' = lines, wrote' = wrote, needed' = needed, result' = result,
         NEW g \in Frame, stack' = Append(Below, g),
         g.file = Top.file, g.line = Top.line + 1, g.out = Top.out,
         g.dest = "setup" <=> InSections(stack, Len(stack) - 1) \/ InSection(g.file, g.line)
  PROVE  LibraryInv'
<1>1. stack \in Seq(Frame) /\ stack # << >> /\ Len(stack) \in Nat \ {0} /\ Top = Last(stack)
  BY TopFacts DEF Top
<1>2. Nested(stack) /\ CalledOnce(stack) /\ Recorded(stack, needed)
  BY DEF LibraryInv
<1>3. /\ Nested(stack') /\ CalledOnce(stack')
      /\ Recorded(stack', needed)
      /\ \A k \in Files \X Nat : Behind(stack, needed, k) => Behind(stack', needed, k)
  BY <1>1, <1>2, Advance DEF Below
<1>4. stack' \in Seq(Frame) /\ Len(stack') = Len(stack) /\ stack' # << >>
  BY <1>1, TopReplaced DEF Below
<1>5. /\ needed \subseteq Files /\ IsFiniteSet(needed) /\ Len(stack) <= Cardinality(needed) + 1
      /\ result \in {"reading", "done"} \cup Errors
  BY DEF LibraryInv, Shape
<1>6. QED
  BY <1>3, <1>4, <1>5, StackStep

(* Nothing but the result changes.                                         *)
LEMMA ResultKeeps ==
  ASSUME LibraryInv, UNCHANGED <<lines, stack, needed, wrote>>,
         result' \in {"done"} \cup Errors \/ result' = result
  PROVE  LibraryInv'
<1>1. /\ Shape /\ Nested(stack) /\ CalledOnce(stack) /\ Recorded(stack, needed)
  BY DEF LibraryInv
<1>2. result' \in {"reading", "done"} \cup Errors /\ (result' = "reading" => stack' # << >>)
  BY <1>1 DEF Shape, Reading, Errors
<1>3. QED
  BY <1>1, <1>2, StackStep DEF Shape

LEMMA BeginSetupKeeps ==
  ASSUME LibraryInv, BeginSetup
  PROVE  LibraryInv'
<1> DEFINE g == [Advanced EXCEPT !.dest = "setup"]
<1>1. /\ Reading /\ Line = "BeginSetup" /\ stack' = Append(Below, g)
      /\ lines' = lines /\ needed' = needed /\ wrote' = wrote /\ result' = result
  BY DEF BeginSetup
<1>2. /\ Top.line \in Nat \ {0} /\ Advanced \in Frame
      /\ Advanced.file = Top.file /\ Advanced.line = Top.line + 1 /\ Advanced.out = Top.out
  BY <1>1, TopFacts
<1>3. /\ g \in Frame /\ g.file = Top.file /\ g.line = Top.line + 1 /\ g.out = Top.out
      /\ g.dest = "setup"
  BY <1>2 DEF Frame, Dests
<1> HIDE DEF g
<1>4. InSection(g.file, g.line)
  BY <1>1, <1>2, <1>3, SectionOfNext DEF Line
<1>5. QED
  BY <1>1, <1>3, <1>4, LineKeeps

LEMMA EndSetupKeeps ==
  ASSUME LibraryInv, EndSetup
  PROVE  LibraryInv'
<1>1. Reading /\ Line = "EndSetup" /\ lines' = lines /\ needed' = needed /\ wrote' = wrote
  BY DEF EndSetup
<1>2. CASE Top.dest = Top.out
  <2>1. result' \in {"done"} \cup Errors /\ stack' = stack
    BY <1>2 DEF EndSetup, Errors
  <2>2. QED
    BY <1>1, <2>1, ResultKeeps
<1>3. CASE Top.dest # Top.out
  <2> DEFINE g == [Advanced EXCEPT !.dest = AfterSetup]
  <2>1. stack' = Append(Below, g) /\ result' = result
    BY <1>3 DEF EndSetup
  <2>2. /\ Top \in Frame /\ Top.line \in Nat \ {0} /\ Advanced \in Frame
        /\ Advanced.file = Top.file /\ Advanced.line = Top.line + 1 /\ Advanced.out = Top.out
        /\ Top.out = "setup" <=> InSections(stack, Len(stack) - 1)
    BY <1>1, TopFacts
  <2>3. /\ g \in Frame /\ g.file = Top.file /\ g.line = Top.line + 1 /\ g.out = Top.out
        /\ g.dest = Top.out
    BY <2>2 DEF Frame, AfterSetup
  <2> HIDE DEF g
  <2>4. ~InSection(g.file, g.line)
    BY <1>1, <2>2, <2>3, SectionOfNext DEF Line
  <2>5. g.dest = "setup" <=> InSections(stack, Len(stack) - 1) \/ InSection(g.file, g.line)
    BY <2>2, <2>3, <2>4, Zenon
  <2>6. QED
    BY <1>1, <2>1, <2>3, <2>5, LineKeeps
<1>4. QED
  BY <1>2, <1>3

LEMMA EndOfFileKeeps ==
  ASSUME LibraryInv, EndOfFile
  PROVE  LibraryInv'
<1>1. Reading /\ lines' = lines /\ needed' = needed /\ wrote' = wrote
  BY DEF EndOfFile
<1>2. CASE Top.dest # Top.out
  <2>1. result' \in {"done"} \cup Errors /\ stack' = stack
    BY <1>2 DEF EndOfFile, Errors
  <2>2. QED
    BY <1>1, <2>1, ResultKeeps
<1>3. CASE Top.dest = Top.out
  <2>1. stack' = Front(stack) /\ result' = IF Front(stack) = << >> THEN "done" ELSE result
    BY <1>3 DEF EndOfFile, Below
  <2>2. stack \in Seq(Frame) /\ stack # << >> /\ Len(stack) \in Nat \ {0}
    BY <1>1, TopFacts
  <2>3. Shape /\ Nested(stack) /\ CalledOnce(stack) /\ Recorded(stack, needed)
    BY DEF LibraryInv
  <2>4. /\ stack' \in Seq(Frame) /\ Len(stack') = Len(stack) - 1
        /\ Nested(stack') /\ CalledOnce(stack') /\ Recorded(stack', needed)
        /\ \A l : Behind(stack, needed, l) => Behind(stack', needed, l)
    BY <2>1, <2>2, <2>3, Pop
  <2>5. Len(stack') <= Cardinality(needed) + 1
    <3>1. Cardinality(needed) \in Nat /\ Len(stack) <= Cardinality(needed) + 1
      BY <2>3, FS_CardinalityType DEF Shape
    <3>2. QED
      BY <2>2, <2>4, <3>1
  <2>6. result' \in {"reading", "done"} \cup Errors /\ (result' = "reading" => stack' # << >>)
    BY <2>1, <2>3 DEF Shape
  <2>7. QED
    BY <1>1, <2>3, <2>4, <2>5, <2>6, StackStep DEF Shape
<1>4. QED
  BY <1>2, <1>3

LEMMA IncludeKeeps ==
  ASSUME LibraryInv, Include
  PROVE  LibraryInv'
<1> DEFINE f == Line  n == Len(stack)
<1>1. Reading /\ f \in Files /\ lines' = lines /\ wrote' = wrote /\ result' = result
  BY DEF Include
<1>2. /\ stack \in Seq(Frame) /\ stack # << >> /\ n \in Nat \ {0}
      /\ Top = Last(stack) /\ Top \in Frame /\ Top.line \in Nat \ {0}
      /\ Advanced \in Frame
      /\ Advanced.file = Top.file /\ Advanced.line = Top.line + 1
      /\ Advanced.out = Top.out /\ Advanced.dest = Top.dest
      /\ Top.dest = "setup" <=> InSections(stack, n - 1) \/ InSection(Top.file, Top.line)
  BY <1>1, TopFacts DEF Top
<1>3. InSection(Top.file, Top.line + 1) <=> InSection(Top.file, Top.line)
  <2>1. f \notin {"BeginSetup", "EndSetup"}
    BY <1>1, LibraryAssumption
  <2>2. QED
    BY <1>2, <2>1, SectionOfNext DEF Line
<1>4. Advanced.dest = "setup" <=> InSections(stack, n - 1) \/ InSection(Advanced.file, Advanced.line)
  <2>1. InSection(Advanced.file, Advanced.line) <=> InSection(Top.file, Top.line)
    BY <1>2, <1>3
  <2>2. Advanced.dest = "setup" <=> Top.dest = "setup"
    BY <1>2
  <2>3. QED
    BY <1>2, <2>1, <2>2, Zenon
<1> HIDE DEF f
<1>5. CASE f \in needed
  <2>1. stack' = Append(Below, Advanced) /\ needed' = needed
    BY <1>5 DEF Include, IsNew, f
  <2>2. QED
    BY <1>1, <1>2, <1>4, <2>1, LineKeeps
<1>6. CASE f \notin needed
  <2> DEFINE t == Append(Front(stack), Advanced)
  <2>1. needed' = needed \cup {f} /\ stack' = Front(stack) \o <<Advanced, Call(f, Top.dest)>>
    BY <1>6 DEF Include, IsNew, Below, f
  <2>2. Shape /\ Nested(stack) /\ CalledOnce(stack) /\ Recorded(stack, needed)
    BY DEF LibraryInv
  <2>3. /\ t \in Seq(Frame) /\ Len(t) = n /\ t # << >> /\ t[n] = Advanced
        /\ Front(stack) \in Seq(Frame)
    BY <1>2, TopReplaced
  <2>4. /\ Nested(t) /\ CalledOnce(t) /\ Recorded(t, needed)
        /\ \A l \in Files \X Nat : Behind(stack, needed, l) => Behind(t, needed, l)
    BY <1>2, <1>4, <2>2, Advance
  <2>5. Last(t) = Advanced
    BY <2>3 DEF Last
  <2>6. stack' = Append(t, Call(f, Last(t).dest))
    <3>1. Call(f, Top.dest) \in Frame
      BY <1>1, <1>2 DEF Call, Frame
    <3>2. stack' = Append(t, Call(f, Top.dest))
      <4> DEFINE b == Front(stack)  c == Call(f, Top.dest)
      <4>1. b \in Seq(Frame) /\ c \in Frame /\ Advanced \in Frame
        BY <1>2, <2>3, <3>1
      <4> HIDE DEF b, c
      <4>2. b \o <<Advanced, c>> = Append(Append(b, Advanced), c)
        BY <4>1
      <4>3. QED
        BY <2>1, <4>2 DEF b, c
    <3>3. QED
      BY <1>2, <2>5, <3>2
  <2> HIDE DEF t
  <2>7. f # Prologue => \A i \in 1 .. Len(t) : t[i].file # f
    BY <1>6, <2>4 DEF Recorded
  <2>8. /\ stack' \in Seq(Frame) /\ Len(stack') = n + 1
        /\ Nested(stack') /\ CalledOnce(stack') /\ Recorded(stack', needed')
        /\ \A l : Behind(t, needed, l) => Behind(stack', needed', l)
    BY <1>1, <1>6, <2>1, <2>3, <2>4, <2>6, <2>7, Push
  <2>9. /\ IsFiniteSet(needed') /\ needed' \subseteq Files
        /\ Len(stack') <= Cardinality(needed') + 1
    <3>1. IsFiniteSet(needed') /\ Cardinality(needed') = Cardinality(needed) + 1
      BY <1>6, <2>1, <2>2, FS_AddElement DEF Shape
    <3>2. Cardinality(needed) \in Nat /\ n <= Cardinality(needed) + 1 /\ needed \subseteq Files
      BY <2>2, FS_CardinalityType DEF Shape
    <3>3. needed' \subseteq Files
      BY <1>1, <2>1, <3>2
    <3>4. Len(stack') <= Cardinality(needed') + 1
      BY <1>2, <2>8, <3>1, <3>2
    <3>5. QED
      BY <3>1, <3>3, <3>4
  <2>10. stack' # << >> /\ result' \in {"reading", "done"} \cup Errors
    BY <1>1, <1>2, <2>2, <2>8 DEF Shape
  <2>11. QED
    BY <1>1, <2>4, <2>8, <2>9, <2>10, StackStep
<1>7. QED
  BY <1>5, <1>6
(* It holds when the reading of the prologue begins.                       *)
LEMMA InitLibrary ==
  ASSUME Init
  PROVE  LibraryInv
<1> DEFINE c == Call(Prologue, "main")
<1>1. /\ lines \in [Files -> BoundedSeq(Lines, Length)] /\ stack = <<c>> /\ needed = {}
      /\ wrote = [d \in {"main", "setup"} |-> << >>] /\ result = "reading"
  BY DEF Init
<1>2. /\ c \in Frame /\ c.file = Prologue /\ c.line = 1 /\ c.out = "main" /\ c.dest = "main"
  BY LibraryAssumption DEF Call, Frame, Dests
<1> HIDE DEF c
<1>3. stack \in Seq(Frame) /\ Len(stack) = 1 /\ stack[1] = c
  BY <1>1, <1>2
<1>4. \A d \in Dests : wrote[d] = << >>
  BY <1>1 DEF Dests
<1>5. Shape
  <2>1. IsFiniteSet(needed) /\ Cardinality(needed) = 0
    BY <1>1, FS_EmptySet
  <2>2. wrote \in [Dests -> Seq(Files \X Nat)]
    BY <1>1 DEF Dests
  <2>3. QED
    BY <1>1, <1>3, <2>1, <2>2 DEF Shape
<1>6. Nested(stack)
  <2>1. ~InSection(stack[1].file, stack[1].line)
    <3>1. ~InSection(Prologue, 1)
      BY SectionOfNext, 1 \in Nat \ {0}
    <3>2. QED
      BY <1>2, <1>3, <3>1
  <2>2. ~InSections(stack, 1)
    <3>1. 1 .. 1 = {1}
      OBVIOUS
    <3>2. QED
      BY <2>1, <3>1, Zenon DEF InSections
  <2>3. ASSUME NEW i \in 1 .. Len(stack)
        PROVE  /\ stack[i].out = IF i = 1 THEN "main" ELSE stack[i - 1].dest
               /\ stack[i].dest = "setup" <=> InSections(stack, i)
    <3>1. i = 1
      BY <1>3
    <3>2. QED
      BY <1>2, <1>3, <2>2, <3>1
  <2>4. QED
    BY <2>3 DEF Nested
<1>7. MainPlain /\ WrittenBehind(stack, needed, wrote) /\ IncludedOnce
  <2>1. \A d \in Dests : DOMAIN wrote[d] = {}
    BY <1>4
  <2>2. "main" \in Dests /\ DOMAIN wrote = Dests
    BY <1>1 DEF Dests
  <2>3. QED
    BY <2>1, <2>2 DEF MainPlain, WrittenBehind, IncludedOnce
<1>8. Recorded(stack, needed) /\ CalledOnce(stack)
  BY <1>2, <1>3 DEF Recorded, CalledOnce
<1>9. QED
  BY <1>5, <1>6, <1>7, <1>8 DEF LibraryInv

(* Every step of output_file keeps it.                                     *)
LEMMA StepKeeps ==
  ASSUME LibraryInv, [Next]_vars
  PROVE  LibraryInv'
<1>1. CASE UNCHANGED vars
  BY <1>1, ResultKeeps DEF vars
<1>2. CASE Finished
  BY <1>2, ResultKeeps DEF Finished, vars
<1>3. QED
  BY <1>1, <1>2, TextKeeps, IncludeKeeps, BeginSetupKeeps, EndSetupKeeps, EndOfFileKeeps DEF Next

(* It implies what is checked of a bounded library.                        *)
LEMMA InvariantShows ==
  ASSUME LibraryInv
  PROVE  TypeOK /\ IncludedOnce /\ SetupDiverted
<1>1. Shape /\ Nested(stack) /\ MainPlain /\ IncludedOnce
  BY DEF LibraryInv
<1>2. DOMAIN stack = 1 .. Len(stack) /\ \A i \in DOMAIN stack : stack[i] \in Frame
  BY <1>1 DEF Shape
<1>3. TypeOK
  <2>1. \A i \in DOMAIN stack :
          stack[i].file \in Files /\ {stack[i].out, stack[i].dest} \subseteq {"main", "setup"}
    BY <1>2 DEF Frame, Dests
  <2>2. QED
    BY <1>1, <2>1 DEF Shape, TypeOK
<1>4. \A i \in DOMAIN stack : i > 1 => stack[i].out = stack[i - 1].dest
  <2>1. ASSUME NEW i \in DOMAIN stack, i > 1 PROVE stack[i].out = stack[i - 1].dest
    <3>1. stack[i].out = IF i = 1 THEN "main" ELSE stack[i - 1].dest
      BY <1>1, <1>2, Zenon DEF Nested
    <3>2. QED
      BY <1>2, <2>1, <3>1
  <2>2. QED
    BY <2>1
<1>5. ASSUME Reading
      PROVE  Top.dest = "setup" <=> \E i \in DOMAIN stack : InSection(stack[i].file, stack[i].line)
  <2>1. Len(stack) \in Nat \ {0} /\ Top = stack[Len(stack)]
    BY <1>5, TopFacts
  <2>2. Len(stack) \in 1 .. Len(stack)
    BY <2>1
  <2>3. stack[Len(stack)].dest = "setup" <=> InSections(stack, Len(stack))
    BY <1>1, <2>2, Zenon DEF Nested
  <2>4. QED
    BY <1>2, <2>1, <2>3, Zenon DEF InSections
<1>6. QED
  BY <1>1, <1>3, <1>4, <1>5 DEF SetupDiverted, MainPlain

(* Whatever the files of the library contain and however they include each *)
(* other, output_file calls itself no deeper than there are files to       *)
(* include, writes each included file once, and writes in the setup of the *)
(* document the lines of the setup sections and of what is included there. *)
THEOREM LibraryReads == Spec => [](TypeOK /\ IncludedOnce /\ SetupDiverted)
<1>1. Init => LibraryInv
  BY InitLibrary
<1>2. LibraryInv /\ [Next]_vars => LibraryInv'
  BY StepKeeps
<1>3. LibraryInv => TypeOK /\ IncludedOnce /\ SetupDiverted
  BY InvariantShows
<1>4. QED
  BY <1>1, <1>2, <1>3, PTL DEF Spec

(* Whatever the library contains, FilesRead holds in every document: the   *)
(* recursion of output_file is bounded by the files it has recorded, each  *)
(* of them is written once, and what is diverted to the setup is what the  *)
(* setup sections contain or include.                                      *)
THEOREM FilesReadAlways == DocumentsSpec => []FilesRead
<1> DEFINE Inv == part = "library" => LibraryInv
           allVars == <<part, vars, resourcesVars, diversionVars>>
<1>1. DocumentsInit => Inv
  BY InitLibrary DEF DocumentsInit
<1>2. Inv /\ [DocumentsNext]_allVars => Inv'
  <2> SUFFICES ASSUME Inv, [DocumentsNext]_allVars, part' = "library"
               PROVE  LibraryInv'
    OBVIOUS
  <2>1. CASE LibraryNext
    BY <2>1, StepKeeps DEF LibraryNext
  <2>2. CASE UNCHANGED allVars
    BY <2>2, StepKeeps
  <2>3. QED
    BY <2>1, <2>2 DEF DocumentsNext
<1>3. Inv => FilesRead
  BY InvariantShows DEF FilesRead
<1>4. QED
  BY <1>1, <1>2, <1>3, PTL DEF DocumentsSpec

-----------------------------------------------------------------------------
(* Where the document names a font that it uses.                           *)
Provided(j, n) == n \in IF n \in Known THEN j.needed ELSE j.supplied

(* The names of each encoding have their fonts, and what was included was  *)
(* needed before.                                                          *)
Fonted(j) ==
  /\ j \in R!Job
  /\ \A n \in j.infos : Provided(j, n)
  /\ \A e \in Encodings : \A n \in j.names[e] : Provided(j, R!Resolve(e, n))
  /\ \A n \in j.asked : Provided(j, R!Resolve(Requested, n))
  /\ \A n \in R!FontNames : j.includes[n] = 1 => n \in j.needed

(* Until the pages begin the diversion is outside of them, and each font   *)
(* that is needed was included; afterwards those of the faces were.        *)
Preparing(j) ==
  /\ j.page = "outside" /\ j.loaded \subseteq {Requested} /\ j.encoding = Requested
  /\ j.wx \subseteq {Requested} /\ \A n \in j.needed : j.includes[n] = 1

(* The encodings that have widths have the fonts of the faces.             *)
Built(j) ==
  \A e \in j.wx : \A f \in Faces :
    j.faceFont[f] \in j.names[e] /\ R!Resolve(e, j.faceFont[f]) \in j.infos

NamedFirst(j) ==
  {R!Resolve(Requested, n) : n \in j.asked \cup {j.faceFont[f] : f \in Faces}}

Prepared(j) ==
  /\ R!FacesSet(j) /\ j.loaded \cup {j.encoding} \subseteq j.wx /\ Built(j)
  /\ \A n \in NamedFirst(j) \cap Known : n \in j.needed /\ j.includes[n] = 1

FontsInv ==
  /\ phase \in R!Phases /\ Fonted(job)
  /\ phase \in {"options", "prologue"} => Preparing(job)
  /\ phase \in {"body", "dumped"} => Prepared(job)
-----------------------------------------------------------------------------
LEMMA ResolveType ==
  ASSUME R!ResourcesAssumption, NEW e \in Encodings, NEW n \in R!FontNames
  PROVE  R!Resolve(e, n) \in R!FontNames
<1> DEFINE S == {m \in R!FontNames : <<e, n, m>> \in Substitutes}
<1>1. S # {} => (CHOOSE m \in S : TRUE) \in R!FontNames
  OBVIOUS
<1>2. Default \in R!FontNames
  BY DEF R!ResourcesAssumption
<1>3. QED
  BY <1>1, <1>2 DEF R!Resolve

(* What is the same in two jobs, but for the comments about fonts.         *)
Kept(j, k) ==
  /\ k.faceFont = j.faceFont /\ k.loaded = j.loaded /\ k.slanted = j.slanted /\ k.slants = j.slants
  /\ k.encoding = j.encoding /\ k.asked = j.asked /\ k.page = j.page

(* add_required_font provides what it is asked for.                        *)
LEMMA RequireFacts ==
  ASSUME R!ResourcesAssumption, NEW j, Fonted(j), NEW S \in SUBSET R!FontNames
  PROVE  LET k == R!Require(j, S)
         IN /\ Fonted(k) /\ Kept(j, k) /\ k.infos = j.infos /\ k.names = j.names /\ k.wx = j.wx
            /\ \A n \in S : Provided(k, n)
            /\ j.needed \subseteq k.needed /\ j.supplied \subseteq k.supplied
            /\ \A n \in R!FontNames : j.includes[n] = 1 => k.includes[n] = 1
            /\ j.page = "outside" /\ (\A n \in j.needed : j.includes[n] = 1)
                 => \A n \in k.needed : k.includes[n] = 1
<1> DEFINE new == (S \cap Known) \ j.needed
           wanted == j.needed \cup new
           supplied == j.supplied \cup (S \ Known)
           includes == [n \in R!FontNames |-> j.includes[n] + IF n \in new /\ j.page = "outside" THEN 1 ELSE 0]
           k == R!Require(j, S)
<1>1. j \in R!Job
  BY DEF Fonted
<1>2. k = [j EXCEPT !.needed = wanted, !.supplied = supplied, !.includes = includes]
  BY DEF R!Require
<1>3. wanted \in SUBSET R!FontNames /\ supplied \in SUBSET R!FontNames /\ new \subseteq R!FontNames
  BY <1>1 DEF R!Job
<1>4. /\ includes \in [R!FontNames -> 0 .. 1]
      /\ \A n \in R!FontNames : includes[n] = 1 => n \in wanted
      /\ \A n \in R!FontNames : j.includes[n] = 1 => includes[n] = 1
      /\ \A n \in new : j.page = "outside" => includes[n] = 1
  <2>1. \A n \in R!FontNames : j.includes[n] \in 0 .. 1
    BY <1>1 DEF R!Job
  <2>2. \A n \in new : n \in R!FontNames /\ j.includes[n] = 0
    BY <1>3, <2>1 DEF Fonted
  <2>3. \A n \in R!FontNames : includes[n] = IF n \in new /\ j.page = "outside" THEN j.includes[n] + 1 ELSE j.includes[n]
    BY <2>1
  <2>4. DOMAIN includes = R!FontNames /\ includes = [n \in R!FontNames |-> includes[n]]
    OBVIOUS
  <2> HIDE DEF includes
  <2>5. \A n \in R!FontNames : includes[n] \in 0 .. 1
    BY <2>1, <2>2, <2>3
  <2>6. \A n \in R!FontNames : includes[n] = 1 => n \in wanted
    BY <2>1, <2>3 DEF Fonted
  <2>7. \A n \in R!FontNames : j.includes[n] = 1 => includes[n] = 1
    BY <2>2, <2>3
  <2>8. \A n \in new : j.page = "outside" => includes[n] = 1
    BY <2>2, <2>3
  <2>9. QED
    BY <2>4, <2>5, <2>6, <2>7, <2>8
<1> HIDE DEF new, wanted, supplied, includes
<1>5. /\ k.needed = wanted /\ k.supplied = supplied /\ k.includes = includes
      /\ Kept(j, k) /\ k.infos = j.infos /\ k.names = j.names /\ k.wx = j.wx
  BY <1>1, <1>2 DEF R!Job, Kept
<1>6. k \in R!Job
  BY <1>1, <1>2, <1>3, <1>4 DEF R!Job
<1>7. \A n : Provided(j, n) => Provided(k, n)
  BY <1>5 DEF Provided, wanted, supplied
<1>8. \A n \in S : Provided(k, n)
  BY <1>5 DEF Provided, wanted, supplied, new
<1>9. Fonted(k)
  BY <1>4, <1>5, <1>6, <1>7 DEF Fonted, Kept
<1>10. /\ j.needed \subseteq k.needed /\ j.supplied \subseteq k.supplied
       /\ \A n \in R!FontNames : j.includes[n] = 1 => k.includes[n] = 1
  BY <1>4, <1>5 DEF wanted, supplied
<1>11. j.page = "outside" /\ (\A n \in j.needed : j.includes[n] = 1) => \A n \in k.needed : k.includes[n] = 1
  <2>1. j.needed \subseteq R!FontNames
    BY <1>1 DEF R!Job
  <2>2. QED
    BY <1>4, <1>5, <2>1 DEF wanted
<1> HIDE DEF k
<1>12. QED
  BY <1>5, <1>8, <1>9, <1>10, <1>11 DEF k
(* What is not lost when fonts are provided.                               *)
Grows(j, k) ==
  /\ j.needed \subseteq k.needed /\ j.infos \subseteq k.infos
  /\ \A e \in Encodings : j.names[e] \subseteq k.names[e]
  /\ \A n \in R!FontNames : j.includes[n] = 1 => k.includes[n] = 1
  /\ j.page = "outside" /\ (\A n \in j.needed : j.includes[n] = 1) => \A n \in k.needed : k.includes[n] = 1

(* The widths of an encoding are built for faces that have fonts, which    *)
(* are provided.                                                           *)
LEMMA BuildFacts ==
  ASSUME R!ResourcesAssumption, NEW j, Fonted(j), R!FacesSet(j), NEW e \in Encodings
  PROVE  LET k == R!BuildFacesWx(j, e)
         IN /\ Fonted(k) /\ Kept(j, k) /\ k.wx = j.wx \cup {e} /\ Grows(j, k)
            /\ \A f \in Faces : Provided(k, R!Resolve(e, j.faceFont[f]))
            /\ \A f \in Faces : j.faceFont[f] \in k.names[e] /\ R!Resolve(e, j.faceFont[f]) \in k.infos
<1> DEFINE names == {j.faceFont[f] : f \in Faces}
           real == {R!Resolve(e, n) : n \in names}
           r == R!Require(j, real \ j.infos)
           k == R!BuildFacesWx(j, e)
<1>1. j \in R!Job
  BY DEF Fonted
<1>2. names \subseteq R!FontNames
  BY <1>1 DEF R!Job, R!FacesSet
<1>3. real \subseteq R!FontNames
  BY <1>2, ResolveType
<1>4. k = [r EXCEPT !.infos = r.infos \cup real, !.names[e] = r.names[e] \cup names, !.wx = r.wx \cup {e}]
  BY DEF R!BuildFacesWx
<1> HIDE DEF k
<1>5. \A n \in names : R!Resolve(e, n) \in real
  OBVIOUS
<1>5a. \A f \in Faces : j.faceFont[f] \in names
  OBVIOUS
<1> HIDE DEF names, real
<1>6. /\ Fonted(r) /\ Kept(j, r) /\ r.infos = j.infos /\ r.names = j.names /\ r.wx = j.wx
      /\ \A n \in real \ j.infos : Provided(r, n)
      /\ Grows(j, r) /\ j.supplied \subseteq r.supplied
  BY <1>3, RequireFacts DEF Grows
<1> HIDE DEF r
<1>7. r \in R!Job
  BY <1>6 DEF Fonted
<1>8. \A n \in real : Provided(r, n)
  BY <1>6 DEF Fonted
<1>9. /\ k.infos = r.infos \cup real /\ k.wx = r.wx \cup {e}
      /\ k.names = [r.names EXCEPT ![e] = r.names[e] \cup names]
      /\ k.needed = r.needed /\ k.supplied = r.supplied /\ k.includes = r.includes /\ Kept(r, k)
  BY <1>4, <1>7 DEF R!Job, Kept
<1>10. /\ r.names \in [Encodings -> SUBSET R!FontNames] /\ r.wx \subseteq Encodings /\ r.infos \subseteq R!FontNames
  BY <1>7 DEF R!Job
<1>11. /\ k.names \in [Encodings -> SUBSET R!FontNames]
       /\ \A d \in Encodings : k.names[d] = IF d = e THEN r.names[e] \cup names ELSE r.names[d]
  BY <1>2, <1>9, <1>10
<1>12. k \in R!Job
  <2> DEFINE infos == r.infos \cup real
             named == [r.names EXCEPT ![e] = r.names[e] \cup names]
             wx == r.wx \cup {e}
  <2>1. infos \in SUBSET R!FontNames /\ wx \in SUBSET Encodings
    BY <1>3, <1>10
  <2>2. named \in [Encodings -> SUBSET R!FontNames]
    BY <1>9, <1>11
  <2>3. k = [r EXCEPT !.infos = infos, !.names = named, !.wx = wx]
    BY <1>4
  <2> HIDE DEF infos, named, wx
  <2>4. QED
    BY <1>7, <2>1, <2>2, <2>3 DEF R!Job
<1>13. \A n : Provided(k, n) <=> Provided(r, n)
  BY <1>9 DEF Provided
<1>14. Fonted(k)
  <2>1. \A n \in k.infos : Provided(k, n)
    BY <1>6, <1>8, <1>9, <1>13 DEF Fonted
  <2>2. \A d \in Encodings : \A n \in k.names[d] : Provided(k, R!Resolve(d, n))
    BY <1>5, <1>6, <1>8, <1>11, <1>13 DEF Fonted
  <2>3. QED
    BY <1>6, <1>9, <1>12, <1>13, <2>1, <2>2 DEF Fonted, Kept
<1>15. \A f \in Faces : Provided(k, R!Resolve(e, j.faceFont[f]))
  BY <1>5, <1>5a, <1>8, <1>13
<1>16. Kept(j, k) /\ k.wx = j.wx \cup {e} /\ Grows(j, k)
  BY <1>6, <1>9, <1>11 DEF Kept, Grows
<1>17. \A f \in Faces : j.faceFont[f] \in k.names[e] /\ R!Resolve(e, j.faceFont[f]) \in k.infos
  BY <1>5, <1>5a, <1>9, <1>11
<1>18. QED
  BY <1>14, <1>15, <1>16, <1>17 DEF k

(* An encoding that is described has no names yet.                         *)
LEMMA DescribedFacts ==
  ASSUME NEW j, Fonted(j), NEW e \in Encodings
  PROVE  LET k == R!Described(j, e)
         IN /\ Fonted(k) /\ k.loaded = j.loaded \cup {e} /\ Grows(j, k)
            /\ k.faceFont = j.faceFont /\ k.encoding = j.encoding /\ k.asked = j.asked
            /\ k.page = j.page /\ k.wx = j.wx /\ k.needed = j.needed /\ k.includes = j.includes
            /\ k.names = j.names /\ k.infos = j.infos
<1> DEFINE slanted == IF e \in Slanted /\ ~j.slants THEN j.slanted \cup {e} ELSE j.slanted
           k == R!Described(j, e)
<1>1. j \in R!Job /\ j.loaded \subseteq Encodings /\ j.slanted \subseteq Encodings /\ j.slants \in BOOLEAN
  BY DEF Fonted, R!Job
<1>2. k = [j EXCEPT !.loaded = j.loaded \cup {e}, !.slanted = slanted, !.slants = j.slants \/ e \in Slanted]
  BY DEF R!Described
<1>3. slanted \subseteq Encodings /\ (j.slants \/ e \in Slanted) \in BOOLEAN
  BY <1>1
<1> HIDE DEF slanted, k
<1>4. k \in R!Job
  BY <1>1, <1>2, <1>3 DEF R!Job
<1>5. /\ k.loaded = j.loaded \cup {e} /\ k.faceFont = j.faceFont /\ k.encoding = j.encoding
      /\ k.asked = j.asked /\ k.page = j.page /\ k.wx = j.wx /\ k.needed = j.needed
      /\ k.supplied = j.supplied /\ k.includes = j.includes /\ k.infos = j.infos /\ k.names = j.names
  BY <1>1, <1>2 DEF R!Job
<1>6. Fonted(k)
  BY <1>4, <1>5 DEF Fonted, Provided
<1>7. QED
  BY <1>5, <1>6 DEF k, Grows

(* encoding_get provides the fonts of an encoding that it loads while the  *)
(* faces have theirs.                                                      *)
LEMMA GetFacts ==
  ASSUME R!ResourcesAssumption, NEW j, Fonted(j), NEW e \in Encodings
  PROVE  LET k == R!GetEncoding(j, e)
         IN /\ Fonted(k) /\ Grows(j, k) /\ k.loaded = j.loaded \cup {e}
            /\ k.faceFont = j.faceFont /\ k.encoding = j.encoding /\ k.asked = j.asked /\ k.page = j.page
            /\ j.wx \subseteq k.wx /\ k.wx \subseteq j.wx \cup {e}
            /\ R!FacesSet(j) /\ j.loaded \subseteq j.wx => e \in k.wx
            /\ R!FacesSet(j) /\ Built(j) => Built(k)
<1> DEFINE d == R!Described(j, e)
           b == R!BuildFacesWx(d, e)
           k == R!GetEncoding(j, e)
<1>1. j \in R!Job
  BY DEF Fonted
<1>2. k = IF e \in j.loaded THEN j ELSE IF R!FacesSet(j) THEN b ELSE d
  BY DEF R!GetEncoding
<1>3. /\ Fonted(d) /\ d.loaded = j.loaded \cup {e} /\ Grows(j, d)
      /\ d.faceFont = j.faceFont /\ d.encoding = j.encoding /\ d.asked = j.asked
      /\ d.page = j.page /\ d.wx = j.wx /\ d.needed = j.needed /\ d.includes = j.includes
      /\ d.names = j.names /\ d.infos = j.infos
  BY DescribedFacts
<1> HIDE DEF d
<1>4. R!FacesSet(j) =>
        /\ Fonted(b) /\ Kept(d, b) /\ b.wx = d.wx \cup {e} /\ Grows(d, b)
        /\ \A f \in Faces : d.faceFont[f] \in b.names[e] /\ R!Resolve(e, d.faceFont[f]) \in b.infos
  BY <1>3, BuildFacts DEF R!FacesSet
<1> HIDE DEF b
<1>4a. R!FacesSet(j) /\ Built(j) => Built(b)
  <2> SUFFICES ASSUME R!FacesSet(j), Built(j)
               PROVE  Built(b)
    OBVIOUS
  <2>1. b.wx = j.wx \cup {e} /\ b.faceFont = j.faceFont /\ j.wx \subseteq Encodings
    BY <1>1, <1>3, <1>4 DEF Kept, R!Job
  <2>2. j.infos \subseteq b.infos /\ \A c \in Encodings : j.names[c] \subseteq b.names[c]
    BY <1>3, <1>4 DEF Grows
  <2>3. \A f \in Faces : j.faceFont[f] \in b.names[e] /\ R!Resolve(e, j.faceFont[f]) \in b.infos
    BY <1>3, <1>4
  <2>4. QED
    BY <2>1, <2>2, <2>3 DEF Built
<1> HIDE DEF k
<1>5. CASE e \in j.loaded
  <2>1. k = j /\ j.loaded = j.loaded \cup {e}
    BY <1>2, <1>5
  <2>2. QED
    BY <1>5, <2>1 DEF Grows, k
<1>6. CASE e \notin j.loaded /\ R!FacesSet(j)
  BY <1>2, <1>3, <1>4, <1>4a, <1>6 DEF Kept, Grows, k
<1>7. CASE e \notin j.loaded /\ ~R!FacesSet(j)
  BY <1>2, <1>3, <1>7 DEF k
<1>8. QED
  BY <1>5, <1>6, <1>7
-----------------------------------------------------------------------------
LEMMA InitFonts ==
  ASSUME R!ResourcesAssumption, R!Init
  PROVE  FontsInv
<1>1. phase = "options" /\
      job = [ faceFont |-> [f \in Faces |-> R!NoFont], loaded |-> {},
              names |-> [e \in Encodings |-> {}], wx |-> {}, slanted |-> {},
              slants |-> FALSE, encoding |-> Requested, infos |-> {}, asked |-> {},
              needed |-> {}, supplied |-> {}, page |-> "outside",
              includes |-> [n \in R!FontNames |-> 0] ]
  BY DEF R!Init
<1>2. job \in R!Job
  BY <1>1 DEF R!Job, R!ResourcesAssumption
<1>3. Fonted(job)
  BY <1>1, <1>2 DEF Fonted
<1>4. Preparing(job)
  BY <1>1 DEF Preparing
<1>5. QED
  BY <1>1, <1>3, <1>4 DEF FontsInv, R!Phases

(* The pages do not lose what the faces need.                              *)
LEMMA PreparedKept ==
  ASSUME NEW j, Fonted(j), Prepared(j), NEW k, Fonted(k), Grows(j, k),
         k.faceFont = j.faceFont, k.asked = j.asked, k.loaded \cup {k.encoding} \subseteq k.wx,
         Built(k)
  PROVE  Prepared(k)
<1>1. NamedFirst(k) = NamedFirst(j)
  BY DEF NamedFirst
<1>2. NamedFirst(j) \cap Known \subseteq R!FontNames
  BY DEF Prepared, Fonted, R!Job
<1>3. QED
  BY <1>1, <1>2 DEF Prepared, R!FacesSet, Grows

LEMMA StepFonts ==
  ASSUME R!ResourcesAssumption, FontsInv, [R!Next]_resourcesVars
  PROVE  FontsInv'
<1>1. Fonted(job) /\ job \in R!Job
  BY DEF FontsInv, Fonted
<1>2. Requested \in Encodings /\ Requested \in {Requested}
  BY DEF R!ResourcesAssumption
<1>3. CASE R!FinalizeJob
  <2>1. phase = "options" /\ phase' = "prologue" /\ job' = R!GetEncoding(job, Requested)
    BY <1>3 DEF R!FinalizeJob
  <2> DEFINE k == R!GetEncoding(job, Requested)
  <2>2. /\ Fonted(k) /\ Grows(job, k) /\ k.loaded = job.loaded \cup {Requested}
        /\ k.encoding = job.encoding /\ k.page = job.page /\ k.wx \subseteq job.wx \cup {Requested}
    BY <1>1, <1>2, GetFacts
  <2> HIDE DEF k
  <2>3. Preparing(job)
    BY <2>1 DEF FontsInv
  <2>4. Preparing(k)
    BY <2>2, <2>3 DEF Preparing, Grows
  <2>5. job' = k
    BY <2>1 DEF k
  <2>6. QED
    BY <2>1, <2>2, <2>4, <2>5 DEF FontsInv, R!Phases
<1>4. CASE \E n \in R!FontNames, f \in Faces : R!ReadFace(f, n)
  <2>1. PICK n \in R!FontNames, f \in Faces : R!ReadFace(f, n)
    BY <1>4
  <2>2. phase = "prologue" /\ phase' = phase /\ job' = [job EXCEPT !.faceFont[f] = n]
    BY <2>1 DEF R!ReadFace
  <2>3. job' \in R!Job
    BY <1>1, <2>2 DEF R!Job
  <2>4. /\ job'.infos = job.infos /\ job'.names = job.names /\ job'.asked = job.asked
        /\ job'.needed = job.needed /\ job'.supplied = job.supplied /\ job'.includes = job.includes
        /\ job'.page = job.page /\ job'.loaded = job.loaded /\ job'.encoding = job.encoding
        /\ job'.wx = job.wx
    BY <1>1, <2>2 DEF R!Job
  <2>5. Fonted(job')
    BY <1>1, <2>3, <2>4 DEF Fonted, Provided
  <2>6. Preparing(job')
    BY <2>2, <2>4 DEF FontsInv, Preparing
  <2>7. QED
    BY <2>2, <2>5, <2>6 DEF FontsInv, R!Phases
<1>5. CASE \E n \in R!FontNames : R!ReadFont(n)
  <2>1. PICK n \in R!FontNames : R!ReadFont(n)
    BY <1>5
  <2> DEFINE S == {R!Resolve(Requested, n)}
             r == R!Require(job, S)
  <2>2. /\ phase = "prologue" /\ phase' = phase
        /\ job' = [r EXCEPT !.names[Requested] = r.names[Requested] \cup {n}, !.asked = r.asked \cup {n}]
    BY <2>1 DEF R!ReadFont, R!FontRead
  <2>3. S \in SUBSET R!FontNames /\ R!Resolve(Requested, n) \in S
    BY <1>2, ResolveType
  <2> HIDE DEF S
  <2>4. /\ Fonted(r) /\ Kept(job, r) /\ Grows(job, r) /\ Provided(r, R!Resolve(Requested, n))
        /\ r.wx = job.wx
    BY <1>1, <2>3, RequireFacts DEF Grows
  <2> HIDE DEF r
  <2>5. r \in R!Job /\ r.names \in [Encodings -> SUBSET R!FontNames] /\ r.asked \subseteq R!FontNames
    BY <2>4 DEF Fonted, R!Job
  <2>6. /\ job'.names = [r.names EXCEPT ![Requested] = r.names[Requested] \cup {n}]
        /\ job'.asked = r.asked \cup {n}
        /\ job'.infos = r.infos /\ job'.needed = r.needed /\ job'.supplied = r.supplied
        /\ job'.includes = r.includes /\ job'.page = r.page /\ job'.loaded = r.loaded
        /\ job'.encoding = r.encoding /\ job'.wx = r.wx
    BY <2>2, <2>5 DEF R!Job
  <2>7. /\ job'.names \in [Encodings -> SUBSET R!FontNames]
        /\ \A d \in Encodings : job'.names[d] = IF d = Requested THEN r.names[Requested] \cup {n} ELSE r.names[d]
    BY <1>2, <2>5, <2>6
  <2>8. job' \in R!Job
    <3> DEFINE names == [r.names EXCEPT ![Requested] = r.names[Requested] \cup {n}]
               asked == r.asked \cup {n}
    <3>1. names \in [Encodings -> SUBSET R!FontNames] /\ asked \in SUBSET R!FontNames
      BY <2>5, <2>6, <2>7
    <3>2. job' = [r EXCEPT !.names = names, !.asked = asked]
      BY <2>2
    <3> HIDE DEF names, asked
    <3>3. QED
      BY <2>5, <3>1, <3>2 DEF R!Job
  <2>9. \A m : Provided(job', m) <=> Provided(r, m)
    BY <2>6 DEF Provided
  <2>10. \A d \in Encodings : \A m \in job'.names[d] : Provided(job', R!Resolve(d, m))
    BY <2>4, <2>7, <2>9 DEF Fonted
  <2>11. \A m \in job'.asked : Provided(job', R!Resolve(Requested, m))
    BY <2>4, <2>6, <2>9 DEF Fonted
  <2>12. Fonted(job')
    BY <2>4, <2>6, <2>8, <2>9, <2>10, <2>11 DEF Fonted
  <2>13. Preparing(job')
    BY <2>2, <2>4, <2>6 DEF FontsInv, Preparing, Kept, Grows
  <2>14. QED
    BY <2>2, <2>12, <2>13 DEF FontsInv, R!Phases
<1>6. CASE R!DocumentSetup
  <2>1. phase = "prologue" /\ R!FacesSet(job) /\ phase' = "body" /\ job' = R!BuildFacesWx(job, Requested)
    BY <1>6 DEF R!DocumentSetup
  <2> DEFINE k == R!BuildFacesWx(job, Requested)
  <2>2. /\ Fonted(k) /\ Kept(job, k) /\ k.wx = job.wx \cup {Requested} /\ Grows(job, k)
        /\ \A f \in Faces : Provided(k, R!Resolve(Requested, job.faceFont[f]))
        /\ \A f \in Faces : job.faceFont[f] \in k.names[Requested] /\ R!Resolve(Requested, job.faceFont[f]) \in k.infos
    BY <1>1, <1>2, <2>1, BuildFacts
  <2> HIDE DEF k
  <2>3. Preparing(job)
    BY <2>1 DEF FontsInv
  <2>4. Preparing(k) /\ R!FacesSet(k)
    BY <2>1, <2>2, <2>3 DEF Preparing, Kept, Grows, R!FacesSet
  <2>5. k.loaded \cup {k.encoding} \subseteq k.wx
    BY <2>2, <2>3 DEF Preparing, Kept
  <2>6. \A n \in NamedFirst(k) : Provided(k, n)
    BY <2>2 DEF NamedFirst, Kept, Fonted
  <2>6a. Built(k)
    BY <2>2, <2>4 DEF Built, Preparing, Kept
  <2>7. Prepared(k)
    BY <2>4, <2>5, <2>6, <2>6a DEF Prepared, Preparing, Provided
  <2>8. job' = k
    BY <2>1 DEF k
  <2>9. QED
    BY <2>1, <2>2, <2>7, <2>8 DEF FontsInv, R!Phases
<1>7. CASE \E page \in {"void", "outside", "string"} : R!PrintText(page)
  <2>1. PICK page \in {"void", "outside", "string"} : R!PrintText(page)
    BY <1>7
  <2>2. phase = "body" /\ phase' = phase /\ job' = [job EXCEPT !.page = page]
    BY <2>1 DEF R!PrintText
  <2>3. job' \in R!Job
    BY <1>1, <2>2 DEF R!Job
  <2>4. /\ job'.infos = job.infos /\ job'.names = job.names /\ job'.asked = job.asked
        /\ job'.needed = job.needed /\ job'.supplied = job.supplied /\ job'.includes = job.includes
        /\ job'.faceFont = job.faceFont /\ job'.loaded = job.loaded /\ job'.encoding = job.encoding
        /\ job'.wx = job.wx
    BY <1>1, <2>2 DEF R!Job
  <2>5. Fonted(job')
    BY <1>1, <2>3, <2>4 DEF Fonted, Provided
  <2>6. Prepared(job')
    BY <2>2, <2>4 DEF FontsInv, Prepared, R!FacesSet, NamedFirst, Built
  <2>7. QED
    BY <2>2, <2>5, <2>6 DEF FontsInv, R!Phases
<1>8. CASE \E e \in Encodings : R!SwitchEncoding(e)
  <2>1. PICK e \in Encodings : R!SwitchEncoding(e)
    BY <1>8
  <2> DEFINE k == R!GetEncoding(job, e)
  <2>2. phase = "body" /\ phase' = phase /\ job' = [k EXCEPT !.encoding = e]
    BY <2>1 DEF R!SwitchEncoding
  <2>3. Prepared(job)
    BY <2>2 DEF FontsInv
  <2>4. /\ Fonted(k) /\ Grows(job, k) /\ k.loaded = job.loaded \cup {e}
        /\ k.faceFont = job.faceFont /\ k.asked = job.asked /\ job.wx \subseteq k.wx /\ e \in k.wx
        /\ Built(k)
    BY <1>1, <2>3, GetFacts DEF Prepared
  <2> HIDE DEF k
  <2>5. k \in R!Job
    BY <2>4 DEF Fonted
  <2>6. job' \in R!Job
    BY <2>2, <2>5 DEF R!Job
  <2>7. /\ job'.infos = k.infos /\ job'.names = k.names /\ job'.asked = k.asked
        /\ job'.needed = k.needed /\ job'.supplied = k.supplied /\ job'.includes = k.includes
        /\ job'.faceFont = k.faceFont /\ job'.loaded = k.loaded /\ job'.encoding = e
        /\ job'.wx = k.wx /\ job'.page = k.page
    BY <2>2, <2>5 DEF R!Job
  <2>8. Fonted(job')
    BY <2>4, <2>6, <2>7 DEF Fonted, Provided
  <2>9. Grows(job, job') /\ job'.loaded \cup {job'.encoding} \subseteq job'.wx
    BY <2>3, <2>4, <2>7 DEF Grows, Prepared
  <2>9a. Built(job')
    BY <2>4, <2>7 DEF Built
  <2>10. Prepared(job')
    BY <1>1, <2>3, <2>4, <2>7, <2>8, <2>9, <2>9a, PreparedKept
  <2>11. QED
    BY <2>2, <2>8, <2>10 DEF FontsInv, R!Phases
<1>9. CASE \E n \in R!FontNames : R!Subcontract(n)
  <2>1. PICK n \in R!FontNames : R!Subcontract(n)
    BY <1>9
  <2>2. phase = "body" /\ phase' = phase /\ job' = [job EXCEPT !.needed = job.needed \cup {n}]
    BY <2>1 DEF R!Subcontract
  <2>3. job.needed \cup {n} \in SUBSET R!FontNames
    BY <1>1 DEF R!Job
  <2>4. job' \in R!Job
    BY <1>1, <2>2, <2>3 DEF R!Job
  <2>5. /\ job'.infos = job.infos /\ job'.names = job.names /\ job'.asked = job.asked
        /\ job'.needed = job.needed \cup {n} /\ job'.supplied = job.supplied /\ job'.includes = job.includes
        /\ job'.faceFont = job.faceFont /\ job'.loaded = job.loaded /\ job'.encoding = job.encoding
        /\ job'.wx = job.wx
    BY <1>1, <2>2 DEF R!Job
  <2>6. \A m : Provided(job, m) => Provided(job', m)
    BY <2>5 DEF Provided
  <2>7. Fonted(job')
    BY <1>1, <2>4, <2>5, <2>6 DEF Fonted
  <2>8. Prepared(job')
    BY <2>2, <2>5 DEF FontsInv, Prepared, R!FacesSet, NamedFirst, Built
  <2>9. QED
    BY <2>2, <2>7, <2>8 DEF FontsInv, R!Phases
<1>10. CASE R!Undivert
  BY <1>10 DEF R!Undivert, FontsInv, R!Phases
<1>11. CASE UNCHANGED resourcesVars
  BY <1>11 DEF resourcesVars, FontsInv
<1>12. QED
  BY <1>3, <1>4, <1>5, <1>6, <1>7, <1>8, <1>9, <1>10, <1>11 DEF R!Next, R!Dumped, R!vars, resourcesVars

LEMMA UpTo ==
  ASSUME NEW k \in Nat \ {0}
  PROVE  R!Max(1 .. k) = k /\ (1 .. k) \ {k} = 1 .. k - 1 /\ 1 .. k # {}
<1>1. k \in 1 .. k /\ \A x \in 1 .. k : k >= x
  OBVIOUS
<1>2. \A y \in 1 .. k : (\A x \in 1 .. k : y >= x) => y = k
  OBVIOUS
<1>3. R!Max(1 .. k) = k
  BY <1>1, <1>2 DEF R!Max
<1>4. QED
  BY <1>1, <1>3

(* The names as dump_encoding_setup visits them.                           *)
LEMMA ReencodeChain ==
  ASSUME NEW e, Len(Fonts) \in Nat, DOMAIN Fonts = 1 .. Len(Fonts)
  PROVE  \E g : /\ g[0] = [kept |-> {}, passed |-> FALSE] /\ g[Len(Fonts)].kept = R!Reencoded(e)
               /\ \A k \in 1 .. Len(Fonts) : g[k] = R!Reencode(e, g[k - 1], Fonts[k])
<1> DEFINE n == Len(Fonts)
           Next0(it, t) == IF t = {} THEN [kept |-> {}, passed |-> FALSE] ELSE R!Reencode(e, it[t \ {R!Max(t)}], Fonts[R!Max(t)])
           Good(it, k) == /\ it = [t \in SUBSET (1 .. n) |-> it[t]]
                          /\ \A t \in SUBSET (1 .. n) : t \subseteq 1 .. k => it[t] = Next0(it, t)
           T == {k \in 0 .. n : \E it : Good(it, k)}
<1>1. 0 \in T
  <2> DEFINE it == [t \in SUBSET (1 .. n) |-> [kept |-> {}, passed |-> FALSE]]
  <2>1. \A t \in SUBSET (1 .. n) : t \subseteq 1 .. 0 => t = {}
    OBVIOUS
  <2>2. Good(it, 0)
    BY <2>1
  <2> HIDE DEF Good
  <2>3. (\E ju : Good(ju, 0)) /\ 0 \in 0 .. n
    BY <2>2
  <2>4. QED
    BY <2>3
<1>2. ASSUME NEW k \in 1 .. n, k - 1 \in T
      PROVE  k \in T
  <2>1. PICK it : Good(it, k - 1)
    BY <1>2
  <2> DEFINE ju == [t \in SUBSET (1 .. n) |-> IF k \in t THEN Next0(it, t) ELSE it[t]]
  <2>2. ASSUME NEW t \in SUBSET (1 .. n), t \subseteq 1 .. k
        PROVE  ju[t] = Next0(ju, t)
    <3>1. CASE k \in t
      <4>1. R!Max(t) = k
        <5>1. \A x \in t : k >= x
          BY <2>2
        <5>2. \A y \in t : (\A x \in t : y >= x) => y = k
          BY <3>1, <5>1, <2>2
        <5>3. QED
          BY <3>1, <5>1, <5>2 DEF R!Max
      <4>2. t \ {k} \in SUBSET (1 .. n) /\ k \notin t \ {k}
        BY <2>2
      <4>3. ju[t \ {k}] = it[t \ {k}]
        BY <4>2
      <4>4. QED
        BY <3>1, <4>1, <4>3
    <3>2. CASE k \notin t
      <4>1. t \subseteq 1 .. k - 1
        BY <3>2, <2>2
      <4>2. it[t] = Next0(it, t) /\ ju[t] = it[t]
        BY <2>1, <3>2, <4>1
      <4>3. t # {} => k \notin t \ {R!Max(t)} /\ t \ {R!Max(t)} \in SUBSET (1 .. n)
        BY <3>2
      <4>4. t # {} => ju[t \ {R!Max(t)}] = it[t \ {R!Max(t)}]
        BY <4>3
      <4>5. QED
        BY <4>2, <4>4
    <3>3. QED
      BY <3>1, <3>2
  <2>3. ju = [t \in SUBSET (1 .. n) |-> ju[t]]
    OBVIOUS
  <2> HIDE DEF ju
  <2>4. Good(ju, k)
    BY <2>2, <2>3
  <2> HIDE DEF Good
  <2>5. (\E v : Good(v, k)) /\ k \in 0 .. n
    BY <2>4
  <2>6. QED
    BY <2>5
<1>3. n \in T
  <2>1. n \in Nat /\ n \in 0 .. n
    OBVIOUS
  <2> HIDE DEF T
  <2>2. \A i \in 0 .. n : i \in T
    BY <1>1, <1>2, <2>1, Induction
  <2>3. QED
    BY <2>1, <2>2
<1>4. PICK it : Good(it, n)
  BY <1>3
<1> DEFINE Eq(u) == u = [t \in SUBSET (DOMAIN Fonts) |-> IF t = {} THEN [kept |-> {}, passed |-> FALSE] ELSE LET x == R!Max(t) IN R!Reencode(e, u[t \ {x}], Fonts[x])]
           f == CHOOSE u : Eq(u)
           g == [k \in 0 .. n |-> f[1 .. k]]
<1>5. Eq(it)
  BY <1>4
<1>6. Eq(f)
  <2> HIDE DEF Eq
  <2>1. QED
    BY <1>5
<1>7. R!Reencoded(e) = f[DOMAIN Fonts].kept
  BY DEF R!Reencoded, R!FoldLeft, R!MapThenFoldSet
<1> HIDE DEF f
<1>8. \A k \in 0 .. n : 1 .. k \in SUBSET (DOMAIN Fonts)
  OBVIOUS
<1>9. f[1 .. 0] = [kept |-> {}, passed |-> FALSE]
  <2>1. 1 .. 0 = {} /\ 1 .. 0 \in SUBSET (DOMAIN Fonts)
    OBVIOUS
  <2>2. QED
    BY <1>6, <2>1
<1>10. ASSUME NEW k \in 1 .. n
       PROVE  f[1 .. k] = R!Reencode(e, f[1 .. k - 1], Fonts[k])
  <2>1. R!Max(1 .. k) = k /\ (1 .. k) \ {k} = 1 .. k - 1 /\ 1 .. k # {} /\ 1 .. k \in SUBSET (DOMAIN Fonts)
    BY UpTo, <1>8
  <2>2. QED
    BY <1>6, <2>1
<1>11. g[0] = [kept |-> {}, passed |-> FALSE] /\ \A k \in 1 .. n : g[k] = R!Reencode(e, g[k - 1], Fonts[k])
  <2>1. \A k \in 1 .. n : k \in 0 .. n /\ k - 1 \in 0 .. n
    OBVIOUS
  <2>2. QED
    BY <1>9, <1>10, <2>1
<1>12. g[n].kept = R!Reencoded(e)
  <2>1. n \in 0 .. n /\ 1 .. n = DOMAIN Fonts
    OBVIOUS
  <2>2. g[n] = f[1 .. n]
    BY <2>1
  <2>3. QED
    BY <1>7, <2>1, <2>2
<1>13. QED
  <2> HIDE DEF g
  <2>1. QED
    BY <1>11, <1>12

(* dump_encoding_setup keeps the name of every font that is not special,   *)
(* whatever it skips.                                                      *)
LEMMA ReencodedKept ==
  ASSUME R!ResourcesAssumption, NEW e, NEW n \in R!FontNames, n \in job.names[e],
         R!Resolve(e, n) \notin R!Special
  PROVE  n \in R!Reencoded(e)
<1>1. Fonts \in Seq(R!FontNames) /\ Len(Fonts) \in Nat /\ DOMAIN Fonts = 1 .. Len(Fonts)
  BY DEF R!ResourcesAssumption
<1>2. PICK g :
        /\ g[0] = [kept |-> {}, passed |-> FALSE]
        /\ g[Len(Fonts)].kept = R!Reencoded(e)
        /\ \A k \in 1 .. Len(Fonts) : g[k] = R!Reencode(e, g[k - 1], Fonts[k])
  BY <1>1, ReencodeChain
<1>3. PICK i \in 1 .. Len(Fonts) : Fonts[i] = n
  BY <1>1 DEF R!FontNames, R!ToSet
<1> DEFINE T == {k \in 0 .. Len(Fonts) : k >= i => n \in g[k].kept}
<1>4. 0 \in T
  BY <1>1
<1>5. ASSUME NEW k \in 1 .. Len(Fonts), k - 1 \in T
      PROVE  k \in T
  <2>1. g[k] = R!Reencode(e, g[k - 1], Fonts[k])
    BY <1>2
  <2>2. CASE k = i
    BY <1>3, <2>1, <2>2 DEF R!Reencode
  <2>3. CASE k < i
    BY <2>3
  <2>4. CASE k > i
    <3>1. n \in g[k - 1].kept
      BY <1>5, <2>4
    <3>2. QED
      BY <2>1, <3>1 DEF R!Reencode
  <2>5. QED
    BY <2>2, <2>3, <2>4
<1> HIDE DEF T
<1>6. \A k \in 0 .. Len(Fonts) : k \in T
  BY <1>1, <1>4, <1>5, Induction
<1>7. n \in g[Len(Fonts)].kept
  <2>1. Len(Fonts) \in 0 .. Len(Fonts) /\ Len(Fonts) >= i
    BY <1>1
  <2>2. QED
    BY <1>6, <2>1 DEF T
<1>8. QED
  BY <1>2, <1>7

(* No font stands for a special one but itself.                            *)
LEMMA ResolveSpecial ==
  ASSUME R!ResourcesAssumption, NEW e \in Encodings, NEW n \in R!FontNames, R!Resolve(e, n) \in R!Special
  PROVE  R!Resolve(e, n) = n
<1> DEFINE S == {m \in R!FontNames : <<e, n, m>> \in Substitutes}
<1>1. \A m \in S : m \notin R!Special
  <2>1. \A m \in S : <<e, n, m>>[3] = m
    OBVIOUS
  <2>2. QED
    BY <2>1 DEF R!ResourcesAssumption
<1>2. S # {} => (CHOOSE m \in S : TRUE) \in S
  OBVIOUS
<1>3. Default \notin R!Special
  BY DEF R!ResourcesAssumption
<1>4. R!Resolve(e, n) = IF S # {} THEN CHOOSE m \in S : TRUE ELSE IF n \in Existing THEN n ELSE Default
  BY DEF R!Resolve
<1> HIDE DEF S
<1>5. QED
  BY <1>1, <1>2, <1>3, <1>4

LEMMA FontsShow ==
  ASSUME R!ResourcesAssumption, FontsInv
  PROVE  R!TypeOK /\ R!InitialIncludedOnce /\ R!FontsProvided /\ R!FacesDefined
<1>1. R!TypeOK
  BY DEF FontsInv, Fonted, R!TypeOK
<1>2. R!InitialIncludedOnce
  BY DEF FontsInv, Prepared, R!InitialIncludedOnce, R!Initial, NamedFirst
<1>3. R!FontsProvided
  <2>1. job.loaded \subseteq Encodings
    BY <1>1 DEF R!TypeOK, R!Job
  <2>2. QED
    BY <2>1 DEF FontsInv, Fonted, Provided, R!FontsProvided
<1>4. R!FacesDefined
  <2> SUFFICES ASSUME phase \in {"body", "dumped"}
               PROVE  /\ job.encoding \in job.wx
                      /\ {job.faceFont[f] : f \in Faces} \subseteq R!DefinedIn(job.encoding)
    BY DEF R!FacesDefined
  <2> DEFINE e == job.encoding
  <2>1. Prepared(job) /\ e \in job.wx /\ e \in Encodings
    BY <1>1 DEF FontsInv, Prepared, R!TypeOK, R!Job
  <2>2. ASSUME NEW f \in Faces
        PROVE  job.faceFont[f] \in R!DefinedIn(e)
    <3> DEFINE n == job.faceFont[f]
    <3>1. n \in R!FontNames /\ n \in job.names[e] /\ R!Resolve(e, n) \in job.infos
      BY <1>1, <2>1 DEF Prepared, Built, R!FacesSet, R!TypeOK, R!Job
    <3> HIDE DEF n, e
    <3>2. R!Resolve(e, n) \notin R!Special => n \in R!DefinedIn(e)
      BY <3>1, ReencodedKept DEF R!DefinedIn
    <3>3. ASSUME R!Resolve(e, n) \in R!Special
          PROVE  n \in R!DefinedIn(e)
      <4>1. R!Resolve(e, n) = n
        BY <2>1, <3>1, <3>3, ResolveSpecial
      <4>2. QED
        BY <3>1, <3>3, <4>1 DEF R!DefinedIn
    <3>4. QED
      BY <3>2, <3>3 DEF n, e
  <2>3. QED
    BY <2>1, <2>2
<1>5. QED
  BY <1>1, <1>2, <1>3, <1>4

(* Whatever the fonts of the prologue, of the faces and of the files, and  *)
(* whatever replaces them in an encoding: the dictionaries define no font  *)
(* that the header does not give as needed or supplied, the fonts known    *)
(* when the pages begin are included once, and the faces have widths in    *)
(* the encoding in use and fonts that its dictionary defines, although     *)
(* dump_encoding_setup skips names (encoding.c, dsc.c).                    *)
THEOREM FontsAlwaysProvided ==
  ASSUME R!ResourcesAssumption
  PROVE  R!Spec => [](R!TypeOK /\ R!InitialIncludedOnce /\ R!FontsProvided /\ R!FacesDefined)
<1>1. R!Init => FontsInv
  BY InitFonts
<1>2. FontsInv /\ [R!Next]_R!vars => FontsInv'
  BY StepFonts DEF resourcesVars, R!vars
<1>3. FontsInv => R!TypeOK /\ R!InitialIncludedOnce /\ R!FontsProvided /\ R!FacesDefined
  BY FontsShow
<1>4. QED
  BY <1>1, <1>2, <1>3, PTL DEF R!Spec

(* The fonts of every document are ready when it needs them.               *)
THEOREM FontsReadyAlways == DocumentsSpec => []FontsReady
<1> DEFINE Inv == part = "resources" => FontsInv
           allVars == <<part, vars, resourcesVars, diversionVars>>
<1>1. R!ResourcesAssumption
  BY DocumentsAssumption
<1>2. DocumentsInit => Inv
  BY <1>1, InitFonts DEF DocumentsInit
<1>3. Inv /\ [DocumentsNext]_allVars => Inv'
  <2> SUFFICES ASSUME Inv, [DocumentsNext]_allVars, part' = "resources"
               PROVE  FontsInv'
    OBVIOUS
  <2>1. CASE part = "resources" /\ R!Next
    BY <1>1, <2>1, StepFonts
  <2>2. CASE UNCHANGED allVars
    BY <1>1, <2>2, StepFonts
  <2>3. QED
    BY <2>1, <2>2 DEF DocumentsNext, LibraryNext
<1>4. Inv => FontsReady
  BY <1>1, FontsShow DEF FontsReady
<1>5. QED
  BY <1>2, <1>3, <1>4, PTL DEF DocumentsSpec
=============================================================================
