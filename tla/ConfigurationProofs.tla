------------------------ MODULE ConfigurationProofs ------------------------
(***************************************************************************)
(* Proofs about Configuration: the stack of files and vectors, the lines,  *)
(* the options and the geometry, for any files, options, media and bounds. *)
(*   Types    the frames, the tapes and the job are what they should be    *)
(*   Stack    vectors above files, and each file read where it is written  *)
(*   Governs  what the options that were applied say of the job            *)
(*   Printed  what the task has computed when the printing begins          *)
(***************************************************************************)
EXTENDS Configuration, FiniteSetTheorems, SequenceTheorems, FunctionTheorems, WellFoundedInduction,
        NaturalsInduction, TLAPS

-----------------------------------------------------------------------------
(* Induction, and the greatest element of what is bounded, from the order  *)
(* of the natural numbers.                                                 *)
LEMMA Least ==
  ASSUME NEW T \in SUBSET Nat, T # {}
  PROVE  \E i \in T : \A k \in T : i <= k
<1> DEFINE Order == OpToRel(<, Nat)
<1>1. IsWellFoundedOn(Order, Nat)
  BY NatLessThanWellFounded
<1>2. PICK i \in T : \A k \in T : <<k, i>> \notin Order
  <2> HIDE DEF Order
  <2>1. QED
    BY <1>1, WFMin
<1>3. ASSUME NEW k \in T
      PROVE  i <= k
  <2>1. <<k, i>> \notin Order
    BY <1>2
  <2>2. k \in Nat /\ i \in Nat
    OBVIOUS
  <2>3. ~(k < i)
    BY <2>1, <2>2 DEF Order, OpToRel
  <2>4. QED
    BY <2>2, <2>3
<1>4. QED
  BY <1>3

LEMMA Induction ==
  ASSUME NEW n \in Nat, NEW T, 0 \in T, \A i \in 1 .. n : i - 1 \in T => i \in T
  PROVE  \A i \in 0 .. n : i \in T
<1> DEFINE S == {i \in 0 .. n : i \notin T}
<1>1. SUFFICES ASSUME S # {}
               PROVE  FALSE
  OBVIOUS
<1>2. S \in SUBSET Nat
  OBVIOUS
<1>3. PICK i \in S : \A k \in S : i <= k
  <2> HIDE DEF S
  <2>1. QED
    BY <1>1, <1>2, Least
<1>4. i \in 1 .. n /\ i - 1 \in 0 .. n /\ ~(i <= i - 1)
  BY <1>3
<1>5. i - 1 \in T
  BY <1>3, <1>4
<1>6. QED
  BY <1>3, <1>4, <1>5

(* What FoldLeft goes through.                                             *)
LEMMA UpTo ==
  ASSUME NEW k \in Nat \ {0}
  PROVE  Max(1 .. k) = k /\ (1 .. k) \ {k} = 1 .. k - 1 /\ 1 .. k # {}
<1>1. k \in 1 .. k /\ \A x \in 1 .. k : k >= x
  OBVIOUS
<1>2. \A y \in 1 .. k : (\A x \in 1 .. k : y >= x) => y = k
  OBVIOUS
<1>3. Max(1 .. k) = k
  BY <1>1, <1>2 DEF Max
<1>4. QED
  BY <1>1, <1>3

(* The options, as the words are gone through.                             *)
LEMMA ParsedChain ==
  ASSUME NEW words, Len(words) \in Nat, DOMAIN words = 1 .. Len(words)
  PROVE  \E g : /\ g[0] = << >> /\ g[Len(words)] = FoldLeft(Parsed, << >>, words)
               /\ \A k \in 1 .. Len(words) : g[k] = Parsed(g[k - 1], words[k])
<1> DEFINE n == Len(words)
           Next0(it, t) == IF t = {} THEN << >> ELSE Parsed(it[t \ {Max(t)}], words[Max(t)])
           Good(it, k) == /\ it = [t \in SUBSET (1 .. n) |-> it[t]]
                          /\ \A t \in SUBSET (1 .. n) : t \subseteq 1 .. k => it[t] = Next0(it, t)
           T == {k \in 0 .. n : \E it : Good(it, k)}
<1>1. 0 \in T
  <2> DEFINE it == [t \in SUBSET (1 .. n) |-> << >>]
  <2>1. \A t \in SUBSET (1 .. n) : t \subseteq 1 .. 0 => t = {}
    OBVIOUS
  <2>2. Good(it, 0)
    BY <2>1
  <2> HIDE DEF Good
  <2>3. (\E ju : Good(ju, 0)) /\ 0 \in 0 .. n
    BY <2>2
  <2>4. QED
    BY <2>3
<1>2. ASSUME NEW k \in 1 .. n, k - 1 \in T
      PROVE  k \in T
  <2>1. PICK it : Good(it, k - 1)
    BY <1>2
  <2> DEFINE ju == [t \in SUBSET (1 .. n) |-> IF k \in t THEN Next0(it, t) ELSE it[t]]
  <2>2. ASSUME NEW t \in SUBSET (1 .. n), t \subseteq 1 .. k
        PROVE  ju[t] = Next0(ju, t)
    <3>1. CASE k \in t
      <4>1. Max(t) = k
        <5>1. \A x \in t : k >= x
          BY <2>2
        <5>2. \A y \in t : (\A x \in t : y >= x) => y = k
          BY <3>1, <5>1, <2>2
        <5>3. QED
          BY <3>1, <5>1, <5>2 DEF Max
      <4>2. t \ {k} \in SUBSET (1 .. n) /\ k \notin t \ {k}
        BY <2>2
      <4>3. ju[t \ {k}] = it[t \ {k}]
        BY <4>2
      <4>4. QED
        BY <3>1, <4>1, <4>3
    <3>2. CASE k \notin t
      <4>1. t \subseteq 1 .. k - 1
        BY <3>2, <2>2
      <4>2. it[t] = Next0(it, t) /\ ju[t] = it[t]
        BY <2>1, <3>2, <4>1
      <4>3. t # {} => k \notin t \ {Max(t)} /\ t \ {Max(t)} \in SUBSET (1 .. n)
        BY <3>2
      <4>4. t # {} => ju[t \ {Max(t)}] = it[t \ {Max(t)}]
        BY <4>3
      <4>5. QED
        BY <4>2, <4>4
    <3>3. QED
      BY <3>1, <3>2
  <2>3. ju = [t \in SUBSET (1 .. n) |-> ju[t]]
    OBVIOUS
  <2> HIDE DEF ju
  <2>4. Good(ju, k)
    BY <2>2, <2>3
  <2> HIDE DEF Good
  <2>5. (\E v : Good(v, k)) /\ k \in 0 .. n
    BY <2>4
  <2>6. QED
    BY <2>5
<1>3. n \in T
  <2>1. n \in Nat /\ n \in 0 .. n
    OBVIOUS
  <2> HIDE DEF T
  <2>2. \A i \in 0 .. n : i \in T
    BY <1>1, <1>2, <2>1, Induction
  <2>3. QED
    BY <2>1, <2>2
<1>4. PICK it : Good(it, n)
  BY <1>3
<1> DEFINE Eq(u) == u = [t \in SUBSET (DOMAIN words) |-> IF t = {} THEN << >> ELSE LET x == Max(t) IN Parsed(u[t \ {x}], words[x])]
           f == CHOOSE u : Eq(u)
           g == [k \in 0 .. n |-> f[1 .. k]]
<1>5. Eq(it)
  BY <1>4
<1>6. Eq(f)
  <2> HIDE DEF Eq
  <2>1. QED
    BY <1>5
<1>7. FoldLeft(Parsed, << >>, words) = f[DOMAIN words]
  BY DEF FoldLeft, MapThenFoldSet
<1> HIDE DEF f
<1>8. \A k \in 0 .. n : 1 .. k \in SUBSET (DOMAIN words)
  OBVIOUS
<1>9. f[1 .. 0] = << >>
  <2>1. 1 .. 0 = {} /\ 1 .. 0 \in SUBSET (DOMAIN words)
    OBVIOUS
  <2>2. QED
    BY <1>6, <2>1
<1>10. ASSUME NEW k \in 1 .. n
       PROVE  f[1 .. k] = Parsed(f[1 .. k - 1], words[k])
  <2>1. Max(1 .. k) = k /\ (1 .. k) \ {k} = 1 .. k - 1 /\ 1 .. k # {} /\ 1 .. k \in SUBSET (DOMAIN words)
    BY UpTo, <1>8
  <2>2. QED
    BY <1>6, <2>1
<1>11. g[0] = << >> /\ \A k \in 1 .. n : g[k] = Parsed(g[k - 1], words[k])
  <2>1. \A k \in 1 .. n : k \in 0 .. n /\ k - 1 \in 0 .. n
    OBVIOUS
  <2>2. QED
    BY <1>9, <1>10, <2>1
<1>12. g[n] = FoldLeft(Parsed, << >>, words)
  <2>1. n \in 0 .. n /\ 1 .. n = DOMAIN words
    OBVIOUS
  <2>2. g[n] = f[1 .. n]
    BY <2>1
  <2>3. QED
    BY <1>7, <2>1, <2>2
<1>13. QED
  <2> HIDE DEF g
  <2>1. QED
    BY <1>11, <1>12

(* The words of a frame: those of the lines, and a backslash alone.        *)
Strings == STRING \cup {"\\"}
LEMMA Words ==
  /\ \A s \in Seq(STRING) : s \in Seq(Strings)
  /\ <<"\\">> \in Seq(Strings) /\ <<"\\">> # << >>
<1>1. STRING \subseteq Strings /\ "\\" \in Strings
  BY DEF Strings
<1>2. \A s \in Seq(STRING) : s \in Seq(Strings)
  BY <1>1, SeqMonotonic
<1>3. QED
  BY <1>1, <1>2

(* The options that a vector may hold.                                     *)
Known == {OptionOf[w] : w \in DOMAIN OptionOf}
LEMMA VectorKnown ==
  ASSUME NEW words \in Seq(Strings)
  PROVE  VectorFrame(words).kind = "vector" /\ VectorFrame(words).options \in Seq(Known)
         /\ VectorFrame(words) = [kind |-> "vector", options |-> VectorFrame(words).options]
<1> DEFINE n == Len(words)
<1>1. PICK g : /\ g[0] = << >> /\ g[n] = FoldLeft(Parsed, << >>, words)
               /\ \A k \in 1 .. n : g[k] = Parsed(g[k - 1], words[k])
  <2>1. n \in Nat /\ DOMAIN words = 1 .. n
    OBVIOUS
  <2>2. QED
    BY <2>1, ParsedChain
<1> DEFINE T == {k \in 0 .. n : g[k] \in Seq(Known)}
<1>2. n \in Nat /\ n \in 0 .. n
  OBVIOUS
<1>3. 0 \in T
  <2>1. << >> \in Seq(Known) /\ 0 \in 0 .. n
    BY <1>2
  <2>2. QED
    BY <1>1, <2>1
<1>4. ASSUME NEW k \in 1 .. n, k - 1 \in T
      PROVE  k \in T
  <2>1. g[k] = Parsed(g[k - 1], words[k]) /\ g[k - 1] \in Seq(Known) /\ k \in 0 .. n
    BY <1>1, <1>4
  <2>2. words[k] \in DOMAIN OptionOf => OptionOf[words[k]] \in Known
    BY DEF Known
  <2>3. g[k] \in Seq(Known)
    BY <2>1, <2>2 DEF Parsed
  <2>4. QED
    BY <2>1, <2>3
<1>5. \A i \in 0 .. n : i \in T
  <2> HIDE DEF T, n
  <2>1. QED
    BY <1>2, <1>3, <1>4, Induction
<1>6. FoldLeft(Parsed, << >>, words) \in Seq(Known)
  <2>1. n \in T
    BY <1>2, <1>5
  <2>2. QED
    BY <1>1, <2>1
<1>7. QED
  BY <1>6 DEF VectorFrame

-----------------------------------------------------------------------------
(* The tables of the options and of the keywords, row by row.              *)
LEMMA Rows ==
  ASSUME NEW rows
  PROVE  /\ DOMAIN Table(rows) = {r[1] : r \in rows}
         /\ \A k \in DOMAIN Table(rows) : \E r \in rows : r[1] = k /\ Table(rows)[k] = r[2]
BY DEF Table

(* What the invariant says of the job is about these fields only.          *)
Tracked ==
  {"columns", "rows", "copies", "tabsize", "margin", "columns_requested", "lines_requested", "fontsize", "duplex",
   "pagedevice", "user_options", "media", "failed"}

TextNames ==
  {"b", "t", "u", "M", "X", "134", "140", "141", "149", "142", "143", "144", "166", "163", "159", "E"}
LEMMA TextRow ==
  DOMAIN Texts = TextNames /\ \A x \in DOMAIN Texts : Texts[x] \notin Tracked
<1>1. DOMAIN Texts = TextNames
  BY DEF Texts, TextRows, Table, TextNames
<1>2. ASSUME NEW x \in DOMAIN Texts
      PROVE  Texts[x] \notin Tracked
  <2>1. PICK r \in TextRows : r[1] = x /\ Texts[x] = r[2]
    BY Rows DEF Texts
  <2>2. QED
    BY <2>1 DEF TextRows, Tracked
<1>3. QED
  BY <1>1, <1>2

NupNames == {"1", "2", "3", "4", "5", "6", "7", "8", "9"}
LEMMA NupRow ==
  /\ DOMAIN NupOptions = NupNames
  /\ \A x \in DOMAIN NupOptions : \E c, r \in Nat \ {0} : \E o : NupOptions[x] = Nup(c, r, o)
<1>1. DOMAIN NupOptions = NupNames
  BY DEF NupOptions, NupRows, Table, NupNames
<1>2. ASSUME NEW x \in DOMAIN NupOptions
      PROVE  \E c, r \in Nat \ {0} : \E o : NupOptions[x] = Nup(c, r, o)
  <2>1. PICK r \in NupRows : r[1] = x /\ NupOptions[x] = r[2]
    BY Rows DEF NupOptions
  <2>2. \E c, q \in Nat \ {0} : \E o : r[2] = Nup(c, q, o)
    BY <2>1 DEF NupRows
  <2>3. QED
    BY <2>1, <2>2
<1>3. QED
  BY <1>1, <1>2

FixedNames ==
  {"B", "c", "C", "i", "j", "k", "K", "m", "r", "R", "146", "g", "Z", "h", "V", "138", "137", "150", "139", "161", "162"}
FixedFields ==
  {"folding", "numbering", "interpret", "border", "page_prefeed", "orientation", "debug", "highlight_level", "delegate_p",
   "behavior"}
LEMMA FixedRow ==
  /\ DOMAIN Fixed = FixedNames
  /\ \A x \in DOMAIN Fixed : IF x = "m" THEN Fixed[x] = Mail ELSE DOMAIN Fixed[x] \cap Tracked = {}
<1>1. DOMAIN Fixed = FixedNames
  BY DEF Fixed, FixedRows, Table, FixedNames
<1>2. ASSUME NEW x \in DOMAIN Fixed
      PROVE  IF x = "m" THEN Fixed[x] = Mail ELSE DOMAIN Fixed[x] \cap Tracked = {}
  <2>1. PICK r \in FixedRows : r[1] = x /\ Fixed[x] = r[2]
    BY Rows DEF Fixed
  <2>2. CASE x = "m"
    BY <2>1, <2>2 DEF FixedRows
  <2>3. CASE x # "m"
    <3>1. DOMAIN NoHeading \cap Tracked = {}
      BY DEF NoHeading, Headings, Tracked
    <3>2. DOMAIN r[2] \in {DOMAIN NoHeading} \cup {{f} : f \in FixedFields}
      BY <2>1, <2>3 DEF FixedRows, FixedFields, Behaves, Sets, On, Off
    <3>3. \A f \in FixedFields : {f} \cap Tracked = {}
      BY DEF FixedFields, Tracked
    <3>4. QED
      BY <2>1, <2>3, <3>1, <3>2, <3>3
  <2>4. QED
    BY <2>2, <2>3
<1>3. QED
  BY <1>1, <1>2

ChoiceNames == {"151", "155", "156", "136", "160", "154", "173", "135", "s", "157", "158", "169", "145"}
LEMMA ChoiceRow ==
  /\ DOMAIN WordChoices = ChoiceNames
  /\ \A x \in DOMAIN WordChoices :
       IF x = "s" THEN WordChoices[x].field = "duplex" /\ WordChoices[x].words = SidesWords
       ELSE WordChoices[x].field \notin Tracked
<1>1. DOMAIN WordChoices = ChoiceNames
  BY DEF WordChoices, ChoiceRows, Table, ChoiceNames
<1>2. ASSUME NEW x \in DOMAIN WordChoices
      PROVE  IF x = "s" THEN WordChoices[x].field = "duplex" /\ WordChoices[x].words = SidesWords
             ELSE WordChoices[x].field \notin Tracked
  <2>1. PICK r \in ChoiceRows : r[1] = x /\ WordChoices[x] = r[2]
    BY Rows DEF WordChoices
  <2>2. CASE x = "s"
    <3>1. r[2] = Choice("duplex", SidesWords)
      BY <2>1, <2>2 DEF ChoiceRows
    <3>2. QED
      BY <2>1, <2>2, <3>1 DEF Choice
  <2>3. CASE x # "s"
    <3>1. r[2].field \in {"folding", "interpret", "border", "print_binaries", "delegate_p", "highlight_level",
                          "unprintable_format", "madir", "backup_type", "end_of_line", "behavior"}
      BY <2>1, <2>3 DEF ChoiceRows, Choice
    <3>2. QED
      BY <2>1, <2>3, <3>1 DEF Tracked
  <2>4. QED
    BY <2>2, <2>3
<1>3. QED
  BY <1>1, <1>2

(* The options whose argument is an integer, by what they set.             *)
IntegerNames == {"132", "133", "n", "T", "148", "152", "147", "l", "L", "f"}
LEMMA IntegerRow ==
  /\ DOMAIN Integers = IntegerNames
  /\ Integers["132"] = Integer("columns", 1, None) /\ Integers["133"] = Integer("rows", 1, None)
  /\ Integers["n"] = Integer("copies", 1, None) /\ Integers["T"] = Integer("tabsize", 1, None)
  /\ Integers["148"] = Integer("strip_level", 0, None) /\ Integers["152"] = Integer("numbering", 0, None)
  /\ Integers["147"] = Integer("margin", 0, None)
  /\ Integers["l"] = Integer("columns_requested", 1, [lines_requested |-> 0])
  /\ Integers["L"] = Integer("lines_requested", 1, [columns_requested |-> 0])
  /\ Integers["f"] = Integer("fontsize", 1, [columns_requested |-> 0, lines_requested |-> 0])
<1> DEFINE l == [lines_requested |-> 0]
           c == [columns_requested |-> 0]
           b == [columns_requested |-> 0, lines_requested |-> 0]
           rows == {<<"132", Integer("columns", 1, None)>>, <<"133", Integer("rows", 1, None)>>, <<"n", Integer("copies", 1, None)>>,
                    <<"T", Integer("tabsize", 1, None)>>, <<"148", Integer("strip_level", 0, None)>>,
                    <<"152", Integer("numbering", 0, None)>>, <<"147", Integer("margin", 0, None)>>,
                    <<"l", Integer("columns_requested", 1, l)>>, <<"L", Integer("lines_requested", 1, c)>>,
                    <<"f", Integer("fontsize", 1, b)>>}
<1>1. Integers = Table(rows)
  BY DEF Integers, IntegerRows
<1> HIDE DEF l, c, b
<1>2. DOMAIN Table(rows) = IntegerNames
  BY DEF Table, IntegerNames
<1>3. /\ Table(rows)["132"] = Integer("columns", 1, None) /\ Table(rows)["133"] = Integer("rows", 1, None)
      /\ Table(rows)["n"] = Integer("copies", 1, None) /\ Table(rows)["T"] = Integer("tabsize", 1, None)
      /\ Table(rows)["148"] = Integer("strip_level", 0, None) /\ Table(rows)["152"] = Integer("numbering", 0, None)
      /\ Table(rows)["147"] = Integer("margin", 0, None)
      /\ Table(rows)["l"] = Integer("columns_requested", 1, l)
      /\ Table(rows)["L"] = Integer("lines_requested", 1, c)
      /\ Table(rows)["f"] = Integer("fontsize", 1, b)
  BY DEF Table
<1> HIDE DEF rows
<1>4. QED
  BY <1>1, <1>2, <1>3 DEF l, c, b

LEMMA ByDefaultRow ==
  DOMAIN ByDefault = {"152", "147"} /\ ByDefault["152"] = Sets("numbering", 1) /\ ByDefault["147"] = Sets("margin", 12)
BY DEF ByDefault, Table

KeywordCodes ==
  {"AppendLibraryPath", "DefaultPPD", "DefaultPrinter", "Delegation", "FileCommand", "Include", "LibraryPath", "Variable",
   "Medium", "Options", "OutputFirstLine", "PageLabelFormat", "Obsolete", "PrependLibraryPath", "Printer",
   "UnknownPrinter", "UserOption"}
LEMMA KeywordRow ==
  \A x \in DOMAIN Keywords : Keywords[x].code \in KeywordCodes /\ Keywords[x].argc \in {1, 2}
<1>1. ASSUME NEW x \in DOMAIN Keywords
      PROVE  Keywords[x].code \in KeywordCodes /\ Keywords[x].argc \in {1, 2}
  <2>1. PICK r \in KeywordRows : r[1] = x /\ Keywords[x] = r[2]
    BY Rows DEF Keywords
  <2>2. QED
    BY <2>1 DEF KeywordRows, KeywordCodes, Keyword
<1>2. QED
  BY <1>1

-----------------------------------------------------------------------------
(* The job.                                                                *)
Medium == [w : Word, h : Word, llx : Word, lly : Word, urx : Word, ury : Word]
JobOK(j) ==
  /\ Tracked \subseteq DOMAIN j /\ "medium_request" \in DOMAIN j
  /\ j.columns \in Nat \ {0} /\ j.rows \in Nat \ {0} /\ j.copies \in Nat \ {0} /\ j.tabsize \in Nat \ {0} /\ j.margin \in Nat
  /\ j.columns_requested \in Word /\ j.lines_requested \in Word /\ j.fontsize \in Word
  /\ j.columns_requested = 0 \/ j.lines_requested = 0
  /\ j.duplex \in {"simplex", "duplex", "tumble"}
  /\ j.failed \in BOOLEAN
  /\ \A s \in DOMAIN j.user_options : j.user_options[s] \in Seq(Strings)
  /\ \A m \in DOMAIN j.media : j.media[m] \in Medium
Agrees(j) ==
  CASE j.duplex = "simplex" -> Lookup(j.pagedevice, "Duplex") = NULL
    [] j.duplex = "duplex"  -> Lookup(j.pagedevice, "Duplex") = "true" /\ Lookup(j.pagedevice, "Tumble") = "false"
    [] j.duplex = "tumble"  -> Lookup(j.pagedevice, "Duplex") = "true" /\ Lookup(j.pagedevice, "Tumble") = "true"

(* The fields of the scale are as they were.                               *)
SameScale(j, k) ==
  k.columns_requested = j.columns_requested /\ k.lines_requested = j.lines_requested /\ k.fontsize = j.fontsize

LEMMA WordFacts ==
  0 \in Word /\ 1 \in Word /\ 66 \in Word /\ 80 \in Word /\ Margin \in Word
  /\ \A x \in Word : x \in Nat /\ x < WordMod
BY WordModAssumption DEF Word, Margin

LEMMA Untracked ==
  ASSUME NEW j, NEW k, JobOK(j), DOMAIN k = DOMAIN j, \A f \in Tracked : k[f] = j[f]
  PROVE  JobOK(k) /\ SameScale(j, k) /\ k.duplex = j.duplex /\ k.pagedevice = j.pagedevice /\ k.failed = j.failed
         /\ (Agrees(j) => Agrees(k))
<1>1. /\ k.columns = j.columns /\ k.rows = j.rows /\ k.copies = j.copies /\ k.tabsize = j.tabsize /\ k.margin = j.margin
      /\ k.columns_requested = j.columns_requested /\ k.lines_requested = j.lines_requested /\ k.fontsize = j.fontsize
      /\ k.duplex = j.duplex /\ k.pagedevice = j.pagedevice /\ k.user_options = j.user_options /\ k.media = j.media
      /\ k.failed = j.failed
  BY DEF Tracked
<1>2. JobOK(k)
  BY <1>1 DEF JobOK
<1>3. Agrees(j) => Agrees(k)
  BY <1>1 DEF Agrees
<1>4. QED
  BY <1>1, <1>2, <1>3 DEF SameScale

(* What an option may make of the job: it is sound, the scale is the       *)
(* option's or the one it was, and the page device agrees with the sides.  *)
Applied(j, o, k) ==
  /\ JobOK(k) /\ DOMAIN k = DOMAIN j
  /\ k.failed \/ (IF o.name \in ScaleNames THEN Scaled(k, o) ELSE SameScale(j, k))
  /\ o.name # "S" /\ Agrees(j) => Agrees(k)

LEMMA KeptApplied ==
  ASSUME NEW j, NEW k, NEW o, JobOK(j), DOMAIN k = DOMAIN j, \A f \in Tracked : k[f] = j[f], o.name \notin ScaleNames
  PROVE  Applied(j, o, k)
<1>1. JobOK(k) /\ SameScale(j, k) /\ (Agrees(j) => Agrees(k))
  BY Untracked
<1>2. QED
  BY <1>1 DEF Applied

LEMMA FailedJob ==
  ASSUME NEW j, JobOK(j)
  PROVE  JobOK(Failed(j)) /\ Failed(j).failed /\ DOMAIN Failed(j) = DOMAIN j /\ (Agrees(j) => Agrees(Failed(j)))
         /\ \A f \in DOMAIN j \ {"failed"} : Failed(j)[f] = j[f]
<1> DEFINE k == Failed(j)
<1>1. DOMAIN k = DOMAIN j /\ (\A f \in DOMAIN j \ {"failed"} : k[f] = j[f]) /\ k.failed = TRUE
  BY DEF Failed, JobOK, Tracked
<1>2. /\ k.columns = j.columns /\ k.rows = j.rows /\ k.copies = j.copies /\ k.tabsize = j.tabsize /\ k.margin = j.margin
      /\ k.columns_requested = j.columns_requested /\ k.lines_requested = j.lines_requested /\ k.fontsize = j.fontsize
      /\ k.duplex = j.duplex /\ k.pagedevice = j.pagedevice /\ k.user_options = j.user_options /\ k.media = j.media
  BY DEF Failed
<1> HIDE DEF k
<1>3. JobOK(k)
  BY <1>1, <1>2 DEF JobOK
<1>4. Agrees(j) => Agrees(k)
  BY <1>2 DEF Agrees
<1>5. QED
  BY <1>1, <1>3, <1>4 DEF k

LEMMA FailedApplied ==
  ASSUME NEW j, NEW o, JobOK(j)
  PROVE  Applied(j, o, Failed(j))
BY FailedJob DEF Applied

LEMMA ScaleKnown == ScaleNames = {"l", "L", "m", "f"} \cup NupNames
BY NupRow DEF ScaleNames

LEMMA NupApplied ==
  ASSUME NEW j, NEW o, JobOK(j), o.name \in DOMAIN NupOptions
  PROVE  Applied(j, o, Overlay(j, NupOptions[o.name]))
<1>1. PICK c, r \in Nat \ {0} : \E v : NupOptions[o.name] = Nup(c, r, v)
  BY NupRow
<1>2. PICK v : NupOptions[o.name] = Nup(c, r, v)
  BY <1>1
<1> DEFINE k == Overlay(j, NupOptions[o.name])
<1>3. /\ DOMAIN k = DOMAIN j
      /\ k.columns = c /\ k.rows = r /\ k.columns_requested = 80 /\ k.lines_requested = 0
      /\ k.copies = j.copies /\ k.tabsize = j.tabsize /\ k.margin = j.margin /\ k.fontsize = j.fontsize
      /\ k.duplex = j.duplex /\ k.pagedevice = j.pagedevice /\ k.user_options = j.user_options /\ k.media = j.media
      /\ k.failed = j.failed
  BY <1>2 DEF Overlay, Nup, JobOK, Tracked
<1> HIDE DEF k
<1>4. JobOK(k)
  BY <1>1, <1>3, WordFacts DEF JobOK
<1>5. Agrees(j) => Agrees(k)
  BY <1>3 DEF Agrees
<1>6. o.name \in ScaleNames /\ o.name \notin {"l", "L", "m", "f"}
  BY NupRow, ScaleKnown DEF NupNames
<1>7. Scaled(k, o)
  BY <1>3, <1>6 DEF Scaled
<1>8. QED
  BY <1>3, <1>4, <1>5, <1>6, <1>7 DEF Applied, k

LEMMA FixedApplied ==
  ASSUME NEW j, NEW o, JobOK(j), o.name \in DOMAIN Fixed
  PROVE  Applied(j, o, Overlay(j, Fixed[o.name]))
<1> DEFINE k == Overlay(j, Fixed[o.name])
<1>1. CASE o.name = "m"
  <2>1. Fixed[o.name] = Mail
    BY <1>1, FixedRow
  <2>2. /\ DOMAIN k = DOMAIN j
        /\ k.columns = j.columns /\ k.rows = j.rows /\ k.columns_requested = 0 /\ k.lines_requested = 66
        /\ k.copies = j.copies /\ k.tabsize = j.tabsize /\ k.margin = j.margin /\ k.fontsize = j.fontsize
        /\ k.duplex = j.duplex /\ k.pagedevice = j.pagedevice /\ k.user_options = j.user_options /\ k.media = j.media
        /\ k.failed = j.failed
    BY <2>1 DEF Overlay, Mail, JobOK, Tracked
  <2> HIDE DEF k
  <2>3. JobOK(k)
    BY <2>2, WordFacts DEF JobOK
  <2>4. Agrees(j) => Agrees(k)
    BY <2>2 DEF Agrees
  <2>5. Scaled(k, o) /\ o.name \in ScaleNames
    BY <1>1, <2>2, ScaleKnown DEF Scaled
  <2>6. QED
    BY <2>2, <2>3, <2>4, <2>5 DEF Applied, k
<1>2. CASE o.name # "m"
  <2>1. DOMAIN Fixed[o.name] \cap Tracked = {}
    BY <1>2, FixedRow
  <2>2. DOMAIN k = DOMAIN j /\ \A f \in Tracked : k[f] = j[f]
    BY <2>1 DEF Overlay, JobOK
  <2> HIDE DEF k
  <2>3. o.name \notin ScaleNames
    BY <1>2, FixedRow, ScaleKnown DEF FixedNames, NupNames
  <2>4. Applied(j, o, k)
    BY <2>2, <2>3, KeptApplied
  <2>5. QED
    BY <2>4 DEF k
<1>3. QED
  BY <1>1, <1>2

LEMMA TextApplied ==
  ASSUME NEW j, NEW o, JobOK(j), o.name \in DOMAIN Texts
  PROVE  Applied(j, o, [j EXCEPT ![Texts[o.name]] = o.arg])
<1> DEFINE k == [j EXCEPT ![Texts[o.name]] = o.arg]
<1>1. DOMAIN k = DOMAIN j /\ \A f \in Tracked : k[f] = j[f]
  BY TextRow DEF JobOK
<1>2. o.name \notin ScaleNames
  BY TextRow, ScaleKnown DEF TextNames, NupNames
<1> HIDE DEF k
<1>3. Applied(j, o, k)
  BY <1>1, <1>2, KeptApplied
<1>4. QED
  BY <1>3 DEF k

LEMMA ChoiceApplied ==
  ASSUME NEW j, NEW o, JobOK(j), o.name \in DOMAIN WordChoices, o.name # "s"
  PROVE  Applied(j, o, GetChoice(j, o))
<1> DEFINE c == WordChoices[o.name]
           k == Overlay(j, Sets(c.field, c.words[o.arg]))
<1>1. c.field \notin Tracked
  BY ChoiceRow
<1>2. DOMAIN k = DOMAIN j /\ \A f \in Tracked : k[f] = j[f]
  BY <1>1 DEF Overlay, JobOK, Sets
<1>3. o.name \notin ScaleNames
  BY ChoiceRow, ScaleKnown DEF ChoiceNames, NupNames
<1>4. GetChoice(j, o) = k \/ GetChoice(j, o) = Failed(j)
  BY DEF GetChoice
<1> HIDE DEF k
<1>5. Applied(j, o, k) /\ Applied(j, o, Failed(j))
  BY <1>2, <1>3, KeptApplied, FailedApplied
<1>6. QED
  BY <1>4, <1>5

(* -s: the sides are one of three, and the page device is asked for them.  *)
LEMMA SidesApplied ==
  ASSUME NEW j, NEW o, JobOK(j), ~j.failed, o.name = "s"
  PROVE  Applied(j, o, Sides(j, o.arg))
<1> DEFINE q == [name |-> "s", arg |-> o.arg]
           set == GetChoice(j, q)
           device == IF set.duplex = "simplex" THEN Drop(set.pagedevice, "Duplex")
                     ELSE Put(Put(set.pagedevice, "Duplex", "true"), "Tumble", IF set.duplex = "tumble" THEN "true" ELSE "false")
           good == [set EXCEPT !.pagedevice = device]
<1>1. Sides(j, o.arg) = IF set.failed THEN set ELSE good
  BY DEF Sides
<1>2. WordChoices["s"].field = "duplex" /\ WordChoices["s"].words = SidesWords
  BY ChoiceRow DEF ChoiceNames
<1> DEFINE v == SidesWords[o.arg]
<1>3. set = IF o.arg \in DOMAIN SidesWords THEN Overlay(j, Sets("duplex", v)) ELSE Failed(j)
  BY <1>2 DEF GetChoice
<1>4. o.arg \in DOMAIN SidesWords => v \in {"simplex", "duplex", "tumble"}
  BY DEF SidesWords
<1>5. o.name \notin ScaleNames
  BY ScaleKnown DEF NupNames
<1> HIDE DEF v, q
<1>6. CASE o.arg \notin DOMAIN SidesWords
  <2>1. set = Failed(j)
    BY <1>3, <1>6
  <2> HIDE DEF set
  <2>2. set.failed /\ Applied(j, o, set)
    BY <2>1, FailedJob, FailedApplied
  <2>3. QED
    BY <1>1, <2>2
<1>7. CASE o.arg \in DOMAIN SidesWords
  <2>1. set = Overlay(j, Sets("duplex", v))
    BY <1>3, <1>7
  <2> HIDE DEF set
  <2>2. DOMAIN set = DOMAIN j /\ set.duplex = v /\ \A f \in DOMAIN j \ {"duplex"} : set[f] = j[f]
    BY <2>1 DEF Overlay, Sets, JobOK, Tracked
  <2> DEFINE wide == device
  <2>3. good = [set EXCEPT !.pagedevice = wide]
    OBVIOUS
  <2>4. DOMAIN good = DOMAIN j /\ good.duplex = v /\ good.pagedevice = wide
        /\ \A f \in DOMAIN j \ {"duplex", "pagedevice"} : good[f] = j[f]
    <3> HIDE DEF wide
    <3>1. QED
      BY <2>2, <2>3 DEF JobOK, Tracked
  <2>5. /\ v = "simplex" => Lookup(wide, "Duplex") = NULL
        /\ v # "simplex" => Lookup(wide, "Duplex") = "true"
        /\ v = "duplex" => Lookup(wide, "Tumble") = "false"
        /\ v = "tumble" => Lookup(wide, "Tumble") = "true"
    BY <2>2 DEF Lookup, Put, Drop
  <2> HIDE DEF good, wide, device
  <2>6. /\ good.columns = j.columns /\ good.rows = j.rows /\ good.copies = j.copies /\ good.tabsize = j.tabsize
        /\ good.margin = j.margin /\ good.columns_requested = j.columns_requested
        /\ good.lines_requested = j.lines_requested /\ good.fontsize = j.fontsize
        /\ good.user_options = j.user_options /\ good.media = j.media /\ good.failed = j.failed
    BY <2>4 DEF JobOK, Tracked
  <2>7. JobOK(good) /\ SameScale(j, good)
    BY <1>4, <1>7, <2>4, <2>6 DEF JobOK, SameScale
  <2>8. Agrees(good)
    BY <1>4, <1>7, <2>4, <2>5 DEF Agrees
  <2>9. Applied(j, o, good)
    BY <1>5, <2>4, <2>7, <2>8 DEF Applied
  <2>10. ~set.failed
    BY <2>2 DEF JobOK, Tracked
  <2>11. QED
    BY <1>1, <2>9, <2>10
<1>8. QED
  BY <1>6, <1>7

LEMMA ByDefaultApplied ==
  ASSUME NEW j, NEW o, JobOK(j), o.name \in DOMAIN ByDefault
  PROVE  Applied(j, o, Overlay(j, ByDefault[o.name]))
<1> DEFINE k == Overlay(j, ByDefault[o.name])
<1>1. o.name \notin ScaleNames
  BY ByDefaultRow, ScaleKnown DEF NupNames
<1>2. CASE o.name = "152"
  <2>1. DOMAIN k = DOMAIN j /\ \A f \in Tracked : k[f] = j[f]
    BY <1>2, ByDefaultRow DEF Overlay, Sets, JobOK, Tracked
  <2> HIDE DEF k
  <2>2. Applied(j, o, k)
    BY <1>1, <2>1, KeptApplied
  <2>3. QED
    BY <2>2 DEF k
<1>3. CASE o.name = "147"
  <2>1. /\ DOMAIN k = DOMAIN j
        /\ k.columns = j.columns /\ k.rows = j.rows /\ k.copies = j.copies /\ k.tabsize = j.tabsize /\ k.margin = 12
        /\ k.columns_requested = j.columns_requested /\ k.lines_requested = j.lines_requested /\ k.fontsize = j.fontsize
        /\ k.duplex = j.duplex /\ k.pagedevice = j.pagedevice /\ k.user_options = j.user_options /\ k.media = j.media
        /\ k.failed = j.failed
    BY <1>3, ByDefaultRow DEF Overlay, Sets, JobOK, Tracked
  <2> HIDE DEF k
  <2>2. JobOK(k) /\ SameScale(j, k)
    BY <2>1 DEF JobOK, SameScale
  <2>3. Agrees(j) => Agrees(k)
    BY <2>1 DEF Agrees
  <2>4. QED
    BY <1>1, <2>1, <2>2, <2>3 DEF Applied, k
<1>4. QED
  BY <1>2, <1>3, ByDefaultRow

(* The options that set one number: v for the field f of the job.          *)
Numbered(j, f, v) == Overlay(j, Put(None, f, v))

LEMMA NumberedFields ==
  ASSUME NEW j, NEW f, NEW v, JobOK(j), f \in DOMAIN j
  PROVE  DOMAIN Numbered(j, f, v) = DOMAIN j /\ Numbered(j, f, v)[f] = v
         /\ \A g \in DOMAIN j \ {f} : Numbered(j, f, v)[g] = j[g]
BY DEF Numbered, Overlay, Put, None

LEMMA NumberedApplied ==
  ASSUME NEW j, NEW o, NEW f, NEW v \in Int, JobOK(j), o.name \notin ScaleNames,
         \/ f \in {"columns", "rows", "copies", "tabsize"} /\ v >= 1
         \/ f = "margin" /\ v >= 0
  PROVE  Applied(j, o, Numbered(j, f, v))
<1> DEFINE k == Numbered(j, f, v)
<1>1. f \in Tracked
  BY DEF Tracked
<1>2. DOMAIN k = DOMAIN j /\ k[f] = v /\ \A g \in DOMAIN j \ {f} : k[g] = j[g]
  BY <1>1, NumberedFields DEF JobOK
<1> HIDE DEF k
<1>3. /\ k.columns_requested = j.columns_requested /\ k.lines_requested = j.lines_requested /\ k.fontsize = j.fontsize
      /\ k.duplex = j.duplex /\ k.pagedevice = j.pagedevice /\ k.user_options = j.user_options /\ k.media = j.media
      /\ k.failed = j.failed
  BY <1>2 DEF JobOK, Tracked
<1>4. /\ k.columns \in Nat \ {0} /\ k.rows \in Nat \ {0} /\ k.copies \in Nat \ {0} /\ k.tabsize \in Nat \ {0}
      /\ k.margin \in Nat
  BY <1>2 DEF JobOK, Tracked
<1>5. JobOK(k) /\ SameScale(j, k)
  BY <1>2, <1>3, <1>4 DEF JobOK, SameScale
<1>6. Agrees(j) => Agrees(k)
  BY <1>3 DEF Agrees
<1>7. QED
  BY <1>2, <1>5, <1>6 DEF Applied, k

LEMMA ScaledApplied ==
  ASSUME NEW j, NEW o, NEW k, JobOK(j), o.name \in {"l", "L", "f"}, Number[o.arg] \in Word, Number[o.arg] >= 1,
         k = Overlay(j, Put(Integers[o.name].besides, Integers[o.name].field, Number[o.arg]))
  PROVE  Applied(j, o, k)
<1> DEFINE v == Number[o.arg]
<1>1. DOMAIN k = DOMAIN j
      /\ \A g \in DOMAIN j \ {"columns_requested", "lines_requested", "fontsize"} : k[g] = j[g]
  BY IntegerRow DEF Integer, Overlay, Put, JobOK, Tracked
<1>2. /\ o.name = "l" => k.columns_requested = v /\ k.lines_requested = 0 /\ k.fontsize = j.fontsize
      /\ o.name = "L" => k.columns_requested = 0 /\ k.lines_requested = v /\ k.fontsize = j.fontsize
      /\ o.name = "f" => k.columns_requested = 0 /\ k.lines_requested = 0 /\ k.fontsize = v
  BY IntegerRow DEF Integer, Overlay, Put, JobOK, Tracked
<1>3. /\ k.columns = j.columns /\ k.rows = j.rows /\ k.copies = j.copies /\ k.tabsize = j.tabsize /\ k.margin = j.margin
      /\ k.duplex = j.duplex /\ k.pagedevice = j.pagedevice /\ k.user_options = j.user_options /\ k.media = j.media
      /\ k.failed = j.failed
  BY <1>1 DEF JobOK, Tracked
<1>4. JobOK(k)
  BY <1>1, <1>2, <1>3, WordFacts DEF JobOK
<1>5. Agrees(j) => Agrees(k)
  BY <1>3 DEF Agrees
<1>6. o.name \in ScaleNames
  BY ScaleKnown
<1>7. Scaled(k, o)
  BY <1>2 DEF Scaled
<1>8. QED
  BY <1>1, <1>4, <1>5, <1>6, <1>7 DEF Applied

LEMMA IntegerApplied ==
  ASSUME NEW j, NEW o, JobOK(j), o.name \in DOMAIN Integers
  PROVE  Applied(j, o, GetInteger(j, o))
<1> DEFINE i == Integers[o.name]
           v == Number[o.arg]
           k == Overlay(j, Put(i.besides, i.field, v))
           ok == o.arg \in DOMAIN Number /\ v >= i.min /\ (o.name = "148" => v <= MaxStrip)
<1>1. GetInteger(j, o) = IF ok THEN k ELSE Failed(j)
  BY DEF GetInteger
<1>2. CASE ~ok
  BY <1>1, <1>2, FailedApplied
<1>3. CASE ok
  <2>1. v \in Int /\ v < WordMod /\ v >= i.min
    BY <1>3, NumberAssumption
  <2>2. CASE o.name \in {"132", "133", "n", "T", "147"}
    <3>1. o.name \notin ScaleNames
      BY <2>2, ScaleKnown DEF NupNames
    <3>2. i.besides = None /\ ((i.min = 1 /\ i.field \in {"columns", "rows", "copies", "tabsize"}) \/ (i.min = 0 /\ i.field = "margin"))
      BY <2>2, IntegerRow DEF Integer
    <3>3. k = Numbered(j, i.field, v)
      BY <3>2 DEF Numbered
    <3> HIDE DEF v, k, i
    <3>4. Applied(j, o, Numbered(j, i.field, v))
      BY <2>1, <3>1, <3>2, NumberedApplied
    <3>5. QED
      BY <1>1, <1>3, <3>3, <3>4
  <2>3. CASE o.name \in {"148", "152"}
    <3>1. o.name \notin ScaleNames
      BY <2>3, ScaleKnown DEF NupNames
    <3>2. i.besides = None /\ i.field \in {"strip_level", "numbering"}
      BY <2>3, IntegerRow DEF Integer
    <3>3. DOMAIN k = DOMAIN j /\ \A f \in Tracked : k[f] = j[f]
      BY <3>2 DEF Overlay, Put, None, JobOK, Tracked
    <3> HIDE DEF k
    <3>4. Applied(j, o, k)
      BY <3>1, <3>3, KeptApplied
    <3>5. QED
      BY <1>1, <1>3, <3>4
  <2>4. CASE o.name \in {"l", "L", "f"}
    <3>1. i.min = 1
      BY <2>4, IntegerRow DEF Integer
    <3>2. Number[o.arg] \in Word /\ Number[o.arg] >= 1
      BY <2>1, <3>1, WordModAssumption DEF Word
    <3>3. Applied(j, o, k)
      BY <2>4, <3>2, ScaledApplied
    <3>4. QED
      BY <1>1, <1>3, <3>3
  <2>5. QED
    BY <2>2, <2>3, <2>4, IntegerRow DEF IntegerNames
<1>4. QED
  BY <1>2, <1>3

(* The other special options change one or two fields that are not tracked,*)
(* but for the page device.                                                *)
LEMMA SpecialApplied ==
  ASSUME NEW j, NEW o, JobOK(j), ~j.failed, o.name \in Special
  PROVE  Applied(j, o, ApplySpecial(j, o))
<1> DEFINE d == Definition[o.arg]
<1>1. o.name \notin ScaleNames
  BY ScaleKnown DEF Special, NupNames
<1>2. CASE o.name = "s"
  <2>1. ApplySpecial(j, o) = Sides(j, o.arg)
    BY <1>2 DEF ApplySpecial
  <2>2. QED
    BY <1>2, <2>1, SidesApplied
<1>3. CASE o.name = "S"
  <2> DEFINE device == IF d[3] \in {NULL, ""} THEN Drop(j.pagedevice, d[1]) ELSE Put(j.pagedevice, d[1], d[3])
             k == [j EXCEPT !.pagedevice = device]
  <2>1. SetPageDevice(j, d) = k
    BY Zenon DEF SetPageDevice
  <2> HIDE DEF device
  <2>2. ApplySpecial(j, o) = SetPageDevice(j, d)
    BY <1>3 DEF ApplySpecial
  <2>3. /\ DOMAIN k = DOMAIN j
        /\ k.columns = j.columns /\ k.rows = j.rows /\ k.copies = j.copies /\ k.tabsize = j.tabsize /\ k.margin = j.margin
        /\ k.columns_requested = j.columns_requested /\ k.lines_requested = j.lines_requested /\ k.fontsize = j.fontsize
        /\ k.duplex = j.duplex /\ k.user_options = j.user_options /\ k.media = j.media /\ k.failed = j.failed
    OBVIOUS
  <2> HIDE DEF k
  <2>4. JobOK(k) /\ SameScale(j, k)
    BY <2>3 DEF JobOK, SameScale
  <2>5. QED
    BY <1>1, <1>3, <2>1, <2>2, <2>3, <2>4 DEF Applied
<1>4. CASE o.name \notin {"s", "S"}
  <2> DEFINE k == ApplySpecial(j, o)
  <2>1. k = Failed(j) \/ (DOMAIN k = DOMAIN j /\ \A f \in Tracked : k[f] = j[f])
    <3>1. CASE o.name = "A"
      <4>1. k = FileAlign(j, o.arg)
        BY <3>1 DEF ApplySpecial
      <4> HIDE DEF k
      <4>2. QED
        BY <4>1 DEF FileAlign, JobOK, Tracked
    <3>2. CASE o.name = "164"
      <4>1. k = SetStatusDict(j, d)
        BY <3>2 DEF ApplySpecial
      <4> HIDE DEF k
      <4>2. QED
        BY <4>1 DEF SetStatusDict, JobOK, Tracked
    <3>3. CASE o.name = "D"
      <4>1. k = SetVariable(j, d)
        BY <3>3 DEF ApplySpecial
      <4> HIDE DEF k
      <4>2. QED
        BY <4>1 DEF SetVariable, Define, JobOK, Tracked
    <3>4. CASE o.name \in {"o", "P", "d"}
      <4>1. \E n, b : k = FlagOutput(j, n, b)
        BY <3>4, Zenon DEF ApplySpecial
      <4> HIDE DEF k
      <4>2. QED
        BY <4>1 DEF FlagOutput, JobOK, Tracked
    <3>5. CASE o.name \in {"q", "v"}
      <4>1. \E l : k = Verbosity(j, l)
        BY <3>5, Zenon DEF ApplySpecial
      <4> HIDE DEF k
      <4>2. QED
        BY <4>1 DEF Verbosity, JobOK, Tracked
    <3>6. CASE o.name = "a"
      <4>1. k = [j EXCEPT !.page_range = Append(@, o.arg)]
        BY <3>6 DEF ApplySpecial
      <4> HIDE DEF k
      <4>2. QED
        BY <4>1 DEF JobOK, Tracked
    <3>7. CASE o.name = "167"
      <4>1. k = [j EXCEPT !.toc = IF o.arg = NULL THEN "#{toc}" ELSE o.arg]
        BY <3>7 DEF ApplySpecial
      <4> HIDE DEF k
      <4>2. QED
        BY <4>1 DEF JobOK, Tracked
    <3>8. QED
      BY <1>4, <3>1, <3>2, <3>3, <3>4, <3>5, <3>6, <3>7 DEF Special
  <2> HIDE DEF k
  <2>2. Applied(j, o, k)
    BY <1>1, <2>1, KeptApplied, FailedApplied
  <2>3. QED
    BY <2>2 DEF k
<1>5. QED
  BY <1>2, <1>3, <1>4

(* The names of the tables are apart, so that Apply looks in one.          *)
LEMMA Apart ==
  ASSUME NEW n
  PROVE  /\ n \in Special => n \notin DOMAIN Texts \cup DOMAIN NupOptions \cup DOMAIN Fixed \cup DOMAIN Integers
         /\ n \in DOMAIN Texts => n \notin DOMAIN NupOptions \cup DOMAIN Fixed \cup DOMAIN WordChoices \cup DOMAIN Integers
         /\ n \in DOMAIN NupOptions => n \notin DOMAIN Fixed \cup DOMAIN WordChoices \cup DOMAIN Integers
         /\ n \in DOMAIN Fixed => n \notin DOMAIN WordChoices \cup DOMAIN Integers
         /\ n \in DOMAIN WordChoices => n \notin DOMAIN Integers
<1>1. n \in Special => n \notin TextNames \cup NupNames \cup FixedNames \cup IntegerNames
  BY DEF Special, TextNames, NupNames, FixedNames, IntegerNames
<1>2. n \in TextNames => n \notin NupNames \cup FixedNames \cup ChoiceNames \cup IntegerNames
  BY DEF TextNames, NupNames, FixedNames, ChoiceNames, IntegerNames
<1>3. n \in NupNames => n \notin FixedNames \cup ChoiceNames \cup IntegerNames
  BY DEF NupNames, FixedNames, ChoiceNames, IntegerNames
<1>4. n \in FixedNames => n \notin ChoiceNames \cup IntegerNames
  BY DEF FixedNames, ChoiceNames, IntegerNames
<1>5. n \in ChoiceNames => n \notin IntegerNames
  BY DEF ChoiceNames, IntegerNames
<1>6. QED
  BY <1>1, <1>2, <1>3, <1>4, <1>5, TextRow, NupRow, FixedRow, ChoiceRow, IntegerRow

LEMMA ApplyApplied ==
  ASSUME NEW j, NEW o, JobOK(j), ~j.failed, o.name \in OptionNames \ {"=", "?"}
  PROVE  Applied(j, o, Apply(j, o))
<1> DEFINE n == o.name
           byText == [j EXCEPT ![Texts[n]] = o.arg]
           byInteger == IF o.arg = NULL /\ n \in DOMAIN ByDefault THEN Overlay(j, ByDefault[n]) ELSE GetInteger(j, o)
<1>1. Apply(j, o) =
        CASE n \in Special -> ApplySpecial(j, o)
          [] n \in DOMAIN Texts -> byText
          [] n \in DOMAIN NupOptions -> Overlay(j, NupOptions[n])
          [] n \in DOMAIN Fixed -> Overlay(j, Fixed[n])
          [] n \in DOMAIN WordChoices \ Special -> GetChoice(j, o)
          [] n \in DOMAIN Integers -> byInteger
  BY DEF Apply
<1> HIDE DEF byText, byInteger
<1>2. CASE n \in Special
  <2>1. Apply(j, o) = ApplySpecial(j, o)
    BY <1>1, <1>2, Apart
  <2>2. QED
    BY <1>2, <2>1, SpecialApplied
<1>3. CASE n \in DOMAIN Texts
  <2>1. Apply(j, o) = byText
    BY <1>1, <1>3, Apart
  <2>2. Applied(j, o, byText)
    BY <1>3, TextApplied, Zenon DEF byText
  <2>3. QED
    BY <2>1, <2>2
<1>4. CASE n \in DOMAIN NupOptions
  <2>1. Apply(j, o) = Overlay(j, NupOptions[n])
    BY <1>1, <1>4, Apart
  <2>2. QED
    BY <1>4, <2>1, NupApplied
<1>5. CASE n \in DOMAIN Fixed
  <2>1. Apply(j, o) = Overlay(j, Fixed[n])
    BY <1>1, <1>5, Apart
  <2>2. QED
    BY <1>5, <2>1, FixedApplied
<1>6. CASE n \in DOMAIN WordChoices /\ n \notin Special
  <2>1. Apply(j, o) = GetChoice(j, o)
    BY <1>1, <1>6, Apart
  <2>2. n # "s"
    BY <1>6 DEF Special
  <2>3. QED
    BY <1>6, <2>1, <2>2, ChoiceApplied
<1>7. CASE n \in DOMAIN Integers
  <2>1. Apply(j, o) = byInteger
    BY <1>1, <1>7, Apart
  <2>2. QED
    BY <1>7, <2>1, IntegerApplied, ByDefaultApplied DEF byInteger
<1>8. QED
  BY <1>2, <1>3, <1>4, <1>5, <1>6, <1>7 DEF OptionNames

-----------------------------------------------------------------------------
(* The entries.                                                            *)
LEMMA WithMarginMedium ==
  ASSUME NEW w \in Word, NEW h \in Word
  PROVE  WithMargin(w, h) \in Medium
<1>1. Margin = 24 /\ 24 \in Word
  BY WordModAssumption DEF Margin, Word
<1>2. \A x \in Word : x > 24 => x - 24 \in Word
  BY WordModAssumption DEF Word
<1>3. QED
  BY <1>1, <1>2 DEF WithMargin, Medium

LEMMA NewJobOK ==
  ASSUME NEW env
  PROVE  JobOK(NewJob(env)) /\ Agrees(NewJob(env)) /\ ~NewJob(env).failed
         /\ NewJob(env).columns_requested = 0 /\ NewJob(env).lines_requested = 0
<1> DEFINE j == NewJob(env)
<1>1. Tracked \subseteq DOMAIN j /\ "medium_request" \in DOMAIN j
  BY DEF NewJob, Tracked
<1>2. /\ j.columns = 1 /\ j.rows = 1 /\ j.copies = 1 /\ j.tabsize = 8 /\ j.margin = 0
      /\ j.columns_requested = 0 /\ j.lines_requested = 0 /\ j.fontsize = 0
      /\ j.duplex = "simplex" /\ j.failed = FALSE /\ j.user_options = NoMap /\ j.pagedevice = NoMap
      /\ j.media = [p \in DOMAIN Papers |-> WithMargin(Papers[p][1], Papers[p][2])]
  BY DEF NewJob
<1> HIDE DEF j
<1>3. \A m \in DOMAIN j.media : j.media[m] \in Medium
  <2>1. ASSUME NEW p \in DOMAIN Papers
        PROVE  WithMargin(Papers[p][1], Papers[p][2]) \in Medium
    <3>1. Papers[p][1] \in Word /\ Papers[p][2] \in Word
      BY MediaAssumption
    <3>2. QED
      BY <3>1, WithMarginMedium
  <2>2. QED
    BY <1>2, <2>1
<1>4. DOMAIN NoMap = {}
  BY DEF NoMap
<1>5. JobOK(j)
  <2>1. \A s \in DOMAIN j.user_options : j.user_options[s] \in Seq(Strings)
    BY <1>2, <1>4
  <2>2. /\ j.columns \in Nat \ {0} /\ j.rows \in Nat \ {0} /\ j.copies \in Nat \ {0} /\ j.tabsize \in Nat \ {0}
        /\ j.margin \in Nat /\ j.duplex \in {"simplex", "duplex", "tumble"}
    BY <1>2
  <2>3. j.columns_requested \in Word /\ j.lines_requested \in Word /\ j.fontsize \in Word
    BY <1>2, WordFacts
  <2>4. j.failed \in BOOLEAN
    BY <1>2, Zenon
  <2>5. QED
    BY <1>1, <1>2, <1>3, <2>1, <2>2, <2>3, <2>4 DEF JobOK
<1>6. Agrees(j)
  BY <1>2, <1>4 DEF Agrees, Lookup
<1>7. QED
  BY <1>2, <1>5, <1>6 DEF j

(* An entry changes neither the scale nor the sides.                       *)
Entered(j, k) == JobOK(k) /\ DOMAIN k = DOMAIN j /\ SameScale(j, k) /\ (Agrees(j) => Agrees(k))

LEMMA UntrackedEntered ==
  ASSUME NEW j, NEW k, JobOK(j), DOMAIN k = DOMAIN j, \A f \in Tracked : k[f] = j[f]
  PROVE  Entered(j, k)
BY Untracked DEF Entered

LEMMA FailedEntered ==
  ASSUME NEW j, JobOK(j)
  PROVE  Entered(j, Failed(j))
BY FailedJob DEF Entered, SameScale, JobOK, Tracked

LEMMA AddMediumEntered ==
  ASSUME NEW j, NEW name, NEW d \in Seq(Word), JobOK(j)
  PROVE  Entered(j, AddMedium(j, name, d))
<1>1. ASSUME NEW m \in Medium, NEW k, k = [j EXCEPT !.media = Put(j.media, name, m)]
      PROVE  Entered(j, k)
  <2>1. /\ DOMAIN k = DOMAIN j /\ k.media = Put(j.media, name, m)
        /\ k.columns = j.columns /\ k.rows = j.rows /\ k.copies = j.copies /\ k.tabsize = j.tabsize /\ k.margin = j.margin
        /\ k.columns_requested = j.columns_requested /\ k.lines_requested = j.lines_requested /\ k.fontsize = j.fontsize
        /\ k.duplex = j.duplex /\ k.pagedevice = j.pagedevice /\ k.user_options = j.user_options /\ k.failed = j.failed
    BY <1>1 DEF JobOK, Tracked
  <2>2. \A x \in DOMAIN k.media : k.media[x] \in Medium
    BY <2>1 DEF Put, JobOK
  <2>3. JobOK(k) /\ SameScale(j, k)
    BY <2>1, <2>2 DEF JobOK, SameScale
  <2>4. Agrees(j) => Agrees(k)
    BY <2>1 DEF Agrees
  <2>5. QED
    BY <2>1, <2>3, <2>4 DEF Entered
<1>2. CASE Len(d) = 2
  <2>1. d[1] \in Word /\ d[2] \in Word
    BY <1>2
  <2>2. WithMargin(d[1], d[2]) \in Medium
    BY <2>1, WithMarginMedium
  <2>3. AddMedium(j, name, d) = [j EXCEPT !.media = Put(j.media, name, WithMargin(d[1], d[2]))]
    BY <1>2 DEF AddMedium
  <2>4. QED
    BY <1>1, <2>2, <2>3
<1>3. CASE Len(d) = 6
  <2> DEFINE m == [w |-> d[1], h |-> d[2], llx |-> d[3], lly |-> d[4], urx |-> d[5], ury |-> d[6]]
  <2>1. d[1] \in Word /\ d[2] \in Word /\ d[3] \in Word /\ d[4] \in Word /\ d[5] \in Word /\ d[6] \in Word
    <3>1. \A i \in 1 .. Len(d) : d[i] \in Word
      OBVIOUS
    <3>2. QED
      BY <1>3, <3>1
  <2>2. m \in Medium
    BY <2>1 DEF Medium
  <2>3. AddMedium(j, name, d) = [j EXCEPT !.media = Put(j.media, name, m)]
    BY <1>3 DEF AddMedium
  <2> HIDE DEF m
  <2>4. QED
    BY <1>1, <2>2, <2>3
<1>4. CASE Len(d) \notin {2, 6}
  <2>1. AddMedium(j, name, d) = Failed(j)
    BY <1>4 DEF AddMedium
  <2>2. QED
    BY <2>1, FailedEntered
<1>5. QED
  BY <1>2, <1>3, <1>4

LEMMA UserOptionEntered ==
  ASSUME NEW j, NEW key, NEW words \in Seq(Strings), JobOK(j)
  PROVE  Entered(j, [j EXCEPT !.user_options = Put(j.user_options, key, words)])
<1> DEFINE k == [j EXCEPT !.user_options = Put(j.user_options, key, words)]
<1>1. /\ DOMAIN k = DOMAIN j /\ k.user_options = Put(j.user_options, key, words)
      /\ k.columns = j.columns /\ k.rows = j.rows /\ k.copies = j.copies /\ k.tabsize = j.tabsize /\ k.margin = j.margin
      /\ k.columns_requested = j.columns_requested /\ k.lines_requested = j.lines_requested /\ k.fontsize = j.fontsize
      /\ k.duplex = j.duplex /\ k.pagedevice = j.pagedevice /\ k.media = j.media /\ k.failed = j.failed
  BY DEF JobOK, Tracked
<1> HIDE DEF k
<1>2. \A s \in DOMAIN k.user_options : k.user_options[s] \in Seq(Strings)
  BY <1>1 DEF Put, JobOK
<1>3. JobOK(k) /\ SameScale(j, k)
  BY <1>1, <1>2 DEF JobOK, SameScale
<1>4. Agrees(j) => Agrees(k)
  BY <1>1 DEF Agrees
<1>5. QED
  BY <1>1, <1>3, <1>4 DEF Entered, k

LEMMA ProcessEntered ==
  ASSUME NEW j, NEW code \in KeywordCodes \ {"Include", "Options"}, NEW key, NEW rest \in Seq(Strings), JobOK(j)
  PROVE  Entered(j, Process(j, code, key, rest))
<1> DEFINE k == Process(j, code, key, rest)
<1>1. CASE code = "Medium"
  <2>1. DimensionsOf(rest) \in Seq(Word)
    BY MediaAssumption DEF DimensionsOf
  <2>2. k = AddMedium(j, key, DimensionsOf(rest))
    BY <1>1 DEF Process
  <2>3. QED
    BY <2>1, <2>2, AddMediumEntered
<1>2. CASE code = "UserOption"
  <2>1. k = [j EXCEPT !.user_options = Put(j.user_options, key, rest)]
    BY <1>2 DEF Process
  <2>2. Entered(j, [j EXCEPT !.user_options = Put(j.user_options, key, rest)])
    BY UserOptionEntered
  <2>3. QED
    BY <2>1, <2>2, Zenon
<1>0. (DOMAIN k = DOMAIN j /\ \A f \in Tracked : k[f] = j[f]) => Entered(j, k)
  <2> HIDE DEF k
  <2>1. QED
    BY UntrackedEntered
<1>3. CASE code = "DefaultPPD"
  <2>1. k = [j EXCEPT !.default_ppdkey = key]
    BY <1>3 DEF Process
  <2>2. QED
    BY <1>0, <2>1 DEF JobOK, Tracked
<1>4. CASE code = "OutputFirstLine"
  <2>1. k = [j EXCEPT !.magic_number = rest]
    BY <1>4 DEF Process
  <2>2. QED
    BY <1>0, <2>1 DEF JobOK, Tracked
<1>5. CASE code = "PageLabelFormat"
  <2>1. k = [j EXCEPT !.page_label_format = rest]
    BY <1>5 DEF Process
  <2>2. QED
    BY <1>0, <2>1 DEF JobOK, Tracked
<1>6. CASE code = "FileCommand"
  <2>1. k = [j EXCEPT !.file_command = rest]
    BY <1>6 DEF Process
  <2>2. QED
    BY <1>0, <2>1 DEF JobOK, Tracked
<1>7. CASE code = "Delegation"
  <2>1. k = [j EXCEPT !.delegations = Append(@, rest)]
    BY <1>7 DEF Process
  <2>2. QED
    BY <1>0, <2>1 DEF JobOK, Tracked
<1>8. CASE code = "LibraryPath"
  <2>1. k = [j EXCEPT !.path = StringToPath(PathOf[rest[1]])]
    BY <1>8 DEF Process
  <2>2. QED
    BY <1>0, <2>1 DEF JobOK, Tracked
<1>9. CASE code = "AppendLibraryPath"
  <2>1. k = [j EXCEPT !.path = PathAppend(j.path, PathOf[rest[1]])]
    BY <1>9 DEF Process
  <2>2. QED
    BY <1>0, <2>1 DEF JobOK, Tracked
<1>10. CASE code = "PrependLibraryPath"
  <2>1. k = [j EXCEPT !.path = PathPrepend(j.path, PathOf[rest[1]])]
    BY <1>10 DEF Process
  <2>2. QED
    BY <1>0, <2>1 DEF JobOK, Tracked
<1>11. CASE code = "Obsolete"
  <2>1. k = j
    BY <1>11 DEF Process
  <2>2. QED
    BY <1>0, <2>1
<1>12. CASE code = "Variable"
  <2>1. k = Define(j, key, rest)
    BY <1>12 DEF Process
  <2>2. k = Failed(j) \/ (DOMAIN k = DOMAIN j /\ \A f \in Tracked : k[f] = j[f])
    BY <2>1 DEF Define, JobOK, Tracked
  <2>3. QED
    BY <1>0, <2>2, FailedEntered
<1>13. CASE code \in {"Printer", "UnknownPrinter", "DefaultPrinter"}
  <2>1. \E x : k = PrintersAdd(j, x, rest)
    BY <1>13 DEF Process
  <2>2. PICK x : k = PrintersAdd(j, x, rest)
    BY <2>1
  <2> HIDE DEF k
  <2>3. DOMAIN k = DOMAIN j /\ \A f \in Tracked : k[f] = j[f]
    BY <2>2 DEF PrintersAdd, JobOK, Tracked
  <2>4. QED
    BY <1>0, <2>3 DEF k
<1>14. QED
  BY <1>1, <1>2, <1>3, <1>4, <1>5, <1>6, <1>7, <1>8, <1>9, <1>10, <1>11, <1>12, <1>13 DEF KeywordCodes

-----------------------------------------------------------------------------
(* The types: the stack holds frames of files and of vectors, whose options*)
(* are known, and a run that goes on has not failed.                       *)
Tape == [lines : Seq(PhysicalLine), ended : BOOLEAN]
FileFrames(names) ==
  [kind : {"file"}, name : names, at : Nat, first : Nat, last : Nat, start : Nat, buf : Seq(Strings), ready : BOOLEAN]
Right == {o \in Known : o.name # "?"}
VectorFrames == [kind : {"vector"}, options : Seq(Right)]
Frames(names) == FileFrames(names) \cup VectorFrames

Types ==
  /\ world \in DOMAIN Worlds
  /\ \A n \in DOMAIN files : files[n] \in Tape
  /\ frames \in Seq(Frames(DOMAIN files))
  /\ argv \in Seq(Strings)
  /\ phase \in Phases /\ stage \in 0 .. 4 + Len(Slots)
  /\ JobOK(job) /\ (phase = "reading" => ~job.failed)

LEMMA StackFacts ==
  ASSUME NEW S, NEW s \in Seq(S)
  PROVE  /\ Len(s) \in Nat /\ DOMAIN s = 1 .. Len(s) /\ (s = << >> <=> Len(s) = 0)
         /\ \A i \in 1 .. Len(s) : s[i] \in S
         /\ s # << >> => /\ s[1] \in S /\ Tail(s) \in Seq(S) /\ Len(Tail(s)) = Len(s) - 1
                         /\ \A i \in 1 .. Len(s) - 1 : Tail(s)[i] = s[i + 1]
         /\ \A f \in S : /\ <<f>> \o s \in Seq(S) /\ Len(<<f>> \o s) = Len(s) + 1 /\ (<<f>> \o s)[1] = f
                         /\ \A i \in 1 .. Len(s) : (<<f>> \o s)[i + 1] = s[i]
<1>1. Len(s) \in Nat /\ DOMAIN s = 1 .. Len(s) /\ (s = << >> <=> Len(s) = 0) /\ \A i \in 1 .. Len(s) : s[i] \in S
  OBVIOUS
<1>2. ASSUME s # << >>
      PROVE  /\ s[1] \in S /\ Tail(s) \in Seq(S) /\ Len(Tail(s)) = Len(s) - 1
             /\ \A i \in 1 .. Len(s) - 1 : Tail(s)[i] = s[i + 1]
  BY <1>2, HeadTailProperties
<1>3. ASSUME NEW f \in S
      PROVE  /\ <<f>> \o s \in Seq(S) /\ Len(<<f>> \o s) = Len(s) + 1 /\ (<<f>> \o s)[1] = f
             /\ \A i \in 1 .. Len(s) : (<<f>> \o s)[i + 1] = s[i]
  <2>1. <<f>> \in Seq(S) /\ Len(<<f>>) = 1 /\ <<f>>[1] = f
    OBVIOUS
  <2>2. QED
    BY <1>1, <2>1, ConcatProperties
<1>4. QED
  BY <1>1, <1>2, <1>3

(* The top of the stack, and what is put in its place.                     *)
LEMMA TopFacts ==
  ASSUME NEW S, NEW s \in Seq(S), s # << >>, NEW f \in S
  PROVE  /\ <<f>> \o Tail(s) \in Seq(S) /\ Len(<<f>> \o Tail(s)) = Len(s) /\ (<<f>> \o Tail(s))[1] = f
         /\ \A i \in 2 .. Len(s) : (<<f>> \o Tail(s))[i] = s[i]
<1>1. /\ Tail(s) \in Seq(S) /\ Len(Tail(s)) = Len(s) - 1 /\ Len(s) \in Nat /\ Len(s) # 0
      /\ \A i \in 1 .. Len(s) - 1 : Tail(s)[i] = s[i + 1]
  BY StackFacts
<1>2. /\ <<f>> \o Tail(s) \in Seq(S) /\ Len(<<f>> \o Tail(s)) = Len(Tail(s)) + 1 /\ (<<f>> \o Tail(s))[1] = f
      /\ \A i \in 1 .. Len(Tail(s)) : (<<f>> \o Tail(s))[i + 1] = Tail(s)[i]
  BY <1>1, StackFacts
<1>3. ASSUME NEW i \in 2 .. Len(s)
      PROVE  (<<f>> \o Tail(s))[i] = s[i]
  <2>1. i - 1 \in 1 .. Len(s) - 1 /\ (i - 1) + 1 = i
    BY <1>1
  <2> DEFINE k == i - 1
  <2>2. k \in 1 .. Len(s) - 1 /\ k + 1 = i
    BY <2>1
  <2> HIDE DEF k
  <2>3. (<<f>> \o Tail(s))[k + 1] = Tail(s)[k] /\ Tail(s)[k] = s[k + 1]
    BY <1>1, <1>2, <2>2
  <2>4. QED
    BY <2>2, <2>3
<1>4. QED
  BY <1>1, <1>2, <1>3

LEMMA Arguments ==
  ASSUME NEW words \in Seq(Strings), WellFormed(words)
  PROVE  Argument(words) \in Seq(Strings)
<1> DEFINE a == Keywords[words[1]].argc
           n == Len(words)
<1>1. a \in {1, 2} /\ n \in Nat
  BY KeywordRow DEF WellFormed
<1>2. \A i \in 1 + a .. n : words[i] \in Strings
  BY <1>1
<1>3. SubSeq(words, 1 + a, n) \in Seq(Strings)
  <2> HIDE DEF a, n
  <2>1. 1 + a \in Int /\ n \in Int
    BY <1>1
  <2>2. QED
    BY <1>2, <2>1, SubSeqProperties
<1>4. QED
  BY <1>3 DEF Argument

LEMMA CountedFacts ==
  ASSUME NEW names, NEW f \in FileFrames(names)
  PROVE  LET g == Counted(f)
         IN /\ g \in FileFrames(names) /\ g.name = f.name /\ g.at = f.at + 1 /\ g.buf = f.buf /\ g.ready = f.ready
            /\ Fresh(f) => g.first = f.last + 1 /\ g.last = f.last + 1 /\ g.start = f.at + 1
            /\ ~Fresh(f) => g.first = f.first /\ g.last = f.last /\ g.start = f.start
<1> DEFINE g == Counted(f)
           at == f.at + 1
           last == f.last + 1
<1>1. f.at \in Nat /\ f.last \in Nat /\ at \in Nat /\ last \in Nat
  BY DEF FileFrames
<1>2. CASE Fresh(f)
  <2>1. g = [f EXCEPT !.first = last, !.last = last, !.start = at, !.at = at]
    BY <1>2 DEF Counted
  <2> HIDE DEF g, at, last
  <2>2. /\ g \in FileFrames(names) /\ g.name = f.name /\ g.at = at /\ g.buf = f.buf /\ g.ready = f.ready
        /\ g.first = last /\ g.last = last /\ g.start = at
    BY <1>1, <2>1 DEF FileFrames
  <2>3. QED
    BY <1>2, <2>2 DEF g, at, last
<1>3. CASE ~Fresh(f)
  <2>1. g = [f EXCEPT !.at = at]
    BY <1>3 DEF Counted
  <2> HIDE DEF g, at, last
  <2>2. /\ g \in FileFrames(names) /\ g.name = f.name /\ g.at = at /\ g.buf = f.buf /\ g.ready = f.ready
        /\ g.first = f.first /\ g.last = f.last /\ g.start = f.start
    BY <1>1, <2>1 DEF FileFrames
  <2>3. QED
    BY <1>3, <2>2 DEF g, at, last
<1>4. QED
  BY <1>2, <1>3

(* Where a frame is in its tape, between two lines or in a continued one:  *)
(* last counts the physical lines, one ahead when a line is continued.     *)
Between(f) == f.buf = << >> /\ f.last = f.at
Within(f) == f.buf # << >> /\ f.last = f.at + 1 /\ f.first = f.start
Whole(f) == f.ready /\ f.last = f.at /\ f.first = f.start

LEMMA PieceFacts ==
  ASSUME NEW names, NEW f \in FileFrames(names), NEW p \in PhysicalLine
  PROVE  LET g == GotPiece(f, p)
         IN /\ g \in FileFrames(names) /\ g.name = f.name /\ g.at = f.at + 1
            /\ ~f.ready /\ (Between(f) \/ Within(f)) => Whole(g) \/ (~g.ready /\ (Between(g) \/ Within(g)))
<1> DEFINE c == Counted(f)
           words == f.buf \o p.words
           next == c.last + 1
           whole == [c EXCEPT !.buf = words, !.ready = TRUE]
           skipped == Fresh(f) /\ (IsComment(p.words) \/ (p.words = << >> /\ ~p.quoted))
           alone == Fresh(f) /\ p.words = << >>
           g == GotPiece(f, p)
<1>1. /\ c \in FileFrames(names) /\ c.name = f.name /\ c.at = f.at + 1 /\ c.buf = f.buf /\ c.ready = f.ready
      /\ Fresh(f) => c.first = f.last + 1 /\ c.last = f.last + 1 /\ c.start = f.at + 1
      /\ ~Fresh(f) => c.first = f.first /\ c.last = f.last /\ c.start = f.start
  BY CountedFacts
<1>2. p.words \in Seq(Strings) /\ p.quoted \in BOOLEAN /\ p.eol \in BOOLEAN /\ f.buf \in Seq(Strings)
  <2>1. p.words \in Seq(STRING) /\ p.quoted \in BOOLEAN /\ p.eol \in BOOLEAN /\ f.buf \in Seq(Strings)
    BY DEF PhysicalLine, FileFrames
  <2>2. QED
    BY <2>1, Words
<1>3. words \in Seq(Strings) /\ <<"\\">> \in Seq(Strings) /\ <<"\\">> # << >>
  <2>1. words \in Seq(Strings)
    BY <1>2, ConcatProperties
  <2>2. QED
    BY <2>1, Words
<1>4. (Fresh(f) => f.buf = << >>) /\ (words = << >> => f.buf = << >> /\ p.words = << >>)
  <2>1. Len(words) = Len(f.buf) + Len(p.words) /\ Len(f.buf) \in Nat /\ Len(p.words) \in Nat
    BY <1>2, ConcatProperties
  <2>2. QED
    BY <1>2, <1>3, <2>1 DEF Fresh
<1>5. next \in Nat /\ f.at \in Nat /\ f.last \in Nat /\ c.last \in Nat
  BY <1>1 DEF FileFrames
<1> HIDE DEF c, words, next
<1>6. CASE g = whole
  <2>1. /\ g \in FileFrames(names) /\ g.name = c.name /\ g.at = c.at /\ g.ready /\ g.first = c.first /\ g.last = c.last
        /\ g.start = c.start
    BY <1>1, <1>3, <1>6 DEF FileFrames
  <2> HIDE DEF g
  <2>2. QED
    BY <1>1, <1>5, <2>1 DEF Whole, Between, Within, Fresh, g
<1>7. CASE p.eol /\ skipped
  <2>1. g = [c EXCEPT !.first = next]
    BY <1>7 DEF GotPiece, c, next
  <2> HIDE DEF g
  <2>2. /\ g \in FileFrames(names) /\ g.name = c.name /\ g.at = c.at /\ g.ready = c.ready /\ g.buf = c.buf /\ g.last = c.last
    BY <1>1, <1>5, <2>1 DEF FileFrames
  <2>3. QED
    BY <1>1, <1>4, <1>5, <1>7, <2>2 DEF Whole, Between, Within, g
<1>8. CASE p.eol /\ ~skipped /\ p.quoted /\ ~alone
  <2>1. g = [c EXCEPT !.buf = words, !.last = next]
    BY <1>8 DEF GotPiece, c, next, words
  <2> HIDE DEF g
  <2>2. /\ g \in FileFrames(names) /\ g.name = c.name /\ g.at = c.at /\ g.ready = c.ready /\ g.buf = words /\ g.last = next
        /\ g.first = c.first /\ g.start = c.start
    BY <1>1, <1>3, <1>5, <2>1 DEF FileFrames
  <2>3. words # << >>
    BY <1>4, <1>8 DEF Fresh
  <2>4. QED
    BY <1>1, <1>4, <1>5, <1>8, <2>2, <2>3 DEF Whole, Between, Within, Fresh, g, next
<1>9. CASE p.eol /\ ~skipped /\ p.quoted /\ alone
  <2>1. g = [c EXCEPT !.buf = <<"\\">>, !.ready = TRUE]
    BY <1>9 DEF GotPiece, c
  <2> HIDE DEF g
  <2>2. /\ g \in FileFrames(names) /\ g.name = c.name /\ g.at = c.at /\ g.ready /\ g.first = c.first /\ g.last = c.last
        /\ g.start = c.start
    BY <1>1, <1>3, <2>1 DEF FileFrames
  <2>3. QED
    BY <1>1, <1>5, <2>2 DEF Whole, Between, Within, Fresh, g
<1>10. CASE ~p.eol
  <2>1. g = whole
    BY <1>10 DEF GotPiece, c, words
  <2>2. QED
    BY <1>6, <2>1
<1>11. CASE p.eol /\ ~skipped /\ ~p.quoted
  <2>1. g = whole
    BY <1>11 DEF GotPiece, c, words
  <2>2. QED
    BY <1>6, <2>1
<1>12. QED
  BY <1>2, <1>7, <1>8, <1>9, <1>10, <1>11

-----------------------------------------------------------------------------
LEMMA FrameFacts ==
  ASSUME NEW names
  PROVE  /\ \A n \in names : FileFrame(n) \in FileFrames(names)
         /\ \A f \in FileFrames(names) : /\ Done(f) \in FileFrames(names) /\ Done(f).name = f.name
                                         /\ [f EXCEPT !.ready = TRUE] \in FileFrames(names)
         /\ \A f \in FileFrames(names) : f.kind = "file" /\ f \notin VectorFrames
         /\ \A f \in VectorFrames : f.kind = "vector" /\ f \notin FileFrames(names)
<1>1. ASSUME NEW n \in names
      PROVE  FileFrame(n) \in FileFrames(names)
  <2>1. << >> \in Seq(Strings)
    OBVIOUS
  <2>2. QED
    BY <2>1 DEF FileFrame, FileFrames
<1>2. ASSUME NEW f \in FileFrames(names)
      PROVE  Done(f) \in FileFrames(names) /\ Done(f).name = f.name /\ [f EXCEPT !.ready = TRUE] \in FileFrames(names)
  <2>1. << >> \in Seq(Strings)
    OBVIOUS
  <2>2. Done(f) \in FileFrames(names) /\ Done(f).name = f.name
    <3> DEFINE d == [f EXCEPT !.buf = << >>, !.ready = FALSE]
    <3>1. d \in FileFrames(names) /\ d.name = f.name
      BY <2>1 DEF FileFrames
    <3>2. Done(f) = d
      BY DEF Done
    <3> HIDE DEF d
    <3>3. QED
      BY <3>1, <3>2
  <2>3. [f EXCEPT !.ready = TRUE] \in FileFrames(names)
    BY DEF FileFrames
  <2>4. QED
    BY <2>2, <2>3
<1>3. \A f \in FileFrames(names) : f.kind = "file"
  BY DEF FileFrames
<1>4. \A f \in VectorFrames : f.kind = "vector"
  BY DEF VectorFrames
<1>5. QED
  BY <1>1, <1>2, <1>3, <1>4

(* A vector that is not refused.                                           *)
LEMMA VectorRight ==
  ASSUME NEW words \in Seq(Strings), ~Refused(VectorFrame(words))
  PROVE  VectorFrame(words) \in VectorFrames
<1> DEFINE o == VectorFrame(words).options
<1>1. o \in Seq(Known) /\ VectorFrame(words) = [kind |-> "vector", options |-> o]
  BY VectorKnown
<1>2. \A i \in DOMAIN o : o[i].name # "?"
  BY DEF Refused
<1> HIDE DEF o
<1>3. \A i \in 1 .. Len(o) : o[i] \in Right
  BY <1>1, <1>2 DEF Right
<1>4. o \in Seq(Right)
  BY <1>1, <1>3
<1>5. QED
  BY <1>1, <1>4 DEF VectorFrames

LEMMA RightKnown ==
  ASSUME NEW o \in Right
  PROVE  o.name \in OptionNames /\ o.name # "?"
BY OptionsAssumption DEF Right, Known

LEMMA TypesInit == Init => Types
<1> SUFFICES ASSUME Init
             PROVE  Types
  OBVIOUS
<1>1. world \in DOMAIN Worlds /\ stage = 1 /\ phase = "reading" /\ frames = << >> /\ argv = << >>
  BY DEF Init
<1>2. \A n \in DOMAIN files : files[n] \in Tape
  <2>1. \A n \in DOMAIN files : files[n] = [lines |-> << >>, ended |-> FALSE]
    BY DEF Init
  <2> DEFINE t == [lines |-> << >>, ended |-> FALSE]
  <2>2. t \in Tape
    <3>1. << >> \in Seq(PhysicalLine)
      OBVIOUS
    <3>2. QED
      BY <3>1 DEF Tape
  <2>3. \A n \in DOMAIN files : files[n] = t
    BY <2>1
  <2> HIDE DEF t
  <2>4. QED
    BY <2>2, <2>3
<1>3. JobOK(job) /\ ~job.failed
  <2>1. job = NewJob(Worlds[world].env)
    BY DEF Init
  <2>2. QED
    BY <2>1, NewJobOK
<1>4. stage \in 0 .. 4 + Len(Slots)
  <2>1. Len(Slots) \in Nat
    BY <1>1, WorldsAssumption DEF Slots
  <2>2. QED
    BY <1>1, <2>1
<1>5. frames \in Seq(Frames(DOMAIN files)) /\ argv \in Seq(Strings)
  BY <1>1
<1>6. QED
  BY <1>1, <1>2, <1>3, <1>4, <1>5 DEF Types, Phases

(* The frames that a typed stack has.                                      *)
LEMMA Tops ==
  ASSUME Types
  PROVE  LET S == Frames(DOMAIN files)
         IN /\ frames # << >> => Top \in S /\ Tail(frames) \in Seq(S)
            /\ InFile => frames # << >> /\ Top \in FileFrames(DOMAIN files)
            /\ InVector => frames # << >> /\ Top \in VectorFrames
            /\ \A f \in S : frames # << >> /\ SetTop(f) => frames' \in Seq(S)
            /\ FileFrames(DOMAIN files) \subseteq S /\ VectorFrames \subseteq S
<1> DEFINE S == Frames(DOMAIN files)
<1>1. frames \in Seq(S)
  BY DEF Types
<1>2. FileFrames(DOMAIN files) \subseteq S /\ VectorFrames \subseteq S
      /\ \A f \in S : f \in FileFrames(DOMAIN files) \/ f \in VectorFrames
  BY DEF Frames
<1> HIDE DEF S
<1>3. frames # << >> => Top \in S /\ Tail(frames) \in Seq(S)
  BY <1>1, StackFacts DEF Top
<1>4. \A f \in S : frames # << >> /\ SetTop(f) => frames' \in Seq(S)
  BY <1>1, TopFacts DEF SetTop
<1>5. InFile => frames # << >> /\ Top \in FileFrames(DOMAIN files)
  BY <1>2, <1>3, FrameFacts DEF InFile
<1>6. InVector => frames # << >> /\ Top \in VectorFrames
  BY <1>2, <1>3, FrameFacts DEF InVector
<1>7. QED
  BY <1>2, <1>3, <1>4, <1>5, <1>6 DEF S

(* An action that only changes the stack.                                  *)
LEMMA OnlyFrames ==
  ASSUME Types, frames' \in Seq(Frames(DOMAIN files)), phase' \in Phases, phase' = "reading" => phase = "reading",
         world' = world, files' = files, stage' = stage, argv' = argv, job' = job
  PROVE  Types'
<1>1. stage' \in 0 .. 4 + Len(Slots')
  BY DEF Types, Slots
<1>2. QED
  BY <1>1 DEF Types

LEMMA OnlyStage ==
  ASSUME Types, frames' \in Seq(Frames(DOMAIN files)), phase' \in Phases, phase' = "reading" => phase = "reading",
         world' = world, files' = files, job' = job, argv' \in Seq(Strings), stage' \in 0 .. 4 + Len(Slots)
  PROVE  Types'
<1>1. stage' \in 0 .. 4 + Len(Slots')
  BY DEF Slots
<1>2. QED
  BY <1>1 DEF Types

(* An action that only changes the top of the stack and the job.           *)
LEMMA OnlyJob ==
  ASSUME Types, frames' \in Seq(Frames(DOMAIN files)), phase' \in Phases, phase' = "reading" => ~job'.failed,
         world' = world, files' = files, stage' = stage, argv' = argv, JobOK(job')
  PROVE  Types'
<1>1. stage' \in 0 .. 4 + Len(Slots')
  BY DEF Types, Slots
<1>2. QED
  BY <1>1 DEF Types

LEMMA GetLineTypes == Types /\ GetLine => Types'
<1> SUFFICES ASSUME Types, GetLine
             PROVE  Types'
  OBVIOUS
<1> DEFINE tape == files[Top.name]
<1>1. InFile /\ Top \in FileFrames(DOMAIN files) /\ frames # << >> /\ Top.name \in DOMAIN files /\ tape \in Tape
  <2>1. InFile /\ Top \in FileFrames(DOMAIN files) /\ frames # << >>
    BY Tops DEF GetLine
  <2>2. QED
    BY <2>1 DEF FileFrames, Types
<1>2. tape.lines \in Seq(PhysicalLine)
  BY <1>1 DEF Tape
<1>3. ASSUME NEW p \in PhysicalLine, SetTop(GotPiece(Top, p))
      PROVE  frames' \in Seq(Frames(DOMAIN files))
  <2>1. GotPiece(Top, p) \in FileFrames(DOMAIN files)
    BY <1>1, PieceFacts
  <2>2. QED
    BY <1>1, <1>3, <2>1, Tops
<1>4. /\ phase' = phase /\ world' = world /\ stage' = stage /\ job' = job /\ argv' = argv /\ phase \in Phases
  BY DEF GetLine, Types
<1>5. CASE Top.at < Len(tape.lines)
  <2>1. SetTop(GotPiece(Top, tape.lines[Top.at + 1])) /\ files' = files
    BY <1>5 DEF GetLine
  <2>2. tape.lines[Top.at + 1] \in PhysicalLine
    BY <1>1, <1>2, <1>5 DEF FileFrames
  <2>3. frames' \in Seq(Frames(DOMAIN files))
    BY <1>3, <2>1, <2>2
  <2>4. QED
    BY <1>4, <2>1, <2>3, OnlyFrames
<1>6. CASE ~(Top.at < Len(tape.lines))
  <2>1. PICK p \in Worlds[world].lines :
          /\ SetTop(GotPiece(Top, p))
          /\ files' = [files EXCEPT ![Top.name] = [lines |-> Append(tape.lines, p), ended |-> ~p.eol]]
    BY <1>6 DEF GetLine
  <2>2. p \in PhysicalLine
    BY WorldsAssumption DEF Types
  <2>3. frames' \in Seq(Frames(DOMAIN files))
    BY <1>3, <2>1, <2>2
  <2>4. Append(tape.lines, p) \in Seq(PhysicalLine) /\ (~p.eol) \in BOOLEAN
    BY <1>2, <2>2 DEF PhysicalLine
  <2>5. [lines |-> Append(tape.lines, p), ended |-> ~p.eol] \in Tape
    BY <2>4 DEF Tape
  <2>6. DOMAIN files' = DOMAIN files /\ \A n \in DOMAIN files' : files'[n] \in Tape
    <3> DEFINE t == [lines |-> Append(tape.lines, p), ended |-> ~p.eol]
    <3>1. files' = [files EXCEPT ![Top.name] = t] /\ t \in Tape /\ \A n \in DOMAIN files : files[n] \in Tape
      BY <2>1, <2>5 DEF Types
    <3> HIDE DEF t
    <3>2. QED
      BY <3>1
  <2>7. stage' \in 0 .. 4 + Len(Slots')
    BY <1>4 DEF Types, Slots
  <2>8. QED
    BY <1>4, <2>3, <2>6, <2>7 DEF Types
<1>7. QED
  BY <1>5, <1>6

LEMMA EndOfFileTypes == Types /\ EndOfFile => Types'
<1> SUFFICES ASSUME Types, EndOfFile
             PROVE  Types'
  OBVIOUS
<1>1. InFile /\ Top \in FileFrames(DOMAIN files) /\ frames # << >> /\ Top.name \in DOMAIN files
  <2>1. InFile /\ Top \in FileFrames(DOMAIN files) /\ frames # << >>
    BY Tops DEF EndOfFile
  <2>2. QED
    BY <2>1 DEF FileFrames
<1>2. frames' \in Seq(Frames(DOMAIN files))
  <2>1. frames' = Tail(frames) \/ SetTop([Top EXCEPT !.ready = TRUE])
    BY DEF EndOfFile
  <2>2. [Top EXCEPT !.ready = TRUE] \in Frames(DOMAIN files)
    BY <1>1, FrameFacts DEF Frames
  <2>3. QED
    BY <1>1, <2>1, <2>2, Tops
<1>3. DOMAIN files' = DOMAIN files /\ \A n \in DOMAIN files' : files'[n] \in Tape
  <2>1. files' = [files EXCEPT ![Top.name].ended = TRUE] /\ \A n \in DOMAIN files : files[n] \in Tape
    BY DEF EndOfFile, Types
  <2>2. \A t \in Tape : [t EXCEPT !.ended = TRUE] \in Tape
    BY DEF Tape
  <2>3. QED
    BY <1>1, <2>1, <2>2
<1>4. /\ phase' = phase /\ world' = world /\ stage' = stage /\ job' = job /\ argv' = argv
  BY DEF EndOfFile
<1>5. stage' \in 0 .. 4 + Len(Slots')
  BY <1>4 DEF Types, Slots
<1>6. QED
  BY <1>2, <1>3, <1>4, <1>5 DEF Types

LEMMA PlainEntryTypes ==
  ASSUME Types, PlainEntry
  PROVE  Types' /\ Entered(job, job')
<1>1. InFile /\ Top.ready /\ Top \in FileFrames(DOMAIN files) /\ frames # << >> /\ WellFormed(Top.buf)
  BY Tops DEF PlainEntry
<1>2. Top.buf \in Seq(Strings) /\ phase = "reading"
  BY <1>1 DEF FileFrames, InFile
<1>3. frames' \in Seq(Frames(DOMAIN files))
  <2>1. SetTop(Done(Top)) /\ Done(Top) \in Frames(DOMAIN files)
    BY <1>1, FrameFacts DEF PlainEntry, Frames
  <2>2. QED
    BY <1>1, <2>1, Tops
<1> DEFINE code == Keywords[Top.buf[1]].code
           key == Top.buf[2]
           rest == Argument(Top.buf)
<1>4. rest \in Seq(Strings) /\ code \in KeywordCodes \ {"Include", "Options"}
  <2>1. code \in KeywordCodes
    BY <1>1, KeywordRow DEF WellFormed
  <2>2. rest \in Seq(Strings)
    BY <1>1, <1>2, Arguments
  <2>3. QED
    BY <2>1, <2>2 DEF PlainEntry
<1>5. job' = Process(job, code, key, rest) /\ phase' = IF job'.failed THEN "failed" ELSE phase
  BY DEF PlainEntry
<1>6. JobOK(job)
  BY DEF Types
<1> HIDE DEF code, key, rest
<1>7. Entered(job, job')
  BY <1>4, <1>5, <1>6, ProcessEntered
<1>8. JobOK(job')
  BY <1>7 DEF Entered
<1>9. world' = world /\ files' = files /\ stage' = stage /\ argv' = argv
  BY DEF PlainEntry
<1>10. phase' \in Phases /\ (phase' = "reading" => ~job'.failed)
  BY <1>2, <1>5 DEF Phases
<1>11. QED
  BY <1>3, <1>7, <1>8, <1>9, <1>10, OnlyJob

(* A vector of options that is handled.                                    *)
LEMMA HandleFacts ==
  ASSUME NEW words \in Seq(Strings), NEW below, NEW S, below \in Seq(S), VectorFrames \subseteq S, Handle(words, below),
         phase \in Phases
  PROVE  /\ frames' \in Seq(S) /\ phase' \in {phase, "failed"}
         /\ frames' = below \/ \E v \in VectorFrames : frames' = <<v>> \o below
<1> DEFINE v == VectorFrame(words)
<1>1. CASE Refused(v)
  BY <1>1 DEF Handle
<1>2. CASE ~Refused(v)
  <2>1. frames' = <<v>> \o below /\ phase' = phase
    BY <1>2 DEF Handle
  <2>2. v \in VectorFrames
    BY <1>2, VectorRight
  <2> HIDE DEF v
  <2>3. QED
    BY <2>1, <2>2, StackFacts
<1>3. QED
  BY <1>1, <1>2

(* What an Include leaves: the frame of the file that opens, if any.       *)
LEMMA IncludeStack ==
  ASSUME Types, Include
  PROVE  LET name == Included(Top.name, Top.buf[2])
             below == <<Done(Top)>> \o Tail(frames)
         IN frames' = below \/ (name \in DOMAIN files /\ OpenFiles < MaxOpen /\ frames' = <<FileFrame(name)>> \o below)
<1> DEFINE S == Frames(DOMAIN files)
           name == Included(Top.name, Top.buf[2])
           opened == name \in DOMAIN files /\ OpenFiles < MaxOpen
           below == <<Done(Top)>> \o Tail(frames)
<1>1. Top \in FileFrames(DOMAIN files) /\ frames # << >>
  BY Tops DEF Include
<1>2. frames' = (IF opened THEN <<FileFrame(name)>> ELSE << >>) \o <<Done(Top)>> \o Tail(frames)
  BY DEF Include
<1>3. frames' = below \/ (opened /\ frames' = <<FileFrame(name)>> \o below)
  <2>1. Tail(frames) \in Seq(S) /\ Done(Top) \in S /\ FileFrame(name) \in {FileFrame(name)}
    BY <1>1, FrameFacts, Tops DEF Frames
  <2> DEFINE a == <<FileFrame(name)>>
             b == <<Done(Top)>>
             c == Tail(frames)
             E == S \cup {FileFrame(name)}
  <2>2. a \in Seq(E) /\ b \in Seq(E) /\ c \in Seq(E)
    <3>1. a \in Seq(E) /\ b \in Seq(E)
      BY <2>1
    <3>2. S \subseteq E
      OBVIOUS
    <3> HIDE DEF S, E
    <3>3. QED
      BY <2>1, <3>1, <3>2, SeqMonotonic
  <2> HIDE DEF a, b, c, E
  <2>3. (a \o b) \o c = a \o (b \o c) /\ (<< >> \o b) \o c = b \o c
    <3>1. (a \o b) \o c = a \o (b \o c)
      BY <2>2, ConcatAssociative
    <3>2. << >> \o b = b
      BY <2>2, ConcatEmptySeq
    <3>3. QED
      BY <3>1, <3>2
  <2>4. frames' = IF opened THEN (a \o b) \o c ELSE (<< >> \o b) \o c
    BY <1>2 DEF a, b, c
  <2>5. below = b \o c
    BY DEF b, c
  <2> HIDE DEF opened, below
  <2>6. QED
    BY <2>3, <2>4, <2>5 DEF a
<1>4. QED
  BY <1>3

LEMMA IncludeTypes == Types /\ Include => Types'
<1> SUFFICES ASSUME Types, Include
             PROVE  Types'
  OBVIOUS
<1> DEFINE S == Frames(DOMAIN files)
           name == Included(Top.name, Top.buf[2])
           opened == name \in DOMAIN files /\ OpenFiles < MaxOpen
           below == <<Done(Top)>> \o Tail(frames)
<1>1. Top \in FileFrames(DOMAIN files) /\ frames # << >>
  BY Tops DEF Include
<1>2. below \in Seq(S)
  <2>1. Done(Top) \in S /\ frames \in Seq(S)
    BY <1>1, FrameFacts DEF Frames, Types
  <2> HIDE DEF S
  <2>2. QED
    BY <1>1, <2>1, TopFacts
<1>4. frames' = below \/ (opened /\ frames' = <<FileFrame(name)>> \o below)
  BY IncludeStack
<1>5. opened => FileFrame(name) \in S
  BY FrameFacts DEF Frames
<1> HIDE DEF S, opened, below
<1>6. frames' \in Seq(S)
  <2>1. opened => <<FileFrame(name)>> \o below \in Seq(S)
    <3> DEFINE f == FileFrame(name)
    <3> HIDE DEF f
    <3>1. \A e \in S : <<e>> \o below \in Seq(S)
      BY <1>2, StackFacts
    <3>2. opened => f \in S
      BY <1>5 DEF f
    <3>3. opened => <<f>> \o below \in Seq(S)
      BY <3>1, <3>2
    <3>4. QED
      BY <3>3 DEF f
  <2>2. QED
    BY <1>2, <1>4, <2>1
<1>7. QED
  BY <1>6, OnlyFrames DEF Include, Types, S

LEMMA OptionsEntryTypes == Types /\ OptionsEntry => Types'
<1> SUFFICES ASSUME Types, OptionsEntry
             PROVE  Types'
  OBVIOUS
<1> DEFINE S == Frames(DOMAIN files)
           below == <<Done(Top)>> \o Tail(frames)
           words == Argument(Top.buf)
<1>1. InFile /\ Top \in FileFrames(DOMAIN files) /\ frames # << >> /\ WellFormed(Top.buf)
  BY Tops DEF OptionsEntry
<1>2. below \in Seq(S) /\ VectorFrames \subseteq S /\ phase \in Phases /\ phase = "reading"
  <2>1. Done(Top) \in S /\ frames \in Seq(S) /\ VectorFrames \subseteq S
    BY <1>1, FrameFacts DEF Frames, Types
  <2>2. phase \in Phases /\ phase = "reading"
    BY <1>1 DEF Types, InFile
  <2> HIDE DEF S
  <2>3. QED
    BY <1>1, <2>1, <2>2, TopFacts
<1>3. words \in Seq(Strings)
  BY <1>1, Arguments DEF FileFrames
<1>4. Handle(words, below)
  BY DEF OptionsEntry
<1> HIDE DEF S, below, words
<1>5. frames' \in Seq(S) /\ phase' \in {phase, "failed"}
  BY <1>2, <1>3, <1>4, HandleFacts
<1>6. phase' \in Phases
  BY <1>2, <1>5 DEF Phases
<1>7. QED
  BY <1>2, <1>5, <1>6, OnlyFrames DEF OptionsEntry, S

LEMMA VectorFacts ==
  ASSUME NEW v \in VectorFrames, v.options # << >>
  PROVE  /\ Head(v.options) \in Right /\ [v EXCEPT !.options = Tail(@)] \in VectorFrames
<1>1. v.options \in Seq(Right)
  BY DEF VectorFrames
<1>2. Tail(v.options) \in Seq(Right) /\ Head(v.options) \in Right
  BY <1>1, HeadTailProperties
<1>3. QED
  BY <1>2 DEF VectorFrames

LEMMA TakeOptionTypes ==
  ASSUME Types, TakeOption
  PROVE  /\ Types' /\ applied' = Append(applied, Head(Top.options)) /\ Head(Top.options) \in Right
         /\ Head(Top.options).name # "=" /\ Applied(job, Head(Top.options), job')
<1> DEFINE o == Head(Top.options)
<1>1. Top \in VectorFrames /\ frames # << >> /\ Top.options # << >> /\ phase = "reading"
  BY Tops DEF TakeOption, InVector
<1>2. o \in Right /\ o.name # "=" /\ [Top EXCEPT !.options = Tail(@)] \in VectorFrames
  BY <1>1, VectorFacts DEF TakeOption
<1>3. JobOK(job) /\ ~job.failed
  BY <1>1 DEF Types
<1>4. job' = Apply(job, o) /\ phase' = (IF job'.failed THEN "failed" ELSE phase) /\ applied' = Append(applied, o)
  BY DEF TakeOption
<1>5. Applied(job, o, job')
  <2> HIDE DEF o
  <2>1. o.name \in OptionNames \ {"=", "?"}
    BY <1>2, RightKnown
  <2>2. Applied(job, o, Apply(job, o))
    BY <1>3, <2>1, ApplyApplied
  <2>3. QED
    BY <1>4, <2>2
<1>6. frames' \in Seq(Frames(DOMAIN files))
  <2>1. SetTop([Top EXCEPT !.options = Tail(@)])
    BY DEF TakeOption
  <2>2. QED
    BY <1>1, <1>2, <2>1, Tops
<1>7. JobOK(job')
  BY <1>5 DEF Applied
<1>8. phase' \in Phases /\ (phase' = "reading" => ~job'.failed)
  BY <1>1, <1>4 DEF Phases
<1>9. world' = world /\ files' = files /\ stage' = stage /\ argv' = argv
  BY DEF TakeOption
<1>10. Types'
  BY <1>6, <1>7, <1>8, <1>9, OnlyJob
<1>11. QED
  BY <1>2, <1>4, <1>5, <1>10

(* What a shortcut makes of the stack.                                     *)
LEMMA PushFacts ==
  ASSUME NEW words \in Seq(Strings), NEW stack
  PROVE  LET p == Push(words, stack)
         IN /\ p.phase \in {"reading", "failed", "crashed"}
            /\ p.frames = stack \/ \E v \in VectorFrames : p.frames = <<v>> \o stack /\ ~(DepthOf(stack) >= MaxDepth)
<1> DEFINE v == VectorFrame(words)
           p == Push(words, stack)
<1>1. CASE Refused(v)
  <2>1. p = [phase |-> "failed", frames |-> stack]
    BY <1>1 DEF Push
  <2>2. QED
    BY <2>1
<1>2. CASE ~Refused(v) /\ DepthOf(stack) >= MaxDepth
  <2>1. p = [phase |-> "crashed", frames |-> stack]
    BY <1>2 DEF Push
  <2>2. QED
    BY <2>1
<1>3. CASE ~Refused(v) /\ ~(DepthOf(stack) >= MaxDepth)
  <2>1. p = [phase |-> "reading", frames |-> <<v>> \o stack]
    BY <1>3 DEF Push
  <2>2. v \in VectorFrames
    BY <1>3, VectorRight
  <2> HIDE DEF v
  <2>3. QED
    BY <1>3, <2>1, <2>2
<1>4. QED
  BY <1>1, <1>2, <1>3

LEMMA UserOptionPhase ==
  ASSUME Types, UserOption
  PROVE  phase' \in {"reading", "failed", "crashed"}
<1> DEFINE shortcut == Head(Top.options).arg
           stack == <<[Top EXCEPT !.options = Tail(@)]>> \o Tail(frames)
<1>1. CASE shortcut \in DOMAIN job.user_options
  <2> DEFINE words == job.user_options[shortcut]
             pushed == Push(words, stack)
  <2>1. phase' = pushed.phase
    BY <1>1 DEF UserOption
  <2>2. words \in Seq(Strings)
    BY <1>1 DEF Types, JobOK
  <2> HIDE DEF words, stack
  <2>3. pushed.phase \in {"reading", "failed", "crashed"}
    BY <2>2, PushFacts
  <2> HIDE DEF pushed
  <2>4. QED
    BY <2>1, <2>3
<1>2. CASE shortcut \notin DOMAIN job.user_options
  <2>1. phase' = "failed"
    BY <1>2 DEF UserOption
  <2>2. QED
    BY <2>1
<1>3. QED
  BY <1>1, <1>2

LEMMA UserOptionTypes ==
  ASSUME Types, UserOption
  PROVE  Types'
<1> DEFINE shortcut == Head(Top.options).arg
           rest == [Top EXCEPT !.options = Tail(@)]
           stack == <<rest>> \o Tail(frames)
           S == Frames(DOMAIN files)
<1>1. Top \in VectorFrames /\ frames # << >> /\ Top.options # << >> /\ phase = "reading" /\ frames \in Seq(S)
  BY Tops DEF UserOption, InVector, Types
<1>2. rest \in S /\ VectorFrames \subseteq S
  BY <1>1, VectorFacts DEF Frames
<1> HIDE DEF S
<1>3. stack \in Seq(S)
  BY <1>1, <1>2, TopFacts
<1>4. frames' \in Seq(S) /\ phase' \in {"reading", "failed", "crashed"}
  <2>1. CASE shortcut \in DOMAIN job.user_options
    <3> DEFINE words == job.user_options[shortcut]
               pushed == Push(words, stack)
    <3>1. frames' = pushed.frames /\ phase' = pushed.phase
      BY <2>1 DEF UserOption
    <3>2. words \in Seq(Strings)
      BY <2>1 DEF Types, JobOK
    <3> HIDE DEF words, stack
    <3>3. /\ pushed.phase \in {"reading", "failed", "crashed"}
          /\ pushed.frames = stack \/ \E v \in VectorFrames : pushed.frames = <<v>> \o stack
      BY <3>2, PushFacts
    <3>4. \A v \in VectorFrames : <<v>> \o stack \in Seq(S)
      BY <1>2, <1>3, StackFacts
    <3> HIDE DEF pushed
    <3>5. QED
      BY <1>3, <3>1, <3>3, <3>4
  <2>2. CASE shortcut \notin DOMAIN job.user_options
    BY <1>1, <2>2 DEF UserOption
  <2>3. QED
    BY <2>1, <2>2
<1>5. phase' \in Phases
  BY <1>4 DEF Phases
<1>6. QED
  BY <1>1, <1>4, <1>5, OnlyFrames DEF UserOption, S

LEMMA FinalizeTypes ==
  ASSUME Types, Finalize
  PROVE  Types' /\ Entered(job, job')
<1> DEFINE k == [job EXCEPT !.path = CommonFinalize(job)]
<1>1. JobOK(job) /\ phase = "reading" /\ ~job.failed
  BY DEF Types, Finalize
<1>2. Entered(job, k) /\ Entered(job, job)
  <2>1. DOMAIN k = DOMAIN job /\ \A f \in Tracked : k[f] = job[f]
    BY DEF Tracked
  <2> HIDE DEF k
  <2>2. QED
    BY <1>1, <2>1, UntrackedEntered
<1>3. job' = job \/ job' = k
  BY DEF Finalize
<1>4. phase' \in Phases /\ phase' # "reading"
  BY DEF Finalize, Phases
<1>5. Entered(job, job')
  BY <1>2, <1>3
<1>6. JobOK(job')
  BY <1>5 DEF Entered
<1>7. /\ world' = world /\ files' = files /\ stage' = stage /\ argv' = argv /\ frames' = frames
      /\ frames \in Seq(Frames(DOMAIN files))
  BY DEF Finalize, Types
<1>8. QED
  BY <1>4, <1>5, <1>6, <1>7, OnlyJob

LEMMA TypesStep ==
  ASSUME Types, [Next]_vars
  PROVE  Types'
<1> USE DEF Phases
<1>0. frames \in Seq(Frames(DOMAIN files)) /\ phase \in Phases /\ argv \in Seq(Strings) /\ Len(Slots) \in Nat
  <2>1. Len(Slots) \in Nat
    BY WorldsAssumption DEF Types, Slots
  <2>2. QED
    BY <2>1 DEF Types
<1>1. CASE ReadSource
  <2> DEFINE name == Sources[stage]
             S == Frames(DOMAIN files)
  <2>1. frames' = << >> \/ (name \in DOMAIN files /\ frames' = <<FileFrame(name)>>)
    BY <1>1 DEF ReadSource
  <2>2. name \in DOMAIN files => FileFrame(name) \in S
    BY FrameFacts DEF Frames
  <2>3. stage' \in 0 .. 4 + Len(Slots)
    BY <1>0, <1>1 DEF ReadSource, Types
  <2> HIDE DEF name, S
  <2>4. frames' \in Seq(S)
    <3>1. \A f \in S : <<f>> \in Seq(S)
      OBVIOUS
    <3>2. CASE frames' = << >>
      BY <3>2
    <3>3. CASE name \in DOMAIN files /\ frames' = <<FileFrame(name)>>
      BY <2>2, <3>1, <3>3
    <3>4. QED
      BY <2>1, <3>2, <3>3
  <2>5. QED
    BY <1>0, <1>1, <2>3, <2>4, OnlyStage DEF ReadSource, S
<1>2. CASE GetLine
  BY <1>2, GetLineTypes
<1>3. CASE EndOfFile
  BY <1>3, EndOfFileTypes
<1>4. CASE BlankEntry
  <2>1. Done(Top) \in Frames(DOMAIN files) /\ frames # << >> /\ SetTop(Done(Top))
    BY <1>4, Tops, FrameFacts DEF BlankEntry, Frames
  <2>2. frames' \in Seq(Frames(DOMAIN files))
    BY <2>1, Tops
  <2>3. QED
    BY <1>0, <1>4, <2>2, OnlyFrames DEF BlankEntry
<1>5. CASE WrongEntry
  BY <1>0, <1>5, OnlyFrames DEF WrongEntry
<1>6. CASE PlainEntry
  BY <1>6, PlainEntryTypes
<1>7. CASE Include
  BY <1>7, IncludeTypes
<1>8. CASE OptionsEntry
  BY <1>8, OptionsEntryTypes
<1>9. CASE TakeOption
  BY <1>9, TakeOptionTypes
<1>10. CASE UserOption
  BY <1>10, UserOptionTypes
<1>11. CASE EndVector
  <2>1. frames' \in Seq(Frames(DOMAIN files))
    BY <1>11, Tops DEF EndVector, InVector
  <2>2. QED
    BY <1>0, <1>11, <2>1, OnlyFrames DEF EndVector
<1>12. CASE Argue
  <2>1. PICK words \in Slots[stage - 3] : argv' = argv \o words
    BY <1>12 DEF Argue
  <2>2. stage - 3 \in 1 .. Len(Slots) /\ Slots \in Seq(SUBSET Seq(STRING))
    BY <1>0, <1>12, WorldsAssumption DEF Argue, Types, Slots
  <2>3. words \in Seq(Strings)
    <3>1. Slots[stage - 3] \in SUBSET Seq(STRING)
      BY <2>2
    <3>2. words \in Seq(STRING)
      BY <3>1
    <3>3. QED
      BY <3>2, Words
  <2>4. argv' \in Seq(Strings)
    BY <1>0, <2>1, <2>3, ConcatProperties
  <2>5. stage' \in 0 .. 4 + Len(Slots)
    BY <1>0, <1>12 DEF Argue, Types
  <2>6. QED
    BY <1>0, <1>12, <2>4, <2>5, OnlyStage DEF Argue
<1>13. CASE CommandLine
  <2> DEFINE S == Frames(DOMAIN files)
  <2>1. VectorFrames \subseteq S
    BY DEF Frames
  <2> HIDE DEF S
  <2>2. Handle(argv, << >>) /\ << >> \in Seq(S)
    BY <1>13 DEF CommandLine
  <2>3. frames' \in Seq(S) /\ phase' \in {phase, "failed"}
    BY <1>0, <2>1, <2>2, HandleFacts
  <2>4. stage' \in 0 .. 4 + Len(Slots)
    BY <1>0, <1>13 DEF CommandLine, Handled
  <2>5. QED
    BY <1>0, <1>13, <2>3, <2>4, OnlyStage DEF CommandLine, S
<1>14. CASE Finalize
  BY <1>14, FinalizeTypes
<1>15. CASE Task
  <2>1. phase' \in Phases /\ phase' # "reading"
    BY <1>15 DEF Task
  <2>2. QED
    BY <1>0, <1>15, <2>1, OnlyFrames DEF Task
<1>16. CASE Finished \/ UNCHANGED vars
  BY <1>0, <1>16, OnlyFrames DEF Finished, vars
<1>17. QED
  BY <1>1, <1>2, <1>3, <1>4, <1>5, <1>6, <1>7, <1>8, <1>9, <1>10, <1>11, <1>12, <1>13, <1>14, <1>15, <1>16 DEF Next

LEMMA TypesAlways == Spec => []Types
<1>1. Init => Types
  BY TypesInit
<1>2. Types /\ [Next]_vars => Types'
  BY TypesStep
<1>3. QED
  BY <1>1, <1>2, PTL DEF Spec

-----------------------------------------------------------------------------
(* The shape of the stack: k vectors above the files.                      *)
Split(s, k) ==
  /\ k \in 0 .. Len(s)
  /\ \A i \in 1 .. Len(s) : (i <= k => s[i].kind = "vector") /\ (i > k => s[i].kind = "file")
Bounded(s) == \E k \in 0 .. Len(s) : Split(s, k) /\ k <= MaxDepth /\ Len(s) - k <= MaxOpen

LEMMA DepthFacts ==
  ASSUME NEW S, NEW s \in Seq(S), NEW k, Split(s, k)
  PROVE  DepthOf(s) = k /\ Cardinality({i \in DOMAIN s : s[i].kind = "file"}) = Len(s) - k
<1>1. Len(s) \in Nat /\ DOMAIN s = 1 .. Len(s) /\ k \in 0 .. Len(s)
  BY DEF Split
<1>2. {i \in DOMAIN s : s[i].kind = "vector"} = 1 .. k
  BY <1>1 DEF Split
<1>3. {i \in DOMAIN s : s[i].kind = "file"} = k + 1 .. Len(s)
  BY <1>1 DEF Split
<1>4. Cardinality(1 .. k) = k /\ Cardinality(k + 1 .. Len(s)) = Len(s) - k
  <2>1. \A a \in Int, b \in Int : Cardinality(a .. b) = IF a > b THEN 0 ELSE b - a + 1
    BY FS_Interval
  <2>2. k \in Int /\ 1 \in Int /\ k + 1 \in Int /\ Len(s) \in Int
    BY <1>1
  <2>3. Cardinality(1 .. k) = IF 1 > k THEN 0 ELSE k - 1 + 1
    BY <2>1, <2>2
  <2>4. Cardinality(k + 1 .. Len(s)) = IF k + 1 > Len(s) THEN 0 ELSE Len(s) - (k + 1) + 1
    BY <2>1, <2>2
  <2>5. QED
    BY <1>1, <2>3, <2>4
<1>5. QED
  BY <1>2, <1>3, <1>4 DEF DepthOf

LEMMA SplitPush ==
  ASSUME NEW S, NEW s \in Seq(S), NEW k, Split(s, k), NEW f \in S
  PROVE  /\ f.kind = "vector" => Split(<<f>> \o s, k + 1)
         /\ f.kind = "file" /\ k = 0 => Split(<<f>> \o s, 0)
<1> DEFINE t == <<f>> \o s
<1>1. /\ Len(s) \in Nat /\ Len(t) = Len(s) + 1 /\ t[1] = f
      /\ \A i \in 1 .. Len(s) : t[i + 1] = s[i]
  BY StackFacts
<1> HIDE DEF t
<1>2. \A i \in 2 .. Len(t) : i - 1 \in 1 .. Len(s) /\ t[i] = s[i - 1]
  <2>1. ASSUME NEW i \in 2 .. Len(t)
        PROVE  i - 1 \in 1 .. Len(s) /\ t[i] = s[i - 1]
    <3>1. i - 1 \in 1 .. Len(s) /\ (i - 1) + 1 = i
      BY <1>1
    <3>2. t[(i - 1) + 1] = s[i - 1]
      BY <1>1, <3>1
    <3>3. QED
      BY <3>1, <3>2
  <2>2. QED
    BY <2>1
<1>3. ASSUME f.kind = "vector"
      PROVE  Split(t, k + 1)
  <2>1. k \in 0 .. Len(s) /\ k + 1 \in 0 .. Len(t)
    BY <1>1 DEF Split
  <2>2. ASSUME NEW i \in 1 .. Len(t)
        PROVE  (i <= k + 1 => t[i].kind = "vector") /\ (i > k + 1 => t[i].kind = "file")
    <3>1. CASE i = 1
      BY <1>1, <1>3, <2>1, <3>1
    <3>2. CASE i # 1
      <4>1. i \in 2 .. Len(t)
        BY <1>1, <3>2
      <4>2. i - 1 \in 1 .. Len(s) /\ t[i] = s[i - 1] /\ (i <= k + 1 <=> i - 1 <= k)
        BY <1>2, <2>1, <4>1
      <4>3. QED
        BY <1>1, <2>1, <4>2 DEF Split
    <3>3. QED
      BY <3>1, <3>2
  <2>3. QED
    BY <2>1, <2>2 DEF Split
<1>4. ASSUME f.kind = "file", k = 0
      PROVE  Split(t, 0)
  <2>1. ASSUME NEW i \in 1 .. Len(t)
        PROVE  t[i].kind = "file"
    <3>1. CASE i = 1
      BY <1>1, <1>4, <3>1
    <3>2. CASE i # 1
      <4>1. i \in 2 .. Len(t)
        BY <1>1, <3>2
      <4>2. i - 1 \in 1 .. Len(s) /\ t[i] = s[i - 1]
        BY <1>2, <4>1
      <4>3. s[i - 1].kind = "file"
        BY <1>1, <1>4, <4>2 DEF Split
      <4>4. QED
        BY <4>2, <4>3
    <3>3. QED
      BY <3>1, <3>2
  <2>2. 0 \in 0 .. Len(t)
    BY <1>1
  <2>3. QED
    BY <1>1, <2>1, <2>2 DEF Split
<1>5. QED
  BY <1>3, <1>4 DEF t

LEMMA SplitPop ==
  ASSUME NEW S, NEW s \in Seq(S), NEW k, Split(s, k), s # << >>
  PROVE  Split(Tail(s), IF k = 0 THEN 0 ELSE k - 1) /\ (s[1].kind = "file" <=> k = 0) /\ (s[1].kind = "vector" <=> k # 0)
<1> DEFINE t == Tail(s)
<1>1. Len(s) \in Nat /\ Len(s) # 0 /\ Len(t) = Len(s) - 1 /\ \A i \in 1 .. Len(s) - 1 : t[i] = s[i + 1]
  BY StackFacts
<1> HIDE DEF t
<1>2. k \in 0 .. Len(s) /\ 1 \in 1 .. Len(s)
  BY <1>1 DEF Split
<1>3. (s[1].kind = "file" <=> k = 0) /\ (s[1].kind = "vector" <=> k # 0)
  BY <1>1, <1>2 DEF Split
<1>4. ASSUME NEW i \in 1 .. Len(t)
      PROVE  i + 1 \in 1 .. Len(s) /\ t[i] = s[i + 1]
  BY <1>1
<1>5. \A i \in 1 .. Len(t) : (i + 1 <= k => t[i].kind = "vector") /\ (i + 1 > k => t[i].kind = "file")
  BY <1>4 DEF Split
<1>6. CASE k = 0
  <2>1. Split(t, 0)
    BY <1>1, <1>5, <1>6 DEF Split
  <2>2. QED
    BY <1>3, <1>6, <2>1 DEF t
<1>7. CASE k # 0
  <2>1. k - 1 \in 0 .. Len(t) /\ \A i \in 1 .. Len(t) : (i <= k - 1 => i + 1 <= k) /\ (i > k - 1 => i + 1 > k)
    BY <1>1, <1>2, <1>7
  <2>2. Split(t, k - 1)
    BY <1>5, <2>1 DEF Split
  <2>3. QED
    BY <1>3, <1>7, <2>2 DEF t
<1>8. QED
  BY <1>6, <1>7

LEMMA SplitTop ==
  ASSUME NEW S, NEW s \in Seq(S), NEW k, Split(s, k), s # << >>, NEW f \in S, f.kind = s[1].kind
  PROVE  Split(<<f>> \o Tail(s), k)
<1> DEFINE t == <<f>> \o Tail(s)
<1>1. Len(s) \in Nat /\ Len(t) = Len(s) /\ t[1] = f /\ \A i \in 2 .. Len(s) : t[i] = s[i]
  BY StackFacts, TopFacts
<1> HIDE DEF t
<1>2. \A i \in 1 .. Len(t) : t[i].kind = s[i].kind
  <2>1. ASSUME NEW i \in 1 .. Len(t)
        PROVE  t[i].kind = s[i].kind
    <3>1. CASE i = 1
      BY <1>1, <3>1
    <3>2. CASE i # 1
      <4>1. i \in 2 .. Len(s)
        BY <1>1, <3>2
      <4>2. QED
        BY <1>1, <4>1
    <3>3. QED
      BY <3>1, <3>2
  <2>2. QED
    BY <2>1
<1>3. Split(t, k)
  BY <1>1, <1>2 DEF Split
<1>4. QED
  BY <1>3 DEF t

(* Where a file is read in its tape: between two entries, in an entry that *)
(* is continued, with an entry, or at the end of the tape, where last may  *)
(* be one ahead for good.                                                  *)
Reads(f, t) ==
  /\ f.at <= Len(t.lines)
  /\ \/ ~f.ready /\ (Between(f) \/ Within(f))
     \/ Whole(f)
     \/ t.ended /\ f.at = Len(t.lines) /\ (IF f.ready THEN f.first = f.start ELSE f.buf = << >>)
Reading(f, tapes) == f.kind = "file" => Reads(f, tapes[f.name])

Stack == Bounded(frames) /\ \A i \in 1 .. Len(frames) : Reading(frames[i], files)

(* The stacks that an action leaves below what it pushes.                  *)
Below(s) ==
  \/ s = frames
  \/ frames # << >> /\ s = Tail(frames)
  \/ frames # << >> /\ \E f \in Frames(DOMAIN files) : f.kind = Top.kind /\ Reading(f, files') /\ s = <<f>> \o Tail(frames)

LEMMA BelowFacts ==
  ASSUME Types, Stack, NEW s, Below(s), \A i \in 1 .. Len(frames) : Reading(frames[i], files')
  PROVE  /\ s \in Seq(Frames(DOMAIN files)) /\ Bounded(s)
         /\ \A i \in 1 .. Len(s) : Reading(s[i], files')
         /\ frames # << >> /\ Top.kind = "file" => Split(s, 0)
<1> DEFINE S == Frames(DOMAIN files)
<1>1. frames \in Seq(S) /\ Len(frames) \in Nat
  BY DEF Types
<1>2. PICK k \in 0 .. Len(frames) : Split(frames, k) /\ k <= MaxDepth /\ Len(frames) - k <= MaxOpen
  BY DEF Stack, Bounded
<1> HIDE DEF S
<1>3. MaxOpen \in Nat /\ MaxDepth \in Nat /\ k \in Nat
  BY <1>1, <1>2, BoundsAssumption
<1>4. frames # << >> => (Top.kind = "file" <=> k = 0)
  BY <1>1, <1>2, SplitPop DEF Top
<1>5. CASE s = frames
  BY <1>1, <1>2, <1>4, <1>5 DEF Bounded, S
<1>6. CASE frames # << >> /\ s = Tail(frames)
  <2> DEFINE l == IF k = 0 THEN 0 ELSE k - 1
  <2>1. Split(s, l)
    BY <1>1, <1>2, <1>6, SplitPop
  <2>2. s \in Seq(S) /\ Len(s) = Len(frames) - 1 /\ Len(frames) # 0 /\ \A i \in 1 .. Len(frames) - 1 : s[i] = frames[i + 1]
    BY <1>1, <1>6, StackFacts
  <2>3. l \in 0 .. Len(s) /\ l <= MaxDepth /\ Len(s) - l <= MaxOpen
    BY <1>1, <1>2, <1>3, <2>2
  <2>4. \A i \in 1 .. Len(s) : Reading(s[i], files')
    <3>1. ASSUME NEW i \in 1 .. Len(s)
          PROVE  Reading(s[i], files')
      <4>1. i + 1 \in 1 .. Len(frames) /\ s[i] = frames[i + 1]
        BY <1>1, <2>2
      <4>2. QED
        BY <4>1
    <3>2. QED
      BY <3>1
  <2>5. k = 0 => l = 0
    OBVIOUS
  <2> HIDE DEF l
  <2>6. Bounded(s)
    BY <2>1, <2>3 DEF Bounded
  <2>7. QED
    BY <1>4, <2>1, <2>2, <2>4, <2>5, <2>6 DEF S
<1>7. CASE frames # << >> /\ \E f \in S : f.kind = Top.kind /\ Reading(f, files') /\ s = <<f>> \o Tail(frames)
  <2>1. PICK f \in S : f.kind = Top.kind /\ Reading(f, files') /\ s = <<f>> \o Tail(frames)
    BY <1>7
  <2>2. Split(s, k)
    BY <1>1, <1>2, <1>7, <2>1, SplitTop DEF Top
  <2>3. s \in Seq(S) /\ Len(s) = Len(frames) /\ s[1] = f /\ \A i \in 2 .. Len(frames) : s[i] = frames[i]
    BY <1>1, <1>7, <2>1, TopFacts
  <2>4. Bounded(s)
    BY <1>2, <2>2, <2>3 DEF Bounded
  <2>5. \A i \in 1 .. Len(s) : Reading(s[i], files')
    <3>1. ASSUME NEW i \in 1 .. Len(s)
          PROVE  Reading(s[i], files')
      <4>1. i = 1 \/ i \in 2 .. Len(frames)
        BY <1>1, <2>3
      <4>2. QED
        BY <2>1, <2>3, <4>1
    <3>2. QED
      BY <3>1
  <2>6. QED
    BY <1>4, <2>2, <2>3, <2>4, <2>5 DEF S
<1>8. QED
  BY <1>5, <1>6, <1>7 DEF Below, S

(* What is pushed has room.                                                *)
Moves ==
  \E s : /\ Below(s)
         /\ \/ frames' = s
            \/ \E g \in Frames(DOMAIN files) :
                 /\ frames' = <<g>> \o s /\ Reading(g, files')
                 /\ IF g.kind = "vector" THEN ~(DepthOf(s) >= MaxDepth)
                    ELSE g.kind = "file" /\ Split(s, 0) /\ ~(Len(s) >= MaxOpen)
Kept == \A i \in 1 .. Len(frames) : Reading(frames[i], files')

LEMMA MovesKeep ==
  ASSUME Types, Stack, Moves, Kept
  PROVE  Stack'
<1> DEFINE S == Frames(DOMAIN files)
<1>1. PICK s : /\ Below(s)
               /\ \/ frames' = s
                  \/ \E g \in S :
                       /\ frames' = <<g>> \o s /\ Reading(g, files')
                       /\ IF g.kind = "vector" THEN ~(DepthOf(s) >= MaxDepth)
                          ELSE g.kind = "file" /\ Split(s, 0) /\ ~(Len(s) >= MaxOpen)
  BY DEF Moves
<1>2. s \in Seq(S) /\ Bounded(s) /\ \A i \in 1 .. Len(s) : Reading(s[i], files')
  BY <1>1, BelowFacts DEF Kept
<1> HIDE DEF S
<1>3. CASE frames' = s
  BY <1>2, <1>3 DEF Stack, Bounded, Split
<1>4. CASE frames' # s
  <2>1. PICK g \in S : /\ frames' = <<g>> \o s /\ Reading(g, files')
                       /\ IF g.kind = "vector" THEN ~(DepthOf(s) >= MaxDepth)
                          ELSE g.kind = "file" /\ Split(s, 0) /\ ~(Len(s) >= MaxOpen)
    BY <1>1, <1>4
  <2> DEFINE t == <<g>> \o s
  <2>2. /\ Len(s) \in Nat /\ Len(t) = Len(s) + 1 /\ t[1] = g
        /\ \A i \in 1 .. Len(s) : t[i + 1] = s[i]
    BY <1>2, StackFacts
  <2>3. PICK k \in 0 .. Len(s) : Split(s, k) /\ k <= MaxDepth /\ Len(s) - k <= MaxOpen
    BY <1>2 DEF Bounded
  <2>4. DepthOf(s) = k /\ k \in Nat /\ MaxDepth \in Nat /\ MaxOpen \in Nat
    <3>1. DepthOf(s) = k
      BY <1>2, <2>3, DepthFacts
    <3>2. QED
      BY <2>2, <3>1, BoundsAssumption
  <2>5. Bounded(t)
    <3>1. CASE g.kind = "vector"
      <4>1. k + 1 <= MaxDepth /\ k + 1 \in 0 .. Len(t) /\ Len(t) - (k + 1) <= MaxOpen
        BY <2>1, <2>2, <2>3, <2>4, <3>1
      <4>2. Split(t, k + 1)
        BY <1>2, <2>3, <3>1, SplitPush
      <4>3. QED
        BY <4>1, <4>2 DEF Bounded
    <3>2. CASE g.kind # "vector"
      <4>1. g.kind = "file" /\ Split(s, 0) /\ Len(t) - 0 <= MaxOpen /\ 0 <= MaxDepth /\ 0 \in 0 .. Len(t)
        BY <2>1, <2>2, <2>4, <3>2
      <4>2. Split(t, 0)
        BY <1>2, <4>1, SplitPush
      <4>3. QED
        BY <4>1, <4>2 DEF Bounded
    <3>3. QED
      BY <3>1, <3>2
  <2>6. \A i \in 1 .. Len(t) : Reading(t[i], files')
    <3>1. ASSUME NEW i \in 1 .. Len(t)
          PROVE  Reading(t[i], files')
      <4>1. CASE i = 1
        BY <2>1, <2>2, <4>1
      <4>2. CASE i # 1
        <5>1. i - 1 \in 1 .. Len(s) /\ (i - 1) + 1 = i
          BY <2>2, <4>2
        <5>2. t[(i - 1) + 1] = s[i - 1]
          BY <2>2, <5>1
        <5>3. QED
          BY <1>2, <5>1, <5>2
      <4>3. QED
        BY <4>1, <4>2
    <3>2. QED
      BY <3>1
  <2>7. frames' = t
    BY <2>1
  <2> HIDE DEF t
  <2>8. QED
    BY <2>5, <2>6, <2>7 DEF Stack, Bounded, Split
<1>5. QED
  BY <1>3, <1>4

(* The tapes only grow, and only until they end.                           *)
LEMMA KeptFacts ==
  ASSUME Types, Stack, NEW n, NEW t \in Tape, n \in DOMAIN files, files' = [files EXCEPT ![n] = t],
         \A f \in FileFrames(DOMAIN files) : Reads(f, files[n]) => Reads(f, t)
  PROVE  Kept
<1>1. ASSUME NEW i \in 1 .. Len(frames)
      PROVE  Reading(frames[i], files')
  <2>1. frames[i] \in Frames(DOMAIN files) /\ Reading(frames[i], files)
    BY DEF Types, Stack
  <2>2. CASE frames[i].kind = "file"
    <3>1. frames[i] \in FileFrames(DOMAIN files)
      BY <2>1, <2>2, FrameFacts DEF Frames
    <3>2. frames[i].name \in DOMAIN files
      BY <3>1 DEF FileFrames
    <3>3. files'[frames[i].name] = IF frames[i].name = n THEN t ELSE files[frames[i].name]
      BY <3>2
    <3>4. Reads(frames[i], files[frames[i].name])
      BY <2>1, <2>2 DEF Reading
    <3>5. Reads(frames[i], files'[frames[i].name])
      BY <3>1, <3>3, <3>4
    <3>6. QED
      BY <3>5 DEF Reading
  <2>3. QED
    BY <2>2 DEF Reading
<1>2. QED
  BY <1>1 DEF Kept

LEMMA KeptSame ==
  ASSUME Stack, files' = files
  PROVE  Kept
BY DEF Stack, Kept

LEMMA KeptAppend ==
  ASSUME Types, Stack, NEW n \in DOMAIN files, NEW p \in PhysicalLine, NEW e \in BOOLEAN, ~files[n].ended,
         files' = [files EXCEPT ![n] = [lines |-> Append(files[n].lines, p), ended |-> e]]
  PROVE  Kept
<1> DEFINE t == [lines |-> Append(files[n].lines, p), ended |-> e]
<1>1. files[n] \in Tape
  BY DEF Types
<1>2. /\ files[n].lines \in Seq(PhysicalLine) /\ Append(files[n].lines, p) \in Seq(PhysicalLine)
      /\ Len(Append(files[n].lines, p)) = Len(files[n].lines) + 1
  <2>1. files[n].lines \in Seq(PhysicalLine)
    BY <1>1 DEF Tape
  <2>2. QED
    BY <2>1
<1>3. t \in Tape /\ t.lines = Append(files[n].lines, p)
  BY <1>2 DEF Tape
<1>4. files' = [files EXCEPT ![n] = t]
  OBVIOUS
<1> HIDE DEF t
<1>5. ASSUME NEW f \in FileFrames(DOMAIN files), Reads(f, files[n])
      PROVE  Reads(f, t)
  <2>1. f.at \in Nat /\ Len(files[n].lines) \in Nat
    BY <1>2 DEF FileFrames
  <2>2. f.at <= Len(files[n].lines) /\ f.at <= Len(t.lines)
    BY <1>2, <1>3, <1>5, <2>1 DEF Reads
  <2>3. (~f.ready /\ (Between(f) \/ Within(f))) \/ Whole(f)
    BY <1>5 DEF Reads
  <2>4. QED
    BY <2>2, <2>3 DEF Reads
<1>6. QED
  BY <1>3, <1>4, <1>5, KeptFacts

LEMMA KeptEnded ==
  ASSUME Types, Stack, NEW n \in DOMAIN files, files' = [files EXCEPT ![n].ended = TRUE]
  PROVE  Kept
<1> DEFINE t == [files[n] EXCEPT !.ended = TRUE]
<1>1. files[n] \in Tape
  BY DEF Types
<1>2. t \in Tape /\ t.lines = files[n].lines /\ t.ended
  BY <1>1 DEF Tape
<1>3. files' = [files EXCEPT ![n] = t]
  OBVIOUS
<1> HIDE DEF t
<1>4. ASSUME NEW f \in FileFrames(DOMAIN files), Reads(f, files[n])
      PROVE  Reads(f, t)
  <2>1. /\ f.at <= Len(t.lines)
        /\ \/ ~f.ready /\ (Between(f) \/ Within(f))
           \/ Whole(f)
           \/ f.at = Len(t.lines) /\ (IF f.ready THEN f.first = f.start ELSE f.buf = << >>)
    BY <1>2, <1>4 DEF Reads
  <2>2. QED
    BY <1>2, <2>1 DEF Reads
<1>5. QED
  BY <1>2, <1>3, <1>4, KeptFacts

(* A new frame, and one whose entry is done with.                          *)
LEMMA NewFrameReads ==
  ASSUME Types, NEW n \in DOMAIN files
  PROVE  Reading(FileFrame(n), files) /\ FileFrame(n) \in Frames(DOMAIN files) /\ FileFrame(n).kind = "file"
<1>1. files[n].lines \in Seq(PhysicalLine)
  BY DEF Types, Tape
<1>2. Len(files[n].lines) \in Nat
  BY <1>1
<1> DEFINE f == FileFrame(n)
<1>3. f.kind = "file" /\ f.name = n /\ f.at = 0 /\ f.last = 0 /\ f.buf = << >> /\ ~f.ready
  BY DEF FileFrame
<1> HIDE DEF f
<1>4. Reads(f, files[n])
  BY <1>2, <1>3 DEF Reads, Between
<1>5. f \in Frames(DOMAIN files)
  BY FrameFacts DEF f, Frames
<1>6. QED
  BY <1>3, <1>4, <1>5 DEF Reading, f

LEMMA DoneReads ==
  ASSUME NEW names, NEW f \in FileFrames(names), NEW t, Reads(f, t), f.ready
  PROVE  Reads(Done(f), t)
<1> DEFINE d == Done(f)
<1>1. d.at = f.at /\ d.last = f.last /\ d.buf = << >> /\ ~d.ready
  BY DEF Done, FileFrames
<1> HIDE DEF d
<1>2. Reads(d, t)
  BY <1>1 DEF Reads, Between, Whole
<1>3. QED
  BY <1>2 DEF d

LEMMA InFileReads ==
  ASSUME Types, Stack, InFile
  PROVE  /\ frames # << >> /\ Top \in FileFrames(DOMAIN files) /\ Top.kind = "file" /\ Top.name \in DOMAIN files
         /\ Reads(Top, files[Top.name])
         /\ Top.ready => /\ Done(Top).kind = "file" /\ Done(Top) \in Frames(DOMAIN files)
                         /\ Reading(Done(Top), files)
<1>1. frames # << >> /\ Top \in FileFrames(DOMAIN files) /\ Top.kind = "file" /\ Top.name \in DOMAIN files
  <2>1. frames # << >> /\ Top \in FileFrames(DOMAIN files)
    BY Tops
  <2>2. QED
    BY <2>1 DEF FileFrames
<1>2. Reads(Top, files[Top.name])
  <2>1. 1 \in 1 .. Len(frames)
    BY <1>1 DEF Types
  <2>2. QED
    BY <1>1, <2>1 DEF Stack, Reading, Top
<1>3. ASSUME Top.ready
      PROVE  /\ Done(Top).kind = "file" /\ Done(Top) \in Frames(DOMAIN files) /\ Reading(Done(Top), files)
  <2>1. Done(Top) \in FileFrames(DOMAIN files) /\ Done(Top).name = Top.name /\ Done(Top).kind = "file"
    BY <1>1, FrameFacts
  <2>2. Reads(Done(Top), files[Top.name])
    BY <1>1, <1>2, <1>3, DoneReads
  <2>3. QED
    BY <2>1, <2>2 DEF Reading, Frames
<1>4. QED
  BY <1>1, <1>2, <1>3

(* The moves, from the stack that is left below.                           *)
LEMMA MoveBelow ==
  ASSUME Below(frames')
  PROVE  Moves
BY DEF Moves

LEMMA MoveTop ==
  ASSUME frames # << >>, NEW f \in Frames(DOMAIN files), f.kind = Top.kind, Reading(f, files'), SetTop(f)
  PROVE  Moves
<1>1. Below(frames')
  BY DEF Below, SetTop
<1>2. QED
  BY <1>1, MoveBelow

LEMMA GetLineMoves == Types /\ Stack /\ GetLine => Moves /\ Kept
<1> SUFFICES ASSUME Types, Stack, GetLine
             PROVE  Moves /\ Kept
  OBVIOUS
<1> DEFINE tape == files[Top.name]
<1>1. /\ frames # << >> /\ Top \in FileFrames(DOMAIN files) /\ Top.kind = "file" /\ Top.name \in DOMAIN files
      /\ Reads(Top, tape) /\ ~Top.ready
  BY InFileReads DEF GetLine
<1>2. tape \in Tape
  BY <1>1 DEF Types
<1>3. tape.lines \in Seq(PhysicalLine) /\ Len(tape.lines) \in Nat /\ tape.ended \in BOOLEAN
  <2>1. tape.lines \in Seq(PhysicalLine) /\ tape.ended \in BOOLEAN
    BY <1>2 DEF Tape
  <2> HIDE DEF tape
  <2>2. QED
    BY <2>1
<1>4. Top.at \in Nat
  BY <1>1 DEF FileFrames
<1>5. ASSUME NEW p \in PhysicalLine, NEW t, Top.at + 1 <= Len(t.lines), files'[Top.name] = t, Between(Top) \/ Within(Top),
             SetTop(GotPiece(Top, p))
      PROVE  Moves
  <2> DEFINE g == GotPiece(Top, p)
  <2>1. /\ g \in FileFrames(DOMAIN files) /\ g.name = Top.name /\ g.at = Top.at + 1
        /\ Whole(g) \/ (~g.ready /\ (Between(g) \/ Within(g)))
    BY <1>1, <1>5, PieceFacts
  <2>2. SetTop(g)
    BY <1>5
  <2> HIDE DEF g
  <2>3. Reads(g, t)
    BY <1>5, <2>1 DEF Reads
  <2>4. g \in Frames(DOMAIN files) /\ g.kind = Top.kind /\ Reading(g, files')
    BY <1>1, <1>5, <2>1, <2>3, FrameFacts DEF Frames, Reading
  <2>5. QED
    BY <1>1, <2>2, <2>4, MoveTop
<1>6. CASE Top.at < Len(tape.lines)
  <2>1. SetTop(GotPiece(Top, tape.lines[Top.at + 1])) /\ files' = files
    BY <1>6 DEF GetLine
  <2>2. tape.lines[Top.at + 1] \in PhysicalLine /\ Top.at + 1 <= Len(tape.lines)
    BY <1>3, <1>4, <1>6
  <2>3. Between(Top) \/ Within(Top)
    BY <1>1, <1>3, <1>4, <1>6 DEF Reads, Whole
  <2>4. files'[Top.name] = tape
    BY <2>1
  <2> HIDE DEF tape
  <2>5. Moves
    BY <1>5, <2>1, <2>2, <2>3, <2>4
  <2>6. QED
    BY <2>1, <2>5, KeptSame
<1>7. CASE ~(Top.at < Len(tape.lines))
  <2>1. ~tape.ended
    BY <1>7 DEF GetLine
  <2>2. PICK p \in Worlds[world].lines :
          /\ SetTop(GotPiece(Top, p))
          /\ files' = [files EXCEPT ![Top.name] = [lines |-> Append(tape.lines, p), ended |-> ~p.eol]]
    BY <1>7 DEF GetLine
  <2>3. p \in PhysicalLine
    BY WorldsAssumption DEF Types
  <2>4. (~p.eol) \in BOOLEAN
    BY <2>3 DEF PhysicalLine
  <2> DEFINE e == ~p.eol
             t == [lines |-> Append(tape.lines, p), ended |-> e]
  <2>5. files' = [files EXCEPT ![Top.name] = [lines |-> Append(tape.lines, p), ended |-> e]] /\ e \in BOOLEAN
    BY <2>2, <2>4
  <2>6. Between(Top) \/ Within(Top)
    BY <1>1, <2>1 DEF Reads, Whole
  <2>7. t.lines = Append(tape.lines, p) /\ Len(Append(tape.lines, p)) = Len(tape.lines) + 1
    BY <1>3, <2>3
  <2>8. Top.at + 1 <= Len(t.lines)
    <3>1. Top.at <= Len(tape.lines)
      BY <1>1 DEF Reads
    <3> HIDE DEF t, tape
    <3>2. QED
      BY <1>3, <1>4, <2>7, <3>1
  <2>9. files'[Top.name] = t
    BY <1>1, <2>5
  <2> HIDE DEF e
  <2>10. Kept
    BY <1>1, <2>1, <2>3, <2>5, KeptAppend
  <2>11. SetTop(GotPiece(Top, p))
    BY <2>2
  <2> HIDE DEF t
  <2>12. Moves
    BY <1>5, <2>3, <2>6, <2>8, <2>9, <2>11
  <2>13. QED
    BY <2>10, <2>12
<1>8. QED
  BY <1>6, <1>7

LEMMA EndOfFileMoves == Types /\ Stack /\ EndOfFile => Moves /\ Kept
<1> SUFFICES ASSUME Types, Stack, EndOfFile
             PROVE  Moves /\ Kept
  OBVIOUS
<1> DEFINE tape == files[Top.name]
<1>1. /\ frames # << >> /\ Top \in FileFrames(DOMAIN files) /\ Top.kind = "file" /\ Top.name \in DOMAIN files
      /\ Reads(Top, tape) /\ ~Top.ready /\ Top.at = Len(tape.lines)
  BY InFileReads DEF EndOfFile
<1>2. files' = [files EXCEPT ![Top.name].ended = TRUE]
  BY DEF EndOfFile
<1>3. Kept
  BY <1>1, <1>2, KeptEnded
<1>4. CASE Fresh(Top)
  <2>1. frames' = Tail(frames)
    BY <1>4 DEF EndOfFile
  <2>2. QED
    BY <1>1, <1>3, <2>1, MoveBelow DEF Below
<1>5. CASE ~Fresh(Top)
  <2> DEFINE g == [Top EXCEPT !.ready = TRUE]
  <2>1. SetTop(g)
    BY <1>5 DEF EndOfFile
  <2>2. /\ g \in FileFrames(DOMAIN files) /\ g.name = Top.name /\ g.at = Top.at /\ g.first = Top.first /\ g.start = Top.start
        /\ g.ready
    BY <1>1 DEF FileFrames
  <2>3. Top.first = Top.start
    BY <1>1, <1>5 DEF Reads, Fresh, Between, Within, Whole
  <2>4. files'[Top.name].lines = tape.lines /\ files'[Top.name].ended
    BY <1>1, <1>2 DEF Types, Tape
  <2> HIDE DEF g
  <2>5. Reads(g, files'[Top.name])
    <3>1. g.at <= Len(files'[Top.name].lines) /\ g.at = Len(files'[Top.name].lines)
      <4>1. Top.at \in Nat /\ Top.at = Len(tape.lines)
        BY <1>1 DEF FileFrames
      <4>2. QED
        BY <2>2, <2>4, <4>1
    <3>2. QED
      BY <2>2, <2>3, <2>4, <3>1 DEF Reads
  <2>6. g \in Frames(DOMAIN files) /\ g.kind = Top.kind /\ Reading(g, files')
    BY <1>1, <2>2, <2>5, FrameFacts DEF Frames, Reading
  <2>7. QED
    BY <1>1, <1>3, <2>1, <2>6, MoveTop
<1>6. QED
  BY <1>4, <1>5

LEMMA MoveVector ==
  ASSUME NEW s, Below(s), NEW v \in VectorFrames, ~(DepthOf(s) >= MaxDepth), frames' = <<v>> \o s
  PROVE  Moves
<1>1. v \in Frames(DOMAIN files) /\ v.kind = "vector" /\ Reading(v, files')
  BY FrameFacts DEF Frames, Reading
<1>2. QED
  BY <1>1 DEF Moves

LEMMA NoDepth ==
  ASSUME NEW S, NEW s \in Seq(S), Split(s, 0)
  PROVE  ~(DepthOf(s) >= MaxDepth)
<1>1. DepthOf(s) = 0
  BY DepthFacts
<1>2. QED
  BY <1>1, BoundsAssumption

LEMMA EntryMoves ==
  ASSUME Types, Stack, InFile, Top.ready, files' = files
  PROVE  LET s == <<Done(Top)>> \o Tail(frames)
         IN /\ Below(s) /\ s \in Seq(Frames(DOMAIN files)) /\ Split(s, 0) /\ ~(DepthOf(s) >= MaxDepth)
            /\ frames # << >> /\ Top.kind = "file"
<1> DEFINE s == <<Done(Top)>> \o Tail(frames)
<1>1. /\ frames # << >> /\ Top.kind = "file" /\ Done(Top).kind = "file" /\ Done(Top) \in Frames(DOMAIN files)
      /\ Reading(Done(Top), files')
  BY InFileReads
<1>2. Below(s)
  BY <1>1 DEF Below
<1> HIDE DEF s
<1>3. s \in Seq(Frames(DOMAIN files)) /\ Split(s, 0)
  BY <1>1, <1>2, KeptSame, BelowFacts DEF Kept
<1>4. ~(DepthOf(s) >= MaxDepth)
  BY <1>3, NoDepth
<1>5. QED
  BY <1>1, <1>2, <1>3, <1>4 DEF s

LEMMA IncludeMoves == Types /\ Stack /\ Include => Moves
<1> SUFFICES ASSUME Types, Stack, Include
             PROVE  Moves
  OBVIOUS
<1> DEFINE S == Frames(DOMAIN files)
           name == Included(Top.name, Top.buf[2])
           opened == name \in DOMAIN files /\ OpenFiles < MaxOpen
           s == <<Done(Top)>> \o Tail(frames)
<1>1. InFile /\ Top.ready /\ files' = files
  BY DEF Include
<1>2. Below(s) /\ s \in Seq(S) /\ Split(s, 0) /\ frames # << >> /\ Top.kind = "file"
  BY <1>1, EntryMoves
<1>3. frames' = s \/ (opened /\ frames' = <<FileFrame(name)>> \o s)
  BY IncludeStack
<1>4. opened => ~(Len(s) >= MaxOpen)
  <2>1. frames \in Seq(S) /\ Done(Top) \in S
    BY <1>1, InFileReads DEF Types
  <2>2. Len(s) = Len(frames) /\ Len(frames) \in Nat
    <3> HIDE DEF S
    <3>1. QED
      BY <1>2, <2>1, TopFacts
  <2>3. PICK k \in 0 .. Len(frames) : Split(frames, k)
    BY DEF Stack, Bounded
  <2>4. k = 0
    BY <1>2, <2>1, <2>3, SplitPop DEF Top
  <2>5. OpenFiles = Len(frames) - 0
    BY <2>1, <2>3, <2>4, DepthFacts DEF OpenFiles
  <2> HIDE DEF s, S
  <2>6. QED
    BY <2>2, <2>5, BoundsAssumption
<1>5. CASE frames' = s
  BY <1>2, <1>5, MoveBelow
<1>6. CASE frames' # s
  <2> DEFINE g == FileFrame(name)
  <2>1. opened /\ frames' = <<g>> \o s
    BY <1>3, <1>6
  <2>2. g \in S /\ Reading(g, files') /\ g.kind = "file"
    <3>1. name \in DOMAIN files
      BY <2>1
    <3> HIDE DEF name
    <3>2. QED
      BY <1>1, <3>1, NewFrameReads
  <2>3. ~(Len(s) >= MaxOpen)
    BY <1>4, <2>1
  <2> HIDE DEF g, s, opened
  <2>4. QED
    BY <1>2, <2>1, <2>2, <2>3 DEF Moves
<1>7. QED
  BY <1>5, <1>6

LEMMA OptionsEntryMoves == Types /\ Stack /\ OptionsEntry => Moves
<1> SUFFICES ASSUME Types, Stack, OptionsEntry
             PROVE  Moves
  OBVIOUS
<1> DEFINE s == <<Done(Top)>> \o Tail(frames)
           words == Argument(Top.buf)
<1>1. InFile /\ Top.ready /\ files' = files /\ WellFormed(Top.buf) /\ Handle(words, s)
  BY DEF OptionsEntry
<1>2. Below(s) /\ s \in Seq(Frames(DOMAIN files)) /\ ~(DepthOf(s) >= MaxDepth)
  BY <1>1, EntryMoves
<1>3. words \in Seq(Strings)
  BY <1>1, Arguments, InFileReads DEF FileFrames
<1>4. VectorFrames \subseteq Frames(DOMAIN files) /\ phase \in Phases
  BY DEF Frames, Types
<1> HIDE DEF s, words
<1>5. frames' = s \/ \E v \in VectorFrames : frames' = <<v>> \o s
  BY <1>1, <1>2, <1>3, <1>4, HandleFacts
<1>6. QED
  BY <1>2, <1>5, MoveBelow, MoveVector

LEMMA VectorMoves ==
  ASSUME Types, InVector, Top.options # << >>
  PROVE  LET rest == [Top EXCEPT !.options = Tail(@)]
         IN /\ frames # << >> /\ rest \in Frames(DOMAIN files) /\ rest.kind = Top.kind /\ Reading(rest, files')
            /\ Below(<<rest>> \o Tail(frames))
<1> DEFINE rest == [Top EXCEPT !.options = Tail(@)]
<1>1. frames # << >> /\ Top \in VectorFrames
  BY Tops
<1>2. rest \in VectorFrames
  BY <1>1, VectorFacts
<1> HIDE DEF rest
<1>3. rest \in Frames(DOMAIN files) /\ rest.kind = Top.kind /\ Reading(rest, files')
  BY <1>1, <1>2, FrameFacts DEF Frames, Reading
<1>4. Below(<<rest>> \o Tail(frames))
  BY <1>1, <1>3 DEF Below
<1>5. QED
  BY <1>1, <1>3, <1>4 DEF rest

LEMMA UserOptionMoves == Types /\ Stack /\ UserOption => Moves
<1> SUFFICES ASSUME Types, Stack, UserOption
             PROVE  Moves
  OBVIOUS
<1> DEFINE shortcut == Head(Top.options).arg
           rest == [Top EXCEPT !.options = Tail(@)]
           stack == <<rest>> \o Tail(frames)
<1>1. Below(stack)
  BY VectorMoves DEF UserOption
<1>2. CASE shortcut \in DOMAIN job.user_options
  <2> DEFINE words == job.user_options[shortcut]
             pushed == Push(words, stack)
  <2>1. frames' = pushed.frames
    BY <1>2 DEF UserOption
  <2>2. words \in Seq(Strings)
    BY <1>2 DEF Types, JobOK
  <2> HIDE DEF words, stack
  <2>3. pushed.frames = stack \/ \E v \in VectorFrames : pushed.frames = <<v>> \o stack /\ ~(DepthOf(stack) >= MaxDepth)
    BY <2>2, PushFacts
  <2> HIDE DEF pushed
  <2>4. QED
    BY <1>1, <2>1, <2>3, MoveBelow, MoveVector
<1>3. CASE shortcut \notin DOMAIN job.user_options
  <2>1. frames' = frames
    BY <1>3 DEF UserOption
  <2>2. QED
    BY <2>1, MoveBelow DEF Below
<1>4. QED
  BY <1>2, <1>3

LEMMA SameMoves ==
  ASSUME frames' = frames
  PROVE  Moves
<1>1. Below(frames')
  BY DEF Below
<1>2. QED
  BY <1>1, MoveBelow

LEMMA StackInit == Init => Stack
<1> SUFFICES ASSUME Init
             PROVE  Stack
  OBVIOUS
<1>1. frames = << >>
  BY DEF Init
<1>2. Len(frames) = 0
  BY <1>1
<1>3. Split(frames, 0)
  BY <1>2 DEF Split
<1>4. QED
  BY <1>2, <1>3, BoundsAssumption DEF Stack, Bounded

LEMMA StackStep ==
  ASSUME Types, Stack, [Next]_vars
  PROVE  Stack'
<1>1. CASE ReadSource
  <2> DEFINE name == Sources[stage]
  <2>1. /\ frames = << >> /\ files' = files
        /\ frames' = << >> \/ (name \in DOMAIN files /\ frames' = <<FileFrame(name)>>)
    BY <1>1 DEF ReadSource
  <2> HIDE DEF name
  <2>2. CASE frames' = << >>
    BY <2>1, <2>2, SameMoves, KeptSame, MovesKeep
  <2>3. CASE name \in DOMAIN files /\ frames' = <<FileFrame(name)>>
    <3> DEFINE g == FileFrame(name)
    <3>1. g \in Frames(DOMAIN files) /\ Reading(g, files') /\ g.kind = "file"
      BY <2>1, <2>3, NewFrameReads
    <3> HIDE DEF g
    <3>2. frames' = <<g>> \o frames
      <4>1. <<g>> \o << >> = <<g>>
        <5>1. <<g>> \in Seq({g})
          OBVIOUS
        <5>2. QED
          BY <5>1, ConcatEmptySeq
      <4>2. QED
        BY <2>1, <2>3, <4>1 DEF g
    <3>3. Split(frames, 0) /\ ~(Len(frames) >= MaxOpen)
      <4>1. Len(frames) = 0
        BY <2>1
      <4>2. QED
        BY <4>1, BoundsAssumption DEF Split
    <3>4. Below(frames)
      BY DEF Below
    <3>5. Moves
      BY <3>1, <3>2, <3>3, <3>4 DEF Moves
    <3>6. QED
      BY <2>1, <3>5, KeptSame, MovesKeep
  <2>4. QED
    BY <2>1, <2>2, <2>3
<1>2. CASE GetLine
  BY <1>2, GetLineMoves, MovesKeep
<1>3. CASE EndOfFile
  BY <1>3, EndOfFileMoves, MovesKeep
<1>4. CASE BlankEntry
  <2>1. InFile /\ Top.ready /\ files' = files /\ SetTop(Done(Top))
    BY <1>4 DEF BlankEntry
  <2>2. Moves
    BY <2>1, EntryMoves, MoveBelow DEF SetTop
  <2>3. QED
    BY <2>1, <2>2, KeptSame, MovesKeep
<1>5. CASE PlainEntry
  <2>1. InFile /\ Top.ready /\ files' = files /\ SetTop(Done(Top))
    BY <1>5 DEF PlainEntry
  <2>2. Moves
    BY <2>1, EntryMoves, MoveBelow DEF SetTop
  <2>3. QED
    BY <2>1, <2>2, KeptSame, MovesKeep
<1>6. CASE Include
  <2>1. files' = files
    BY <1>6 DEF Include
  <2>2. QED
    BY <1>6, <2>1, IncludeMoves, KeptSame, MovesKeep
<1>7. CASE OptionsEntry
  <2>1. files' = files
    BY <1>7 DEF OptionsEntry
  <2>2. QED
    BY <1>7, <2>1, OptionsEntryMoves, KeptSame, MovesKeep
<1>8. CASE TakeOption
  <2>1. InVector /\ Top.options # << >> /\ files' = files /\ SetTop([Top EXCEPT !.options = Tail(@)])
    BY <1>8 DEF TakeOption
  <2>2. Moves
    BY <2>1, VectorMoves, MoveTop
  <2>3. QED
    BY <2>1, <2>2, KeptSame, MovesKeep
<1>9. CASE UserOption
  <2>1. files' = files
    BY <1>9 DEF UserOption
  <2>2. QED
    BY <1>9, <2>1, UserOptionMoves, KeptSame, MovesKeep
<1>10. CASE EndVector
  <2>1. frames # << >> /\ frames' = Tail(frames) /\ files' = files
    BY <1>10 DEF EndVector, InVector
  <2>2. Moves
    BY <2>1, MoveBelow DEF Below
  <2>3. QED
    BY <2>1, <2>2, KeptSame, MovesKeep
<1>11. CASE CommandLine
  <2>1. frames = << >> /\ files' = files /\ Handle(argv, << >>)
    BY <1>11 DEF CommandLine
  <2>2. argv \in Seq(Strings) /\ phase \in Phases /\ VectorFrames \subseteq Frames(DOMAIN files)
        /\ frames \in Seq(Frames(DOMAIN files))
    BY DEF Types, Frames
  <2>3. frames' = frames \/ \E v \in VectorFrames : frames' = <<v>> \o frames
    <3>1. Handle(argv, frames)
      BY <2>1
    <3>2. QED
      BY <2>2, <3>1, HandleFacts
  <2>4. Split(frames, 0)
    <3>1. Len(frames) = 0
      BY <2>1
    <3>2. QED
      BY <3>1 DEF Split
  <2>5. Below(frames) /\ ~(DepthOf(frames) >= MaxDepth)
    BY <2>2, <2>4, NoDepth DEF Below
  <2>6. Moves
    BY <2>3, <2>5, SameMoves, MoveVector
  <2>7. QED
    BY <2>1, <2>6, KeptSame, MovesKeep
<1>12. CASE WrongEntry \/ Argue \/ Finalize \/ Task \/ Finished \/ UNCHANGED vars
  <2>1. frames' = frames /\ files' = files
    BY <1>12 DEF WrongEntry, Argue, Finalize, Task, Finished, vars
  <2>2. QED
    BY <2>1, SameMoves, KeptSame, MovesKeep
<1>13. QED
  BY <1>1, <1>2, <1>3, <1>4, <1>5, <1>6, <1>7, <1>8, <1>9, <1>10, <1>11, <1>12 DEF Next

LEMMA StackAlways == Spec => [](Types /\ Stack)
<1>1. Init => Types /\ Stack
  BY TypesInit, StackInit
<1>2. Types /\ Stack /\ [Next]_vars => (Types /\ Stack)'
  BY TypesStep, StackStep
<1>3. QED
  BY <1>1, <1>2, PTL DEF Spec

(* The number in a message about an entry is that of its first physical    *)
(* line, in a file that is included from anywhere and read again, with a   *)
(* last line that is continued, or not ended (getshstr in getshline.c,     *)
(* error_at_line in confg.gperf).                                          *)
THEOREM FirstLineAlways == Spec => []FirstLineIsFirst
<1>1. Types /\ Stack => FirstLineIsFirst
  <2> SUFFICES ASSUME Types, Stack, InFile, Top.ready
               PROVE  Top.first = Top.start
    BY DEF FirstLineIsFirst
  <2>1. Reads(Top, files[Top.name])
    BY InFileReads
  <2>2. QED
    BY <2>1 DEF Reads, Whole
<1>2. QED
  BY <1>1, StackAlways, PTL

-----------------------------------------------------------------------------
(* What the options that were applied say of the job.                      *)
Governs ==
  /\ applied \in Seq(Right) /\ \A i \in 1 .. Len(applied) : applied[i].name # "="
  /\ \A i \in 1 .. Len(applied) :
       ~job.failed /\ applied[i].name \in ScaleNames /\ (\A k \in i + 1 .. Len(applied) : applied[k].name \notin ScaleNames)
       => Scaled(job, applied[i])
  /\ (\A i \in 1 .. Len(applied) : applied[i].name # "S") => Agrees(job)

LEMMA SameScaled ==
  ASSUME NEW j, NEW k, SameScale(j, k), NEW o, Scaled(j, o)
  PROVE  Scaled(k, o)
BY DEF SameScale, Scaled

(* An entry of a file keeps what the options say.                          *)
LEMMA EnteredGoverns ==
  ASSUME Governs, applied' = applied, Entered(job, job'), ~job.failed
  PROVE  Governs'
<1>1. SameScale(job, job') /\ (Agrees(job) => Agrees(job'))
  BY DEF Entered
<1>2. ASSUME NEW i \in 1 .. Len(applied), applied[i].name \in ScaleNames,
             \A k \in i + 1 .. Len(applied) : applied[k].name \notin ScaleNames
      PROVE  Scaled(job', applied[i])
  <2>1. Scaled(job, applied[i])
    BY <1>2 DEF Governs
  <2>2. QED
    BY <1>1, <2>1, SameScaled
<1>3. (\A i \in 1 .. Len(applied) : applied[i].name # "S") => Agrees(job')
  BY <1>1 DEF Governs
<1>4. QED
  BY <1>2, <1>3 DEF Governs

(* An option governs what it is about, and keeps the rest.                 *)
LEMMA AppliedGoverns ==
  ASSUME Governs, NEW o \in Right, o.name # "=", applied' = Append(applied, o), Applied(job, o, job'), ~job.failed
  PROVE  Governs'
<1> DEFINE n == Len(applied)
<1>1. /\ applied \in Seq(Right) /\ n \in Nat /\ applied' \in Seq(Right) /\ Len(applied') = n + 1 /\ applied'[n + 1] = o
      /\ \A i \in 1 .. n : applied'[i] = applied[i]
  <2>1. applied \in Seq(Right)
    BY DEF Governs
  <2>2. QED
    BY <2>1, AppendProperties
<1> HIDE DEF n
<1>2. \A i \in 1 .. n + 1 : i \in 1 .. n \/ i = n + 1
  BY <1>1
<1>3. \A i \in 1 .. n + 1 : applied'[i].name # "="
  BY <1>1, <1>2 DEF Governs, n
<1>4. ASSUME NEW i \in 1 .. n + 1, ~job'.failed, applied'[i].name \in ScaleNames,
             \A k \in i + 1 .. n + 1 : applied'[k].name \notin ScaleNames
      PROVE  Scaled(job', applied'[i])
  <2>1. IF o.name \in ScaleNames THEN Scaled(job', o) ELSE SameScale(job, job')
    BY <1>4 DEF Applied
  <2>2. CASE i = n + 1
    BY <1>1, <1>4, <2>1, <2>2
  <2>3. CASE i \in 1 .. n
    <3>1. o.name \notin ScaleNames
      <4>1. n + 1 \in i + 1 .. n + 1
        BY <1>1, <2>3
      <4>2. QED
        BY <1>1, <1>4, <4>1
    <3>2. \A k \in i + 1 .. n : applied[k].name \notin ScaleNames
      <4>1. ASSUME NEW k \in i + 1 .. n
            PROVE  applied[k].name \notin ScaleNames
        <5>1. k \in 1 .. n /\ k \in i + 1 .. n + 1
          BY <1>1, <2>3
        <5>2. QED
          BY <1>1, <1>4, <5>1
      <4>2. QED
        BY <4>1
    <3>3. applied'[i] = applied[i]
      BY <1>1, <2>3
    <3>4. Scaled(job, applied[i])
      BY <1>4, <2>3, <3>2, <3>3 DEF Governs, n
    <3>5. QED
      BY <2>1, <3>1, <3>3, <3>4, SameScaled
  <2>4. QED
    BY <1>2, <2>2, <2>3
<1>5. ASSUME \A i \in 1 .. n + 1 : applied'[i].name # "S"
      PROVE  Agrees(job')
  <2>1. o.name # "S"
    <3>1. n + 1 \in 1 .. n + 1
      BY <1>1
    <3>2. QED
      BY <1>1, <1>5, <3>1
  <2>2. \A i \in 1 .. n : applied[i].name # "S"
    <3>1. \A i \in 1 .. n : i \in 1 .. n + 1
      BY <1>1
    <3>2. QED
      BY <1>1, <1>5, <3>1
  <2>3. Agrees(job)
    BY <2>2 DEF Governs, n
  <2>4. QED
    BY <2>1, <2>3 DEF Applied
<1>6. QED
  BY <1>1, <1>3, <1>4, <1>5 DEF Governs

LEMMA GovernsInit == Init => Governs
<1> SUFFICES ASSUME Init
             PROVE  Governs
  OBVIOUS
<1>1. applied = << >> /\ job = NewJob(Worlds[world].env)
  BY DEF Init
<1>2. Agrees(job)
  BY <1>1, NewJobOK
<1>3. applied \in Seq(Right) /\ Len(applied) = 0
  BY <1>1
<1>4. \A i \in 1 .. Len(applied) : FALSE
  BY <1>3
<1>5. QED
  BY <1>2, <1>3, <1>4 DEF Governs

LEMMA GovernsStep ==
  ASSUME Types, Governs, [Next]_vars
  PROVE  Governs'
<1>1. CASE PlainEntry
  <2>1. Entered(job, job') /\ applied' = applied /\ ~job.failed
    BY <1>1, PlainEntryTypes DEF PlainEntry, InFile, Types
  <2>2. QED
    BY <2>1, EnteredGoverns
<1>2. CASE Finalize
  <2>1. Entered(job, job') /\ applied' = applied /\ ~job.failed
    BY <1>2, FinalizeTypes DEF Finalize, Types
  <2>2. QED
    BY <2>1, EnteredGoverns
<1>3. CASE TakeOption
  <2> DEFINE o == Head(Top.options)
  <2>1. o \in Right /\ o.name # "=" /\ applied' = Append(applied, o) /\ Applied(job, o, job')
    BY <1>3, TakeOptionTypes
  <2>2. ~job.failed
    BY <1>3 DEF TakeOption, InVector, Types
  <2> HIDE DEF o
  <2>3. QED
    BY <2>1, <2>2, AppliedGoverns
<1>4. CASE ReadSource \/ GetLine \/ EndOfFile \/ BlankEntry \/ WrongEntry \/ Include \/ OptionsEntry \/ UserOption
           \/ EndVector \/ Argue \/ CommandLine \/ Task \/ Finished \/ UNCHANGED vars
  <2>1. applied' = applied /\ job' = job
    BY <1>4 DEF ReadSource, GetLine, EndOfFile, BlankEntry, WrongEntry, Include, OptionsEntry, UserOption, EndVector,
                Argue, CommandLine, Task, Finished, vars
  <2>2. QED
    BY <2>1 DEF Governs
<1>5. QED
  BY <1>1, <1>2, <1>3, <1>4 DEF Next

LEMMA GovernsAlways == Spec => [](Types /\ Stack /\ Governs)
<1>1. Init => Types /\ Stack /\ Governs
  BY TypesInit, StackInit, GovernsInit
<1>2. Types /\ Stack /\ Governs /\ [Next]_vars => (Types /\ Stack /\ Governs)'
  BY TypesStep, StackStep, GovernsStep
<1>3. QED
  BY <1>1, <1>2, PTL DEF Spec

(* The stack of files and of vectors is as it should be, the files that    *)
(* are read again are read where they are written, and no option gives the *)
(* job a count below one (a2_read_config in confg.gperf, a2ps_getopt_long  *)
(* and a2ps_handle_options in options.c).                                  *)
THEOREM ConfigTypeAlways == Spec => []ConfigTypeOK
<1>1. Types /\ Stack /\ Governs => ConfigTypeOK
  <2> SUFFICES ASSUME Types, Stack, Governs
               PROVE  ConfigTypeOK
    OBVIOUS
  <2> DEFINE S == Frames(DOMAIN files)
  <2>1. frames \in Seq(S) /\ Len(frames) \in Nat /\ DOMAIN frames = 1 .. Len(frames)
    BY DEF Types
  <2>2. PICK k \in 0 .. Len(frames) : Split(frames, k) /\ k <= MaxDepth /\ Len(frames) - k <= MaxOpen
    BY DEF Stack, Bounded
  <2> HIDE DEF S
  <2>3. OpenFiles <= MaxOpen /\ DepthOf(frames) <= MaxDepth
    BY <2>1, <2>2, DepthFacts DEF OpenFiles
  <2>4. \A i \in 1 .. Len(frames) : \A m \in 1 .. Len(frames) : i < m /\ frames[i].kind = "file" => frames[m].kind = "file"
    BY <2>1, <2>2 DEF Split
  <2>5. \A i \in 1 .. Len(frames) : frames[i].kind = "file" => frames[i].at <= Len(files[frames[i].name].lines)
    BY DEF Stack, Reading, Reads
  <2>6. \A i \in DOMAIN applied : applied[i].name \notin {"=", "?"}
    <3>1. applied \in Seq(Right) /\ \A i \in 1 .. Len(applied) : applied[i].name # "="
      BY DEF Governs
    <3>2. QED
      BY <3>1 DEF Right
  <2>7. job.columns >= 1 /\ job.rows >= 1 /\ job.copies >= 1 /\ job.tabsize >= 1
    BY DEF Types, JobOK
  <2>8. phase \in Phases /\ stage \in 0 .. 4 + Len(Slots)
    BY DEF Types
  <2>9. QED
    BY <2>1, <2>3, <2>4, <2>5, <2>6, <2>7, <2>8 DEF ConfigTypeOK
<1>2. QED
  BY <1>1, GovernsAlways, PTL

(* The last option about the scale is the one that is followed, at most    *)
(* one scale is requested, and the page device agrees with the sides,      *)
(* whatever files, shortcuts and lines of options say before it            *)
(* (a2ps_handle_options in options.c).                                     *)
THEOREM OptionsGovernAlways == Spec => []OptionsGovern
<1>1. Types /\ Governs => OptionsGovern
  <2> SUFFICES ASSUME Types, Governs
               PROVE  OptionsGovern
    OBVIOUS
  <2>1. applied \in Seq(Right) /\ DOMAIN applied = 1 .. Len(applied)
    BY DEF Governs
  <2>2. job.columns_requested = 0 \/ job.lines_requested = 0
    BY DEF Types, JobOK
  <2>3. LastScaleGoverns
    BY <2>1, <2>2 DEF LastScaleGoverns, Governs
  <2>4. DuplexAgrees
    BY <2>1 DEF DuplexAgrees, Governs, Agrees
  <2>5. QED
    BY <2>3, <2>4 DEF OptionsGovern
<1>2. QED
  BY <1>1, GovernsAlways, PTL

-----------------------------------------------------------------------------
(* The geometry: the quotients, when the conversion is one that C defines. *)
LEMMA Quotient ==
  ASSUME NEW a \in Int, NEW b \in Nat \ {0}, a > -b
  PROVE  Truncated(a, b) \in Nat /\ (Truncated(a, b) # 0 => b * Truncated(a, b) <= a)
<1>1. CASE a >= 0
  <2>1. Truncated(a, b) = a \div b
    BY <1>1 DEF Truncated
  <2>2. a \div b \in Nat /\ b * (a \div b) <= a
    BY <1>1
  <2>3. QED
    BY <2>1, <2>2
<1>2. CASE ~(a >= 0)
  <2>1. (-a) \div b = 0
    BY <1>2
  <2>2. Truncated(a, b) = (-((-a) \div b)) % WordMod
    BY <1>2 DEF Truncated
  <2>3. (-0) % WordMod = 0
    BY WordModAssumption
  <2>4. QED
    BY <2>1, <2>2, <2>3
<1>3. QED
  BY <1>1, <1>2

LEMMA Products ==
  ASSUME NEW a \in Nat \ {0}, NEW b \in Nat \ {0}
  PROVE  a * b \in Nat \ {0}
OBVIOUS

LEMMA ColumnsFit ==
  ASSUME NEW w \in Nat \ {0}, NEW n \in Nat \ {0}, NEW d \in Nat \ {0}, NEW c \in Nat \ {0}, NEW q,
         q = Truncated(50 * w * d - 42 * n * c, 30 * n * c), q # 0, 50 * w * d - 42 * n * c > -(30 * n * c)
  PROVE  n * (30 * q + 42) * c <= 50 * w * d
<1> DEFINE a == 50 * w * d - 42 * n * c
           b == 30 * n * c
<1>1. b \in Nat \ {0} /\ a \in Int
  <2>1. n * c \in Nat \ {0}
    BY Products
  <2>2. 30 * n * c = 30 * (n * c)
    OBVIOUS
  <2>3. QED
    BY <2>1, <2>2
<1>2. q \in Nat /\ b * q <= a
  <2>1. a > -b /\ q = Truncated(a, b)
    OBVIOUS
  <2> HIDE DEF a, b
  <2>2. QED
    BY <1>1, <2>1, Quotient
<1>3. n * (30 * q + 42) * c = 30 * n * c * q + 42 * n * c
  BY <1>2
<1>4. QED
  BY <1>2, <1>3

LEMMA LinesFit ==
  ASSUME NEW h \in Nat \ {0}, NEW n \in Nat \ {0}, NEW d \in Nat \ {0}, NEW r \in Nat \ {0}, NEW q,
         q = Truncated(10 * h * d - 7 * n * r, 10 * n * r), q # 0
  PROVE  n * (10 * q + 7) * r <= 10 * h * d
<1> DEFINE a == 10 * h * d - 7 * n * r
           b == 10 * n * r
<1>1. b \in Nat \ {0} /\ a \in Int /\ a > -b
  <2>1. n * r \in Nat \ {0} /\ h * d \in Nat \ {0}
    BY Products
  <2>2. 10 * n * r = 10 * (n * r) /\ 7 * n * r = 7 * (n * r) /\ 10 * h * d = 10 * (h * d)
    OBVIOUS
  <2>3. QED
    BY <2>1, <2>2
<1>2. q \in Nat /\ b * q <= a
  <2>1. q = Truncated(a, b)
    OBVIOUS
  <2> HIDE DEF a, b
  <2>2. QED
    BY <1>1, <2>1, Quotient
<1>3. n * (10 * q + 7) * r = 10 * n * r * q + 7 * n * r
  BY <1>2
<1>4. QED
  BY <1>2, <1>3

(* What the task computes, when it prints.                                 *)
TheFont == Font(job, TheRoom(job))
Printed ==
  /\ phase \in {"ready", "printing"} => GetMedium(job, SystemPaper) # NULL
  /\ phase = "printing" => status = Status(job, TheRoom(job), TheFont) /\ TheFont[1] # 0 /\ ~TooBig(status)

LEMMA PrintedInit == Init => Printed
BY DEF Init, Printed

LEMMA PrintedStep ==
  ASSUME Types, Printed, [Next]_vars
  PROVE  Printed'
<1>1. CASE Finalize
  <2>1. phase' # "printing"
    BY <1>1 DEF Finalize
  <2>2. ASSUME phase' = "ready"
        PROVE  GetMedium(job, SystemPaper) # NULL /\ job' = [job EXCEPT !.path = CommonFinalize(job)]
    BY <1>1, <2>2 DEF Finalize
  <2>3. GetMedium([job EXCEPT !.path = CommonFinalize(job)], SystemPaper) = GetMedium(job, SystemPaper)
    <3> DEFINE k == [job EXCEPT !.path = CommonFinalize(job)]
    <3>1. k.media = job.media /\ k.medium_request = job.medium_request
      BY DEF Types, JobOK, Tracked
    <3> HIDE DEF k
    <3>2. GetMedium(k, SystemPaper) = GetMedium(job, SystemPaper)
      BY <3>1 DEF GetMedium
    <3>3. QED
      BY <3>2 DEF k
  <2>4. QED
    BY <2>1, <2>2, <2>3 DEF Printed
<1>2. CASE Task
  <2>1. job' = job /\ phase = "ready" /\ phase' # "ready"
    BY <1>2 DEF Task
  <2>2. ASSUME phase' = "printing"
        PROVE  status' = Status(job, TheRoom(job), TheFont) /\ TheFont[1] # 0 /\ ~TooBig(status')
    BY <1>2, <2>2 DEF Task, TheFont
  <2>3. GetMedium(job, SystemPaper) # NULL
    BY <2>1 DEF Printed
  <2>4. TheFont' = TheFont /\ TheRoom(job)' = TheRoom(job) /\ Status(job, TheRoom(job), TheFont)' = Status(job, TheRoom(job), TheFont)
    BY <2>1 DEF TheFont
  <2>5. QED
    BY <2>1, <2>2, <2>3, <2>4 DEF Printed
<1>3. CASE ReadSource \/ GetLine \/ EndOfFile \/ BlankEntry \/ WrongEntry \/ PlainEntry \/ Include \/ OptionsEntry
           \/ TakeOption \/ UserOption \/ EndVector \/ Argue \/ CommandLine
  <2>1. phase' \notin {"ready", "printing"}
    <3>1. CASE UserOption
      <4>1. Types /\ UserOption => phase' \in {"reading", "failed", "crashed"}
        BY UserOptionPhase
      <4>2. QED
        BY <3>1, <4>1
    <3>2. CASE OptionsEntry \/ CommandLine
      BY <3>2 DEF OptionsEntry, CommandLine, InFile, Handle
    <3>3. CASE ReadSource \/ GetLine \/ EndOfFile \/ BlankEntry \/ WrongEntry \/ PlainEntry \/ Include
               \/ TakeOption \/ EndVector \/ Argue
      BY <3>3 DEF ReadSource, GetLine, EndOfFile, BlankEntry, WrongEntry, PlainEntry, Include, TakeOption, EndVector, Argue,
                  InFile, InVector
    <3>4. QED
      BY <1>3, <3>1, <3>2, <3>3
  <2>2. QED
    BY <2>1 DEF Printed
<1>4. CASE Finished \/ UNCHANGED vars
  <2>1. job' = job /\ phase' = phase /\ status' = status
    BY <1>4 DEF Finished, vars
  <2>2. TheFont' = TheFont /\ TheRoom(job)' = TheRoom(job) /\ Status(job, TheRoom(job), TheFont)' = Status(job, TheRoom(job), TheFont)
    BY <2>1 DEF TheFont
  <2>3. QED
    BY <2>1, <2>2 DEF Printed
<1>5. QED
  BY <1>1, <1>2, <1>3, <1>4 DEF Next

(* What the geometry is computed from.                                     *)
LEMMA MediumFacts ==
  ASSUME Types, Printed, phase = "printing"
  PROVE  LET m == GetMedium(job, SystemPaper)
         IN /\ m.w \in Int /\ m.h \in Int /\ m.llx \in Int /\ m.lly \in Int /\ m.urx \in Int /\ m.ury \in Int
            /\ job.margin \in Nat
<1> DEFINE key == IF job.medium_request = "libpaper" THEN SystemPaper ELSE job.medium_request
<1>1. GetMedium(job, SystemPaper) = Lookup(job.media, key) /\ GetMedium(job, SystemPaper) # NULL
  BY DEF GetMedium, Printed
<1>2. key \in DOMAIN job.media /\ GetMedium(job, SystemPaper) = job.media[key]
  BY <1>1 DEF Lookup
<1> HIDE DEF key
<1>3. GetMedium(job, SystemPaper) \in Medium /\ job.margin \in Nat
  BY <1>2 DEF Types, JobOK
<1>4. \A m \in Medium : /\ m.w \in Word /\ m.h \in Word /\ m.llx \in Word /\ m.lly \in Word /\ m.urx \in Word
                         /\ m.ury \in Word
  BY DEF Medium
<1>5. QED
  BY <1>3, <1>4, WordFacts

LEMMA HeadingFacts == HeadingsHeight(job) \in Nat
<1> DEFINE a == IF Shown(job, {"header"}) THEN 1 ELSE 0
           b == IF Shown(job, {"footer", "left_footer", "right_footer"}) THEN 1 ELSE 0
<1>1. a \in Nat /\ b \in Nat
  OBVIOUS
<1>2. HeadingsHeight(job) = 12 * (a + b)
  BY DEF HeadingsHeight, HEADERS_H
<1> HIDE DEF a, b
<1>3. QED
  BY <1>1, <1>2

LEMMA BoxFits ==
  ASSUME Types, Printed
  PROVE  BoxPrintable
<1> DEFINE m == GetMedium(job, SystemPaper)
           area == Area(job, m)
           box == Box(job, m)
           hh == HeadingsHeight(job)
<1> SUFFICES ASSUME phase = "printing", Fits(area)
             PROVE  /\ box.urx - box.llx = area.w /\ box.ury - box.lly = area.h + hh
                    /\ \A x \in {box.llx, box.urx}, y \in {box.lly, box.ury}, front \in BOOLEAN :
                         LET p == OnPaper(job, m, front, x, y)
                         IN p[1] \in m.llx .. m.urx /\ p[2] \in m.lly .. m.ury
  BY DEF BoxPrintable
<1>1. /\ m.w \in Int /\ m.h \in Int /\ m.llx \in Int /\ m.lly \in Int /\ m.urx \in Int /\ m.ury \in Int
      /\ job.margin \in Nat /\ hh \in Nat
  BY MediumFacts, HeadingFacts
<1>2. area = IF job.orientation = "portrait" THEN [w |-> m.urx - m.llx - job.margin, h |-> m.ury - m.lly - hh]
             ELSE [w |-> m.ury - m.lly, h |-> m.urx - m.llx - job.margin - hh]
  BY DEF Area
<1>3. box = IF job.orientation = "portrait" THEN [llx |-> m.llx, urx |-> m.urx - job.margin, lly |-> m.lly, ury |-> m.ury]
            ELSE [llx |-> m.lly, urx |-> m.ury, lly |-> m.w - m.urx + job.margin, ury |-> m.w - m.llx]
  BY DEF Box
<1>4. area.w >= 0 /\ area.h >= 0
  BY DEF Fits
<1> DEFINE shift(front) == IF front THEN job.margin ELSE 0
<1>5. \A x, y : \A front \in BOOLEAN :
        OnPaper(job, m, front, x, y) = IF job.orientation = "portrait" THEN <<x + shift(front), y>>
                                       ELSE <<m.w - y + shift(front), x>>
  BY DEF OnPaper
<1>6. \A front \in BOOLEAN : shift(front) \in Nat /\ shift(front) <= job.margin
  BY <1>1
<1> HIDE DEF area, box, m, hh, shift
<1>7. CASE job.orientation = "portrait"
  <2>1. area.w = m.urx - m.llx - job.margin /\ area.h = m.ury - m.lly - hh
    BY <1>2, <1>7
  <2>2. box.llx = m.llx /\ box.urx = m.urx - job.margin /\ box.lly = m.lly /\ box.ury = m.ury
    BY <1>3, <1>7
  <2>3. ASSUME NEW x \in {box.llx, box.urx}, NEW y \in {box.lly, box.ury}, NEW front \in BOOLEAN
        PROVE  LET p == OnPaper(job, m, front, x, y)
               IN p[1] \in m.llx .. m.urx /\ p[2] \in m.lly .. m.ury
    <3>1. OnPaper(job, m, front, x, y) = <<x + shift(front), y>>
      BY <1>5, <1>7
    <3>2. x + shift(front) \in m.llx .. m.urx /\ y \in m.lly .. m.ury
      BY <1>1, <1>4, <1>6, <2>1, <2>2
    <3>3. QED
      BY <3>1, <3>2
  <2>4. box.urx - box.llx = area.w /\ box.ury - box.lly = area.h + hh
    BY <1>1, <2>1, <2>2
  <2>5. QED
    BY <2>3, <2>4
<1>8. CASE job.orientation # "portrait"
  <2>1. area.w = m.ury - m.lly /\ area.h = m.urx - m.llx - job.margin - hh
    BY <1>2, <1>8
  <2>2. box.llx = m.lly /\ box.urx = m.ury /\ box.lly = m.w - m.urx + job.margin /\ box.ury = m.w - m.llx
    BY <1>3, <1>8
  <2>3. ASSUME NEW x \in {box.llx, box.urx}, NEW y \in {box.lly, box.ury}, NEW front \in BOOLEAN
        PROVE  LET p == OnPaper(job, m, front, x, y)
               IN p[1] \in m.llx .. m.urx /\ p[2] \in m.lly .. m.ury
    <3>1. OnPaper(job, m, front, x, y) = <<m.w - y + shift(front), x>>
      BY <1>5, <1>8
    <3>2. m.w - y + shift(front) \in m.llx .. m.urx /\ x \in m.lly .. m.ury
      BY <1>1, <1>4, <1>6, <2>1, <2>2
    <3>3. QED
      BY <3>1, <3>2
  <2>4. box.urx - box.llx = area.w /\ box.ury - box.lly = area.h + hh
    BY <1>1, <2>1, <2>2
  <2>5. QED
    BY <2>3, <2>4
<1>9. QED
  BY <1>7, <1>8

(* -l and -L give what they ask for.                                       *)
LEMMA RequestsHeld ==
  ASSUME Types, Printed
  PROVE  AsRequested
<1> SUFFICES ASSUME phase = "printing"
             PROVE  /\ job.columns_requested > 0 => status.width = job.columns_requested
                    /\ job.lines_requested > 0 => status.linesperpage = job.lines_requested
  BY DEF AsRequested
<1> DEFINE c == job.columns_requested
           l == job.lines_requested
<1>1. c \in Word /\ l \in Word /\ (c = 0 \/ l = 0)
  BY DEF Types, JobOK
<1>2. Prefix(job) \in Nat /\ c \in Nat /\ (c > 0 \/ c = 0)
  <2>1. Prefix(job) \in Nat
    BY DEF Prefix
  <2> HIDE DEF c
  <2>2. QED
    BY <1>1, <2>1, WordFacts
<1>3. status = Status(job, TheRoom(job), TheFont)
  BY DEF Printed
<1>4. ASSUME c > 0
      PROVE  status.width = c
  <2> DEFINE x == Status(job, TheRoom(job), TheFont).columnsperline
             y == x - Prefix(job)
  <2>1. status.width = y % WordMod
    BY <1>3 DEF Status
  <2>2. x = c + Prefix(job)
    BY <1>4 DEF Status
  <2> HIDE DEF x, c
  <2>3. y = c /\ c \in 0 .. WordMod - 1
    BY <1>1, <1>2, <2>2 DEF Word
  <2> HIDE DEF y
  <2>4. y % WordMod = c
    BY <2>3, WordModAssumption
  <2>5. QED
    BY <2>1, <2>4
<1>5. c = 0 /\ l > 0 => status.linesperpage = l
  BY <1>3 DEF Status
<1> HIDE DEF c, l
<1>6. (c > 0 => status.width = c) /\ (l > 0 => status.linesperpage = l)
  BY <1>1, <1>2, <1>4, <1>5, WordFacts
<1>7. QED
  BY <1>6 DEF c, l

LEMMA FontFacts ==
  ASSUME Types, NEW room, room.w \in Nat \ {0}, room.h \in Nat \ {0}
  PROVE  LET font == Font(job, room)
             c == job.columns_requested
             l == job.lines_requested
         IN /\ font[1] \in Nat \ {0} /\ font[2] \in Nat \ {0}
            /\ c # 0 => font[1] = 50 * room.w /\ font[2] = job.columns * (30 * (c + Prefix(job)) + 42)
            /\ c = 0 /\ l # 0 => font[1] = 10 * room.h /\ font[2] = job.rows * (10 * l + 7)
<1> DEFINE c == job.columns_requested
           l == job.lines_requested
           s == job.fontsize
           font == Font(job, room)
           dc == job.columns * (30 * (c + Prefix(job)) + 42)
           dl == job.rows * (10 * l + 7)
<1>1. c \in Nat /\ l \in Nat /\ s \in Nat /\ job.columns \in Nat \ {0} /\ job.rows \in Nat \ {0} /\ Prefix(job) \in Nat
  <2>1. Prefix(job) \in Nat
    BY DEF Prefix
  <2>2. QED
    BY <2>1, WordFacts DEF Types, JobOK
<1>2. dc \in Nat \ {0} /\ dl \in Nat \ {0}
  <2>1. 30 * (c + Prefix(job)) + 42 \in Nat \ {0} /\ 10 * l + 7 \in Nat \ {0}
    BY <1>1
  <2>2. QED
    BY <1>1, <2>1, Products
<1>3. 50 * room.w \in Nat \ {0} /\ 10 * room.h \in Nat \ {0}
  OBVIOUS
<1>4. CASE c # 0
  <2>1. font = <<50 * room.w, dc>>
    BY <1>4 DEF Font
  <2> HIDE DEF font, dc
  <2>2. font[1] = 50 * room.w /\ font[2] = dc
    BY <2>1
  <2>3. QED
    BY <1>2, <1>3, <1>4, <2>2 DEF font, dc
<1>5. CASE c = 0 /\ l # 0
  <2>1. font = <<10 * room.h, dl>>
    BY <1>5 DEF Font
  <2> HIDE DEF font, dl
  <2>2. font[1] = 10 * room.h /\ font[2] = dl
    BY <2>1
  <2>3. QED
    BY <1>2, <1>3, <1>5, <2>2 DEF font, dl
<1>6. CASE c = 0 /\ l = 0
  <2>1. font \in {<<s, 1>>, <<34, 5>>, <<32, 5>>, <<9, 1>>} /\ (font = <<s, 1>> => s # 0)
    <3>1. CASE s # 0
      BY <1>6, <3>1 DEF Font
    <3>2. CASE s = 0
      <4>1. font \in {<<34, 5>>, <<32, 5>>, <<9, 1>>}
        BY <1>6, <3>2 DEF Font
      <4> HIDE DEF font
      <4>2. font # <<s, 1>>
        BY <3>2, <4>1
      <4>3. QED
        BY <4>1, <4>2
    <3>3. QED
      BY <3>1, <3>2
  <2> HIDE DEF font
  <2>2. font[1] \in Nat \ {0} /\ font[2] \in Nat \ {0}
    BY <1>1, <2>1
  <2>3. QED
    BY <1>6, <2>2 DEF font
<1>7. QED
  BY <1>4, <1>5, <1>6

(* The text of the page has room.                                          *)
LEMMA TextHasRoom ==
  ASSUME Types, Printed
  PROVE  TextInRoom
<1> DEFINE area == Area(job, GetMedium(job, SystemPaper))
           room == TheRoom(job)
           font == Font(job, room)
<1> SUFFICES ASSUME phase = "printing", Fits(area), room.w > 0, room.h > 0, Converts(job, room, font)
             PROVE  TextFits(job, room, font, status)
  BY DEF TextInRoom
<1> DEFINE w == room.w
           h == room.h
           n == font[1]
           d == font[2]
           c == job.columns
           r == job.rows
           cr == job.columns_requested
           lr == job.lines_requested
           pre == Prefix(job)
           lines == Truncated(10 * h * d - 7 * n * r, 10 * n * r)
           columns == Truncated(50 * w * d - 42 * n * c, 30 * n * c)
           lpp == status.linesperpage
           cpl == status.columnsperline
<1>1. w \in Nat \ {0} /\ h \in Nat \ {0}
  <2>1. w \in Int /\ h \in Int
    <3>1. area.w \in Int /\ area.h \in Int
      BY MediumFacts, HeadingFacts DEF Area
    <3>2. job.rows \in Nat /\ TitleBar(job) \in Nat
      BY DEF TitleBar, Types, JobOK
    <3> HIDE DEF area
    <3>3. Room(job, area).w \in Int /\ Room(job, area).h \in Int
      BY <3>1, <3>2, WordModAssumption DEF Room, PAGE_MARGIN
    <3>4. QED
      BY <3>3 DEF area, TheRoom
  <2>2. QED
    BY <2>1
<1>2. /\ n \in Nat \ {0} /\ d \in Nat \ {0}
      /\ cr # 0 => n = 50 * w /\ d = c * (30 * (cr + pre) + 42)
      /\ cr = 0 /\ lr # 0 => n = 10 * h /\ d = r * (10 * lr + 7)
  <2> HIDE DEF room
  <2>1. QED
    BY <1>1, FontFacts
<1>3. c \in Nat \ {0} /\ r \in Nat \ {0} /\ cr \in Nat /\ lr \in Nat /\ pre \in Nat
  <2>1. Prefix(job) \in Nat
    BY DEF Prefix
  <2>2. QED
    BY <2>1, WordFacts DEF Types, JobOK
<1>4. /\ lpp = IF cr = 0 /\ lr > 0 THEN lr ELSE lines
      /\ cpl = IF cr > 0 THEN cr + pre ELSE columns
  BY DEF Printed, TheFont, Status
<1>5. lpp # 0 /\ cpl # 0
  BY DEF Printed, TooBig
<1>6. 50 * w * d - 42 * n * c > -(30 * n * c)
  BY DEF Converts
<1>7. n * (30 * cpl + 42) * c <= 50 * w * d /\ n * (10 * lpp + 7) * r <= 10 * h * d
  <2> HIDE DEF w, h, n, d, c, r, cr, lr, pre, lpp, cpl
  <2>1. n * (30 * cpl + 42) * c <= 50 * w * d
    <3>1. CASE cr > 0
      <4>1. cpl = cr + pre /\ n = 50 * w /\ d = c * (30 * (cr + pre) + 42)
        BY <1>2, <1>3, <1>4, <3>1
      <4>2. n * (30 * cpl + 42) * c = 50 * w * (c * (30 * (cr + pre) + 42))
        BY <1>1, <1>3, <4>1
      <4>3. n * (30 * cpl + 42) * c = 50 * w * d
        BY <4>1, <4>2
      <4>4. 50 * w * d \in Nat
        BY <1>1, <1>2
      <4>5. QED
        BY <4>3, <4>4
    <3>2. CASE ~(cr > 0)
      <4>1. cpl = Truncated(50 * w * d - 42 * n * c, 30 * n * c)
        BY <1>4, <3>2
      <4>2. QED
        BY <1>1, <1>2, <1>3, <1>5, <1>6, <4>1, ColumnsFit
    <3>3. QED
      BY <3>1, <3>2
  <2>2. n * (10 * lpp + 7) * r <= 10 * h * d
    <3>1. CASE cr = 0 /\ lr > 0
      <4>1. lpp = lr /\ n = 10 * h /\ d = r * (10 * lr + 7)
        BY <1>2, <1>3, <1>4, <3>1
      <4>2. n * (10 * lpp + 7) * r = 10 * h * (r * (10 * lr + 7))
        BY <1>1, <1>3, <4>1
      <4>3. n * (10 * lpp + 7) * r = 10 * h * d
        BY <4>1, <4>2
      <4>4. 10 * h * d \in Nat
        BY <1>1, <1>2
      <4>5. QED
        BY <4>3, <4>4
    <3>2. CASE ~(cr = 0 /\ lr > 0)
      <4>1. lpp = Truncated(10 * h * d - 7 * n * r, 10 * n * r)
        BY <1>4, <3>2
      <4>2. QED
        BY <1>1, <1>2, <1>3, <1>5, <4>1, LinesFit
    <3>3. QED
      BY <3>1, <3>2
  <2>3. QED
    BY <2>1, <2>2
<1>8. QED
  BY <1>7 DEF TextFits

-----------------------------------------------------------------------------
(* The positions of the virtual pages: the blocks that are joined, prefix  *)
(* by prefix.                                                              *)
Joins(g, s) == g[0] = << >> /\ \A i \in 1 .. Len(s) : g[i] = g[i - 1] \o s[i]

LEMMA JoinsIn ==
  ASSUME NEW S, NEW s \in Seq(Seq(S)), NEW g, Joins(g, s)
  PROVE  \A i \in 0 .. Len(s) : g[i] \in Seq(S)
<1> DEFINE n == Len(s)
           T == {i \in 0 .. n : g[i] \in Seq(S)}
<1>1. n \in Nat /\ \A i \in 1 .. n : s[i] \in Seq(S)
  OBVIOUS
<1>2. 0 \in T
  <2>1. 0 \in 0 .. n /\ << >> \in Seq(S) /\ g[0] = << >>
    BY <1>1 DEF Joins
  <2>2. QED
    BY <2>1
<1>3. ASSUME NEW i \in 1 .. n, i - 1 \in T
      PROVE  i \in T
  <2>1. g[i] = g[i - 1] \o s[i] /\ g[i - 1] \in Seq(S) /\ s[i] \in Seq(S)
    BY <1>1, <1>3 DEF Joins
  <2>2. g[i] \in Seq(S)
    BY <2>1, ConcatProperties
  <2>3. QED
    BY <2>2
<1> HIDE DEF n, T
<1>4. \A i \in 0 .. n : i \in T
  BY <1>1, <1>2, <1>3, Induction
<1>5. QED
  BY <1>4 DEF n, T

LEMMA Joined ==
  ASSUME NEW S, NEW s \in Seq(Seq(S))
  PROVE  \E g : Joins(g, s) /\ g[Len(s)] = FlattenSeq(s)
<1> DEFINE n == Len(s)
           Is(f, m) == f = [i \in 1 .. m |-> IF i = 1 THEN s[i] ELSE f[i - 1] \o s[i]]
           T == {m \in 0 .. n : \E f : Is(f, m)}
<1>0. n \in Nat /\ \A m \in 0 .. n : (\E f : Is(f, m)) => m \in T
  <2>1. n \in Nat
    OBVIOUS
  <2>2. \A m \in 0 .. n : (\E f : Is(f, m)) => m \in T
    <3> HIDE DEF Is, n
    <3>1. QED
      OBVIOUS
  <2>3. QED
    BY <2>1, <2>2
<1>1. 0 \in T
  <2> DEFINE f == [i \in 1 .. 0 |-> s[i]]
  <2>1. Is(f, 0)
    OBVIOUS
  <2>2. 0 \in 0 .. n
    BY <1>0
  <2> HIDE DEF Is, f, T
  <2>3. QED
    BY <1>0, <2>1, <2>2
<1>2. ASSUME NEW m \in 1 .. n, m - 1 \in T
      PROVE  m \in T
  <2>1. PICK f : Is(f, m - 1)
    BY <1>2
  <2> DEFINE h == [i \in 1 .. m |-> IF i = m THEN (IF m = 1 THEN s[m] ELSE f[m - 1] \o s[m]) ELSE f[i]]
  <2>2. \A i \in 1 .. m : h[i] = IF i = 1 THEN s[i] ELSE h[i - 1] \o s[i]
    <3>1. \A i \in 1 .. m - 1 : f[i] = IF i = 1 THEN s[i] ELSE f[i - 1] \o s[i]
      BY <2>1
    <3>2. \A i \in 1 .. m : i = m \/ (i \in 1 .. m - 1 /\ (i = 1 \/ i - 1 \in 1 .. m - 1) /\ i # m /\ i - 1 # m)
      OBVIOUS
    <3>3. m - 1 # m /\ m \in 1 .. m /\ (m # 1 => m - 1 \in 1 .. m)
      OBVIOUS
    <3>4. \A i \in 1 .. m - 1 : i \in 1 .. m
      OBVIOUS
    <3>5. QED
      BY <3>1, <3>2, <3>3, <3>4
  <2>3. Is(h, m)
    <3>1. h = [i \in 1 .. m |-> h[i]]
      OBVIOUS
    <3> HIDE DEF h
    <3>2. QED
      BY <2>2, <3>1
  <2>4. m \in 0 .. n
    OBVIOUS
  <2> HIDE DEF Is, h, T
  <2>5. QED
    BY <1>0, <2>3, <2>4
<1>3. n \in T
  <2> HIDE DEF T, n
  <2>1. \A i \in 0 .. n : i \in T
    BY <1>0, <1>1, <1>2, Induction
  <2>2. QED
    BY <1>0, <2>1
<1> DEFINE f == CHOOSE f : Is(f, n)
           g == [i \in 0 .. n |-> IF i = 0 THEN << >> ELSE f[i]]
<1>4. Is(f, n)
  <2>1. \E h : Is(h, n)
    BY <1>3
  <2> HIDE DEF Is
  <2>2. QED
    BY <2>1
<1>5. FlattenSeq(s) = IF n = 0 THEN s ELSE f[n]
  BY DEF FlattenSeq
<1> HIDE DEF f
<1>6. \A i \in 1 .. n : f[i] = IF i = 1 THEN s[i] ELSE f[i - 1] \o s[i]
  BY <1>4
<1>7. \A i \in 1 .. n : s[i] \in Seq(S)
  OBVIOUS
<1>8. Joins(g, s)
  <2>1. g[0] = << >> /\ \A i \in 1 .. n : g[i] = f[i]
    BY <1>0
  <2>2. ASSUME NEW i \in 1 .. n
        PROVE  g[i] = g[i - 1] \o s[i]
    <3>1. CASE i = 1
      <4>1. g[i] = s[i] /\ g[i - 1] = << >>
        BY <1>6, <2>1, <2>2, <3>1
      <4>2. << >> \o s[i] = s[i]
        BY <1>7, <2>2, ConcatEmptySeq
      <4>3. QED
        BY <4>1, <4>2
    <3>2. CASE i # 1
      <4>1. i - 1 \in 1 .. n
        BY <2>2, <3>2
      <4> HIDE DEF g
      <4>2. QED
        BY <1>6, <2>1, <2>2, <3>2, <4>1
    <3>3. QED
      BY <3>1, <3>2
  <2> HIDE DEF g
  <2>3. QED
    BY <2>1, <2>2 DEF Joins
<1>9. g[n] = FlattenSeq(s)
  <2>1. CASE n = 0
    <3>1. s = << >>
      BY <2>1
    <3>2. QED
      BY <1>5, <2>1, <3>1
  <2>2. CASE n # 0
    BY <1>0, <1>5, <2>2
  <2>3. QED
    BY <2>1, <2>2
<1> HIDE DEF g
<1>10. QED
  BY <1>8, <1>9

LEMMA MulLess ==
  ASSUME NEW a \in Nat, NEW b \in Nat, NEW m \in Nat, a < b
  PROVE  a * m + m <= b * m
<1>1. PICK e \in Nat : b = a + 1 + e
  <2>1. b - a - 1 \in Nat /\ b = a + 1 + (b - a - 1)
    OBVIOUS
  <2>2. QED
    BY <2>1
<1>2. b * m = a * m + m + e * m /\ e * m \in Nat /\ a * m \in Nat
  BY <1>1
<1>3. QED
  BY <1>2

(* Blocks of one length, one after the other.                              *)
LEMMA Flattened ==
  ASSUME NEW S, NEW s \in Seq(Seq(S)), NEW m \in Nat, \A i \in 1 .. Len(s) : Len(s[i]) = m
  PROVE  /\ FlattenSeq(s) \in Seq(S) /\ Len(FlattenSeq(s)) = Len(s) * m
         /\ \A i \in 1 .. Len(s), k \in 1 .. m : FlattenSeq(s)[(i - 1) * m + k] = s[i][k]
<1> DEFINE n == Len(s)
<1>1. PICK g : Joins(g, s) /\ g[n] = FlattenSeq(s)
  BY Joined
<1>2. \A i \in 0 .. n : g[i] \in Seq(S)
  BY <1>1, JoinsIn
<1>3. n \in Nat /\ \A i \in 1 .. n : s[i] \in Seq(S)
  OBVIOUS
<1> DEFINE Good(j) == /\ Len(g[j]) = j * m
                      /\ \A i \in 1 .. j : \A k \in 1 .. m : g[j][(i - 1) * m + k] = s[i][k]
           T == {j \in 0 .. n : Good(j)}
<1>4. 0 \in T
  <2>1. g[0] = << >>
    BY <1>1 DEF Joins
  <2>2. Len(g[0]) = 0 /\ 0 * m = 0 /\ 0 \in 0 .. n
    BY <1>3, <2>1
  <2>3. QED
    BY <2>2
<1>5. ASSUME NEW j \in 1 .. n, j - 1 \in T
      PROVE  j \in T
  <2>1. g[j] = g[j - 1] \o s[j] /\ g[j - 1] \in Seq(S) /\ s[j] \in Seq(S) /\ j - 1 \in 0 .. n
    <3>1. g[j] = g[j - 1] \o s[j]
      BY <1>1 DEF Joins
    <3> HIDE DEF n
    <3>2. QED
      BY <1>2, <1>3, <3>1
  <2>2. Good(j - 1) /\ j \in Nat /\ j - 1 \in Nat
    BY <1>3, <1>5
  <2>3. Len(s[j]) = m
    OBVIOUS
  <2> DEFINE p == (j - 1) * m
             a == g[j - 1]
             b == s[j]
  <2>4. p \in Nat /\ Len(a) = p /\ Len(b) = m
    BY <2>2, <2>3
  <2>5. p + m = j * m
    BY <2>2
  <2> HIDE DEF Good, T, n, p
  <2>6. /\ Len(g[j]) = p + m
        /\ \A x \in 1 .. p : g[j][x] = a[x]
        /\ \A k \in 1 .. m : g[j][p + k] = b[k]
    <3>1. g[j] = a \o b /\ a \in Seq(S) /\ b \in Seq(S)
      BY <2>1
    <3> HIDE DEF a, b
    <3>2. Len(a \o b) = p + m
      BY <2>4, <3>1, ConcatProperties
    <3>3. \A x \in 1 .. p + m : (a \o b)[x] = IF x <= p THEN a[x] ELSE b[x - p]
      BY <2>4, <3>1, ConcatProperties
    <3>4. ASSUME NEW k \in 1 .. m
          PROVE  (a \o b)[p + k] = b[k]
      <4> DEFINE q == p + k
      <4>1. q \in 1 .. p + m /\ ~(q <= p) /\ q - p = k
        BY <2>4
      <4> HIDE DEF q
      <4>2. (a \o b)[q] = b[q - p]
        BY <3>3, <4>1
      <4>3. (a \o b)[q] = b[k]
        BY <4>1, <4>2
      <4>4. QED
        BY <4>3 DEF q
    <3>5. ASSUME NEW x \in 1 .. p
          PROVE  (a \o b)[x] = a[x]
      <4>1. x \in 1 .. p + m /\ x <= p
        BY <2>4
      <4>2. QED
        BY <3>3, <4>1
    <3>6. QED
      BY <3>1, <3>2, <3>4, <3>5
  <2>7. ASSUME NEW i \in 1 .. j, NEW k \in 1 .. m
        PROVE  g[j][(i - 1) * m + k] = s[i][k]
    <3>1. CASE i = j
      BY <2>6, <3>1 DEF p
    <3>2. CASE i # j
      <4>1. i \in 1 .. j - 1 /\ i - 1 \in Nat /\ i - 1 < j - 1
        BY <2>2, <3>2
      <4>2. (i - 1) * m + m <= p
        BY <2>2, <4>1, MulLess DEF p
      <4>3. (i - 1) * m \in Nat
        BY <4>1
      <4> DEFINE q == (i - 1) * m
      <4>4. q + k \in 1 .. p
        <5>1. q \in Nat /\ q + m <= p
          BY <4>2, <4>3
        <5> HIDE DEF q
        <5>2. QED
          BY <2>4, <5>1
      <4>5. g[j][q + k] = a[q + k]
        BY <2>6, <4>4
      <4>6. a[q + k] = s[i][k]
        BY <2>2, <4>1 DEF Good
      <4>7. QED
        BY <4>5, <4>6
    <3>3. QED
      BY <3>1, <3>2
  <2>8. Good(j)
    BY <2>5, <2>6, <2>7 DEF Good
  <2>9. j \in 0 .. n
    BY <1>3
  <2>10. QED
    BY <2>8, <2>9 DEF T
<1>6. n \in T
  <2> HIDE DEF T, n
  <2>1. \A i \in 0 .. n : i \in T
    BY <1>3, <1>4, <1>5, Induction
  <2>2. QED
    BY <1>3, <2>1
<1>7. Good(n) /\ n \in 0 .. n
  BY <1>6
<1> HIDE DEF n
<1>8. FlattenSeq(s) \in Seq(S)
  BY <1>1, <1>2, <1>7
<1>9. QED
  BY <1>1, <1>7, <1>8 DEF n

(* The stack of the printer, operand by operand.                           *)
LEMMA RunChain ==
  ASSUME NEW program, Len(program) \in Nat, DOMAIN program = 1 .. Len(program)
  PROVE  \E g : /\ g[0] = << >> /\ g[Len(program)] = Run(program)
               /\ \A k \in 1 .. Len(program) : g[k] = Calculate(g[k - 1], program[k])
<1> DEFINE n == Len(program)
           Next0(it, t) == IF t = {} THEN << >> ELSE Calculate(it[t \ {Max(t)}], program[Max(t)])
           Good(it, k) == /\ it = [t \in SUBSET (1 .. n) |-> it[t]]
                          /\ \A t \in SUBSET (1 .. n) : t \subseteq 1 .. k => it[t] = Next0(it, t)
           T == {k \in 0 .. n : \E it : Good(it, k)}
<1>1. 0 \in T
  <2> DEFINE it == [t \in SUBSET (1 .. n) |-> << >>]
  <2>1. \A t \in SUBSET (1 .. n) : t \subseteq 1 .. 0 => t = {}
    OBVIOUS
  <2>2. Good(it, 0)
    BY <2>1
  <2> HIDE DEF Good
  <2>3. (\E ju : Good(ju, 0)) /\ 0 \in 0 .. n
    BY <2>2
  <2>4. QED
    BY <2>3
<1>2. ASSUME NEW k \in 1 .. n, k - 1 \in T
      PROVE  k \in T
  <2>1. PICK it : Good(it, k - 1)
    BY <1>2
  <2> DEFINE ju == [t \in SUBSET (1 .. n) |-> IF k \in t THEN Next0(it, t) ELSE it[t]]
  <2>2. ASSUME NEW t \in SUBSET (1 .. n), t \subseteq 1 .. k
        PROVE  ju[t] = Next0(ju, t)
    <3>1. CASE k \in t
      <4>1. Max(t) = k
        <5>1. \A x \in t : k >= x
          BY <2>2
        <5>2. \A y \in t : (\A x \in t : y >= x) => y = k
          BY <3>1, <5>1, <2>2
        <5>3. QED
          BY <3>1, <5>1, <5>2 DEF Max
      <4>2. t \ {k} \in SUBSET (1 .. n) /\ k \notin t \ {k}
        BY <2>2
      <4>3. ju[t \ {k}] = it[t \ {k}]
        BY <4>2
      <4>4. QED
        BY <3>1, <4>1, <4>3
    <3>2. CASE k \notin t
      <4>1. t \subseteq 1 .. k - 1
        BY <3>2, <2>2
      <4>2. it[t] = Next0(it, t) /\ ju[t] = it[t]
        BY <2>1, <3>2, <4>1
      <4>3. t # {} => k \notin t \ {Max(t)} /\ t \ {Max(t)} \in SUBSET (1 .. n)
        BY <3>2
      <4>4. t # {} => ju[t \ {Max(t)}] = it[t \ {Max(t)}]
        BY <4>3
      <4>5. QED
        BY <4>2, <4>4
    <3>3. QED
      BY <3>1, <3>2
  <2>3. ju = [t \in SUBSET (1 .. n) |-> ju[t]]
    OBVIOUS
  <2> HIDE DEF ju
  <2>4. Good(ju, k)
    BY <2>2, <2>3
  <2> HIDE DEF Good
  <2>5. (\E v : Good(v, k)) /\ k \in 0 .. n
    BY <2>4
  <2>6. QED
    BY <2>5
<1>3. n \in T
  <2>1. n \in Nat /\ n \in 0 .. n
    OBVIOUS
  <2> HIDE DEF T
  <2>2. \A i \in 0 .. n : i \in T
    BY <1>1, <1>2, <2>1, Induction
  <2>3. QED
    BY <2>1, <2>2
<1>4. PICK it : Good(it, n)
  BY <1>3
<1> DEFINE Eq(u) == u = [t \in SUBSET (DOMAIN program) |-> IF t = {} THEN << >> ELSE LET x == Max(t) IN Calculate(u[t \ {x}], program[x])]
           f == CHOOSE u : Eq(u)
           g == [k \in 0 .. n |-> f[1 .. k]]
<1>5. Eq(it)
  BY <1>4
<1>6. Eq(f)
  <2> HIDE DEF Eq
  <2>1. QED
    BY <1>5
<1>7. Run(program) = f[DOMAIN program]
  BY DEF Run, FoldLeft, MapThenFoldSet
<1> HIDE DEF f
<1>8. \A k \in 0 .. n : 1 .. k \in SUBSET (DOMAIN program)
  OBVIOUS
<1>9. f[1 .. 0] = << >>
  <2>1. 1 .. 0 = {} /\ 1 .. 0 \in SUBSET (DOMAIN program)
    OBVIOUS
  <2>2. QED
    BY <1>6, <2>1
<1>10. ASSUME NEW k \in 1 .. n
       PROVE  f[1 .. k] = Calculate(f[1 .. k - 1], program[k])
  <2>1. Max(1 .. k) = k /\ (1 .. k) \ {k} = 1 .. k - 1 /\ 1 .. k # {} /\ 1 .. k \in SUBSET (DOMAIN program)
    BY UpTo, <1>8
  <2>2. QED
    BY <1>6, <2>1
<1>11. g[0] = << >> /\ \A k \in 1 .. n : g[k] = Calculate(g[k - 1], program[k])
  <2>1. \A k \in 1 .. n : k \in 0 .. n /\ k - 1 \in 0 .. n
    OBVIOUS
  <2>2. QED
    BY <1>9, <1>10, <2>1
<1>12. g[n] = Run(program)
  <2>1. n \in 0 .. n /\ 1 .. n = DOMAIN program
    OBVIOUS
  <2>2. g[n] = f[1 .. n]
    BY <2>1
  <2>3. QED
    BY <1>7, <2>1, <2>2
<1>13. QED
  <2> HIDE DEF g
  <2>1. QED
    BY <1>11, <1>12

Operands == [dup : BOOLEAN, add : Int]
LEMMA OperandFacts ==
  ASSUME NEW n \in Int
  PROVE  /\ Operand(n) \in Operands /\ ~Operand(n).dup /\ Operand(n).add = n
         /\ Dup(n) \in Operands /\ Dup(n).dup /\ Dup(n).add = n
BY DEF Operand, Dup, Operands

(* Each number is the operand, or is computed from the one below.          *)
LEMMA RunFacts ==
  ASSUME NEW program \in Seq(Operands), \A i \in 1 .. Len(program) : program[i].dup => i # 1
  PROVE  LET r == Run(program)
         IN /\ Len(r) = Len(program)
            /\ \A i \in 1 .. Len(program) : r[i] = (IF program[i].dup THEN r[i - 1] ELSE 0) + program[i].add
<1> DEFINE n == Len(program)
<1>1. n \in Nat /\ DOMAIN program = 1 .. n /\ \A i \in 1 .. n : program[i] \in Operands
  OBVIOUS
<1>2. PICK g : /\ g[0] = << >> /\ g[n] = Run(program)
               /\ \A k \in 1 .. n : g[k] = Calculate(g[k - 1], program[k])
  BY <1>1, RunChain
<1> DEFINE Good(j) == /\ g[j] \in Seq(Int) /\ Len(g[j]) = j
                      /\ \A i \in 1 .. j : g[j][i] = (IF program[i].dup THEN g[j][i - 1] ELSE 0) + program[i].add
           T == {j \in 0 .. n : Good(j)}
<1>3. 0 \in T
  <2>1. g[0] \in Seq(Int) /\ Len(g[0]) = 0 /\ 0 \in 0 .. n
    BY <1>1, <1>2
  <2>2. QED
    BY <2>1
<1>4. ASSUME NEW j \in 1 .. n, j - 1 \in T
      PROVE  j \in T
  <2> DEFINE s == g[j - 1]
             op == program[j]
             x == (IF op.dup THEN s[j - 1] ELSE 0) + op.add
  <2>1. Good(j - 1) /\ j \in Nat /\ j - 1 \in Nat /\ j \in 0 .. n /\ (op.dup => j # 1)
    <3>1. op.dup => j # 1
      OBVIOUS
    <3>2. Good(j - 1)
      BY <1>4
    <3>3. j \in Nat /\ j - 1 \in Nat /\ j \in 0 .. n
      BY <1>1
    <3>4. QED
      BY <3>1, <3>2, <3>3
  <2>2. s \in Seq(Int) /\ Len(s) = j - 1
    BY <2>1
  <2>3. op.dup \in BOOLEAN /\ op.add \in Int
    BY <1>1 DEF Operands
  <2>4. x \in Int
    <3>1. CASE op.dup
      <4>1. j - 1 \in 1 .. j - 1
        BY <2>1, <3>1
      <4> HIDE DEF op, s
      <4>2. s[j - 1] \in Int
        BY <2>2, <4>1
      <4>3. QED
        BY <2>3, <3>1, <4>2
    <3>2. CASE ~op.dup
      BY <2>3, <3>2
    <3>3. QED
      BY <3>1, <3>2
  <2>5. g[j] = Append(s, x)
    <3>1. g[j] = Calculate(s, op)
      BY <1>2
    <3> HIDE DEF s, op
    <3>2. QED
      BY <2>2, <3>1 DEF Calculate, Last
  <2> HIDE DEF x, s
  <2>6. /\ g[j] \in Seq(Int) /\ Len(g[j]) = j /\ g[j][j] = x
        /\ \A i \in 1 .. j - 1 : g[j][i] = s[i]
    <3>1. /\ Append(s, x) \in Seq(Int) /\ Len(Append(s, x)) = Len(s) + 1 /\ Append(s, x)[Len(s) + 1] = x
          /\ \A i \in 1 .. Len(s) : Append(s, x)[i] = s[i]
      BY <2>2, <2>4, AppendProperties
    <3>2. Len(s) + 1 = j
      BY <2>1, <2>2
    <3>3. QED
      BY <2>2, <2>5, <3>1, <3>2
  <2>7. ASSUME NEW i \in 1 .. j
        PROVE  g[j][i] = (IF program[i].dup THEN g[j][i - 1] ELSE 0) + program[i].add
    <3>1. CASE i = j
      <4>1. op.dup => g[j][j - 1] = s[j - 1]
        <5>1. op.dup => j - 1 \in 1 .. j - 1
          BY <2>1
        <5>2. QED
          BY <2>6, <5>1
      <4>2. x = (IF op.dup THEN g[j][j - 1] ELSE 0) + op.add
        BY <4>1 DEF x
      <4>3. QED
        BY <2>6, <3>1, <4>2
    <3>2. CASE i # j
      <4>1. i \in 1 .. j - 1 /\ (program[i].dup => i - 1 \in 1 .. j - 1)
        <5>1. i \in 1 .. j - 1 /\ i \in 1 .. n
          BY <1>1, <2>1, <3>2
        <5>2. program[i].dup => i # 1
          BY <5>1
        <5>3. QED
          BY <2>1, <5>1, <5>2
      <4>2. s[i] = (IF program[i].dup THEN s[i - 1] ELSE 0) + program[i].add
        BY <2>1, <4>1 DEF s
      <4>3. g[j][i] = s[i] /\ (program[i].dup => g[j][i - 1] = s[i - 1])
        BY <2>6, <4>1
      <4>4. QED
        BY <4>2, <4>3
    <3>3. QED
      BY <3>1, <3>2
  <2>8. QED
    BY <2>1, <2>6, <2>7
<1>5. n \in T
  <2> HIDE DEF T, n
  <2>1. \A i \in 0 .. n : i \in T
    BY <1>1, <1>3, <1>4, Induction
  <2>2. QED
    BY <1>1, <2>1
<1>6. Good(n)
  BY <1>5
<1>7. QED
  BY <1>2, <1>6

(* Blocks of one length, that start with a number, and what they compute:  *)
(* v[i][k] is the k-th value of the i-th block.                            *)
Blocks(s, m) == s \in Seq(Seq(Operands)) /\ \A i \in 1 .. Len(s) : Len(s[i]) = m /\ ~s[i][1].dup
Computes(s, m, v) ==
  \A i \in 1 .. Len(s) : \A k \in 1 .. m : v[i][k] = (IF s[i][k].dup THEN v[i][k - 1] ELSE 0) + s[i][k].add
Placed(r, n, m, v) == Len(r) = n * m /\ \A i \in 1 .. n : \A k \in 1 .. m : r[(i - 1) * m + k] = v[i][k]

LEMMA BlockValues ==
  ASSUME NEW s, NEW m \in Nat \ {0}, NEW v, Blocks(s, m), Computes(s, m, v)
  PROVE  Placed(Run(FlattenSeq(s)), Len(s), m, v)
<1>a. s \in Seq(Seq(Operands)) /\ \A i \in 1 .. Len(s) : Len(s[i]) = m /\ ~s[i][1].dup
  BY DEF Blocks
<1>b. \A i \in 1 .. Len(s) : \A k \in 1 .. m : v[i][k] = (IF s[i][k].dup THEN v[i][k - 1] ELSE 0) + s[i][k].add
  BY DEF Computes
<1> DEFINE f == FlattenSeq(s)
           r == Run(f)
           n == Len(s)
<1>1. /\ f \in Seq(Operands) /\ Len(f) = n * m
      /\ \A i \in 1 .. n, k \in 1 .. m : f[(i - 1) * m + k] = s[i][k]
  BY <1>a, Flattened
<1>2. n \in Nat
  BY <1>a
<1> HIDE DEF f
(* Every number is in a block.                                             *)
<1>3. ASSUME NEW x \in 1 .. Len(f)
      PROVE  f[x].dup => x # 1
  <2>1. CASE x = 1
    <3>1. n # 0
      <4>1. CASE n = 0
        <5>1. Len(f) = 0
          BY <1>1, <4>1
        <5>2. QED
          BY <1>3, <5>1
      <4>2. QED
        BY <4>1
    <3>2. 1 \in 1 .. n /\ 1 \in 1 .. m /\ (1 - 1) * m + 1 = 1
      BY <1>2, <3>1
    <3>3. f[(1 - 1) * m + 1] = s[1][1]
      BY <1>1, <3>2
    <3>4. ~s[1][1].dup
      BY <1>a, <3>2
    <3>5. QED
      BY <2>1, <3>2, <3>3, <3>4
  <2>2. QED
    BY <2>1
<1>4. Len(r) = Len(f) /\ \A x \in 1 .. Len(f) : r[x] = (IF f[x].dup THEN r[x - 1] ELSE 0) + f[x].add
  BY <1>1, <1>3, RunFacts
<1> HIDE DEF r
<1>5. ASSUME NEW i \in 1 .. n
      PROVE  \A k \in 1 .. m : r[(i - 1) * m + k] = v[i][k]
  <2> DEFINE p == (i - 1) * m
             T == {k \in 0 .. m : k = 0 \/ r[p + k] = v[i][k]}
  <2>1. p \in Nat /\ p + m <= Len(f)
    <3>1. i - 1 \in Nat /\ i - 1 < n /\ m \in Nat
      BY <1>2
    <3>2. (i - 1) * m + m <= n * m
      BY <1>2, <3>1, MulLess
    <3>3. (i - 1) * m \in Nat
      BY <3>1
    <3>4. QED
      BY <1>1, <3>2, <3>3
  <2> HIDE DEF p
  <2>2. 0 \in T
    OBVIOUS
  <2>3. ASSUME NEW k \in 1 .. m, k - 1 \in T
        PROVE  k \in T
    <3> DEFINE q == p + k
    <3>1. q \in 1 .. Len(f) /\ q - 1 = p + (k - 1) /\ k \in 0 .. m /\ k - 1 \in 0 .. m
      <4>1. Len(f) \in Nat
        BY <1>1
      <4>2. QED
        BY <2>1, <4>1
    <3>2. f[q] = s[i][k]
      BY <1>1 DEF p
    <3> HIDE DEF q
    <3>3. r[q] = (IF s[i][k].dup THEN r[q - 1] ELSE 0) + s[i][k].add
      BY <1>4, <3>1, <3>2
    <3>4. s[i][k].dup => r[q - 1] = v[i][k - 1]
      <4>1. s[i][k].dup => k # 1
        BY <1>a
      <4>2. k # 1 => k - 1 # 0
        OBVIOUS
      <4>3. QED
        BY <2>3, <3>1, <4>1, <4>2
    <3>5. v[i][k] = (IF s[i][k].dup THEN v[i][k - 1] ELSE 0) + s[i][k].add
      BY <1>b
    <3>6. r[q] = v[i][k]
      BY <3>3, <3>4, <3>5
    <3>7. QED
      BY <3>1, <3>6 DEF q
  <2>4. \A k \in 0 .. m : k \in T
    <3> HIDE DEF T
    <3>1. QED
      BY <2>2, <2>3, Induction
  <2>5. ASSUME NEW k \in 1 .. m
        PROVE  r[p + k] = v[i][k]
    <3>1. k \in 0 .. m /\ k # 0
      OBVIOUS
    <3>2. QED
      BY <2>4, <3>1
  <2>6. QED
    BY <2>5 DEF p
<1>6. QED
  BY <1>1, <1>4, <1>5 DEF Placed, r, f

(* A block: a number, then what is computed from the one below.            *)
Block(b, a, d, m) ==
  b \in Seq(Operands) /\ Len(b) = m /\ ~b[1].dup /\ b[1].add = a /\ \A k \in 2 .. m : b[k].dup /\ b[k].add = d
LEMMA BlockFacts ==
  ASSUME NEW a \in Int, NEW d \in Int, NEW m \in Nat \ {0}
  PROVE  Block(<<Operand(a)>> \o Times(m - 1, Dup(d)), a, d, m)
<1> DEFINE t == Times(m - 1, Dup(d))
           o == <<Operand(a)>>
           b == o \o t
<1>1. t \in Seq(Operands) /\ Len(t) = m - 1 /\ \A k \in 1 .. m - 1 : t[k] = Dup(d)
  <2>1. t = [i \in 1 .. m - 1 |-> Dup(d)] /\ m - 1 \in Nat
    BY DEF Times
  <2>2. Dup(d) \in Operands
    BY OperandFacts
  <2> HIDE DEF t
  <2>3. QED
    BY <2>1, <2>2
<1>2. o \in Seq(Operands) /\ Len(o) = 1 /\ o[1] = Operand(a)
  <2>1. Operand(a) \in Operands
    BY OperandFacts
  <2>2. QED
    BY <2>1
<1> HIDE DEF t, o
<1>3. /\ b \in Seq(Operands) /\ Len(b) = Len(o) + Len(t)
      /\ \A k \in 1 .. Len(o) + Len(t) : b[k] = IF k <= Len(o) THEN o[k] ELSE t[k - Len(o)]
  BY <1>1, <1>2, ConcatProperties
<1>4. Len(o) + Len(t) = m
  BY <1>1, <1>2
<1> HIDE DEF b
<1>5. b[1] = Operand(a)
  BY <1>2, <1>3, <1>4
<1>6. ASSUME NEW k \in 2 .. m
      PROVE  b[k] = Dup(d)
  <2>1. k \in 1 .. Len(o) + Len(t) /\ ~(k <= Len(o)) /\ k - 1 \in 1 .. m - 1 /\ k - Len(o) = k - 1
    BY <1>2, <1>4
  <2>2. b[k] = t[k - 1]
    BY <1>3, <2>1
  <2>3. QED
    BY <1>1, <2>1, <2>2
<1>7. /\ b \in Seq(Operands) /\ Len(b) = m /\ ~b[1].dup /\ b[1].add = a
      /\ \A k \in 2 .. m : b[k].dup /\ b[k].add = d
  BY <1>3, <1>4, <1>5, <1>6, OperandFacts
<1>8. QED
  BY <1>7 DEF Block, b, o, t

(* Blocks of a number and of what is computed from it.                     *)
LEMMA RowsOf ==
  ASSUME NEW n \in Nat, NEW m \in Nat \ {0}, NEW s, NEW a, NEW v, NEW d \in Int,
         \A i \in 1 .. n : a[i] \in Int,
         Len(s) = n, s = [i \in 1 .. n |-> s[i]],
         \A i \in 1 .. n : s[i] = <<Operand(a[i])>> \o Times(m - 1, Dup(d)),
         \A i \in 1 .. n : v[i][1] = a[i],
         \A i \in 1 .. n : \A k \in 2 .. m : v[i][k] = v[i][k - 1] + d
  PROVE  Placed(Run(FlattenSeq(s)), n, m, v)
<1>1. ASSUME NEW i \in 1 .. n
      PROVE  /\ s[i] \in Seq(Operands) /\ Len(s[i]) = m /\ ~s[i][1].dup /\ s[i][1].add = a[i]
             /\ \A k \in 2 .. m : s[i][k].dup /\ s[i][k].add = d
  <2>1. s[i] = <<Operand(a[i])>> \o Times(m - 1, Dup(d)) /\ a[i] \in Int
    OBVIOUS
  <2> DEFINE c == a[i]
             b == <<Operand(c)>> \o Times(m - 1, Dup(d))
  <2>2. c \in Int /\ s[i] = b
    BY <2>1
  <2>3. Block(b, c, d, m)
    <3> HIDE DEF c
    <3>1. QED
      BY <2>2, BlockFacts
  <2> HIDE DEF b, c
  <2>4. Block(s[i], c, d, m)
    BY <2>2, <2>3
  <2>5. QED
    BY <2>4 DEF Block, c
<1>2. s \in Seq(Seq(Operands))
  <2> DEFINE Q == Seq(Operands)
  <2>1. \A i \in 1 .. n : s[i] \in Q
    BY <1>1
  <2> HIDE DEF Q
  <2>2. s \in Seq(Q)
    BY <2>1
  <2>3. QED
    BY <2>2 DEF Q
<1>3. ASSUME NEW i \in 1 .. n, NEW k \in 1 .. m
      PROVE  v[i][k] = (IF s[i][k].dup THEN v[i][k - 1] ELSE 0) + s[i][k].add
  <2>1. CASE k = 1
    <3>1. ~s[i][1].dup /\ s[i][1].add = a[i] /\ v[i][1] = a[i] /\ a[i] \in Int
      BY <1>1
    <3>2. QED
      BY <2>1, <3>1
  <2>2. CASE k # 1
    <3>1. k \in 2 .. m
      BY <2>2
    <3>2. s[i][k].dup /\ s[i][k].add = d
      BY <1>1, <3>1
    <3>3. v[i][k] = v[i][k - 1] + d
      BY <3>1
    <3>4. QED
      BY <3>2, <3>3
  <2>3. QED
    BY <2>1, <2>2
<1>4. Blocks(s, m) /\ Computes(s, m, v)
  BY <1>1, <1>2, <1>3 DEF Blocks, Computes
<1>5. QED
  BY <1>4, BlockValues

(* Blocks of numbers.                                                      *)
LEMMA NumbersOf ==
  ASSUME NEW n \in Nat, NEW m \in Nat \ {0}, NEW s, NEW b, NEW v,
         \A k \in 1 .. m : b[k] \in Operands /\ ~b[k].dup, Len(b) = m, b = [k \in 1 .. m |-> b[k]],
         Len(s) = n, s = [i \in 1 .. n |-> s[i]], \A i \in 1 .. n : s[i] = b,
         \A i \in 1 .. n : \A k \in 1 .. m : v[i][k] = b[k].add
  PROVE  Placed(Run(FlattenSeq(s)), n, m, v)
<1>1. b \in Seq(Operands)
  OBVIOUS
<1>2. s \in Seq(Seq(Operands))
  <2> DEFINE Q == Seq(Operands)
  <2>1. \A i \in 1 .. n : s[i] \in Q
    BY <1>1
  <2> HIDE DEF Q
  <2>2. s \in Seq(Q)
    BY <2>1
  <2>3. QED
    BY <2>2 DEF Q
<1>3. \A k \in 1 .. m : b[k].add \in Int
  BY DEF Operands
<1>4. ASSUME NEW i \in 1 .. n, NEW k \in 1 .. m
      PROVE  v[i][k] = (IF s[i][k].dup THEN v[i][k - 1] ELSE 0) + s[i][k].add
  <2>1. v[i][k] = b[k].add /\ s[i] = b /\ ~b[k].dup /\ b[k].add \in Int
    BY <1>3
  <2>2. QED
    BY <2>1
<1>5. \A i \in 1 .. n : ~s[i][1].dup /\ Len(s[i]) = m
  <2>1. 1 \in 1 .. m
    OBVIOUS
  <2>2. QED
    BY <2>1
<1>6. Blocks(s, m) /\ Computes(s, m, v)
  BY <1>2, <1>4, <1>5 DEF Blocks, Computes
<1>7. QED
  BY <1>6, BlockValues

(* The hypotheses of RowsOf under one name, to give them to the provers as *)
(* one fact.                                                               *)
Rowed(n, m, s, a, v, d) ==
  /\ \A i \in 1 .. n : a[i] \in Int
  /\ Len(s) = n
  /\ s = [i \in 1 .. n |-> s[i]]
  /\ \A i \in 1 .. n : s[i] = <<Operand(a[i])>> \o Times(m - 1, Dup(d))
  /\ \A i \in 1 .. n : v[i][1] = a[i]
  /\ \A i \in 1 .. n : \A k \in 2 .. m : v[i][k] = v[i][k - 1] + d

LEMMA RowedPlaced ==
  ASSUME NEW n \in Nat, NEW m \in Nat \ {0}, NEW s, NEW a, NEW v, NEW d \in Int, Rowed(n, m, s, a, v, d)
  PROVE  Placed(Run(FlattenSeq(s)), n, m, v)
<1>1. \A i \in 1 .. n : a[i] \in Int
  BY DEF Rowed
<1>2. Len(s) = n /\ s = [i \in 1 .. n |-> s[i]]
  BY DEF Rowed
<1>3. \A i \in 1 .. n : s[i] = <<Operand(a[i])>> \o Times(m - 1, Dup(d))
  BY DEF Rowed
<1>4. \A i \in 1 .. n : v[i][1] = a[i]
  BY DEF Rowed
<1>5. \A i \in 1 .. n : \A k \in 2 .. m : v[i][k] = v[i][k - 1] + d
  BY DEF Rowed
<1>6. QED
  BY <1>1, <1>2, <1>3, <1>4, <1>5, RowsOf

(* The four programs: v[i][k] is the position of the k-th page of the i-th *)
(* row or column.                                                          *)
LEMMA RowsX ==
  ASSUME NEW n \in Nat \ {0}, NEW m \in Nat \ {0}
  PROVE  Placed(Run(FlattenSeq(Times(n, <<Operand(0)>> \o Times(m - 1, Dup(1))))), n, m,
                [i \in 1 .. n |-> [k \in 1 .. m |-> k - 1]])
<1> DEFINE b == <<Operand(0)>> \o Times(m - 1, Dup(1))
           s == Times(n, b)
           a == [i \in 1 .. n |-> 0]
           v == [i \in 1 .. n |-> [k \in 1 .. m |-> k - 1]]
<1>1. Len(s) = n /\ s = [i \in 1 .. n |-> s[i]] /\ \A i \in 1 .. n : s[i] = b
  <2> HIDE DEF b
  <2>1. s = [i \in 1 .. n |-> b]
    BY DEF Times
  <2> HIDE DEF s
  <2>2. QED
    BY <2>1
<1>2. \A i \in 1 .. n : a[i] = 0
  OBVIOUS
<1>3. \A i \in 1 .. n : v[i][1] = 0
  OBVIOUS
<1>4. \A i \in 1 .. n : \A k \in 2 .. m : v[i][k] = v[i][k - 1] + 1
  OBVIOUS
<1> HIDE DEF s, a, v
<1>5. \A i \in 1 .. n : s[i] = <<Operand(a[i])>> \o Times(m - 1, Dup(1)) /\ a[i] \in Int /\ v[i][1] = a[i]
  BY <1>1, <1>2, <1>3
<1>6. Rowed(n, m, s, a, v, 1)
  BY <1>1, <1>4, <1>5 DEF Rowed
<1>7. Placed(Run(FlattenSeq(s)), n, m, v)
  BY <1>6, RowedPlaced
<1>8. QED
  BY <1>7 DEF s, v

LEMMA RowsY ==
  ASSUME NEW n \in Nat \ {0}, NEW m \in Nat \ {0}
  PROVE  Placed(Run(FlattenSeq([j \in 1 .. n |-> <<Operand(n - j)>> \o Times(m - 1, Dup(0))])), n, m,
                [i \in 1 .. n |-> [k \in 1 .. m |-> n - i]])
<1> DEFINE s == [j \in 1 .. n |-> <<Operand(n - j)>> \o Times(m - 1, Dup(0))]
           a == [i \in 1 .. n |-> n - i]
           v == [i \in 1 .. n |-> [k \in 1 .. m |-> n - i]]
<1>1. Len(s) = n /\ s = [i \in 1 .. n |-> s[i]] /\ \A i \in 1 .. n : s[i] = <<Operand(n - i)>> \o Times(m - 1, Dup(0))
  OBVIOUS
<1>2. \A i \in 1 .. n : a[i] = n - i /\ n - i \in Int
  OBVIOUS
<1>3. \A i \in 1 .. n : v[i][1] = n - i
  OBVIOUS
<1>4. \A i \in 1 .. n : \A k \in 2 .. m : v[i][k] = v[i][k - 1] + 0
  OBVIOUS
<1> HIDE DEF s, a, v
<1>5. \A i \in 1 .. n : s[i] = <<Operand(a[i])>> \o Times(m - 1, Dup(0)) /\ a[i] \in Int /\ v[i][1] = a[i]
  BY <1>1, <1>2, <1>3
<1>6. Rowed(n, m, s, a, v, 0)
  BY <1>1, <1>4, <1>5 DEF Rowed
<1>7. Placed(Run(FlattenSeq(s)), n, m, v)
  BY <1>6, RowedPlaced
<1>8. QED
  BY <1>7 DEF s, v

LEMMA ColumnsX ==
  ASSUME NEW n \in Nat \ {0}, NEW m \in Nat \ {0}
  PROVE  Placed(Run(FlattenSeq([i \in 1 .. n |-> <<Operand(i - 1)>> \o Times(m - 1, Dup(0))])), n, m,
                [i \in 1 .. n |-> [k \in 1 .. m |-> i - 1]])
<1> DEFINE s == [i \in 1 .. n |-> <<Operand(i - 1)>> \o Times(m - 1, Dup(0))]
           a == [i \in 1 .. n |-> i - 1]
           v == [i \in 1 .. n |-> [k \in 1 .. m |-> i - 1]]
<1>1. Len(s) = n /\ s = [i \in 1 .. n |-> s[i]] /\ \A i \in 1 .. n : s[i] = <<Operand(i - 1)>> \o Times(m - 1, Dup(0))
  OBVIOUS
<1>2. \A i \in 1 .. n : a[i] = i - 1 /\ i - 1 \in Int
  OBVIOUS
<1>3. \A i \in 1 .. n : v[i][1] = i - 1
  OBVIOUS
<1>4. \A i \in 1 .. n : \A k \in 2 .. m : v[i][k] = v[i][k - 1] + 0
  OBVIOUS
<1> HIDE DEF s, a, v
<1>5. \A i \in 1 .. n : s[i] = <<Operand(a[i])>> \o Times(m - 1, Dup(0)) /\ a[i] \in Int /\ v[i][1] = a[i]
  BY <1>1, <1>2, <1>3
<1>6. Rowed(n, m, s, a, v, 0)
  BY <1>1, <1>4, <1>5 DEF Rowed
<1>7. Placed(Run(FlattenSeq(s)), n, m, v)
  BY <1>6, RowedPlaced
<1>8. QED
  BY <1>7 DEF s, v

LEMMA ColumnsY ==
  ASSUME NEW n \in Nat \ {0}, NEW m \in Nat \ {0}
  PROVE  Placed(Run(FlattenSeq(Times(n, [j \in 1 .. m |-> Operand(m - j)]))), n, m,
                [i \in 1 .. n |-> [k \in 1 .. m |-> m - k]])
<1> DEFINE b == [j \in 1 .. m |-> Operand(m - j)]
           s == Times(n, b)
           v == [i \in 1 .. n |-> [k \in 1 .. m |-> m - k]]
<1>1. Len(s) = n /\ s = [i \in 1 .. n |-> s[i]] /\ \A i \in 1 .. n : s[i] = b
  <2> HIDE DEF b
  <2>1. s = [i \in 1 .. n |-> b]
    BY DEF Times
  <2> HIDE DEF s
  <2>2. QED
    BY <2>1
<1>2. ASSUME NEW k \in 1 .. m
      PROVE  b[k] \in Operands /\ ~b[k].dup /\ b[k].add = m - k
  <2> DEFINE c == m - k
  <2>1. b[k] = Operand(c) /\ c \in Int
    OBVIOUS
  <2> HIDE DEF b, c
  <2>2. QED
    BY <2>1, OperandFacts DEF c
<1>3. Len(b) = m /\ b = [k \in 1 .. m |-> b[k]]
  OBVIOUS
<1>4. \A i \in 1 .. n : \A k \in 1 .. m : v[i][k] = m - k
  OBVIOUS
<1> HIDE DEF b, s, v
<1>5. \A i \in 1 .. n : \A k \in 1 .. m : v[i][k] = b[k].add
  BY <1>2, <1>4
<1>6. Placed(Run(FlattenSeq(s)), n, m, v)
  BY <1>1, <1>2, <1>3, <1>5, NumbersOf
<1>7. QED
  BY <1>6 DEF s, v, b

LEMMA PagesInOrder ==
  ASSUME Types
  PROVE  PagesOrdered
<1> DEFINE c == job.columns
           r == job.rows
           x == PagesX(job)
           y == PagesY(job)
           at(column, row) == IF job.madir = "rows" THEN row * c + column + 1 ELSE column * r + row + 1
<1>1. c \in Nat \ {0} /\ r \in Nat \ {0}
  BY DEF Types, JobOK
<1>2. SUFFICES /\ Len(x) = c * r /\ Len(y) = c * r
               /\ \A column \in 0 .. c - 1, row \in 0 .. r - 1 : x[at(column, row)] = column /\ y[at(column, row)] = r - 1 - row
  BY DEF PagesOrdered
<1>3. CASE job.madir = "rows"
  <2> DEFINE vx == [i \in 1 .. r |-> [k \in 1 .. c |-> k - 1]]
             vy == [i \in 1 .. r |-> [k \in 1 .. c |-> r - i]]
  <2>1. Placed(x, r, c, vx) /\ Placed(y, r, c, vy)
    <3>1. x = Run(FlattenSeq(Times(r, <<Operand(0)>> \o Times(c - 1, Dup(1)))))
      BY <1>3 DEF PagesX
    <3>2. y = Run(FlattenSeq([j \in 1 .. r |-> <<Operand(r - j)>> \o Times(c - 1, Dup(0))]))
      BY <1>3 DEF PagesY
    <3> HIDE DEF x, y, c, r
    <3>3. Placed(x, r, c, vx)
      BY <1>1, <3>1, RowsX
    <3>4. Placed(y, r, c, vy)
      BY <1>1, <3>2, RowsY
    <3>5. QED
      BY <3>3, <3>4
  <2> HIDE DEF x, y, c, r
  <2>2. Len(x) = c * r /\ Len(y) = c * r
    BY <1>1, <2>1 DEF Placed
  <2>3. ASSUME NEW column \in 0 .. c - 1, NEW row \in 0 .. r - 1
        PROVE  x[at(column, row)] = column /\ y[at(column, row)] = r - 1 - row
    <3> DEFINE i == row + 1
               k == column + 1
    <3>1. i \in 1 .. r /\ k \in 1 .. c /\ i - 1 = row /\ k - 1 = column
      BY <1>1
    <3>2. vx[i][k] = k - 1 /\ vy[i][k] = r - i
      BY <3>1
    <3>3. at(column, row) = (i - 1) * c + k
      BY <1>1, <1>3, <3>1
    <3>4. r - i = r - 1 - row
      BY <1>1
    <3> HIDE DEF at, vx, vy, i, k
    <3>5. x[(i - 1) * c + k] = vx[i][k] /\ y[(i - 1) * c + k] = vy[i][k]
      BY <2>1, <3>1 DEF Placed
    <3>6. QED
      BY <3>1, <3>2, <3>3, <3>4, <3>5
  <2>4. QED
    BY <2>2, <2>3
<1>4. CASE job.madir # "rows"
  <2> DEFINE vx == [i \in 1 .. c |-> [k \in 1 .. r |-> i - 1]]
             vy == [i \in 1 .. c |-> [k \in 1 .. r |-> r - k]]
  <2>1. Placed(x, c, r, vx) /\ Placed(y, c, r, vy)
    <3>1. x = Run(FlattenSeq([i \in 1 .. c |-> <<Operand(i - 1)>> \o Times(r - 1, Dup(0))]))
      BY <1>4 DEF PagesX
    <3>2. y = Run(FlattenSeq(Times(c, [j \in 1 .. r |-> Operand(r - j)])))
      BY <1>4 DEF PagesY
    <3> HIDE DEF x, y, c, r
    <3>3. Placed(x, c, r, vx)
      BY <1>1, <3>1, ColumnsX
    <3>4. Placed(y, c, r, vy)
      BY <1>1, <3>2, ColumnsY
    <3>5. QED
      BY <3>3, <3>4
  <2> HIDE DEF x, y, c, r
  <2>2. Len(x) = c * r /\ Len(y) = c * r
    BY <1>1, <2>1 DEF Placed
  <2>3. ASSUME NEW column \in 0 .. c - 1, NEW row \in 0 .. r - 1
        PROVE  x[at(column, row)] = column /\ y[at(column, row)] = r - 1 - row
    <3> DEFINE i == column + 1
               k == row + 1
    <3>1. i \in 1 .. c /\ k \in 1 .. r /\ i - 1 = column /\ k - 1 = row
      BY <1>1
    <3>2. vx[i][k] = i - 1 /\ vy[i][k] = r - k
      BY <3>1
    <3>3. at(column, row) = (i - 1) * r + k
      BY <1>1, <1>4, <3>1
    <3>4. r - k = r - 1 - row
      BY <1>1
    <3> HIDE DEF at, vx, vy, i, k
    <3>5. x[(i - 1) * r + k] = vx[i][k] /\ y[(i - 1) * r + k] = vy[i][k]
      BY <2>1, <3>1 DEF Placed
    <3>6. QED
      BY <3>1, <3>2, <3>3, <3>4, <3>5
  <2>4. QED
    BY <2>2, <2>3
<1>5. QED
  BY <1>3, <1>4

(* The geometry gives the columns and the lines that are asked for, the    *)
(* text that it announces has room, the box is within what can be printed  *)
(* on either side, and the pages fill the sheet in the order of --major    *)
(* (ps_begin and output_document_setup in prolog.c).                       *)
THEOREM LayoutAlways == Spec => []LayoutFits
<1>1. Init => Types /\ Printed
  BY TypesInit, PrintedInit
<1>2. Types /\ Printed /\ [Next]_vars => (Types /\ Printed)'
  BY TypesStep, PrintedStep
<1>3. Types /\ Printed => LayoutFits
  BY RequestsHeld, TextHasRoom, BoxFits, PagesInOrder DEF LayoutFits
<1>4. QED
  BY <1>1, <1>2, <1>3, PTL DEF Spec
=============================================================================
