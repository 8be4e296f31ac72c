------------------------- MODULE LocalRunnerProofs -------------------------
(***************************************************************************)
(* Proofs about the local runner: what its relay sends last, whose tests    *)
(* run, and that a run with hits reports its whole plan.                    *)
(*                                                                         *)
(* LocalIInv relates main, its users and the relay: where stopTestRun may   *)
(* be (StopSound), which users exist and how far they are (StaffSound,      *)
(* ProgressSound), and that every report is received, in the pipe or in     *)
(* _data (ReportsSound).  Before it come the sums and plans that say how    *)
(* many tests a run has: SetInduction stands for induction over numbers.    *)
(***************************************************************************)
EXTENDS LocalRunner, Integers, FiniteSetTheorems, SequenceTheorems, TLAPS

\* Induction over the naturals, for a set instead of an operator: the smallest
\* interval that leaves the set would be a least one of a family of finite sets.
LEMMA SetInduction ==
  ASSUME NEW T, 0 \in T, \A n \in T \cap Nat : n + 1 \in T
  PROVE  Nat \subseteq T
<1> SUFFICES ASSUME NEW n \in Nat, n \notin T PROVE FALSE
  OBVIOUS
<1> DEFINE below == {0..k : k \in Nat \ T}
           R == StrictSubsetOrdering(Nat)
<1>1. below \subseteq FiniteSubsetsOf(Nat) /\ below # {}
  <2>1. \A k \in Nat : IsFiniteSet(0..k) /\ 0..k \in SUBSET Nat
    BY FS_Interval
  <2>2. \A k \in Nat : 0..k \in FiniteSubsetsOf(Nat)
    BY <2>1 DEF FiniteSubsetsOf
  <2>3. 0..n \in below
    OBVIOUS
  <2> QED BY <2>2, <2>3
<1>2. PICK k \in Nat \ T : \A m \in Nat \ T : ~(<<0..m, 0..k>> \in R)
  <2> HIDE DEF R
  <2>1. IsWellFoundedOn(R, FiniteSubsetsOf(Nat))
    BY FS_StrictSubsetOrderingWellFounded DEF R
  <2> HIDE DEF below
  <2>2. \E x \in below : \A y \in below : ~(<<y, x>> \in R)
    BY <1>1, <2>1, WFMin
  <2> QED BY <2>2 DEF below
<1>3. k # 0 /\ k - 1 \in Nat /\ (k - 1) + 1 = k
  OBVIOUS
<1>4. k - 1 \notin T
  BY <1>3
<1>5. 0..(k - 1) \subseteq 0..k /\ k \in 0..k /\ k \notin 0..(k - 1)
  BY <1>3
<1>6. <<0..(k - 1), 0..k>> \in R
  BY <1>3, <1>5 DEF StrictSubsetOrdering
<1> QED BY <1>2, <1>3, <1>4, <1>6

-----------------------------------------------------------------------------
(* Sums and plans.                                                         *)

\* The greatest of some of the first numbers.
LEMMA GreatestOf ==
  ASSUME NEW n \in Nat, NEW x \in SUBSET (1..n), x # {}
  PROVE  Max(x) \in x /\ \A y \in x : y <= Max(x)
<1> DEFINE T == {m \in Nat : \A z \in SUBSET (1..m) : z # {} => \E k \in z : \A y \in z : k >= y}
<1>1. 0 \in T
  <2>1. 1..0 = {}
    OBVIOUS
  <2>2. \A z \in SUBSET (1..0) : z = {}
    BY <2>1
  <2> QED BY <2>2
<1>2. ASSUME NEW m \in T \cap Nat PROVE m + 1 \in T
  <2> SUFFICES ASSUME NEW z \in SUBSET (1..(m + 1)), z # {}
               PROVE  \E k \in z : \A y \in z : k >= y
    OBVIOUS
  <2>1. CASE m + 1 \in z
    BY <2>1
  <2>2. CASE m + 1 \notin z
    <3>1. z \in SUBSET (1..m)
      BY <2>2
    <3> QED BY <3>1
  <2> QED BY <2>1, <2>2
<1> HIDE DEF T
<1>3. n \in T
  BY <1>1, <1>2, SetInduction
<1>4. \E k \in x : \A y \in x : k >= y
  BY <1>3 DEF T
<1>5. Max(x) \in x /\ \A y \in x : Max(x) >= y
  BY <1>4 DEF Max
<1> QED BY <1>5

\* Adding up a sequence from its last element.
Adds(f, n, s) ==
    f = [x \in SUBSET (1..n) |-> IF x = {} THEN 0 ELSE f[x \ {Max(x)}] + s[Max(x)]]

LEMMA AddsExists ==
  ASSUME NEW s, NEW n \in Nat
  PROVE  \E f : Adds(f, n, s)
<1> DEFINE T == {m \in Nat : \E f : Adds(f, m, s)}
<1>1. 0 \in T
  <2>1. Adds([x \in SUBSET (1..0) |-> 0], 0, s)
    <3>1. \A x \in SUBSET (1..0) : x = {}
      OBVIOUS
    <3> QED BY <3>1 DEF Adds
  <2> QED BY <2>1
<1>2. ASSUME NEW m \in T \cap Nat PROVE m + 1 \in T
  <2>1. PICK f : Adds(f, m, s)
    OBVIOUS
  <2> DEFINE g == [x \in SUBSET (1..(m + 1)) |->
                     IF m + 1 \in x THEN f[x \ {m + 1}] + s[m + 1] ELSE f[x]]
             h == [x \in SUBSET (1..(m + 1)) |->
                     IF x = {} THEN 0 ELSE g[x \ {Max(x)}] + s[Max(x)]]
  <2>2. ASSUME NEW x \in SUBSET (1..(m + 1)) PROVE g[x] = h[x]
    <3>1. CASE m + 1 \in x
      <4>1. Max(x) = m + 1
        <5>1. Max(x) \in 1..(m + 1) /\ m + 1 <= Max(x)
          <6>1. x # {} /\ m + 1 \in Nat
            BY <3>1
          <6> QED BY <3>1, <6>1, GreatestOf
        <5> QED BY <5>1
      <4>2. x \ {m + 1} \in SUBSET (1..(m + 1)) /\ m + 1 \notin x \ {m + 1}
        OBVIOUS
      <4>3. g[x] = f[x \ {m + 1}] + s[m + 1] /\ g[x \ {m + 1}] = f[x \ {m + 1}]
        BY <3>1, <4>2
      <4>4. h[x] = g[x \ {m + 1}] + s[m + 1]
        <5> HIDE DEF g
        <5> QED BY <3>1, <4>1
      <4> HIDE DEF g, h
      <4> QED BY <4>3, <4>4
    <3>2. CASE m + 1 \notin x
      <4>1. x \in SUBSET (1..m)
        BY <3>2
      <4>2. CASE x = {}
        <5>1. f[x] = 0
          BY <2>1, <4>1, <4>2 DEF Adds
        <5> QED BY <3>2, <4>2, <5>1
      <4>3. CASE x # {}
        <5>1. f[x] = f[x \ {Max(x)}] + s[Max(x)]
          BY <2>1, <4>1, <4>3 DEF Adds
        <5>2. x \ {Max(x)} \in SUBSET (1..(m + 1)) /\ m + 1 \notin x \ {Max(x)}
          BY <3>2
        <5>3. g[x] = f[x] /\ g[x \ {Max(x)}] = f[x \ {Max(x)}]
          BY <3>2, <5>2
        <5> QED BY <4>3, <5>1, <5>3
      <4> QED BY <4>2, <4>3
    <3> QED BY <3>1, <3>2
  <2>3. g = h
    BY <2>2
  <2>4. Adds(g, m + 1, s)
    <3> HIDE DEF g
    <3> QED BY <2>3 DEF Adds
  <2> QED BY <2>4
<1> HIDE DEF T
<1>3. n \in T
  BY <1>1, <1>2, SetInduction
<1> QED BY <1>3 DEF T

\* f[i] is the sum of the first i numbers of s.
Totals(f, s) ==
    /\ f \in [0..Len(s) -> Nat] /\ f[0] = 0
    /\ \A i \in 1..Len(s) : f[i] = f[i - 1] + s[i]

\* Sum is the last of the running totals, which are unique.
LEMMA SumIsTotal ==
  ASSUME NEW s \in Seq(Nat)
  PROVE  /\ \E f : Totals(f, s)
         /\ \A f : Totals(f, s) => Sum(s) = f[Len(s)]
<1> DEFINE n == Len(s)
           adds == CHOOSE f : Adds(f, n, s)
<1>1. n \in Nat /\ DOMAIN s = 1..n /\ \A i \in 1..n : s[i] \in Nat
  BY LenProperties, ElementOfSeq
<1>2. Adds(adds, n, s)
  BY <1>1, AddsExists
<1>3. Sum(s) = adds[1..n]
  BY <1>1 DEF Sum, FoldLeft, MapThenFoldSet, Adds
<1> HIDE DEF adds
<1>4. adds[1..0] = 0
  <2>1. 1..0 = {}
    OBVIOUS
  <2> QED BY <1>2, <2>1 DEF Adds
<1>5. ASSUME NEW i \in 1..n PROVE adds[1..i] = adds[1..(i - 1)] + s[i]
  <2>1. i \in Nat /\ i <= n /\ 1..i \in SUBSET (1..n) /\ i \in 1..i
    BY <1>1
  <2>2. Max(1..i) \in 1..i /\ i <= Max(1..i)
    BY <2>1, GreatestOf
  <2>3. Max(1..i) = i /\ (1..i) \ {i} = 1..(i - 1) /\ 1..i # {}
    BY <2>1, <2>2
  <2> QED BY <1>2, <2>1, <2>3 DEF Adds
<1> DEFINE total == [i \in 0..n |-> adds[1..i]]
<1>6. Totals(total, s)
  <2> DEFINE T == {i \in Nat : i <= n => adds[1..i] \in Nat}
  <2>1. 0 \in T
    BY <1>4
  <2>2. ASSUME NEW i \in T \cap Nat PROVE i + 1 \in T
    <3> SUFFICES ASSUME i + 1 <= n PROVE adds[1..(i + 1)] \in Nat
      OBVIOUS
    <3>1. i + 1 \in 1..n /\ (i + 1) - 1 = i /\ i <= n
      BY <1>1
    <3>2. s[i + 1] \in Nat /\ adds[1..i] \in Nat
      BY <1>1, <3>1
    <3> QED BY <1>5, <3>1, <3>2
  <2> HIDE DEF T
  <2>3. \A i \in 0..n : i \in T
    BY <1>1, <2>1, <2>2, SetInduction
  <2>4. \A i \in 0..n : adds[1..i] \in Nat
    BY <1>1, <2>3 DEF T
  <2> HIDE DEF n
  <2>5. \A i \in 1..n : i \in 0..n /\ i - 1 \in 0..n
    BY <1>1
  <2> QED BY <1>1, <1>4, <1>5, <2>4, <2>5 DEF Totals, n
<1>7. ASSUME NEW f, Totals(f, s) PROVE Sum(s) = f[n]
  <2> DEFINE T == {i \in Nat : i <= n => adds[1..i] = f[i]}
  <2>1. 0 \in T
    BY <1>4, <1>7 DEF Totals
  <2>2. ASSUME NEW i \in T \cap Nat PROVE i + 1 \in T
    <3> SUFFICES ASSUME i + 1 <= n PROVE adds[1..(i + 1)] = f[i + 1]
      OBVIOUS
    <3>1. i + 1 \in 1..n /\ (i + 1) - 1 = i /\ i <= n
      BY <1>1
    <3>2. adds[1..(i + 1)] = adds[1..i] + s[i + 1]
      BY <1>5, <3>1
    <3>3. f[i + 1] = f[i] + s[i + 1]
      BY <1>7, <3>1 DEF Totals
    <3> QED BY <3>1, <3>2, <3>3
  <2> HIDE DEF T
  <2>3. n \in T
    BY <1>1, <2>1, <2>2, SetInduction
  <2> QED BY <1>1, <1>3, <2>3 DEF T
<1> QED BY <1>6, <1>7

\* A sum of multiples is a multiple of the sum.
LEMMA SumOfMultiples ==
  ASSUME NEW s \in Seq(Nat), NEW k \in Nat
  PROVE  Sum([i \in DOMAIN s |-> s[i] * k]) = Sum(s) * k /\ Sum(s) \in Nat
<1> DEFINE n == Len(s)
           t == [i \in DOMAIN s |-> s[i] * k]
<1>1. n \in Nat /\ DOMAIN s = 1..n /\ \A i \in 1..n : s[i] \in Nat
  BY LenProperties, ElementOfSeq
<1>2. t \in Seq(Nat) /\ Len(t) = n /\ \A i \in 1..n : t[i] = s[i] * k
  <2>1. \A i \in 1..n : s[i] * k \in Nat
    BY <1>1
  <2>2. t \in [1..n -> Nat]
    BY <1>1, <2>1
  <2>3. t \in Seq(Nat)
    BY <1>1, <2>2, SeqDef
  <2>4. DOMAIN t = 1..n /\ DOMAIN t = 1..Len(t) /\ Len(t) \in Nat
    BY <2>2, <2>3, LenProperties
  <2> HIDE DEF t
  <2> QED BY <1>1, <2>3, <2>4 DEF t
<1> HIDE DEF t
<1>3. PICK f : Totals(f, s)
  BY SumIsTotal
<1> DEFINE g == [i \in 0..n |-> f[i] * k]
<1>4. Totals(g, t)
  <2>1. \A i \in 0..n : f[i] \in Nat /\ f[i] * k \in Nat
    BY <1>3 DEF Totals
  <2>2. g \in [0..n -> Nat]
    BY <2>1
  <2>3. g[0] = 0
    BY <1>1, <1>3 DEF Totals
  <2>4. ASSUME NEW i \in 1..n PROVE g[i] = g[i - 1] + t[i]
    <3>1. i \in 0..n /\ i - 1 \in 0..n
      BY <1>1
    <3>2. f[i] = f[i - 1] + s[i]
      BY <1>3 DEF Totals
    <3>3. f[i - 1] \in Nat /\ s[i] \in Nat
      BY <1>1, <2>1, <3>1
    <3>4. \A a, b \in Nat : (a + b) * k = a * k + b * k
      OBVIOUS
    <3>5. f[i] * k = f[i - 1] * k + s[i] * k
      BY <3>2, <3>3, <3>4
    <3> QED BY <1>2, <3>1, <3>5
  <2> HIDE DEF g
  <2> QED BY <1>2, <2>2, <2>3, <2>4 DEF Totals
<1>5. Sum(s) = f[n] /\ Sum(t) = g[n] /\ f[n] \in Nat
  <2>1. n \in 0..n
    BY <1>1
  <2> HIDE DEF g
  <2> QED BY <1>2, <1>3, <1>4, <2>1, SumIsTotal DEF Totals
<1>6. g[n] = f[n] * k
  BY <1>1
<1> QED BY <1>5, <1>6 DEF t

\* Running totals of the lengths of sequences are those of what they make
\* together.
LEMMA FlattenedLength ==
  ASSUME NEW S, NEW seqs \in Seq(Seq(S)), NEW f \in [0..Len(seqs) -> Nat], f[0] = 0,
         \A i \in 1..Len(seqs) : f[i] = f[i - 1] + Len(seqs[i])
  PROVE  FlattenSeq(seqs) \in Seq(S) /\ Len(FlattenSeq(seqs)) = f[Len(seqs)]
<1> DEFINE n == Len(seqs)
           Flattens(g, m) ==
             g = [i \in 1..m |-> IF i = 1 THEN seqs[i] ELSE g[i - 1] \o seqs[i]]
<1>1. n \in Nat /\ DOMAIN seqs = 1..n /\ \A i \in 1..n : seqs[i] \in Seq(S)
  BY LenProperties, ElementOfSeq
<1>2. CASE n = 0
  <2>1. seqs = <<>>
    BY <1>2, EmptySeq
  <2>2. FlattenSeq(seqs) = <<>>
    BY <1>2, <2>1 DEF FlattenSeq
  <2> QED BY <1>2, <2>2
<1>3. CASE n # 0
  <2> DEFINE T == {m \in Nat : \E g : Flattens(g, m)}
             flat == CHOOSE g : Flattens(g, n)
  <2>1. 0 \in T
    <3>1. Flattens([i \in 1..0 |-> <<>>], 0)
      <4>1. 1..0 = {}
        OBVIOUS
      <4> QED BY <4>1
    <3> HIDE DEF Flattens
    <3> QED BY <3>1
  <2>2. ASSUME NEW m \in T \cap Nat PROVE m + 1 \in T
    <3>1. PICK g : Flattens(g, m)
      OBVIOUS
    <3> DEFINE last == IF m = 0 THEN seqs[1] ELSE g[m] \o seqs[m + 1]
               h == [i \in 1..(m + 1) |-> IF i <= m THEN g[i] ELSE last]
    <3>2. ASSUME NEW i \in 1..(m + 1)
          PROVE  h[i] = IF i = 1 THEN seqs[i] ELSE h[i - 1] \o seqs[i]
      <4>1. CASE i <= m
        <5>1. i \in 1..m
          BY <4>1
        <5>2. g[i] = IF i = 1 THEN seqs[i] ELSE g[i - 1] \o seqs[i]
          BY <3>1, <5>1
        <5>3. i # 1 => i - 1 \in 1..(m + 1) /\ i - 1 <= m
          BY <5>1
        <5>4. h[i] = g[i] /\ (i # 1 => h[i - 1] = g[i - 1])
          BY <4>1, <5>3
        <5> HIDE DEF h
        <5> QED BY <5>2, <5>4
      <4>2. CASE i = m + 1
        <5>1. h[i] = last
          BY <4>2
        <5>2. i # 1 => h[i - 1] = g[m] /\ m # 0
          BY <4>2
        <5>3. i = 1 => m = 0
          BY <4>2
        <5> HIDE DEF h
        <5> QED BY <4>2, <5>1, <5>2, <5>3
      <4> QED BY <4>1, <4>2
    <3>3. Flattens(h, m + 1)
      <4> DEFINE k == [i \in 1..(m + 1) |-> IF i = 1 THEN seqs[i] ELSE h[i - 1] \o seqs[i]]
      <4>1. h = k
        <5>1. \A i \in 1..(m + 1) : h[i] = k[i]
          <6> HIDE DEF h
          <6> QED BY <3>2
        <5> QED BY <5>1
      <4> HIDE DEF h
      <4> QED BY <4>1
    <3> HIDE DEF Flattens
    <3> QED BY <3>3
  <2>3. Flattens(flat, n)
    <3> HIDE DEF T, Flattens
    <3>1. n \in T
      BY <1>1, <2>1, <2>2, SetInduction
    <3> QED BY <3>1 DEF T
  <2>4. FlattenSeq(seqs) = flat[n]
    BY <1>3 DEF FlattenSeq
  <2> HIDE DEF flat, T
  <2>5. \A i \in 1..n : flat[i] = IF i = 1 THEN seqs[i] ELSE flat[i - 1] \o seqs[i]
    BY <2>3
  <2> DEFINE U == {i \in Nat : i + 1 <= n => flat[i + 1] \in Seq(S) /\ Len(flat[i + 1]) = f[i + 1]}
  <2> HIDE DEF Flattens
  <2>6. 0 \in U
    <3>1. 1 \in 1..n
      BY <1>1, <1>3
    <3>2. flat[1] = seqs[1] /\ f[1] = f[0] + Len(seqs[1]) /\ seqs[1] \in Seq(S)
      BY <1>1, <2>5, <3>1
    <3>3. Len(seqs[1]) \in Nat
      BY <3>2, LenProperties
    <3> QED BY <3>2, <3>3
  <2>7. ASSUME NEW i \in U \cap Nat PROVE i + 1 \in U
    <3> SUFFICES ASSUME (i + 1) + 1 <= n
                 PROVE  flat[(i + 1) + 1] \in Seq(S) /\ Len(flat[(i + 1) + 1]) = f[(i + 1) + 1]
      OBVIOUS
    <3> DEFINE j == (i + 1) + 1
    <3>1. j \in 1..n /\ j # 1 /\ j - 1 = i + 1 /\ i + 1 <= n
      BY <1>1
    <3>2. flat[i + 1] \in Seq(S) /\ Len(flat[i + 1]) = f[i + 1]
      BY <3>1
    <3>3. flat[j] = flat[i + 1] \o seqs[j] /\ seqs[j] \in Seq(S) /\ f[j] = f[i + 1] + Len(seqs[j])
      BY <1>1, <2>5, <3>1
    <3> HIDE DEF j
    <3>4. flat[j] \in Seq(S) /\ Len(flat[j]) = Len(flat[i + 1]) + Len(seqs[j])
      <4>1. flat[i + 1] \in Seq(S) /\ seqs[j] \in Seq(S) /\ flat[j] = flat[i + 1] \o seqs[j]
        BY <3>2, <3>3
      <4> HIDE DEF j
      <4> QED BY <4>1, ConcatProperties
    <3> QED BY <3>2, <3>3, <3>4 DEF j
  <2> HIDE DEF U
  <2>8. n - 1 \in U /\ (n - 1) + 1 = n
    <3>1. n - 1 \in Nat /\ (n - 1) + 1 = n
      BY <1>1, <1>3
    <3> QED BY <2>6, <2>7, <3>1, SetInduction
  <2> QED BY <1>1, <2>4, <2>8 DEF U
<1> QED BY <1>2, <1>3

-----------------------------------------------------------------------------
(* Plans and users of a run.                                               *)

Cycles == DOMAIN args.users

LEMMA ArgumentTypes ==
  ASSUME args \in Arguments
  PROVE  /\ args.duration \in BOOLEAN /\ args.sockets \in Nat
         /\ args.users \in Seq(Nat) /\ args.hits \in Seq(Nat)
         /\ Len(args.users) \in Nat \ {0} /\ Cycles = 1..Len(args.users)
         /\ Len(args.hits) \in Nat /\ DOMAIN args.hits = 1..Len(args.hits)
         /\ \A c \in Cycles : args.users[c] \in Nat \ {0}
         /\ \A h \in DOMAIN args.hits : args.hits[h] \in Nat \ {0}
<1>1. args.users \in Seq(Nat \ {0}) /\ args.hits \in Seq(Nat \ {0}) /\ args.users # <<>>
  BY LocalAssumption
<1>2. args.users \in Seq(Nat) /\ args.hits \in Seq(Nat)
  BY <1>1, SeqMonotonic
<1>3. Len(args.users) \in Nat \ {0} /\ Cycles = 1..Len(args.users)
  BY <1>1, LenProperties, EmptySeq DEF Cycles
<1>4. Len(args.hits) \in Nat /\ DOMAIN args.hits = 1..Len(args.hits)
  BY <1>1, LenProperties
<1>5. \A c \in Cycles : args.users[c] \in Nat \ {0}
  BY <1>1, <1>3, ElementOfSeq
<1>6. \A h \in DOMAIN args.hits : args.hits[h] \in Nat \ {0}
  BY <1>1, <1>4, ElementOfSeq
<1> QED BY <1>2, <1>3, <1>4, <1>5, <1>6, LocalAssumption

\* The plan of a user has as many tests as the hits add up to.
LEMMA PlanType ==
  ASSUME args \in Arguments
  PROVE  Plan \in Seq(Nat \X Nat) /\ Len(Plan) = Sum(args.hits) /\ Len(Plan) \in Nat
<1> DEFINE n == Len(args.hits)
           blocks == [h \in DOMAIN args.hits |->
                        [k \in 1..args.hits[h] |-> <<args.hits[h], k>>]]
<1>1. args.hits \in Seq(Nat) /\ n \in Nat /\ DOMAIN args.hits = 1..n
      /\ \A h \in 1..n : args.hits[h] \in Nat
  BY ArgumentTypes
<1>2. ASSUME NEW h \in 1..n
      PROVE  blocks[h] \in Seq(Nat \X Nat) /\ Len(blocks[h]) = args.hits[h]
  <2> DEFINE m == args.hits[h]
             block == [k \in 1..m |-> <<m, k>>]
  <2>1. m \in Nat /\ blocks[h] = block
    BY <1>1
  <2> HIDE DEF m
  <2>2. block \in [1..m -> Nat \X Nat]
    BY <2>1
  <2>3. block \in Seq(Nat \X Nat)
    BY <2>1, <2>2, SeqDef
  <2>4. Len(block) = m
    BY <2>1, <2>2, <2>3, LenProperties
  <2> HIDE DEF block
  <2> QED BY <2>1, <2>3, <2>4 DEF m
<1>3. blocks \in Seq(Seq(Nat \X Nat)) /\ Len(blocks) = n
  <2>1. blocks \in [1..n -> Seq(Nat \X Nat)]
    <3>1. blocks = [h \in 1..n |-> blocks[h]]
      BY <1>1
    <3> HIDE DEF blocks
    <3> QED BY <1>2, <3>1
  <2> HIDE DEF blocks
  <2>2. blocks \in Seq(Seq(Nat \X Nat))
    BY <1>1, <2>1, SeqDef
  <2> QED BY <1>1, <2>1, <2>2, LenProperties
<1>4. Plan = FlattenSeq(blocks)
  BY DEF Plan
<1> HIDE DEF blocks
<1>5. PICK f : Totals(f, args.hits)
  BY <1>1, SumIsTotal
<1>6. f \in [0..Len(blocks) -> Nat] /\ f[0] = 0
      /\ \A i \in 1..Len(blocks) : f[i] = f[i - 1] + Len(blocks[i])
  BY <1>2, <1>3, <1>5 DEF Totals
<1>7. Plan \in Seq(Nat \X Nat) /\ Len(Plan) = f[n]
  BY <1>3, <1>4, <1>6, FlattenedLength
<1>8. Sum(args.hits) = f[n]
  BY <1>1, <1>5, SumIsTotal
<1> QED BY <1>7, <1>8, LenProperties

\* The greenlets of all users of a run.
Staff == UNION {Users(c) : c \in Cycles}

\* A cycle has as many as it has users,
LEMMA UsersOfRun ==
  ASSUME args \in Arguments, NEW c \in Cycles
  PROVE  /\ Users(c) = {<<c, n>> : n \in 0..(args.users[c] - 1)}
         /\ \A g \in Users(c) : g \in Greenlets /\ g = <<c, g[2]>>
                                /\ g[2] \in Nat /\ g[2] < args.users[c]
         /\ \A n \in 0..(args.users[c] - 1) : <<c, n>> \in Users(c)
         /\ IsFiniteSet(Users(c)) /\ Cardinality(Users(c)) = args.users[c]
<1> DEFINE k == args.users[c]
<1>1. k \in Nat \ {0}
  BY ArgumentTypes
<1>2. ASSUME NEW g \in Users(c) PROVE g \in Greenlets /\ g = <<c, g[2]>> /\ g[2] \in Nat /\ g[2] < k
  <2>1. g \in Greenlets /\ g[1] = c /\ g[2] < k
    BY DEF Users
  <2>2. PICK a \in Arguments : \E d \in DOMAIN a.users : \E n \in 0..(a.users[d] - 1) : g = <<d, n>>
    BY <2>1 DEF Greenlets
  <2>3. PICK d \in DOMAIN a.users : \E n \in 0..(a.users[d] - 1) : g = <<d, n>>
    BY <2>2
  <2>4. PICK n \in 0..(a.users[d] - 1) : g = <<d, n>>
    BY <2>3
  <2> QED BY <2>1, <2>4
<1>3. ASSUME NEW n \in 0..(k - 1) PROVE <<c, n>> \in Users(c)
  <2>1. <<c, n>> \in Greenlets
    BY DEF Greenlets, Cycles
  <2>2. n < k
    BY <1>1
  <2> QED BY <2>1, <2>2 DEF Users
<1>4. Users(c) = {<<c, n>> : n \in 0..(k - 1)}
  <2>1. \A g \in Users(c) : g[2] \in 0..(k - 1) /\ g = <<c, g[2]>>
    BY <1>1, <1>2
  <2> QED BY <1>3, <2>1
<1>5. IsFiniteSet(Users(c)) /\ Cardinality(Users(c)) = k
  <2> DEFINE f == [n \in 0..(k - 1) |-> <<c, n>>]
  <2>1. f \in Bijection(0..(k - 1), Users(c))
    BY <1>4 DEF Bijection, Injection, Surjection, IsInjective
  <2>2. IsFiniteSet(0..(k - 1)) /\ Cardinality(0..(k - 1)) = k
    <3>1. 0 \in Int /\ k - 1 \in Int /\ ~(0 > k - 1) /\ (k - 1) - 0 + 1 = k
      BY <1>1
    <3> HIDE DEF k
    <3> QED BY <3>1, FS_Interval
  <2>3. ExistsBijection(0..(k - 1), Users(c))
    BY <2>1 DEF ExistsBijection
  <2> QED BY <2>2, <2>3, FS_Bijection
<1> QED BY <1>2, <1>3, <1>4, <1>5

\* ... and all of them together as many as these add up to.
LEMMA StaffSize ==
  ASSUME args \in Arguments
  PROVE  IsFiniteSet(Staff) /\ Cardinality(Staff) = Sum(args.users)
<1> DEFINE n == Len(args.users)
           First(i) == UNION {Users(c) : c \in 1..i}
<1>1. args.users \in Seq(Nat) /\ n \in Nat /\ Cycles = 1..n
  BY ArgumentTypes
<1>2. PICK f : Totals(f, args.users)
  BY <1>1, SumIsTotal
<1> DEFINE T == {i \in Nat : i <= n => IsFiniteSet(First(i)) /\ Cardinality(First(i)) = f[i]}
<1>3. 0 \in T
  <2>1. First(0) = {}
    OBVIOUS
  <2> HIDE DEF First
  <2> QED BY <1>2, <2>1, FS_EmptySet DEF Totals
<1>4. ASSUME NEW i \in T \cap Nat PROVE i + 1 \in T
  <2> SUFFICES ASSUME i + 1 <= n
               PROVE  IsFiniteSet(First(i + 1)) /\ Cardinality(First(i + 1)) = f[i + 1]
    OBVIOUS
  <2>1. i + 1 \in Cycles /\ i <= n /\ (i + 1) - 1 = i /\ 1..(i + 1) = (1..i) \cup {i + 1}
        /\ 1..i \subseteq Cycles /\ i + 1 \notin 1..i
    BY <1>1
  <2>2. First(i + 1) = First(i) \cup Users(i + 1)
    BY <2>1
  <2>3. First(i) \cap Users(i + 1) = {}
    <3>1. \A g \in First(i) : g[1] \in 1..i
      BY DEF Users
    <3>2. \A g \in Users(i + 1) : g[1] = i + 1
      BY DEF Users
    <3> HIDE DEF First
    <3> QED BY <2>1, <3>1, <3>2
  <2>4. IsFiniteSet(Users(i + 1)) /\ Cardinality(Users(i + 1)) = args.users[i + 1]
    BY <2>1, UsersOfRun
  <2>5. f[i + 1] = f[i] + args.users[i + 1] /\ f[i] \in Nat /\ args.users[i + 1] \in Nat
    BY <1>1, <1>2, <2>1, ElementOfSeq DEF Totals
  <2>6. IsFiniteSet(First(i)) /\ Cardinality(First(i)) = f[i]
    BY <2>1
  <2> HIDE DEF First
  <2>7. Cardinality({}) = 0
    BY FS_EmptySet
  <2> QED BY <2>2, <2>3, <2>4, <2>5, <2>6, <2>7, FS_Union
<1> HIDE DEF T
<1>5. n \in T
  BY <1>1, <1>3, <1>4, SetInduction
<1>6. First(n) = Staff
  BY <1>1 DEF Staff
<1>7. Sum(args.users) = f[n]
  BY <1>1, <1>2, SumIsTotal
<1> HIDE DEF First
<1> QED BY <1>1, <1>5, <1>6, <1>7 DEF T

\* _compute_arguments: each user runs the plan.
LEMMA TotalIsProduct ==
  ASSUME args \in Arguments
  PROVE  Total = Sum(args.users) * Sum(args.hits)
<1> DEFINE hits == args.hits
           users == args.users
           perUser == Sum(hits)
<1>1. hits \in Seq(Nat) /\ users \in Seq(Nat) /\ \A u \in DOMAIN users : users[u] \in Nat
  BY ArgumentTypes DEF Cycles
<1>2. \A u \in DOMAIN users : Sum([h \in DOMAIN hits |-> hits[h] * users[u]]) = perUser * users[u]
      /\ perUser \in Nat
  BY <1>1, SumOfMultiples
<1>3. perUser \in Nat
  BY <1>1, SumOfMultiples
<1>4. Total = Sum([u \in DOMAIN users |-> Sum([h \in DOMAIN hits |-> hits[h] * users[u]])])
  BY DEF Total
<1> HIDE DEF perUser
<1>5. [u \in DOMAIN users |-> Sum([h \in DOMAIN hits |-> hits[h] * users[u]])]
        = [u \in DOMAIN users |-> users[u] * perUser]
  <2>1. \A u \in DOMAIN users : perUser * users[u] = users[u] * perUser
    BY <1>1, <1>3
  <2> QED BY <1>2, <2>1
<1>6. Sum([u \in DOMAIN users |-> users[u] * perUser]) = Sum(users) * perUser
  BY <1>1, <1>3, SumOfMultiples
<1> QED BY <1>4, <1>5, <1>6 DEF perUser

-----------------------------------------------------------------------------
(* The inductive invariant.                                                *)

Places == {"new", "aborting", "failed", "spawning", "joined", "closing", "exited"}

\* What waits for a batch.
ReportType == [type : Types, by : Greenlets \cup {<<>>}, n : Nat]

\* TypeOK with what is in the pipe.
LocalTypes ==
    /\ args \in Arguments
    /\ main \in Places
    /\ cycle \in Cycles /\ spawned \in 0..args.users[cycle]
    /\ interrupted \in BOOLEAN /\ spinning \in BOOLEAN
    /\ user \in [Greenlets -> {"none", "running", "ended", "done"}]
    /\ test \in [Greenlets -> {"none", "idle", "testing"}]
    /\ tests \in [Greenlets -> Nat]
    /\ sockets \in [Greenlets -> Seq(SocketType)] /\ links \in [Greenlets -> Nat]
    /\ \A g \in Greenlets : user[g] = "ended" => links[g] # 0
    /\ pending \subseteq ReportType
    /\ (\E S : pipe \in Seq(S)) /\ Len(pipe) <= HighWater
    /\ \A i \in 1..Len(pipe) : \A e \in pipe[i] : e.type \in Types
    /\ \A e \in received : e.type \in Types

\* Wherever stopTestRun is, nothing comes after it: it waits only while main
\* closes the relay, is in the last batch and with nothing left to send, and the
\* pipe is empty when it arrives.  A batch that does not fit keeps main waiting.
StopSound ==
    /\ spinning => Waits
    /\ \A r \in pending : r.type = "stopTestRun" => main = "closing"
    /\ \A i \in 1..Len(pipe) : \A e \in pipe[i] :
         e.type = "stopTestRun" => i = Len(pipe) /\ pending = {} /\ main = "closing"
    /\ \A e \in received :
         e.type = "stopTestRun" => pipe = <<>> /\ pending = {} /\ main \in {"closing", "exited"}
    /\ main = "exited" => pipe = <<>> /\ pending = {}

\* Main has been through all cycles.
Through == main = "joined" \/ (main \in {"closing", "exited"} /\ ~interrupted)

\* Main has spawned this user.
Spawned(g) == g \in Staff /\ (g[1] < cycle \/ (g[1] = cycle /\ g[2] < spawned))

\* The users that exist are those main has spawned, of past cycles all have
\* ended, and in a run with hits their tests end with them.
StaffSound ==
    \A g \in Greenlets :
      /\ user[g] # "none" <=> Spawned(g)
      /\ test[g] # "none" => user[g] # "none"
      /\ g \in Staff /\ (g[1] < cycle \/ Through) => user[g] \in {"ended", "done"}
      /\ Through /\ main # "joined" => user[g] # "ended"
      /\ ~args.duration => (test[g] # "none" <=> user[g] = "running")

\* In a run with hits: how far a user is, and that there is a link to cleanup
\* for each socket it has to close.
ProgressSound ==
    \A g \in Greenlets :
      /\ tests[g] <= Len(Plan)
      /\ test[g] = "testing" => tests[g] # 0
      /\ user[g] = "none" => tests[g] = 0 /\ sockets[g] = <<>>
      /\ user[g] \in {"ended", "done"} => tests[g] = Len(Plan)
      /\ Cardinality(Unclosed(g)) <= links[g]
      /\ user[g] = "done" => links[g] = 0

OfUsers == OfTest \cup {"socket_open", "socket_close"}

\* The numbers of a type that a greenlet has reported.
Numbers(type, g) ==
    IF type = "startTest" THEN 1..tests[g]
    ELSE IF type = "stopTest"
         THEN 1..(IF test[g] = "testing" THEN tests[g] - 1 ELSE tests[g])
    ELSE {i \in 1..Len(sockets[g]) :
            type = "socket_open" \/ sockets[g][i].state = "closed"}

InPipe == UNION {pipe[i] : i \in 1..Len(pipe)}

\* What was reported in a run with hits, wherever it is.
Everywhere == received \cup InPipe \cup Batch

\* Reports are neither lost nor made up nor changed on their way.
ReportsSound ==
    /\ \A e \in Everywhere : e.type \in OfUsers =>
         /\ e.by \in Greenlets /\ e.n \in Numbers(e.type, e.by)
         /\ e = Encoded(Report(e.type, e.by, e.n))
    /\ \A type \in OfUsers, g \in Greenlets : \A n \in Numbers(type, g) :
         Encoded(Report(type, g, n)) \in Everywhere

HitsInv == ~args.duration => ProgressSound /\ ReportsSound

LocalIInv == LocalTypes /\ StopSound /\ StaffSound /\ HitsInv

-----------------------------------------------------------------------------
(* What steps do to the sockets of a greenlet.                             *)

LEMMA UnclosedFinite ==
  ASSUME LocalTypes, NEW g \in Greenlets
  PROVE  /\ sockets[g] \in Seq(SocketType) /\ Len(sockets[g]) \in Nat
         /\ DOMAIN sockets[g] = 1..Len(sockets[g])
         /\ IsFiniteSet(Unclosed(g)) /\ Cardinality(Unclosed(g)) \in Nat
<1>1. sockets[g] \in Seq(SocketType)
  BY DEF LocalTypes
<1>2. Len(sockets[g]) \in Nat /\ DOMAIN sockets[g] = 1..Len(sockets[g])
  BY <1>1, LenProperties
<1>3. IsFiniteSet(1..Len(sockets[g]))
  BY <1>2, FS_Interval
<1>4. Unclosed(g) \subseteq 1..Len(sockets[g])
  BY <1>2 DEF Unclosed
<1> QED BY <1>1, <1>2, <1>3, <1>4, FS_Subset, FS_CardinalityType

\* Some open ones of a greenlet are closed or dropped.
Turn(g, S, state) ==
    /\ \A i \in S : i \in DOMAIN sockets[g] /\ sockets[g][i].state = "open"
    /\ sockets' = [sockets EXCEPT ![g] = Becomes(@, S, state)]

LEMMA TurnsIn ==
  /\ \A g, i : CloseSocket(g, i) /\ i \in DOMAIN sockets[g] => Turn(g, {i}, "closed")
  /\ \A g, i : DropSocket(g, i) /\ i \in DOMAIN sockets[g] => Turn(g, {i}, "dropped")
  /\ \A g : Cleanup(g) =>
       \E last : /\ Turn(g, Shut(g, last), "closed")
                 /\ Push(Reports("socket_close", g, Shut(g, last)))
                 /\ last \in Unclosed(g) \/ Unclosed(g) = {}
<1>1. ASSUME NEW g, NEW i \in DOMAIN sockets[g], CloseSocket(g, i) PROVE Turn(g, {i}, "closed")
  BY <1>1 DEF CloseSocket, Turn
<1>2. ASSUME NEW g, NEW i \in DOMAIN sockets[g], DropSocket(g, i) PROVE Turn(g, {i}, "dropped")
  BY <1>2 DEF DropSocket, Turn
<1>3. ASSUME NEW g, Cleanup(g)
      PROVE  \E last : /\ Turn(g, Shut(g, last), "closed")
                       /\ Push(Reports("socket_close", g, Shut(g, last)))
                       /\ last \in Unclosed(g) \/ Unclosed(g) = {}
  <2>1. PICK last \in DOMAIN sockets[g] \cup {0} :
          /\ last \in Unclosed(g) \/ Unclosed(g) = {}
          /\ sockets' = [sockets EXCEPT ![g] = Becomes(@, Shut(g, last), "closed")]
          /\ Push(Reports("socket_close", g, Shut(g, last)))
    BY <1>3 DEF Cleanup
  <2>2. \A i \in Shut(g, last) : i \in DOMAIN sockets[g] /\ sockets[g][i].state = "open"
    BY DEF Shut, Unclosed
  <2> QED BY <2>1, <2>2 DEF Turn
<1> QED BY <1>1, <1>2, <1>3

\* They keep their class and their place.
LEMMA StateChanges ==
  ASSUME LocalTypes, NEW g \in Greenlets, NEW state \in {"closed", "dropped"}, NEW S,
         Turn(g, S, state)
  PROVE  /\ sockets' \in [Greenlets -> Seq(SocketType)]
         /\ \A x \in Greenlets : x # g => sockets'[x] = sockets[x]
         /\ Len(sockets'[g]) = Len(sockets[g])
         /\ Unclosed(g)' = Unclosed(g) \ S
         /\ \A i \in 1..Len(sockets[g]) :
              sockets'[g][i].state = "closed" <=>
                sockets[g][i].state = "closed" \/ (i \in S /\ state = "closed")
<1> USE DEF Turn
<1> DEFINE s == sockets[g]
           new == Becomes(s, S, state)
<1>1. s \in Seq(SocketType) /\ Len(s) \in Nat /\ DOMAIN s = 1..Len(s)
      /\ \A i \in 1..Len(s) : s[i] \in SocketType
  BY UnclosedFinite, ElementOfSeq
<1>2. DOMAIN new = 1..Len(s)
  BY <1>1 DEF Becomes
<1>3. \A i \in 1..Len(s) :
        /\ new[i] = IF i \in S THEN [custom |-> s[i].custom, state |-> state] ELSE s[i]
        /\ new[i] \in SocketType /\ new[i].custom = s[i].custom
        /\ new[i].state = IF i \in S THEN state ELSE s[i].state
  BY <1>1 DEF Becomes, SocketType
<1>4. new \in [1..Len(s) -> SocketType]
  <2>1. new = [i \in 1..Len(s) |-> new[i]]
    BY <1>1 DEF Becomes
  <2> HIDE DEF new
  <2> QED BY <1>3, <2>1
<1>5. new \in Seq(SocketType) /\ Len(new) = Len(s)
  <2>1. new \in Seq(SocketType)
    BY <1>1, <1>4, SeqDef
  <2> QED BY <1>1, <1>2, <2>1, LenProperties
<1>6. sockets'[g] = new /\ sockets' = [sockets EXCEPT ![g] = new]
  BY DEF LocalTypes
<1> HIDE DEF new
<1>7. sockets' \in [Greenlets -> Seq(SocketType)]
      /\ \A x \in Greenlets : x # g => sockets'[x] = sockets[x]
  BY <1>5, <1>6 DEF LocalTypes
<1>8. Unclosed(g)' = {i \in 1..Len(s) : new[i].state = "open" /\ ~new[i].custom}
  BY <1>2, <1>6 DEF Unclosed
<1>9. Unclosed(g) = {i \in 1..Len(s) : s[i].state = "open" /\ ~s[i].custom}
  BY <1>1 DEF Unclosed
<1>10. \A i \in 1..Len(s) : new[i].state = "open" <=> s[i].state = "open" /\ i \notin S
  BY <1>3
<1>11. Unclosed(g)' = Unclosed(g) \ S
  BY <1>3, <1>8, <1>9, <1>10
<1>12. \A i \in 1..Len(s) :
         new[i].state = "closed" <=> s[i].state = "closed" \/ (i \in S /\ state = "closed")
  BY <1>1, <1>3
<1> QED BY <1>5, <1>6, <1>7, <1>11, <1>12

\* A new one is the last.
LEMMA SocketOpens ==
  ASSUME LocalTypes, NEW g \in Greenlets, NEW custom \in BOOLEAN, OpenSocket(g, custom)
  PROVE  /\ sockets' \in [Greenlets -> Seq(SocketType)]
         /\ \A x \in Greenlets : x # g => sockets'[x] = sockets[x]
         /\ Len(sockets'[g]) = Len(sockets[g]) + 1
         /\ Unclosed(g)' = Unclosed(g) \cup IF custom THEN {} ELSE {Len(sockets[g]) + 1}
         /\ Len(sockets[g]) + 1 \notin Unclosed(g)
         /\ \A i \in 1..Len(sockets'[g]) :
              sockets'[g][i].state = "closed" <=>
                i \in 1..Len(sockets[g]) /\ sockets[g][i].state = "closed"
<1> DEFINE s == sockets[g]
           one == [custom |-> custom, state |-> "open"]
           n == Len(s) + 1
<1>1. s \in Seq(SocketType) /\ Len(s) \in Nat /\ DOMAIN s = 1..Len(s) /\ n \in Nat
  BY UnclosedFinite
<1>2. one \in SocketType /\ one.custom = custom /\ one.state = "open"
  BY DEF SocketType
<1>3. sockets' = [sockets EXCEPT ![g] = Append(s, one)]
  BY DEF OpenSocket
<1> PICK new : new = Append(s, one)
  OBVIOUS
<1>4. new \in Seq(SocketType) /\ Len(new) = n /\ DOMAIN new = 1..n
      /\ (\A i \in 1..Len(s) : new[i] = s[i]) /\ new[n] = one
  <2> HIDE DEF one
  <2>1. new \in Seq(SocketType) /\ Len(new) = n /\ (\A i \in 1..Len(s) : new[i] = s[i])
        /\ new[n] = one
    BY <1>1, <1>2, AppendProperties
  <2> QED BY <2>1, LenProperties
<1>5. sockets'[g] = new /\ sockets' \in [Greenlets -> Seq(SocketType)]
      /\ \A x \in Greenlets : x # g => sockets'[x] = sockets[x]
  <2>1. sockets' = [sockets EXCEPT ![g] = new]
    BY <1>3
  <2> QED BY <1>4, <2>1 DEF LocalTypes
<1>6. Unclosed(g)' = {i \in 1..n : new[i].state = "open" /\ ~new[i].custom}
  BY <1>4, <1>5 DEF Unclosed
<1>7. Unclosed(g) = {i \in 1..Len(s) : s[i].state = "open" /\ ~s[i].custom}
  BY <1>1 DEF Unclosed
<1>8. \A i : i \in 1..n <=> i \in 1..Len(s) \/ i = n
  BY <1>1
<1>9. n \notin 1..Len(s)
  BY <1>1
<1> HIDE DEF one, n
<1>10. Unclosed(g)' = Unclosed(g) \cup IF custom THEN {} ELSE {n}
  BY <1>2, <1>4, <1>6, <1>7, <1>8, <1>9
<1>11. ASSUME NEW i \in 1..n
       PROVE  new[i].state = "closed" <=> i \in 1..Len(s) /\ s[i].state = "closed"
  BY <1>2, <1>4, <1>8, <1>9
<1> QED BY <1>4, <1>5, <1>7, <1>9, <1>10, <1>11 DEF n

-----------------------------------------------------------------------------
(* Every step keeps it: types.                                             *)

\* Reports of a run's greenlets and of main have their type.
LEMMA ReportTypes ==
  /\ \A type \in Types, g \in Greenlets, n \in Nat : Report(type, g, n) \in ReportType
  /\ \A type \in Types : OfMain(type) \in ReportType
  /\ \A type \in Types, g \in Greenlets, numbers \in SUBSET Nat :
       Reports(type, g, numbers) \subseteq ReportType
  /\ \A r \in ReportType : Encoded(r).type = r.type
BY DEF Report, OfMain, Reports, ReportType, Encoded

\* A batch that is sent is the last one.
LEMMA SentLast ==
  ASSUME LocalTypes, Sends, HasRoom
  PROVE  /\ \E S : pipe' \in Seq(S)
         /\ Len(pipe') = Len(pipe) + 1 /\ Len(pipe) \in Nat
         /\ \A i \in 1..Len(pipe) : pipe'[i] = pipe[i]
         /\ pipe'[Len(pipe) + 1] = Batch /\ pending' = {} /\ Len(pipe') <= HighWater
         /\ \A e \in Batch : \E r \in pending : e = Encoded(r) /\ e.type = r.type
         /\ \A i \in 1..Len(pipe') : \A e \in pipe'[i] : e.type \in Types
<1>1. PICK S : pipe \in Seq(S)
  BY DEF LocalTypes
<1>2. pipe' = Append(pipe, Batch)
  BY DEF Sends
<1> DEFINE T == S \cup {Batch}
<1>3. pipe \in Seq(T) /\ Batch \in T
  BY <1>1, SeqMonotonic
<1> HIDE DEF T
<1>4. /\ pipe' \in Seq(T) /\ Len(pipe') = Len(pipe) + 1 /\ Len(pipe) \in Nat
      /\ \A i \in 1..Len(pipe) : pipe'[i] = pipe[i]
      /\ pipe'[Len(pipe) + 1] = Batch
  BY <1>2, <1>3, AppendProperties, LenProperties
<1>5. Len(pipe') <= HighWater
  BY <1>4, LocalAssumption DEF HasRoom
<1>6. \A e \in Batch : \E r \in pending : e = Encoded(r) /\ e.type = r.type
  BY ReportTypes DEF Batch, LocalTypes
<1>7. \A i \in 1..Len(pipe') : \A e \in pipe'[i] : e.type \in Types
  <2>1. \A e \in Batch : e.type \in Types
    BY <1>6 DEF LocalTypes, ReportType
  <2>2. \A i \in 1..Len(pipe') : i \in 1..Len(pipe) \/ i = Len(pipe) + 1
    BY <1>4
  <2> QED BY <1>4, <2>1, <2>2 DEF LocalTypes
<1> QED BY <1>4, <1>5, <1>6, <1>7 DEF Sends

\* What is received is the first one.
LEMMA ReceivedFirst ==
  ASSUME LocalTypes, Receive
  PROVE  /\ \E S : pipe' \in Seq(S)
         /\ Len(pipe) = Len(pipe') + 1 /\ Len(pipe') \in Nat
         /\ \A i \in 1..Len(pipe') : pipe'[i] = pipe[i + 1] /\ i + 1 \in 1..Len(pipe)
         /\ received' = received \cup pipe[1] /\ 1 \in 1..Len(pipe)
         /\ Len(pipe) = 1 => pipe' = <<>>
<1>1. PICK S : pipe \in Seq(S)
  BY DEF LocalTypes
<1>2. pipe # <<>> /\ pipe' = Tail(pipe) /\ received' = received \cup Head(pipe)
  BY DEF Receive
<1>3. /\ pipe' \in Seq(S) /\ Len(pipe') = Len(pipe) - 1 /\ Len(pipe) \in Nat /\ Len(pipe) # 0
      /\ \A i \in 1..Len(pipe') : pipe'[i] = pipe[i + 1]
  BY <1>1, <1>2, HeadTailProperties, LenProperties, EmptySeq
<1>4. Head(pipe) = pipe[1]
  BY <1>1, <1>2
<1>5. Len(pipe) = 1 => pipe' = <<>>
  BY <1>3, EmptySeq
<1> QED BY <1>2, <1>3, <1>4, <1>5

LEMMA TypesInit == Init => LocalTypes
<1> SUFFICES ASSUME Init PROVE LocalTypes
  OBVIOUS
<1>1. cycle \in Cycles /\ spawned \in 0..args.users[cycle]
  BY ArgumentTypes DEF Init
<1>2. pipe \in Seq({}) /\ Len(pipe) = 0 /\ received = {}
  BY EmptySeq DEF Init
<1>3. Len(pipe) <= HighWater
  BY <1>2, LocalAssumption
<1>4. pending = {} /\ \E S : pipe \in Seq(S)
  BY <1>2 DEF Init
<1>5. \A i \in 1..Len(pipe) : \A e \in pipe[i] : e.type \in Types
  BY <1>2
<1>6. /\ sockets \in [Greenlets -> Seq(SocketType)] /\ links \in [Greenlets -> Nat]
      /\ \A g \in Greenlets : user[g] = "none"
  <2>1. <<>> \in Seq(SocketType)
    BY EmptySeq
  <2> QED BY <2>1 DEF Init
<1> QED BY <1>1, <1>2, <1>3, <1>4, <1>5, <1>6 DEF Init, LocalTypes, Places

LEMMA SendsTypes ==
  ASSUME LocalTypes, Sends, HasRoom, UNCHANGED <<args, place, greenlets, received>>,
         spinning' \in BOOLEAN
  PROVE  LocalTypes'
<1>1. /\ \E S : pipe' \in Seq(S)
      /\ Len(pipe') <= HighWater /\ pending' = {}
      /\ \A i \in 1..Len(pipe') : \A e \in pipe'[i] : e.type \in Types
  BY SentLast
<1> QED BY <1>1 DEF LocalTypes, place, greenlets, Cycles, Places

LEMMA TypesStep ==
  ASSUME LocalTypes, [Next]_vars
  PROVE  LocalTypes'
<1> USE DEF LocalTypes
<1>1. CASE UNCHANGED vars
  BY <1>1 DEF vars, Cycles, Places
<1>2. CASE Dump
  <2>1. CASE HasRoom
    <3>1. Sends /\ UNCHANGED <<args, place, greenlets, received, spinning>>
      BY <1>2, <2>1 DEF Dump
    <3> QED BY <2>1, <3>1, SendsTypes
  <2>2. CASE ~HasRoom
    BY <1>2, <2>2 DEF Dump, place, greenlets, Cycles, Places
  <2> QED BY <2>1, <2>2
<1>3. CASE Retry
  <2>1. HasRoom /\ Sends /\ spinning' = FALSE /\ UNCHANGED <<args, place, greenlets, received>>
    BY <1>3 DEF Retry
  <2> QED BY <2>1, SendsTypes
<1>4. CASE Receive
  <2>1. UNCHANGED <<args, place, greenlets, pending, spinning>>
    BY <1>4 DEF Receive
  <2>2. \A i \in 1..Len(pipe') : \A e \in pipe'[i] : e.type \in Types
    BY <1>4, ReceivedFirst
  <2>3. \A e \in received' : e.type \in Types
    BY <1>4, ReceivedFirst
  <2>4. Len(pipe') <= HighWater /\ \E S : pipe' \in Seq(S)
    BY <1>4, ReceivedFirst, LocalAssumption
  <2> QED BY <2>1, <2>2, <2>3, <2>4 DEF place, greenlets, Cycles, Places
<1>5. CASE Start \/ ResolveFails \/ NoTestClass \/ StopTestRun
  <2>1. \A type \in {"startTestRun", "stopTestRun", "addError"} : OfMain(type) \in ReportType
    BY ReportTypes DEF Types
  <2>2. main' \in Places /\ pending' \subseteq ReportType
    BY <1>5, <2>1 DEF Start, ResolveFails, NoTestClass, StopTestRun, Push, Places
  <2>3. UNCHANGED <<args, cycle, spawned, interrupted, greenlets, spinning, pipe, received>>
    BY <1>5 DEF Start, ResolveFails, NoTestClass, StopTestRun
  <2> QED BY <2>2, <2>3 DEF greenlets, Cycles
<1>6. CASE SpawnUser
  <2>1. spawned + 1 \in 0..args.users[cycle] /\ args.users[cycle] \in Nat
    BY <1>6, ArgumentTypes DEF SpawnUser
  <2>2. user' = [user EXCEPT ![<<cycle, spawned>>] = "running"]
    BY <1>6 DEF SpawnUser
  <2>3. \A g \in Greenlets : user'[g] = "ended" => user[g] = "ended"
    BY <2>2
  <2> QED BY <1>6, <2>1, <2>3 DEF SpawnUser, relay, Cycles, Places
<1>7. CASE JoinAll
  <2>1. cycle' \in Cycles /\ spawned' \in 0..args.users[cycle'] /\ main' \in Places
    <3>1. CASE cycle < Len(args.users)
      <4>1. cycle' = cycle + 1 /\ spawned' = 0 /\ UNCHANGED <<args, main>>
        BY <1>7, <3>1 DEF JoinAll
      <4>2. cycle + 1 \in Cycles
        BY <3>1, ArgumentTypes
      <4>3. args.users[cycle + 1] \in Nat
        BY <4>2, ArgumentTypes
      <4> QED BY <4>1, <4>2, <4>3
    <3>2. CASE ~(cycle < Len(args.users))
      BY <1>7, <3>2 DEF JoinAll, Places
    <3> QED BY <3>1, <3>2
  <2>2. UNCHANGED <<args, interrupted, greenlets, relay>>
    BY <1>7 DEF JoinAll
  <2> QED BY <2>1, <2>2 DEF greenlets, relay, Cycles
<1>8. CASE Interrupt \/ Exit
  BY <1>8 DEF Interrupt, Exit, greenlets, relay, Cycles, Places
<1>9. CASE CloseDumps
  <2>1. HasRoom /\ Sends /\ UNCHANGED <<args, place, greenlets, received, spinning>>
    BY <1>9 DEF CloseDumps
  <2> QED BY <2>1, SendsTypes
<1>10. ASSUME NEW g \in Greenlets, StartTest(g) \/ FinishTest(g) PROVE LocalTypes'
  <2>1. \A n \in Nat : /\ Report("startTest", g, n) \in ReportType
                      /\ Report("stopTest", g, n) \in ReportType
    BY ReportTypes DEF Types
  <2>2. pending' \subseteq ReportType
    <3>1. tests[g] \in Nat /\ tests[g] + 1 \in Nat
      OBVIOUS
    <3> QED BY <1>10, <2>1, <3>1 DEF StartTest, FinishTest, Push
  <2>3. tests' \in [Greenlets -> Nat] /\ test' \in [Greenlets -> {"none", "idle", "testing"}]
    <3>1. CASE StartTest(g)
      BY <3>1 DEF StartTest
    <3>2. CASE FinishTest(g)
      BY <3>2 DEF FinishTest
    <3> QED BY <1>10, <3>1, <3>2
  <2>4. UNCHANGED <<args, place, user, sockets, links, spinning, pipe, received>>
    BY <1>10 DEF StartTest, FinishTest
  <2> QED BY <2>2, <2>3, <2>4 DEF place, Cycles
<1>11. ASSUME NEW g \in Greenlets, NEW custom \in BOOLEAN, OpenSocket(g, custom)
       PROVE  LocalTypes'
  <2>1. sockets' \in [Greenlets -> Seq(SocketType)]
    BY <1>11, SocketOpens
  <2>2. pending' \subseteq ReportType
    <3>1. Len(sockets[g]) + 1 \in Nat /\ "socket_open" \in Types
      BY UnclosedFinite DEF Types
    <3>2. pending' = pending \cup {Report("socket_open", g, Len(sockets[g]) + 1)}
      BY <1>11 DEF OpenSocket, Push
    <3> QED BY <3>1, <3>2, ReportTypes
  <2>3. /\ links' \in [Greenlets -> Nat]
        /\ \A x \in Greenlets : links[x] # 0 => links'[x] # 0
    BY <1>11 DEF OpenSocket, Linked
  <2>4. UNCHANGED <<args, place, user, test, tests, spinning, pipe, received>>
    BY <1>11 DEF OpenSocket
  <2> QED BY <2>1, <2>2, <2>3, <2>4 DEF place, Cycles
<1>12. ASSUME NEW g \in Greenlets, ConnectFails(g) PROVE LocalTypes'
  <2>1. /\ links' \in [Greenlets -> Nat]
        /\ \A x \in Greenlets : links[x] # 0 => links'[x] # 0
    BY <1>12 DEF ConnectFails, Linked
  <2>2. UNCHANGED <<args, place, user, test, tests, sockets, relay>>
    BY <1>12 DEF ConnectFails
  <2> QED BY <2>1, <2>2 DEF place, relay, Cycles
<1>13. ASSUME NEW g \in Greenlets, NEW i \in DOMAIN sockets[g],
              CloseSocket(g, i) \/ DropSocket(g, i)
       PROVE  LocalTypes'
  <2>1. PICK state \in {"closed", "dropped"} : Turn(g, {i}, state)
    BY <1>13, TurnsIn
  <2>2. sockets' \in [Greenlets -> Seq(SocketType)]
    BY <2>1, StateChanges
  <2>3. pending' \subseteq ReportType
    <3>1. i \in Nat /\ "socket_close" \in Types
      BY UnclosedFinite DEF Types
    <3> QED BY <1>13, <3>1, ReportTypes DEF CloseSocket, DropSocket, Push, relay
  <2>4. UNCHANGED <<args, place, user, test, tests, links, spinning, pipe, received>>
    BY <1>13 DEF CloseSocket, DropSocket, relay
  <2> QED BY <2>2, <2>3, <2>4 DEF place, Cycles
<1>14. ASSUME NEW g \in Greenlets, EndUser(g) \/ DurationOver(g) PROVE LocalTypes'
  <2>1. /\ user' \in [Greenlets -> {"none", "running", "ended", "done"}]
        /\ \A x \in Greenlets : user'[x] = "ended" => links[x] # 0
    BY <1>14 DEF EndUser, DurationOver
  <2> QED BY <1>14, <2>1 DEF EndUser, DurationOver, place, relay, Cycles, Places
<1>15. ASSUME NEW g \in Greenlets, Cleanup(g) PROVE LocalTypes'
  <2>1. PICK last : /\ Turn(g, Shut(g, last), "closed")
                    /\ pending' = pending \cup Reports("socket_close", g, Shut(g, last))
    BY <1>15, TurnsIn DEF Push
  <2>2. /\ user[g] = "ended" /\ links' = [links EXCEPT ![g] = @ - 1]
        /\ user' = [user EXCEPT ![g] = IF links[g] = 1 THEN "done" ELSE "ended"]
        /\ UNCHANGED <<args, place, test, tests, spinning, pipe, received>>
    BY <1>15 DEF Cleanup
  <2>3. links[g] \in Nat \ {0}
    BY <2>2
  <2>4. links' \in [Greenlets -> Nat] /\ \A x \in Greenlets : user'[x] = "ended" => links'[x] # 0
    BY <2>2, <2>3
  <2>5. \A i \in Shut(g, last) : i \in DOMAIN sockets[g]
    BY DEF Shut, Unclosed
  <2>6. sockets' \in [Greenlets -> Seq(SocketType)]
    BY <2>1, StateChanges
  <2>7. pending' \subseteq ReportType
    <3>1. Shut(g, last) \in SUBSET Nat /\ "socket_close" \in Types
      BY <2>5, UnclosedFinite DEF Types
    <3> QED BY <2>1, <3>1, ReportTypes
  <2> QED BY <2>2, <2>4, <2>6, <2>7 DEF place, Cycles
<1> QED
  BY <1>1, <1>2, <1>3, <1>4, <1>5, <1>6, <1>7, <1>8, <1>9, <1>10, <1>11, <1>12, <1>13, <1>14, <1>15
  DEF Next, MainStep, UserStep

-----------------------------------------------------------------------------
(* ... where stopTestRun is.                                               *)

\* While main waits there is none.
LEMMA NoStopYet ==
  ASSUME LocalTypes, StopSound, main \notin {"closing", "exited"}
  PROVE  /\ \A r \in pending : r.type # "stopTestRun"
         /\ \A i \in 1..Len(pipe) : \A e \in pipe[i] : e.type # "stopTestRun"
         /\ \A e \in received : e.type # "stopTestRun"
BY DEF StopSound

\* Greenlets that run then and add reports of other types change nothing.
LEMMA StopAmid ==
  ASSUME LocalTypes, StopSound, main \notin {"closing", "exited"}, main' = main,
         \A r \in pending' : r \in pending \/ r.type # "stopTestRun",
         UNCHANGED <<pipe, received>>, spinning' => Waits
  PROVE  StopSound'
<1>1. \A r \in pending' : r.type # "stopTestRun"
  BY NoStopYet
<1>2. Waits' <=> Waits
  BY DEF Waits
<1> QED BY <1>1, <1>2, NoStopYet DEF StopSound

\* A batch is sent when none was before.
LEMMA StopSent ==
  ASSUME LocalTypes, StopSound, Sends, HasRoom, pending # {}, main # "exited",
         UNCHANGED <<main, received>>, spinning' => Waits
  PROVE  StopSound'
<1>1. /\ \A i \in 1..Len(pipe) : pipe'[i] = pipe[i]
      /\ Len(pipe') = Len(pipe) + 1 /\ Len(pipe) \in Nat /\ pending' = {}
      /\ pipe'[Len(pipe) + 1] = Batch
      /\ \A e \in Batch : \E r \in pending : e = Encoded(r) /\ e.type = r.type
  BY SentLast
<1>2. ASSUME NEW i \in 1..Len(pipe'), NEW e \in pipe'[i], e.type = "stopTestRun"
      PROVE  i = Len(pipe') /\ main = "closing"
  <2>1. CASE i \in 1..Len(pipe)
    BY <1>1, <1>2, <2>1 DEF StopSound
  <2>2. CASE i = Len(pipe) + 1
    <3>1. e \in Batch
      BY <1>1, <1>2, <2>2
    <3> QED BY <1>1, <1>2, <2>2, <3>1 DEF StopSound
  <2> QED BY <1>1, <2>1, <2>2
<1>3. \A e \in received : e.type # "stopTestRun"
  BY DEF StopSound
<1>4. Waits' <=> Waits
  BY DEF Waits
<1> QED BY <1>1, <1>2, <1>3, <1>4 DEF StopSound

LEMMA StopStep ==
  ASSUME LocalTypes, StopSound, [Next]_vars
  PROVE  StopSound'
<1>1. CASE UNCHANGED vars
  BY <1>1 DEF vars, StopSound, Waits
<1>2. CASE Dump
  <2>1. Waits /\ ~spinning /\ pending # {} /\ main # "exited" /\ UNCHANGED <<main, received>>
    BY <1>2 DEF Dump, Switchable, Waits, place
  <2>2. CASE HasRoom
    BY <1>2, <2>1, <2>2, StopSent DEF Dump
  <2>3. CASE ~HasRoom
    BY <1>2, <2>1, <2>3, StopAmid DEF Dump, Waits
  <2> QED BY <2>2, <2>3
<1>3. CASE Retry
  <2>1. Waits /\ HasRoom /\ Sends /\ UNCHANGED <<main, received>> /\ ~spinning'
    BY <1>3 DEF Retry, place, StopSound
  <2>2. CASE pending # {}
    BY <2>1, <2>2, StopSent DEF Waits
  <2>3. CASE pending = {}
    <3>1. main \notin {"closing", "exited"}
      BY <2>1 DEF Waits
    <3>2. \A i \in 1..Len(pipe') : \A e \in pipe'[i] : e.type # "stopTestRun"
      <4>1. \A i \in 1..Len(pipe') : i \in 1..Len(pipe) \/ i = Len(pipe) + 1
        BY <2>1, SentLast
      <4>2. \A e \in Batch : FALSE
        BY <2>1, <2>3, SentLast
      <4> QED BY <2>1, <3>1, <4>1, <4>2, SentLast, NoStopYet
    <3>3. pending' = {} /\ \A e \in received' : e.type # "stopTestRun"
      BY <2>1, <3>1, SentLast, NoStopYet
    <3> QED BY <2>1, <3>1, <3>2, <3>3 DEF StopSound
  <2> QED BY <2>2, <2>3
<1>4. CASE Receive
  <2>1. UNCHANGED <<main, pending, spinning>> /\ (Waits' <=> Waits) /\ pipe # <<>>
    BY <1>4 DEF Receive, place, Waits
  <2>2. /\ Len(pipe) = Len(pipe') + 1 /\ Len(pipe') \in Nat
        /\ \A i \in 1..Len(pipe') : pipe'[i] = pipe[i + 1] /\ i + 1 \in 1..Len(pipe)
        /\ received' = received \cup pipe[1] /\ 1 \in 1..Len(pipe)
        /\ Len(pipe) = 1 => pipe' = <<>>
    BY <1>4, ReceivedFirst
  <2>3. ASSUME NEW i \in 1..Len(pipe'), NEW e \in pipe'[i], e.type = "stopTestRun"
        PROVE  i = Len(pipe') /\ pending' = {} /\ main' = "closing"
    <3>1. i + 1 = Len(pipe) /\ pending = {} /\ main = "closing"
      BY <2>2, <2>3 DEF StopSound
    <3> QED BY <2>1, <2>2, <3>1
  <2>4. ASSUME NEW e \in received', e.type = "stopTestRun"
        PROVE  pipe' = <<>> /\ pending' = {} /\ main' \in {"closing", "exited"}
    <3>1. e \in pipe[1]
      BY <2>1, <2>2, <2>4 DEF StopSound
    <3>2. 1 = Len(pipe) /\ pending = {} /\ main = "closing"
      BY <2>2, <2>4, <3>1 DEF StopSound
    <3> QED BY <2>1, <2>2, <3>2
  <2>5. main' # "exited"
    BY <2>1 DEF StopSound
  <2> QED BY <2>1, <2>3, <2>4, <2>5 DEF StopSound
<1>5. CASE Start \/ ResolveFails \/ NoTestClass \/ Interrupt
  <2>1. /\ main \notin {"closing", "exited"} /\ ~spinning /\ main' # "exited"
        /\ UNCHANGED <<spinning, pipe, received>>
    BY <1>5 DEF Start, ResolveFails, NoTestClass, Interrupt, Switchable, relay
  <2>2. \A r \in pending' : r.type # "stopTestRun"
    BY <1>5, <2>1, NoStopYet DEF Start, ResolveFails, NoTestClass, Interrupt, Push, OfMain, Report, relay
  <2> QED BY <2>1, <2>2, NoStopYet DEF StopSound
<1>6. CASE StopTestRun
  <2>1. /\ main = "joined" /\ ~spinning /\ main' = "closing"
        /\ UNCHANGED <<spinning, pipe, received>>
    BY <1>6 DEF StopTestRun, Switchable
  <2> QED BY <2>1, NoStopYet DEF StopSound
<1>7. CASE SpawnUser \/ JoinAll
  <2>1. /\ main = "spawning" /\ ~spinning /\ main' \in {"spawning", "joined"}
        /\ UNCHANGED <<pending, spinning, pipe, received>>
    BY <1>7 DEF SpawnUser, JoinAll, Switchable, relay
  <2> QED BY <2>1, NoStopYet DEF StopSound
<1>8. CASE CloseDumps
  <2>1. main \in {"closing", "aborting"} /\ ~spinning /\ HasRoom /\ Sends /\ pending # {}
        /\ UNCHANGED <<main, received, spinning>>
    BY <1>8 DEF CloseDumps, place, StopSound, Waits
  <2> QED BY <2>1, StopSent
<1>9. CASE Exit
  <2>1. /\ main \in {"closing", "aborting"} /\ pending = {} /\ pipe = <<>>
        /\ main' = IF main = "closing" THEN "exited" ELSE "failed"
        /\ UNCHANGED relay /\ ~spinning
    BY <1>9 DEF Exit, StopSound, Waits
  <2>2. Len(pipe) = 0
    BY <2>1, EmptySeq
  <2>3. CASE main = "closing"
    BY <2>1, <2>2, <2>3 DEF StopSound, relay
  <2>4. CASE main = "aborting"
    BY <2>1, <2>2, <2>4, NoStopYet DEF StopSound, relay
  <2> QED BY <2>1, <2>3, <2>4
<1>10. ASSUME NEW g \in Greenlets, UserStep(g) PROVE StopSound'
  <2>1. Switchable /\ UNCHANGED <<main, pipe, received, spinning>>
    BY <1>10 DEF UserStep, StartTest, FinishTest, OpenSocket, MayOpen, ConnectFails, CloseSocket,
       DropSocket, EndUser, DurationOver, Cleanup, place, relay
  <2>2. \A r \in pending' : r \in pending \/ r.type # "stopTestRun"
    <3>1. CASE pending' = pending
      BY <3>1
    <3>2. CASE \E type \in OfUsers : \E n : pending' = pending \cup {Report(type, g, n)}
      BY <3>2 DEF Report, OfUsers, OfTest
    <3>3. CASE Cleanup(g)
      BY <3>3, TurnsIn DEF Push, Reports, Report
    <3> QED BY <1>10, <3>1, <3>2, <3>3 DEF UserStep, StartTest, FinishTest, OpenSocket,
              ConnectFails, CloseSocket, DropSocket, EndUser, DurationOver, relay, Push,
              OfUsers, OfTest
  <2> QED BY <2>1, <2>2, StopAmid DEF Switchable, Waits
<1> QED
  BY <1>1, <1>2, <1>3, <1>4, <1>5, <1>6, <1>7, <1>8, <1>9, <1>10 DEF Next, MainStep

-----------------------------------------------------------------------------
(* ... and which users there are.                                          *)

LEMMA StaffMember ==
  ASSUME args \in Arguments, NEW g \in Staff
  PROVE  /\ g \in Greenlets /\ g = <<g[1], g[2]>> /\ g[1] \in Cycles /\ g \in Users(g[1])
         /\ g[1] \in Nat /\ g[2] \in Nat /\ g[2] < args.users[g[1]]
<1>1. PICK c \in Cycles : g \in Users(c)
  BY DEF Staff
<1>2. g[1] = c /\ c \in Nat
  BY <1>1, ArgumentTypes DEF Users
<1> QED BY <1>1, <1>2, UsersOfRun

LEMMA StaffInit == Init => StaffSound
<1> SUFFICES ASSUME Init PROVE StaffSound
  OBVIOUS
<1>1. args \in Arguments /\ cycle = 1 /\ spawned = 0 /\ main = "new"
      /\ \A g \in Greenlets : user[g] = "none" /\ test[g] = "none"
  BY DEF Init
<1>2. \A g \in Staff : g[1] \in Nat \ {0} /\ g[2] \in Nat
  BY <1>1, StaffMember, ArgumentTypes
<1> QED BY <1>1, <1>2 DEF StaffSound, Spawned, Through

\* Where main is does not matter to users while it waits.
LEMMA StaffSame ==
  ASSUME StaffSound, UNCHANGED <<args, cycle, spawned, user, test>>, Through' => Through,
         Through' /\ main' # "joined" =>
           \/ main # "joined"
           \/ \A g \in Greenlets : user[g] # "ended"
  PROVE  StaffSound'
<1>1. Staff' = Staff
  BY DEF Staff, Users, Cycles
<1> QED BY <1>1 DEF StaffSound, Spawned

LEMMA StaffStep ==
  ASSUME LocalTypes, StaffSound, [Next]_vars
  PROVE  StaffSound'
<1> USE DEF LocalTypes
<1>1. CASE UNCHANGED vars
  BY <1>1, StaffSame DEF vars, Through
<1>2. CASE Dump \/ Retry \/ Receive \/ CloseDumps
  BY <1>2, StaffSame DEF Dump, Retry, Receive, CloseDumps, place, greenlets, Through
<1>3. CASE Start \/ ResolveFails \/ NoTestClass \/ Interrupt
  BY <1>3, StaffSame DEF Start, ResolveFails, NoTestClass, Interrupt, greenlets, Through
<1>4. CASE StopTestRun
  BY <1>4, StaffSame DEF StopTestRun, greenlets, Through, OthersRan
<1>5. CASE Exit
  BY <1>5, StaffSame DEF Exit, greenlets, Through
<1>6. CASE SpawnUser
  <2> PICK new : new = <<cycle, spawned>>
    OBVIOUS
  <2>1. /\ spawned < args.users[cycle] /\ spawned' = spawned + 1 /\ main = "spawning"
        /\ user' = [user EXCEPT ![new] = "running"] /\ test' = [test EXCEPT ![new] = "idle"]
        /\ UNCHANGED <<args, main, cycle, interrupted>>
    BY <1>6 DEF SpawnUser
  <2>2. spawned \in Nat /\ cycle \in Nat /\ args.users[cycle] \in Nat
    BY ArgumentTypes
  <2>3. new \in Staff /\ new \in Greenlets /\ new[1] = cycle /\ new[2] = spawned
    <3>1. spawned \in 0..(args.users[cycle] - 1)
      BY <2>1, <2>2
    <3>2. new \in Users(cycle)
      BY <3>1, UsersOfRun
    <3> QED BY <3>2 DEF Staff, Users
  <2>4. Staff' = Staff /\ ~Through'
    BY <2>1 DEF Staff, Users, Cycles, Through
  <2>5. ASSUME NEW g \in Staff, g[1] = cycle, g[2] < spawned + 1, g # new PROVE g[2] < spawned
    <3>1. g = <<g[1], g[2]>> /\ g[2] \in Nat
      BY StaffMember
    <3>2. g[2] # spawned
      BY <2>5, <3>1
    <3> QED BY <2>2, <2>5, <3>1, <3>2
  <2>6. \A g \in Staff : g[2] \in Nat /\ g[1] \in Nat
    BY StaffMember
  <2>7. ASSUME NEW g \in Greenlets, g # new PROVE Spawned(g)' <=> Spawned(g)
    <3>1. CASE g \notin Staff
      BY <2>4, <3>1 DEF Spawned
    <3>2. CASE g \in Staff
      <4>1. g[1] \in Nat /\ g[2] \in Nat /\ (g[1] = cycle /\ g[2] < spawned + 1 => g[2] < spawned)
        BY <2>5, <2>6, <2>7, <3>2
      <4> QED BY <2>1, <2>2, <2>4, <4>1 DEF Spawned
    <3> QED BY <3>1, <3>2
  <2>8. Spawned(new)' /\ ~(new[1] < cycle')
    <3>1. new[1] = cycle' /\ new[2] < spawned' /\ new \in Staff'
      BY <2>1, <2>2, <2>3, <2>4
    <3> QED BY <2>1, <2>2, <2>3, <3>1 DEF Spawned
  <2>9. user'[new] = "running" /\ test'[new] = "idle"
    BY <2>1, <2>3
  <2>10. \A g \in Greenlets : g # new => user'[g] = user[g] /\ test'[g] = test[g]
    BY <2>1
  <2>11. ASSUME NEW g \in Greenlets
         PROVE  /\ user'[g] # "none" <=> Spawned(g)'
                /\ test'[g] # "none" => user'[g] # "none"
                /\ g \in Staff' /\ (g[1] < cycle' \/ Through') => user'[g] \in {"ended", "done"}
                /\ ~args'.duration => (test'[g] # "none" <=> user'[g] = "running")
    <3>1. CASE g = new
      BY <2>4, <2>8, <2>9, <3>1
    <3>2. CASE g # new
      BY <2>1, <2>4, <2>7, <2>10, <3>2 DEF StaffSound
    <3> QED BY <3>1, <3>2
  <2> QED BY <2>4, <2>11 DEF StaffSound
<1>7. CASE JoinAll
  <2>1. /\ main = "spawning" /\ spawned = args.users[cycle] /\ Joined
        /\ UNCHANGED <<args, interrupted, user, test>>
    BY <1>7 DEF JoinAll, greenlets
  <2>2. Staff' = Staff
    BY <2>1 DEF Staff, Users, Cycles
  <2>3. ASSUME NEW g \in Staff
        PROVE  /\ g[1] \in Nat /\ cycle \in Nat /\ g[2] \in Nat
               /\ g[1] <= Len(args.users) /\ Len(args.users) \in Nat
               /\ g[1] <= cycle => Spawned(g) /\ user[g] \in {"ended", "done"}
    <3>1. /\ g \in Greenlets /\ g[1] \in Cycles /\ g \in Users(g[1]) /\ g[1] \in Nat
          /\ g[2] \in Nat /\ g[2] < args.users[g[1]]
      BY StaffMember
    <3>2. cycle \in Nat /\ g[1] <= Len(args.users) /\ Len(args.users) \in Nat
      BY <3>1, ArgumentTypes
    <3>3. CASE g[1] = cycle
      BY <2>1, <3>1, <3>2, <3>3 DEF Joined, Spawned
    <3>4. CASE g[1] < cycle
      BY <3>1, <3>2, <3>4 DEF StaffSound, Spawned
    <3> QED BY <3>1, <3>2, <3>3, <3>4
  <2>4. CASE cycle < Len(args.users)
    <3>1. cycle' = cycle + 1 /\ spawned' = 0 /\ main' = "spawning"
      BY <1>7, <2>1, <2>4 DEF JoinAll
    <3>2. \A g \in Greenlets : Spawned(g)' <=> Spawned(g)
      BY <2>2, <2>3, <3>1 DEF Spawned
    <3>3. \A g \in Staff : g[1] < cycle' => user[g] \in {"ended", "done"}
      BY <2>3, <3>1
    <3> QED BY <2>1, <2>2, <3>1, <3>2, <3>3 DEF StaffSound, Through
  <2>5. CASE ~(cycle < Len(args.users))
    <3>1. main' = "joined" /\ UNCHANGED <<cycle, spawned>>
      BY <1>7, <2>5 DEF JoinAll
    <3>2. \A g \in Staff : user[g] \in {"ended", "done"}
      <4>1. \A g \in Staff : g[1] <= cycle
        BY <2>3, <2>5
      <4> QED BY <2>3, <4>1
    <3>3. \A g \in Greenlets : Spawned(g)' <=> Spawned(g)
      BY <2>1, <2>2, <3>1 DEF Spawned
    <3> QED BY <2>1, <2>2, <3>1, <3>2, <3>3 DEF StaffSound
  <2> QED BY <2>4, <2>5
<1>8. ASSUME NEW g \in Greenlets, UserStep(g) PROVE StaffSound'
  <2>1. Waits /\ UNCHANGED <<args, place>>
    BY <1>8 DEF UserStep, StartTest, FinishTest, OpenSocket, MayOpen, ConnectFails, CloseSocket,
       DropSocket, EndUser, DurationOver, Cleanup, Switchable
  <2>2. Staff' = Staff /\ (Through' <=> Through) /\ (Through' => main' = "joined")
        /\ \A x \in Greenlets : Spawned(x)' <=> Spawned(x)
    <3>1. Staff' = Staff
      BY <2>1 DEF Staff, Users, Cycles
    <3> QED BY <2>1, <3>1 DEF place, Spawned, Through, Waits
  <2>3. CASE UNCHANGED <<user, test>>
    BY <2>1, <2>2, <2>3 DEF StaffSound, place
  <2>4. CASE StartTest(g) \/ FinishTest(g)
    <3>1. /\ test[g] # "none" /\ test'[g] # "none" /\ user' = user
          /\ \A x \in Greenlets : x # g => test'[x] = test[x]
      BY <2>4 DEF StartTest, FinishTest
    <3> QED BY <2>1, <2>2, <3>1 DEF StaffSound, place
  <2>5. CASE EndUser(g) \/ DurationOver(g)
    <3>1. /\ user[g] = "running" /\ user'[g] \in {"ended", "done"}
          /\ \A x \in Greenlets : x # g => user'[x] = user[x] /\ test'[x] = test[x]
          /\ ~args.duration => test'[g] = "none"
      BY <2>5 DEF EndUser, DurationOver
    <3>2. test'[g] # "none" => user'[g] # "none"
      BY <3>1
    <3> QED BY <2>1, <2>2, <3>1, <3>2 DEF StaffSound, place
  <2>6. CASE Cleanup(g)
    <3>1. /\ user[g] = "ended" /\ user'[g] \in {"ended", "done"} /\ test' = test
          /\ \A x \in Greenlets : x # g => user'[x] = user[x]
      BY <2>6 DEF Cleanup
    <3> QED BY <2>1, <2>2, <3>1 DEF StaffSound, place
  <2> QED BY <1>8, <2>3, <2>4, <2>5, <2>6
     DEF UserStep, OpenSocket, ConnectFails, CloseSocket, DropSocket
<1> QED BY <1>1, <1>2, <1>3, <1>4, <1>5, <1>6, <1>7, <1>8 DEF Next, MainStep

-----------------------------------------------------------------------------
(* ... and, in a run with hits, what is reported.                          *)

\* Its reports look the same whenever they are encoded.
LEMMA EncodedSame ==
  ASSUME ~args.duration, args' = args
  PROVE  (\A r : Encoded(r)' = Encoded(r)) /\ Plan' = Plan
BY DEF Encoded, Shares, Status, Plan

LEMMA EncodedFields ==
  /\ \A r : Encoded(r).type = r.type /\ Encoded(r).by = r.by /\ Encoded(r).n = r.n
  /\ \A type, g, n : LET r == Report(type, g, n)
                     IN r.type = type /\ r.by = g /\ r.n = n
BY DEF Encoded, Report

\* Sending and receiving move reports and change none.
LEMMA SendsKeeps ==
  ASSUME LocalTypes, Sends, HasRoom, received' = received
  PROVE  Everywhere' = Everywhere
<1>1. /\ \A i \in 1..Len(pipe) : pipe'[i] = pipe[i]
      /\ Len(pipe') = Len(pipe) + 1 /\ Len(pipe) \in Nat /\ pending' = {}
      /\ pipe'[Len(pipe) + 1] = Batch
  BY SentLast
<1>2. Batch' = {}
  BY <1>1 DEF Batch
<1>3. 1..Len(pipe') = (1..Len(pipe)) \cup {Len(pipe) + 1}
  BY <1>1
<1>4. InPipe' = InPipe \cup Batch
  BY <1>1, <1>3 DEF InPipe
<1> QED BY <1>2, <1>4 DEF Everywhere

LEMMA ReceiveKeeps ==
  ASSUME LocalTypes, Receive, ~args.duration
  PROVE  Everywhere' = Everywhere
<1>1. /\ Len(pipe) = Len(pipe') + 1 /\ Len(pipe') \in Nat
      /\ \A i \in 1..Len(pipe') : pipe'[i] = pipe[i + 1] /\ i + 1 \in 1..Len(pipe)
      /\ received' = received \cup pipe[1] /\ 1 \in 1..Len(pipe)
  BY ReceivedFirst
<1>2. pending' = pending /\ args' = args
  BY DEF Receive
<1>3. Batch' = Batch
  BY <1>2, EncodedSame DEF Batch
<1>4. InPipe = pipe[1] \cup InPipe'
  <2>1. \A i \in 1..Len(pipe) : i = 1 \/ (i - 1 \in 1..Len(pipe') /\ pipe'[i - 1] = pipe[i])
    BY <1>1
  <2>2. InPipe \subseteq pipe[1] \cup InPipe'
    BY <2>1 DEF InPipe
  <2>3. pipe[1] \cup InPipe' \subseteq InPipe
    BY <1>1 DEF InPipe
  <2> QED BY <2>2, <2>3
<1> QED BY <1>1, <1>3, <1>4 DEF Everywhere

\* Reports of types that come from users, each with the next number, keep the
\* books.
LEMMA ReportsGrow ==
  ASSUME LocalTypes, ~args.duration, args' = args, ReportsSound, NEW new,
         Everywhere' = Everywhere \cup {Encoded(r) : r \in new},
         \A r \in new : r.type \in OfUsers =>
           /\ r = Report(r.type, r.by, r.n)
           /\ r.by \in Greenlets /\ r.n \in Numbers(r.type, r.by)',
         \A type \in OfUsers, g \in Greenlets :
           \A n \in Numbers(type, g)' :
             n \in Numbers(type, g) \/ Report(type, g, n) \in new,
         \A type \in OfUsers, g \in Greenlets :
           \A n \in Numbers(type, g) : n \in Numbers(type, g)'
  PROVE  ReportsSound'
<1>1. \A r : Encoded(r)' = Encoded(r)
  BY EncodedSame
<1>2. ASSUME NEW e \in Everywhere', e.type \in OfUsers
      PROVE  /\ e.by \in Greenlets /\ e.n \in Numbers(e.type, e.by)'
             /\ e = Encoded(Report(e.type, e.by, e.n))'
  <2>1. CASE e \in Everywhere
    BY <1>1, <1>2, <2>1 DEF ReportsSound
  <2>2. CASE e \notin Everywhere
    <3>1. PICK r \in new : e = Encoded(r)
      BY <2>2
    <3>2. e.type = r.type /\ e.by = r.by /\ e.n = r.n
      BY <3>1, EncodedFields
    <3> QED BY <1>1, <1>2, <3>1, <3>2
  <2> QED BY <2>1, <2>2
<1>3. ASSUME NEW type \in OfUsers, NEW g \in Greenlets, NEW n \in Numbers(type, g)'
      PROVE  Encoded(Report(type, g, n))' \in Everywhere'
  <2>1. CASE n \in Numbers(type, g)
    BY <1>1, <2>1 DEF ReportsSound
  <2>2. CASE Report(type, g, n) \in new
    BY <1>1, <2>2
  <2> QED BY <2>1, <2>2
<1> QED BY <1>2, <1>3 DEF ReportsSound

LEMMA ReportsSame ==
  ASSUME LocalTypes, ~args.duration, args' = args, ReportsSound, Everywhere' = Everywhere,
         \A type \in OfUsers, g \in Greenlets : Numbers(type, g)' = Numbers(type, g)
  PROVE  ReportsSound'
<1>1. \A r : Encoded(r)' = Encoded(r)
  BY EncodedSame
<1> QED BY <1>1 DEF ReportsSound

\* What greenlets push waits to be sent.
LEMMA PushAdds ==
  ASSUME ~args.duration, args' = args, NEW new, Push(new), UNCHANGED <<pipe, received>>
  PROVE  Everywhere' = Everywhere \cup {Encoded(r) : r \in new}
<1>1. \A r : Encoded(r)' = Encoded(r)
  BY EncodedSame
<1>2. Batch' = Batch \cup {Encoded(r) : r \in new}
  BY <1>1 DEF Push, Batch
<1>3. InPipe' = InPipe
  BY DEF InPipe
<1> QED BY <1>2, <1>3 DEF Everywhere

\* Some more reports of a type about one greenlet.
LEMMA MoreReports ==
  ASSUME LocalTypes, ~args.duration, args' = args, ReportsSound, UNCHANGED <<pipe, received>>,
         NEW type \in OfUsers, NEW g \in Greenlets, NEW numbers,
         Push(Reports(type, g, numbers)), Numbers(type, g)' = Numbers(type, g) \cup numbers,
         \A t \in OfUsers, x \in Greenlets :
           <<t, x>> # <<type, g>> => Numbers(t, x)' = Numbers(t, x)
  PROVE  ReportsSound'
<1> PICK new : new = Reports(type, g, numbers)
  OBVIOUS
<1>1. Everywhere' = Everywhere \cup {Encoded(r) : r \in new}
  BY PushAdds
<1>2. ASSUME NEW r \in new
      PROVE  /\ r = Report(r.type, r.by, r.n)
             /\ r.by \in Greenlets /\ r.n \in Numbers(r.type, r.by)'
  <2>1. PICK n \in numbers : r = Report(type, g, n)
    BY DEF Reports
  <2>2. r.type = type /\ r.by = g /\ r.n = n
    BY <2>1, EncodedFields
  <2> QED BY <2>1, <2>2
<1>3. \A n \in numbers : Report(type, g, n) \in new
  BY DEF Reports
<1>4. ASSUME NEW t \in OfUsers, NEW x \in Greenlets
      PROVE  /\ \A k \in Numbers(t, x)' : k \in Numbers(t, x) \/ Report(t, x, k) \in new
             /\ \A k \in Numbers(t, x) : k \in Numbers(t, x)'
  <2>1. CASE <<t, x>> = <<type, g>>
    <3>1. t = type /\ x = g
      BY <2>1
    <3> QED BY <1>3, <3>1
  <2>2. CASE <<t, x>> # <<type, g>>
    BY <2>2
  <2> QED BY <2>1, <2>2
<1> QED BY <1>1, <1>2, <1>4, ReportsGrow

LEMMA HitsInit == Init => HitsInv
<1> SUFFICES ASSUME Init PROVE ProgressSound /\ ReportsSound
  BY DEF HitsInv
<1>1. LocalTypes
  BY TypesInit
<1>2. \A g \in Greenlets : /\ user[g] = "none" /\ test[g] = "none" /\ tests[g] = 0
                           /\ sockets[g] = <<>> /\ links[g] = 0
                           /\ Unclosed(g) = {} /\ Cardinality(Unclosed(g)) <= links[g]
  <2>1. \A g \in Greenlets : /\ user[g] = "none" /\ test[g] = "none" /\ tests[g] = 0
                             /\ sockets[g] = <<>> /\ links[g] = 0
    BY DEF Init
  <2>2. DOMAIN <<>> = {}
    BY EmptySeq
  <2>3. \A g \in Greenlets : Unclosed(g) = {}
    BY <2>1, <2>2 DEF Unclosed
  <2>4. Cardinality({}) = 0 /\ 0 <= 0
    BY FS_EmptySet
  <2> QED BY <2>1, <2>3, <2>4
<1>3. 0 <= Len(Plan)
  BY <1>1, PlanType DEF LocalTypes
<1>4. Len(pipe) = 0 /\ received = {} /\ pending = {}
  BY EmptySeq DEF Init
<1>5. Everywhere = {}
  BY <1>4 DEF Everywhere, InPipe, Batch
<1>6. 1..0 = {} /\ Len(<<>>) = 0
  BY EmptySeq
<1>7. \A type \in OfUsers, g \in Greenlets : Numbers(type, g) = {}
  BY <1>2, <1>6 DEF Numbers
<1> QED BY <1>2, <1>3, <1>5, <1>7 DEF ProgressSound, ReportsSound

LEMMA ArgsKept ==
  ASSUME [Next]_vars
  PROVE  args' = args
BY DEF Next, vars, MainStep, UserStep, Dump, Retry, Receive, Start, ResolveFails, NoTestClass, SpawnUser, JoinAll,
   StopTestRun, Interrupt, CloseDumps, Exit, StartTest, FinishTest, OpenSocket, ConnectFails,
   CloseSocket, DropSocket, EndUser, DurationOver, Cleanup

\* Steps that leave the greenlets alone.
LEMMA GreenletsKept ==
  ASSUME LocalTypes, ~args.duration, args' = args, ProgressSound, UNCHANGED greenlets
  PROVE  /\ ProgressSound'
         /\ \A type \in OfUsers, g \in Greenlets : Numbers(type, g)' = Numbers(type, g)
<1>1. Plan' = Plan
  BY EncodedSame
<1> QED BY <1>1 DEF greenlets, ProgressSound, Unclosed, Numbers

LEMMA ProgressStep ==
  ASSUME LocalTypes, StaffSound, ~args.duration, ProgressSound, [Next]_vars
  PROVE  ProgressSound'
<1> USE DEF LocalTypes
<1>1. args' = args /\ Plan' = Plan /\ Len(Plan) \in Nat
  BY ArgsKept, EncodedSame, PlanType
<1> DEFINE Same(x) == sockets'[x] = sockets[x]
<1>same. \A x : Same(x) => Unclosed(x)' = Unclosed(x)
  BY DEF Unclosed
<1>2. CASE UNCHANGED vars
  BY <1>1, <1>2, GreenletsKept DEF vars, greenlets
<1>3. CASE Dump \/ Retry \/ Receive \/ CloseDumps
  BY <1>1, <1>3, GreenletsKept DEF Dump, Retry, Receive, CloseDumps
<1>4. CASE Start \/ ResolveFails \/ NoTestClass \/ Interrupt \/ StopTestRun \/ Exit \/ JoinAll
  BY <1>1, <1>4, GreenletsKept DEF Start, ResolveFails, NoTestClass, Interrupt, StopTestRun, Exit, JoinAll
<1>5. CASE SpawnUser
  <2> PICK new : new = <<cycle, spawned>>
    OBVIOUS
  <2>1. /\ user' = [user EXCEPT ![new] = "running"] /\ test' = [test EXCEPT ![new] = "idle"]
        /\ UNCHANGED <<tests, sockets, links>>
    BY <1>5 DEF SpawnUser
  <2>2. \A g \in Greenlets : g # new => user'[g] = user[g] /\ test'[g] = test[g]
    BY <2>1
  <2>3. new \in Greenlets => user'[new] = "running" /\ test'[new] = "idle"
    BY <2>1
  <2> QED BY <1>1, <1>same, <2>1, <2>2, <2>3 DEF ProgressSound
<1>6. ASSUME NEW g \in Greenlets, StartTest(g) PROVE ProgressSound'
  <2>1. /\ tests[g] < Len(Plan) /\ tests'[g] = tests[g] + 1 /\ test[g] = "idle"
        /\ test'[g] = "testing" /\ UNCHANGED <<user, sockets, links>>
        /\ \A x \in Greenlets : x # g => tests'[x] = tests[x] /\ test'[x] = test[x]
    BY <1>6 DEF StartTest, TestsLeft
  <2>2. user[g] = "running"
    BY <2>1 DEF StaffSound
  <2>3. tests[g] \in Nat /\ tests'[g] <= Len(Plan) /\ tests'[g] # 0
    BY <1>1, <2>1
  <2> QED BY <1>1, <1>same, <2>1, <2>2, <2>3 DEF ProgressSound
<1>7. ASSUME NEW g \in Greenlets, FinishTest(g) PROVE ProgressSound'
  <2>1. /\ test'[g] = "idle" /\ UNCHANGED <<user, tests, sockets, links>>
        /\ \A x \in Greenlets : x # g => test'[x] = test[x]
    BY <1>7 DEF FinishTest
  <2> QED BY <1>1, <1>same, <2>1 DEF ProgressSound
<1>8. ASSUME NEW g \in Greenlets, NEW custom \in BOOLEAN,
             OpenSocket(g, custom) \/ ConnectFails(g)
      PROVE  ProgressSound'
  <2>1. /\ test[g] = "testing" /\ UNCHANGED <<user, tests, test>>
        /\ \A x \in Greenlets : x # g => links'[x] = links[x]
        /\ links'[g] \in {links[g], links[g] + 1}
    BY <1>8 DEF OpenSocket, ConnectFails, MayOpen, Linked
  <2>2. user[g] = "running"
    BY <2>1 DEF StaffSound
  <2>3. \A x \in Greenlets : x # g => Same(x)
    BY <1>8, SocketOpens DEF ConnectFails
  <2>4. links[g] \in Nat /\ Cardinality(Unclosed(g)) \in Nat
        /\ Cardinality(Unclosed(g)) <= links[g]
    BY UnclosedFinite DEF ProgressSound
  <2>5. Cardinality(Unclosed(g))' <= links'[g]
    <3>1. CASE Unclosed(g)' = Unclosed(g)
      BY <2>1, <2>4, <3>1
    <3>2. CASE OpenSocket(g, custom) /\ ~custom
      <4>1. links'[g] = links[g] + 1
        BY <3>2 DEF OpenSocket, Linked
      <4> PICK n : n = Len(sockets[g]) + 1
        OBVIOUS
      <4>3. Unclosed(g)' = Unclosed(g) \cup {n} /\ n \notin Unclosed(g)
        BY <3>2, SocketOpens
      <4>4. IsFiniteSet(Unclosed(g))
        BY UnclosedFinite
      <4>5. Cardinality(Unclosed(g) \cup {n}) = Cardinality(Unclosed(g)) + 1
        BY <4>3, <4>4, FS_AddElement
      <4>2. Cardinality(Unclosed(g))' = Cardinality(Unclosed(g)) + 1
        BY <4>3, <4>5
      <4> QED BY <2>4, <4>1, <4>2
    <3> QED BY <1>8, <1>same, <3>1, <3>2, SocketOpens DEF ConnectFails
  <2>6. \A x \in Greenlets : Cardinality(Unclosed(x))' <= links'[x]
    BY <1>same, <2>1, <2>3, <2>5 DEF ProgressSound
  <2>7. \A x \in Greenlets : x # g => sockets'[x] = sockets[x]
    BY <2>3
  <2> QED BY <1>1, <2>1, <2>2, <2>6, <2>7 DEF ProgressSound
<1>9. ASSUME NEW g \in Greenlets, NEW i \in DOMAIN sockets[g],
             CloseSocket(g, i) \/ DropSocket(g, i)
      PROVE  ProgressSound'
  <2>1. PICK state \in {"closed", "dropped"} : Turn(g, {i}, state)
    BY <1>9, TurnsIn
  <2>6. UNCHANGED <<user, tests, test, links>>
    BY <1>9 DEF CloseSocket, DropSocket
  <2>2. /\ \A x \in Greenlets : x # g => sockets'[x] = sockets[x]
        /\ Unclosed(g)' \subseteq Unclosed(g)
    BY <2>1, StateChanges
  <2>3. Cardinality(Unclosed(g))' <= Cardinality(Unclosed(g)) /\ Cardinality(Unclosed(g))' \in Nat
    BY <2>2, UnclosedFinite, FS_Subset, FS_CardinalityType
  <2>4. ASSUME NEW x \in Greenlets PROVE Cardinality(Unclosed(x))' <= links'[x]
    <3>1. CASE x = g
      <4>1. Cardinality(Unclosed(g)) \in Nat /\ Cardinality(Unclosed(g)) <= links[g]
            /\ links[g] \in Nat
        BY UnclosedFinite DEF ProgressSound
      <4> QED BY <2>3, <2>6, <3>1, <4>1
    <3>2. CASE x # g
      BY <1>same, <2>2, <2>6, <3>2 DEF ProgressSound
    <3> QED BY <3>1, <3>2
  <2>5. sockets[g] # <<>>
    BY EmptySeq
  <2> QED BY <1>1, <2>2, <2>4, <2>5, <2>6 DEF ProgressSound
<1>10. ASSUME NEW g \in Greenlets, EndUser(g) PROVE ProgressSound'
  <2>1. /\ user'[g] = IF links[g] = 0 THEN "done" ELSE "ended"
        /\ test'[g] = "none" /\ ~(tests[g] < Len(Plan))
        /\ UNCHANGED <<tests, sockets, links>>
        /\ \A x \in Greenlets : x # g => user'[x] = user[x] /\ test'[x] = test[x]
    BY <1>10 DEF EndUser, TestsLeft
  <2>2. tests[g] = Len(Plan)
    <3>1. tests[g] \in Nat /\ tests[g] <= Len(Plan)
      BY DEF ProgressSound
    <3> QED BY <1>1, <2>1, <3>1
  <2>3. user'[g] \in {"done", "ended"} /\ (user'[g] = "done" => links[g] = 0)
    BY <2>1
  <2> QED BY <1>1, <1>same, <2>1, <2>2, <2>3 DEF ProgressSound
<1>11. ASSUME NEW g \in Greenlets, Cleanup(g) PROVE ProgressSound'
  <2>1. PICK last : /\ Turn(g, Shut(g, last), "closed")
                    /\ last \in Unclosed(g) \/ Unclosed(g) = {}
    BY <1>11, TurnsIn
  <2>2. /\ user[g] = "ended" /\ links' = [links EXCEPT ![g] = @ - 1]
        /\ user' = [user EXCEPT ![g] = IF links[g] = 1 THEN "done" ELSE "ended"]
        /\ UNCHANGED <<tests, test>>
    BY <1>11 DEF Cleanup
  <2>3. links[g] \in Nat \ {0} /\ links'[g] = links[g] - 1
        /\ \A x \in Greenlets : x # g => links'[x] = links[x] /\ user'[x] = user[x]
    BY <2>2
  <2>5. /\ \A x \in Greenlets : x # g => sockets'[x] = sockets[x]
        /\ Unclosed(g)' = Unclosed(g) \ Shut(g, last)
    BY <2>1, StateChanges
  <2>6. Cardinality(Unclosed(g))' <= links'[g]
    <3>1. CASE Unclosed(g) = {}
      <4>1. Cardinality(Unclosed(g))' = 0
        BY <2>5, <3>1, FS_EmptySet
      <4> QED BY <2>3, <4>1
    <3>2. CASE last \in Unclosed(g)
      <4>1. last \in Shut(g, last)
        <5>1. last \in Nat
          BY <3>2, UnclosedFinite DEF Unclosed
        <5> QED BY <3>2, <5>1 DEF Shut
      <4> PICK rest : rest = Unclosed(g) \ {last}
        OBVIOUS
      <4>2. IsFiniteSet(rest) /\ Cardinality(rest) = Cardinality(Unclosed(g)) - 1
        BY <3>2, UnclosedFinite, FS_RemoveElement
      <4>3. Unclosed(g)' \subseteq rest
        BY <2>5, <4>1
      <4>4. Cardinality(Unclosed(g))' <= Cardinality(rest) /\ Cardinality(Unclosed(g))' \in Nat
        BY <4>2, <4>3, FS_Subset, FS_CardinalityType
      <4>5. Cardinality(Unclosed(g)) \in Nat /\ Cardinality(Unclosed(g)) <= links[g]
        BY UnclosedFinite DEF ProgressSound
      <4> QED BY <2>3, <4>2, <4>4, <4>5
    <3> QED BY <2>1, <3>1, <3>2
  <2>7. \A x \in Greenlets : Cardinality(Unclosed(x))' <= links'[x]
    BY <1>same, <2>3, <2>5, <2>6 DEF ProgressSound
  <2>8. user'[g] = "done" \/ user'[g] = "ended"
    BY <2>2
  <2>9. user'[g] = "done" => links'[g] = 0
    BY <2>2, <2>3
  <2> QED BY <1>1, <2>2, <2>3, <2>5, <2>7, <2>8, <2>9 DEF ProgressSound
<1>12. ASSUME NEW g \in Greenlets, DurationOver(g) PROVE FALSE
  BY <1>12 DEF DurationOver
<1> QED
  BY <1>2, <1>3, <1>4, <1>5, <1>6, <1>7, <1>8, <1>9, <1>10, <1>11, <1>12
  DEF Next, MainStep, UserStep

LEMMA ReportsStep ==
  ASSUME LocalTypes, StaffSound, ~args.duration, ProgressSound, ReportsSound, [Next]_vars
  PROVE  ReportsSound'
<1>1. args' = args
  BY ArgsKept
<1> USE <1>1
<1>2. CASE UNCHANGED vars
  <2>1. Everywhere' = Everywhere
    <3>1. \A r : Encoded(r)' = Encoded(r)
      BY EncodedSame
    <3> QED BY <1>2, <3>1 DEF vars, Everywhere, InPipe, Batch
  <2> QED BY <1>2, <2>1, GreenletsKept, ReportsSame DEF vars, greenlets
<1>3. CASE Dump
  <2>1. Everywhere' = Everywhere
    <3>1. CASE HasRoom
      BY <1>3, <3>1, SendsKeeps DEF Dump
    <3>2. CASE ~HasRoom
      <4>1. UNCHANGED <<pending, pipe, received>>
        BY <1>3, <3>2 DEF Dump
      <4>2. \A r : Encoded(r)' = Encoded(r)
        BY EncodedSame
      <4> QED BY <4>1, <4>2 DEF Everywhere, InPipe, Batch
    <3> QED BY <3>1, <3>2
  <2> QED BY <1>3, <2>1, GreenletsKept, ReportsSame DEF Dump
<1>4. CASE Retry \/ CloseDumps
  <2>1. Everywhere' = Everywhere
    BY <1>4, SendsKeeps DEF Retry, CloseDumps
  <2> QED BY <1>4, <2>1, GreenletsKept, ReportsSame DEF Retry, CloseDumps
<1>5. CASE Receive
  BY <1>5, ReceiveKeeps, GreenletsKept, ReportsSame DEF Receive
<1>6. CASE Start \/ ResolveFails \/ NoTestClass \/ StopTestRun
  <2>1. PICK type \in {"startTestRun", "addError", "stopTestRun"} : Push({OfMain(type)})
    BY <1>6 DEF Start, ResolveFails, NoTestClass, StopTestRun
  <2>2. UNCHANGED <<greenlets, pipe, received>>
    BY <1>6 DEF Start, ResolveFails, NoTestClass, StopTestRun
  <2>3. Everywhere' = Everywhere \cup {Encoded(r) : r \in {OfMain(type)}}
    BY <2>1, <2>2, PushAdds
  <2>4. \A r \in {OfMain(type)} : r.type \notin OfUsers
    BY <2>1 DEF OfMain, Report, OfUsers, OfTest
  <2>5. \A t \in OfUsers, g \in Greenlets : Numbers(t, g)' = Numbers(t, g)
    BY <2>2, GreenletsKept
  <2>6. \A t \in OfUsers, g \in Greenlets :
          /\ \A n \in Numbers(t, g)' : n \in Numbers(t, g)
          /\ \A n \in Numbers(t, g) : n \in Numbers(t, g)'
    BY <2>5
  <2> PICK new : new = {OfMain(type)}
    OBVIOUS
  <2> QED BY <2>3, <2>4, <2>6, ReportsGrow
<1>7. CASE Interrupt \/ Exit \/ JoinAll
  <2>1. UNCHANGED <<greenlets, pending, pipe, received>>
    BY <1>7 DEF Interrupt, Exit, JoinAll, relay
  <2>2. \A r : Encoded(r)' = Encoded(r)
    BY EncodedSame
  <2>3. Everywhere' = Everywhere
    BY <2>1, <2>2 DEF Everywhere, InPipe, Batch
  <2> QED BY <2>1, <2>3, GreenletsKept, ReportsSame
<1>8. CASE SpawnUser
  <2> PICK new : new = <<cycle, spawned>>
    OBVIOUS
  <2>1. /\ test' = [test EXCEPT ![new] = "idle"]
        /\ UNCHANGED <<tests, sockets, links, pending, pipe, received>>
    BY <1>8 DEF SpawnUser, relay
  <2>2. \A r : Encoded(r)' = Encoded(r)
    BY EncodedSame
  <2>3. Everywhere' = Everywhere
    BY <2>1, <2>2 DEF Everywhere, InPipe, Batch
  <2>4. new \in Greenlets /\ test[new] # "testing" /\ test'[new] # "testing"
    <3>1. spawned \in 0..(args.users[cycle] - 1) /\ cycle \in Cycles /\ args \in Arguments
      <4>1. args.users[cycle] \in Nat /\ spawned \in Nat /\ spawned < args.users[cycle]
        BY <1>8, ArgumentTypes DEF SpawnUser, LocalTypes
      <4> QED BY <4>1 DEF LocalTypes
    <3>2. new \in Users(cycle) /\ new \in Greenlets
      BY <3>1, UsersOfRun
    <3>3. ~Spawned(new)
      <4>1. cycle \in Nat /\ spawned \in Nat
        BY <3>1, ArgumentTypes
      <4> QED BY <4>1 DEF Spawned
    <3>4. test[new] = "none"
      BY <3>2, <3>3 DEF StaffSound
    <3> QED BY <2>1, <3>2, <3>4 DEF LocalTypes
  <2>5. \A g \in Greenlets : test'[g] = "testing" <=> test[g] = "testing"
    BY <2>1, <2>4 DEF LocalTypes
  <2>6. \A t \in OfUsers, g \in Greenlets : Numbers(t, g)' = Numbers(t, g)
    BY <2>1, <2>5 DEF Numbers
  <2> QED BY <2>3, <2>6, ReportsSame
<1>9. ASSUME NEW g \in Greenlets, StartTest(g) PROVE ReportsSound'
  <2>1. /\ Push({Report("startTest", g, tests[g] + 1)}) /\ UNCHANGED <<pipe, received>>
        /\ tests'[g] = tests[g] + 1 /\ test[g] = "idle" /\ test'[g] = "testing"
        /\ UNCHANGED <<sockets, links>> /\ tests[g] \in Nat
        /\ \A x \in Greenlets : x # g => tests'[x] = tests[x] /\ test'[x] = test[x]
    BY <1>9 DEF StartTest, LocalTypes
  <2>2. Numbers("startTest", g)' = Numbers("startTest", g) \cup {tests[g] + 1}
    <3>1. Numbers("startTest", g) = 1..tests[g] /\ Numbers("startTest", g)' = 1..(tests[g] + 1)
      BY <2>1 DEF Numbers
    <3> QED BY <2>1, <3>1
  <2>3. ASSUME NEW t \in OfUsers, NEW x \in Greenlets, <<t, x>> # <<"startTest", g>>
        PROVE  Numbers(t, x)' = Numbers(t, x)
    <3>1. CASE x # g
      BY <2>1, <3>1 DEF Numbers
    <3>2. CASE x = g
      <4>1. t # "startTest"
        BY <2>3, <3>2
      <4>2. (tests[g] + 1) - 1 = tests[g]
        BY <2>1
      <4> QED BY <2>1, <3>2, <4>1, <4>2 DEF Numbers
    <3> QED BY <3>1, <3>2
  <2>4. "startTest" \in OfUsers
    BY DEF OfUsers, OfTest
  <2>5. Push(Reports("startTest", g, {tests[g] + 1}))
    BY <2>1 DEF Reports
  <2> QED BY <2>1, <2>2, <2>3, <2>4, <2>5, MoreReports
<1>10. ASSUME NEW g \in Greenlets, FinishTest(g) PROVE ReportsSound'
  <2>1. /\ Push({Report("stopTest", g, tests[g])}) /\ UNCHANGED <<pipe, received>>
        /\ test[g] = "testing" /\ test'[g] = "idle"
        /\ UNCHANGED <<tests, sockets, links>> /\ tests[g] \in Nat
        /\ \A x \in Greenlets : x # g => test'[x] = test[x]
    BY <1>10 DEF FinishTest, LocalTypes
  <2>2. tests[g] # 0
    BY <2>1 DEF ProgressSound
  <2>3. tests[g] - 1 \in Nat /\ (tests[g] - 1) + 1 = tests[g]
    BY <2>1, <2>2
  <2>4. Numbers("stopTest", g)' = Numbers("stopTest", g) \cup {tests[g]}
    <3>1. Numbers("stopTest", g) = 1..(tests[g] - 1) /\ Numbers("stopTest", g)' = 1..tests[g]
      BY <2>1 DEF Numbers
    <3> QED BY <2>1, <2>3, <3>1
  <2>5. ASSUME NEW t \in OfUsers, NEW x \in Greenlets, <<t, x>> # <<"stopTest", g>>
        PROVE  Numbers(t, x)' = Numbers(t, x)
    <3>1. CASE x # g
      BY <2>1, <3>1 DEF Numbers
    <3>2. CASE x = g
      <4>1. t # "stopTest"
        BY <2>5, <3>2
      <4> QED BY <2>1, <3>2, <4>1 DEF Numbers
    <3> QED BY <3>1, <3>2
  <2>6. "stopTest" \in OfUsers
    BY DEF OfUsers, OfTest
  <2>7. Push(Reports("stopTest", g, {tests[g]}))
    BY <2>1 DEF Reports
  <2> QED BY <2>1, <2>4, <2>5, <2>6, <2>7, MoreReports
<1>11. ASSUME NEW g \in Greenlets, NEW custom \in BOOLEAN, OpenSocket(g, custom)
       PROVE  ReportsSound'
  <2> PICK k : k = Len(sockets[g]) + 1
    OBVIOUS
  <2>1. /\ Push(Reports("socket_open", g, {k}))
        /\ UNCHANGED <<pipe, received, tests, test>>
    BY <1>11 DEF OpenSocket, Reports
  <2>2. /\ Len(sockets[g]) \in Nat /\ Len(sockets'[g]) = k /\ k \notin 1..Len(sockets[g])
        /\ \A i : i \in 1..k <=> i \in 1..Len(sockets[g]) \/ i = k
        /\ \A i \in 1..k : sockets'[g][i].state = "closed" <=>
             i \in 1..Len(sockets[g]) /\ sockets[g][i].state = "closed"
        /\ \A x \in Greenlets : x # g => sockets'[x] = sockets[x]
    BY <1>11, SocketOpens, UnclosedFinite
  <2>3. Numbers("socket_open", g)' = Numbers("socket_open", g) \cup {k}
    BY <2>2 DEF Numbers
  <2>4. ASSUME NEW t \in OfUsers, NEW x \in Greenlets, <<t, x>> # <<"socket_open", g>>
        PROVE  Numbers(t, x)' = Numbers(t, x)
    <3>1. CASE x # g
      BY <2>1, <2>2, <3>1 DEF Numbers
    <3>2. CASE x = g
      <4>1. t \in {"startTest", "stopTest", "socket_close"}
        BY <2>4, <3>2 DEF OfUsers, OfTest
      <4>2. CASE t = "socket_close"
        BY <2>2, <3>2, <4>2 DEF Numbers
      <4>3. CASE t # "socket_close"
        BY <2>1, <4>1, <4>3 DEF Numbers
      <4> QED BY <4>2, <4>3
    <3> QED BY <3>1, <3>2
  <2>5. "socket_open" \in OfUsers
    BY DEF OfUsers
  <2> QED BY <2>1, <2>3, <2>4, <2>5, MoreReports
<1>12. ASSUME NEW g \in Greenlets, NEW S, NEW state \in {"closed", "dropped"},
              Turn(g, S, state), UNCHANGED <<pipe, received, tests, test>>,
              Push(Reports("socket_close", g, IF state = "closed" THEN S ELSE {}))
       PROVE  ReportsSound'
  <2>1. /\ Len(sockets[g]) \in Nat /\ Len(sockets'[g]) = Len(sockets[g])
        /\ \A i \in 1..Len(sockets[g]) : sockets'[g][i].state = "closed" <=>
             sockets[g][i].state = "closed" \/ (i \in S /\ state = "closed")
        /\ \A x \in Greenlets : x # g => sockets'[x] = sockets[x]
        /\ \A i \in S : i \in 1..Len(sockets[g])
    <3>1. \A i \in S : i \in 1..Len(sockets[g])
      BY <1>12, UnclosedFinite DEF Turn
    <3> QED BY <1>12, <3>1, StateChanges, UnclosedFinite
  <2> PICK new : new = IF state = "closed" THEN S ELSE {}
    OBVIOUS
  <2>2. Numbers("socket_close", g)' = Numbers("socket_close", g) \cup new
    BY <2>1 DEF Numbers
  <2>3. ASSUME NEW t \in OfUsers, NEW x \in Greenlets, <<t, x>> # <<"socket_close", g>>
        PROVE  Numbers(t, x)' = Numbers(t, x)
    <3>1. CASE x # g
      BY <1>12, <2>1, <3>1 DEF Numbers
    <3>2. CASE x = g
      <4>1. t \in {"startTest", "stopTest", "socket_open"}
        BY <2>3, <3>2 DEF OfUsers, OfTest
      <4>2. CASE t = "socket_open"
        BY <2>1, <3>2, <4>2 DEF Numbers
      <4>3. CASE t # "socket_open"
        BY <1>12, <4>1, <4>3 DEF Numbers
      <4> QED BY <4>2, <4>3
    <3> QED BY <3>1, <3>2
  <2>4. "socket_close" \in OfUsers
    BY DEF OfUsers
  <2> QED BY <1>12, <2>2, <2>3, <2>4, MoreReports
<1>13. ASSUME NEW g \in Greenlets, EndUser(g) PROVE ReportsSound'
  <2>1. /\ test[g] = "idle" /\ test'[g] = "none" /\ UNCHANGED <<tests, sockets, links>>
        /\ UNCHANGED <<pending, pipe, received>>
        /\ \A x \in Greenlets : x # g => test'[x] = test[x]
    BY <1>13 DEF EndUser, relay, LocalTypes
  <2>2. \A r : Encoded(r)' = Encoded(r)
    BY EncodedSame
  <2>3. Everywhere' = Everywhere
    BY <2>1, <2>2 DEF Everywhere, InPipe, Batch
  <2>4. \A t \in OfUsers, x \in Greenlets : Numbers(t, x)' = Numbers(t, x)
    BY <2>1 DEF Numbers
  <2> QED BY <2>3, <2>4, ReportsSame
<1>14. ASSUME NEW g \in Greenlets, NEW i \in DOMAIN sockets[g], CloseSocket(g, i)
       PROVE  ReportsSound'
  <2>1. Turn(g, {i}, "closed")
    BY <1>14, TurnsIn
  <2>2. UNCHANGED <<pipe, received, tests, test>> /\ Push(Reports("socket_close", g, {i}))
    BY <1>14 DEF CloseSocket, Reports
  <2> QED BY <1>12, <2>1, <2>2
<1>15. ASSUME NEW g \in Greenlets, NEW i \in DOMAIN sockets[g], DropSocket(g, i)
       PROVE  ReportsSound'
  <2>1. Turn(g, {i}, "dropped")
    BY <1>15, TurnsIn
  <2>2. UNCHANGED <<pipe, received, tests, test>> /\ Push(Reports("socket_close", g, {}))
    BY <1>15 DEF DropSocket, Reports, Push, relay
  <2> QED BY <1>12, <2>1, <2>2
<1>16. ASSUME NEW g \in Greenlets, Cleanup(g) PROVE ReportsSound'
  <2>1. PICK last : /\ Turn(g, Shut(g, last), "closed")
                    /\ Push(Reports("socket_close", g, Shut(g, last)))
    BY <1>16, TurnsIn
  <2>2. UNCHANGED <<pipe, received, tests, test>>
    BY <1>16 DEF Cleanup
  <2> QED BY <1>12, <2>1, <2>2
<1>17. ASSUME NEW g \in Greenlets, ConnectFails(g) PROVE ReportsSound'
  <2>1. UNCHANGED <<tests, test, sockets, pending, pipe, received>>
    BY <1>17 DEF ConnectFails, relay
  <2>2. \A r : Encoded(r)' = Encoded(r)
    BY EncodedSame
  <2>3. Everywhere' = Everywhere
    BY <2>1, <2>2 DEF Everywhere, InPipe, Batch
  <2>4. \A t \in OfUsers, x \in Greenlets : Numbers(t, x)' = Numbers(t, x)
    BY <2>1 DEF Numbers
  <2> QED BY <2>3, <2>4, ReportsSame
<1>18. ASSUME NEW g \in Greenlets, DurationOver(g) PROVE FALSE
  BY <1>18 DEF DurationOver
<1> QED
  BY <1>2, <1>3, <1>4, <1>5, <1>6, <1>7, <1>8, <1>9, <1>10, <1>11, <1>13, <1>14, <1>15, <1>16,
     <1>17, <1>18
  DEF Next, MainStep, UserStep

-----------------------------------------------------------------------------
(* The theorems.                                                           *)

LEMMA StopInit == Init => StopSound
<1> SUFFICES ASSUME Init PROVE StopSound
  OBVIOUS
<1>1. Len(pipe) = 0 /\ pending = {} /\ received = {} /\ main = "new" /\ spinning = FALSE
  BY EmptySeq DEF Init
<1> QED BY <1>1 DEF StopSound

\* One switch of one greenlet keeps all of it.
LEMMA LocalStep == LocalIInv /\ [Next]_vars => LocalIInv'
<1> SUFFICES ASSUME LocalIInv, [Next]_vars PROVE LocalIInv'
  OBVIOUS
<1> USE DEF LocalIInv
<1>1. LocalTypes' /\ StopSound' /\ StaffSound'
  BY TypesStep, StopStep, StaffStep
<1>2. args' = args
  BY ArgsKept
<1>3. ASSUME ~args.duration PROVE ProgressSound' /\ ReportsSound'
  BY <1>3, ProgressStep, ReportsStep DEF HitsInv
<1>4. HitsInv'
  BY <1>2, <1>3 DEF HitsInv
<1> QED BY <1>1, <1>4

\* What relates main, its users, their tests and the relay, in every state.
THEOREM LocalInductive == Spec => []LocalIInv
<1>1. Init => LocalIInv
  BY TypesInit, StopInit, StaffInit, HitsInit DEF LocalIInv
<1> QED BY <1>1, LocalStep, PTL DEF Spec

\* The relay sends nothing after stopTestRun: an agent that the client counts
\* as stopped has reported all it ever will.
THEOREM StopStaysLast == Spec => []LocalInv
<1>1. LocalIInv => LocalInv
  <2> SUFFICES ASSUME LocalIInv PROVE TypeOK /\ StopIsLast
    BY DEF LocalInv
  <2>1. StopIsLast
    BY DEF LocalIInv, StopSound, StopIsLast
  <2>2. \A r \in pending \cup received : r.type \in Types
    BY DEF LocalIInv, LocalTypes, ReportType
  <2>4. \A g \in Greenlets : Range(sockets[g]) \subseteq SocketType
    BY UnclosedFinite, ElementOfSeq DEF LocalIInv, Range
  <2>3. TypeOK
    BY <2>2, <2>4 DEF LocalIInv, LocalTypes, TypeOK, Places, Cycles
  <2> QED BY <2>1, <2>3
<1> QED BY <1>1, LocalInductive, PTL

\* One cycle if there is a duration: a second one starts while tests of the first
\* go on, because the timeout ends the wait for them and not the tests.
OneCycle == args.duration => Len(args.users) = 1

\* "Loads will spawn 10, then 20 then 30 users": while main waits, the tests
\* under way are those of the users of its cycle.
THEOREM UsersKeepToTheirCycle == Spec => [](OneCycle => UsersOfCycle)
<1>1. LocalIInv => (OneCycle => UsersOfCycle)
  <2> SUFFICES ASSUME LocalIInv, OneCycle, Waits, NEW g \in Greenlets, test[g] # "none"
               PROVE  g \in Users(cycle)
    BY DEF UsersOfCycle
  <2>1. args \in Arguments /\ cycle \in Cycles /\ main # "closing" /\ main # "exited"
    BY DEF LocalIInv, LocalTypes, Waits
  <2>2. Spawned(g) /\ (~args.duration => user[g] = "running")
    BY DEF LocalIInv, StaffSound
  <2>3. g \in Staff /\ (g[1] < cycle \/ g[1] = cycle)
    BY <2>2 DEF Spawned
  <2>4. g[1] \in Cycles /\ g \in Users(g[1])
    BY <2>1, <2>3, StaffMember
  <2>5. CASE args.duration
    <3>1. Len(args.users) = 1
      BY <2>5 DEF OneCycle
    <3>2. Cycles = 1..1
      BY <2>1, <3>1, ArgumentTypes
    <3>3. cycle = 1 /\ g[1] = 1
      BY <2>1, <2>4, <3>2
    <3> QED BY <2>4, <3>3
  <2>6. CASE ~args.duration
    <3>1. user[g] = "running"
      BY <2>2, <2>6
    <3>2. ~(g[1] < cycle)
      BY <2>3, <3>1 DEF LocalIInv, StaffSound
    <3> QED BY <2>3, <2>4, <3>2
  <2> QED BY <2>5, <2>6
<1> QED BY <1>1, LocalInductive, PTL

\* The reports of one type about pairs of greenlet and number are as many.
LEMMA ReportsOfPairs ==
  ASSUME NEW type \in OfUsers, NEW pairs \in SUBSET (Greenlets \X Nat), IsFiniteSet(pairs),
         NEW all, all = {Encoded(Report(type, p[1], p[2])) : p \in pairs}
  PROVE  IsFiniteSet(all) /\ Cardinality(all) = Cardinality(pairs)
<1> DEFINE f == [p \in pairs |-> Encoded(Report(type, p[1], p[2]))]
<1>1. \A p \in pairs : p = <<p[1], p[2]>> /\ f[p].by = p[1] /\ f[p].n = p[2]
  BY EncodedFields
<1>2. \A p \in pairs : f[p] \in all
  OBVIOUS
<1>3. \A e \in all : \E p \in pairs : f[p] = e
  OBVIOUS
<1>4. f \in [pairs -> all]
  BY <1>2
<1>5. \A p, q \in pairs : f[p] = f[q] => p = q
  <2> HIDE DEF f
  <2> QED BY <1>1
<1>6. f \in Bijection(pairs, all)
  <2> HIDE DEF f
  <2> QED BY <1>3, <1>4, <1>5 DEF Bijection, Injection, Surjection, IsInjective
<1>7. ExistsBijection(pairs, all)
  BY <1>6 DEF ExistsBijection
<1> QED BY <1>7, FS_Bijection

\* When a run with hits has exited without an interrupt all its users are done.
LEMMA AllDone ==
  ASSUME LocalIInv, Ended, ~args.duration
  PROVE  /\ Everywhere = received
         /\ \A g \in Greenlets :
              /\ g \in Staff => tests[g] = Len(Plan)
              /\ g \notin Staff => tests[g] = 0 /\ sockets[g] = <<>>
              /\ Unclosed(g) = {} /\ test[g] # "testing"
<1>1. main = "exited" /\ Through
  BY DEF Ended, Through
<1>2. pipe = <<>> /\ pending = {}
  BY <1>1 DEF LocalIInv, StopSound
<1>3. Everywhere = received
  BY <1>2, EmptySeq DEF Everywhere, InPipe, Batch
<1>4. ASSUME NEW g \in Greenlets
      PROVE  /\ g \in Staff => tests[g] = Len(Plan)
             /\ g \notin Staff => tests[g] = 0 /\ sockets[g] = <<>>
             /\ Unclosed(g) = {} /\ test[g] # "testing"
  <2>1. IsFiniteSet(Unclosed(g)) /\ Cardinality(Unclosed(g)) \in Nat /\ links[g] \in Nat
        /\ Cardinality(Unclosed(g)) <= links[g]
    BY UnclosedFinite DEF LocalIInv, LocalTypes, HitsInv, ProgressSound
  <2>2. CASE g \in Staff
    <3>1. user[g] = "done"
      BY <1>1, <2>2 DEF LocalIInv, StaffSound
    <3>2. links[g] = 0
      BY <3>1 DEF LocalIInv, HitsInv, ProgressSound
    <3>3. Unclosed(g) = {}
      BY <2>1, <3>2, FS_EmptySet
    <3> QED BY <2>2, <3>1, <3>3 DEF LocalIInv, StaffSound, HitsInv, ProgressSound
  <2>3. CASE g \notin Staff
    <3>1. user[g] = "none"
      BY <2>3 DEF LocalIInv, StaffSound, Spawned
    <3>2. tests[g] = 0 /\ sockets[g] = <<>> /\ test[g] = "none"
      BY <3>1 DEF LocalIInv, StaffSound, HitsInv, ProgressSound
    <3>3. Unclosed(g) = {}
      BY <3>2, EmptySeq DEF Unclosed
    <3> QED BY <2>3, <3>2, <3>3
  <2> QED BY <2>2, <2>3
<1> QED BY <1>3, <1>4

\* The broker then has one report for each number of each greenlet, no others.
LEMMA AllReceived ==
  ASSUME LocalIInv, Ended, ~args.duration, NEW type \in OfUsers
  PROVE  Received(type) = UNION {{Encoded(Report(type, g, n)) : n \in Numbers(type, g)} :
                                   g \in Staff}
<1> DEFINE all == UNION {{Encoded(Report(type, g, n)) : n \in Numbers(type, g)} : g \in Staff}
<1>1. Everywhere = received /\ ReportsSound /\ args \in Arguments
  BY AllDone DEF LocalIInv, HitsInv, LocalTypes
<1>2. ASSUME NEW e \in Received(type) PROVE e \in all
  <2>1. e \in Everywhere /\ e.type = type
    BY <1>1 DEF Received
  <2>2. e.by \in Greenlets /\ e.n \in Numbers(type, e.by) /\ e = Encoded(Report(type, e.by, e.n))
    BY <1>1, <2>1 DEF ReportsSound
  <2>3. e.by \in Staff
    <3>1. 1..0 = {} /\ Len(<<>>) = 0
      BY EmptySeq
    <3>2. ASSUME e.by \notin Staff PROVE Numbers(type, e.by) = {}
      BY <2>2, <3>1, <3>2, AllDone DEF Numbers
    <3> QED BY <2>2, <3>2
  <2> QED BY <2>2, <2>3
<1>3. ASSUME NEW g \in Staff, NEW n \in Numbers(type, g)
      PROVE  Encoded(Report(type, g, n)) \in Received(type)
  <2>1. g \in Greenlets
    BY <1>1, StaffMember
  <2>2. Encoded(Report(type, g, n)) \in received
    BY <1>1, <2>1 DEF ReportsSound
  <2> QED BY <2>2, EncodedFields DEF Received
<1> QED BY <1>2, <1>3

\* Every test of the plan is reported under its own status, as many as announced.
LEMMA PlanReported ==
  ASSUME LocalIInv, Ended, ~args.duration
  PROVE  TestsReported
<1>1. args \in Arguments
  BY DEF LocalIInv, LocalTypes
<1> SUFFICES ASSUME NEW type \in OfTest
    PROVE  /\ {<<report.by, report.status>> : report \in Received(type)} =
                UNION {{<<g, Status(g, n)>> : n \in 1..Len(Plan)} : g \in Staff}
           /\ Cardinality(Received(type)) = Total
  BY DEF TestsReported, Staff, Cycles
<1>2. type \in OfUsers
  BY DEF OfUsers
<1>3. \A g \in Staff : Numbers(type, g) = 1..Len(Plan)
  BY <1>1, StaffMember, AllDone DEF Numbers, OfTest
<1>4. Received(type) = UNION {{Encoded(Report(type, g, n)) : n \in 1..Len(Plan)} : g \in Staff}
  BY <1>2, <1>3, AllReceived
<1>5. {<<report.by, report.status>> : report \in Received(type)} =
        UNION {{<<g, Status(g, n)>> : n \in 1..Len(Plan)} : g \in Staff}
  <2>1. \A g \in Staff, n \in 1..Len(Plan) :
          /\ Encoded(Report(type, g, n)).by = g
          /\ Encoded(Report(type, g, n)).status = Status(g, n)
    BY EncodedFields DEF Encoded, Shares
  <2> QED BY <1>4, <2>1
<1>6. Cardinality(Received(type)) = Total
  <2> DEFINE pairs == Staff \X (1..Len(Plan))
  <2>1. IsFiniteSet(Staff) /\ Cardinality(Staff) = Sum(args.users) /\ Len(Plan) \in Nat
        /\ Len(Plan) = Sum(args.hits)
    BY <1>1, StaffSize, PlanType
  <2>2. IsFiniteSet(1..Len(Plan)) /\ Cardinality(1..Len(Plan)) = Len(Plan)
    BY <2>1, FS_Interval
  <2>3. IsFiniteSet(pairs) /\ Cardinality(pairs) = Cardinality(Staff) * Len(Plan)
    BY <2>1, <2>2, FS_Product
  <2>4. pairs \in SUBSET (Greenlets \X Nat)
    BY <1>1, StaffMember
  <2>5. Received(type) = {Encoded(Report(type, p[1], p[2])) : p \in pairs}
    <3>1. \A e : e \in Received(type) <=>
                   \E g \in Staff, n \in 1..Len(Plan) : e = Encoded(Report(type, g, n))
      BY <1>4
    <3>2. \A g \in Staff, n \in 1..Len(Plan) : <<g, n>> \in pairs
      OBVIOUS
    <3>3. \A p \in pairs : p[1] \in Staff /\ p[2] \in 1..Len(Plan)
      OBVIOUS
    <3> HIDE DEF pairs
    <3>4. ASSUME NEW e \in Received(type)
          PROVE  e \in {Encoded(Report(type, p[1], p[2])) : p \in pairs}
      <4>1. PICK g \in Staff, n \in 1..Len(Plan) : e = Encoded(Report(type, g, n))
        BY <3>1
      <4> PICK p : p = <<g, n>>
        OBVIOUS
      <4>2. p \in pairs /\ p[1] = g /\ p[2] = n
        BY <3>2
      <4> QED BY <4>1, <4>2
    <3>5. ASSUME NEW p \in pairs PROVE Encoded(Report(type, p[1], p[2])) \in Received(type)
      BY <3>1, <3>3
    <3> QED BY <3>4, <3>5
  <2>6. Cardinality(Received(type)) = Cardinality(pairs)
    <3> HIDE DEF pairs
    <3> QED BY <1>2, <2>3, <2>4, <2>5, ReportsOfPairs
  <2> QED BY <1>1, <2>1, <2>3, <2>6, TotalIsProduct
<1> QED BY <1>5, <1>6

\* The sockets reported opened and closed are those that were.
LEMMA SocketsReported ==
  ASSUME LocalIInv, Ended, ~args.duration
  PROVE  SocketsClosed
<1>1. Everywhere = received /\ ReportsSound
  BY AllDone DEF LocalIInv, HitsInv
<1>2. ASSUME NEW type \in {"socket_open", "socket_close"}
      PROVE  Told(type) = UNION {{<<g, i>> : i \in Numbers(type, g)} : g \in Greenlets}
  <2> DEFINE all == UNION {{<<g, i>> : i \in Numbers(type, g)} : g \in Greenlets}
  <2>1. ASSUME NEW e \in Received(type) PROVE <<e.by, e.n>> \in all
    <3>1. e \in Everywhere /\ e.type = type /\ type \in OfUsers
      BY <1>1 DEF Received, OfUsers
    <3>2. e.by \in Greenlets /\ e.n \in Numbers(type, e.by)
      BY <1>1, <3>1 DEF ReportsSound
    <3> QED BY <3>2
  <2>2. ASSUME NEW g \in Greenlets, NEW i \in Numbers(type, g) PROVE <<g, i>> \in Told(type)
    <3> PICK e : e = Encoded(Report(type, g, i))
      OBVIOUS
    <3>1. e \in received /\ e.type = type /\ e.by = g /\ e.n = i
      BY <1>1, EncodedFields DEF ReportsSound, OfUsers
    <3> QED BY <3>1 DEF Told, Received
  <2> QED BY <2>1, <2>2 DEF Told
<1>3. ASSUME NEW g \in Greenlets
      PROVE  /\ Numbers("socket_open", g) =
                   {k \in DOMAIN sockets[g] : sockets[g][k].state \in {"open", "closed", "dropped"}}
             /\ Numbers("socket_close", g) =
                   {k \in DOMAIN sockets[g] : sockets[g][k].state \in {"closed"}}
  <2>1. DOMAIN sockets[g] = 1..Len(sockets[g])
        /\ \A k \in 1..Len(sockets[g]) : sockets[g][k] \in SocketType
    BY UnclosedFinite, ElementOfSeq DEF LocalIInv
  <2>2. \A k \in 1..Len(sockets[g]) : sockets[g][k].state \in {"open", "closed", "dropped"}
    BY <2>1 DEF SocketType
  <2> QED BY <2>1, <2>2 DEF Numbers
<1>4. /\ Told("socket_open") = SocketsOf({"open", "closed", "dropped"})
      /\ Told("socket_close") = SocketsOf({"closed"})
  BY <1>2, <1>3 DEF SocketsOf
<1> QED BY <1>4, AllDone DEF SocketsClosed

\* When a run with hits has exited the broker has every test of the plan, as
\* many as were announced, and every socket as closed that this end closed: the
\* only ones left open are of a class of the test's own.
THEOREM HitsAreReported == Spec => []AllReported
<1>1. LocalIInv => AllReported
  BY PlanReported, SocketsReported DEF AllReported
<1> QED BY <1>1, LocalInductive, PTL
=============================================================================
