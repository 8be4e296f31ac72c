-------------------------- MODULE DatabasesProofs --------------------------
(***************************************************************************)
(* Proofs about the two databases, for all results, queries and sizes of   *)
(* chunks: whatever read_zfile reads at once, the file database keeps the  *)
(* promise of BaseDB as long as no record is cut off, and redis keeps it.  *)
(*                                                                         *)
(* DatabasesIInv says where in the file each record ends (Layout), that a  *)
(* reader was given the records that end in what it has read (ReadsOn,     *)
(* BatchSound), and that the keys of redis are those of the same results   *)
(* (KeysSound).  Before it come the operators that compute over sequences: *)
(* what they keep, count, add up and find, each from the steps of its      *)
(* recursive function, with SetInduction for induction over numbers.       *)
(*                                                                         *)
(* A record may hold the end mark: what stands before it is read as one    *)
(* that is cut off, and the query fails.                                   *)
(***************************************************************************)
EXTENDS Databases, Integers, FiniteSetTheorems, SequenceTheorems, TLAPS

\* Induction over the naturals, for a set instead of an operator: the smallest
\* interval that leaves the set would be a least one of a family of finite sets.
LEMMA SetInduction ==
  ASSUME NEW T, 0 \in T, \A n \in T \cap Nat : n + 1 \in T
  PROVE  Nat \subseteq T
<1> SUFFICES ASSUME NEW n \in Nat, n \notin T PROVE FALSE
  OBVIOUS
<1> DEFINE below == {0..k : k \in Nat \ T}
           R == StrictSubsetOrdering(Nat)
<1>1. below \subseteq FiniteSubsetsOf(Nat) /\ below # {}
  <2>1. \A k \in Nat : IsFiniteSet(0..k) /\ 0..k \in SUBSET Nat
    BY FS_Interval
  <2>2. \A k \in Nat : 0..k \in FiniteSubsetsOf(Nat)
    BY <2>1 DEF FiniteSubsetsOf
  <2>3. 0..n \in below
    OBVIOUS
  <2> QED BY <2>2, <2>3
<1>2. PICK k \in Nat \ T : \A m \in Nat \ T : ~(<<0..m, 0..k>> \in R)
  <2> HIDE DEF R
  <2>1. IsWellFoundedOn(R, FiniteSubsetsOf(Nat))
    BY FS_StrictSubsetOrderingWellFounded DEF R
  <2> HIDE DEF below
  <2>2. \E x \in below : \A y \in below : ~(<<y, x>> \in R)
    BY <1>1, <2>1, WFMin
  <2> QED BY <2>2 DEF below
<1>3. k # 0 /\ k - 1 \in Nat /\ (k - 1) + 1 = k
  OBVIOUS
<1>4. k - 1 \notin T
  BY <1>3
<1>5. 0..(k - 1) \subseteq 0..k /\ k \in 0..k /\ k \notin 0..(k - 1)
  BY <1>3
<1>6. <<0..(k - 1), 0..k>> \in R
  BY <1>3, <1>5 DEF StrictSubsetOrdering
<1> QED BY <1>2, <1>3, <1>4, <1>6

\* ... and over sequences, from their last element.
LEMMA SeqInduction ==
  ASSUME NEW S, NEW T, <<>> \in T, \A s \in Seq(S) \cap T, e \in S : Append(s, e) \in T
  PROVE  Seq(S) \subseteq T
<1> DEFINE N == {n \in Nat : \A s \in Seq(S) : Len(s) = n => s \in T}
<1>1. 0 \in N
  BY EmptySeq
<1>2. ASSUME NEW n \in N \cap Nat PROVE n + 1 \in N
  <2> SUFFICES ASSUME NEW s \in Seq(S), Len(s) = n + 1 PROVE s \in T
    OBVIOUS
  <2>1. s # <<>>
    BY EmptySeq
  <2>2. PICK t \in Seq(S), e \in S : s = Append(t, e)
    BY <2>1, SequenceEmptyOrAppend
  <2>3. Len(s) = Len(t) + 1 /\ Len(t) \in Nat
    BY <2>2, AppendProperties, LenProperties
  <2>4. Len(t) = n
    BY <2>3
  <2> QED BY <2>2, <2>4
<1> HIDE DEF N
<1>3. Nat \subseteq N
  BY <1>1, <1>2, SetInduction
<1>4. ASSUME NEW s \in Seq(S) PROVE s \in T
  <2>1. Len(s) \in N
    BY <1>3, LenProperties
  <2> QED BY <2>1 DEF N
<1> QED BY <1>4

-----------------------------------------------------------------------------
(* What is kept of a sequence.                                             *)

\* f[n] is what is kept of the first n.
Keeps(f, s, set) ==
    /\ f[0] = <<>>
    /\ \A n \in 1..Len(s) : f[n] = IF s[n] \in set THEN Append(f[n - 1], s[n]) ELSE f[n - 1]

\* What Kept is: the last of what its recursive function says, which is unique.
LEMMA KeptIs ==
  ASSUME NEW S, NEW s \in Seq(S), NEW set
  PROVE  /\ \E f : Keeps(f, s, set)
         /\ \A f : Keeps(f, s, set) => Kept(s, set) = f[Len(s)]
<1> DEFINE N == Len(s)
           Is(f, m) == f = [n \in 0..m |-> IF n = 0 THEN <<>>
                                           ELSE IF s[n] \in set THEN Append(f[n - 1], s[n])
                                           ELSE f[n - 1]]
           T == {m \in Nat : \E f : Is(f, m)}
<1>1. N \in Nat
  BY LenProperties
<1>2. 0 \in T
  <2>1. Is([n \in 0..0 |-> <<>>], 0)
    OBVIOUS
  <2> QED BY <2>1
<1>3. ASSUME NEW m \in T \cap Nat PROVE m + 1 \in T
  <2>1. PICK f : Is(f, m)
    OBVIOUS
  <2> DEFINE last == IF s[m + 1] \in set THEN Append(f[m], s[m + 1]) ELSE f[m]
             g == [n \in 0..(m + 1) |-> IF n = m + 1 THEN last ELSE f[n]]
             h == [n \in 0..(m + 1) |-> IF n = 0 THEN <<>>
                                        ELSE IF s[n] \in set THEN Append(g[n - 1], s[n])
                                        ELSE g[n - 1]]
  <2>2. ASSUME NEW n \in 0..(m + 1) PROVE g[n] = h[n]
    <3>1. CASE n = m + 1
      <4>1. g[n] = last /\ n # 0 /\ n - 1 = m /\ m \in 0..(m + 1) /\ m # m + 1
        BY <3>1
      <4>2. g[m] = f[m]
        BY <4>1
      <4> HIDE DEF g
      <4> QED BY <3>1, <4>1, <4>2
    <3>2. CASE n = 0
      <4>1. g[n] = f[0]
        BY <3>2
      <4>2. f[0] = <<>>
        BY <2>1
      <4> QED BY <3>2, <4>1, <4>2
    <3>3. CASE n # m + 1 /\ n # 0
      <4>1. n \in 1..m /\ n - 1 \in 0..(m + 1) /\ n - 1 # m + 1 /\ n \in 0..m
        BY <3>3
      <4>2. g[n] = f[n] /\ g[n - 1] = f[n - 1]
        BY <4>1
      <4>3. f[n] = IF s[n] \in set THEN Append(f[n - 1], s[n]) ELSE f[n - 1]
        BY <2>1, <3>3, <4>1
      <4> HIDE DEF g
      <4> QED BY <3>3, <4>2, <4>3
    <3> QED BY <3>1, <3>2, <3>3
  <2>3. g = h
    BY <2>2
  <2>4. Is(g, m + 1)
    <3> HIDE DEF g
    <3> QED BY <2>3
  <2>5. m + 1 \in Nat
    OBVIOUS
  <2> HIDE DEF g, Is
  <2> QED BY <2>4, <2>5
<1>4. PICK kept : kept = CHOOSE f : Is(f, N)
  OBVIOUS
<1>5. Kept(s, set) = kept[N]
  BY <1>4, SMTT(40) DEF Kept
<1>6. Is(kept, N)
  <2> HIDE DEF T
  <2>1. N \in T
    BY <1>1, <1>2, <1>3, SetInduction
  <2>2. \E f : Is(f, N)
    BY <2>1 DEF T
  <2> QED BY <1>4, <2>2
<1>7. Keeps(kept, s, set)
  <2>1. 0 \in 0..N
    BY <1>1
  <2>2. kept[0] = <<>>
    BY <1>6, <2>1
  <2>3. ASSUME NEW n \in 1..N
        PROVE  kept[n] = IF s[n] \in set THEN Append(kept[n - 1], s[n]) ELSE kept[n - 1]
    <3>1. n \in 0..N /\ n # 0
      BY <1>1
    <3> QED BY <1>6, <3>1
  <2> QED BY <2>2, <2>3 DEF Keeps
<1>8. ASSUME NEW f, Keeps(f, s, set) PROVE Kept(s, set) = f[N]
  <2> DEFINE U == {n \in Nat : n <= N => f[n] = kept[n]}
  <2>1. 0 \in U
    BY <1>7, <1>8 DEF Keeps
  <2>2. ASSUME NEW n \in U \cap Nat PROVE n + 1 \in U
    <3> SUFFICES ASSUME n + 1 <= N PROVE f[n + 1] = kept[n + 1]
      OBVIOUS
    <3>1. n + 1 \in 1..N /\ (n + 1) - 1 = n /\ n <= N
      BY <1>1
    <3>2. f[n] = kept[n]
      BY <3>1
    <3> QED BY <1>7, <1>8, <3>1, <3>2 DEF Keeps
  <2> HIDE DEF U
  <2>3. N \in U
    BY <1>1, <2>1, <2>2, SetInduction
  <2> QED BY <1>1, <1>5, <2>3 DEF U
<1> QED BY <1>7, <1>8

\* Nothing is kept of nothing.
LEMMA KeptEmpty == ASSUME NEW set PROVE Kept(<<>>, set) = <<>>
<1>1. <<>> \in Seq({}) /\ Len(<<>>) = 0
  BY EmptySeq
<1>2. PICK f : Keeps(f, <<>>, set)
  BY <1>1, KeptIs
<1>3. f[0] = <<>>
  BY <1>2 DEF Keeps
<1>4. Kept(<<>>, set) = f[Len(<<>>)]
  BY <1>1, <1>2, KeptIs
<1> QED BY <1>1, <1>3, <1>4

\* One more element is kept if it is in the set.
LEMMA KeptAppend ==
  ASSUME NEW S, NEW s \in Seq(S), NEW e \in S, NEW set
  PROVE  Kept(Append(s, e), set) =
           IF e \in set THEN Append(Kept(s, set), e) ELSE Kept(s, set)
<1> DEFINE N == Len(s)
<1>1. /\ N \in Nat /\ Append(s, e) \in Seq(S) /\ Len(Append(s, e)) = N + 1
      /\ \A i \in 1..N : Append(s, e)[i] = s[i]
      /\ Append(s, e)[N + 1] = e
  BY AppendProperties, LenProperties
<1>2. PICK f : Keeps(f, s, set)
  BY KeptIs
<1>3. Kept(s, set) = f[N]
  BY <1>2, KeptIs
<1> DEFINE last == IF e \in set THEN Append(f[N], e) ELSE f[N]
           g == [n \in 0..(N + 1) |-> IF n = N + 1 THEN last ELSE f[n]]
<1>4. Keeps(g, Append(s, e), set)
  <2> SUFFICES ASSUME NEW n \in 1..(N + 1)
      PROVE  /\ g[0] = <<>>
             /\ g[n] = IF Append(s, e)[n] \in set THEN Append(g[n - 1], Append(s, e)[n])
                       ELSE g[n - 1]
    <3>1. 1 \in 1..(N + 1)
      BY <1>1
    <3> HIDE DEF g
    <3> QED BY <1>1, <3>1 DEF Keeps
  <2>1. g[0] = <<>>
    BY <1>1, <1>2 DEF Keeps
  <2>2. n \in 0..(N + 1) /\ n - 1 \in 0..(N + 1) /\ n - 1 # N + 1
    BY <1>1
  <2>3. g[n - 1] = f[n - 1]
    BY <2>2
  <2>4. CASE n = N + 1
    <3>1. g[n] = last /\ n - 1 = N
      BY <1>1, <2>2, <2>4
    <3> HIDE DEF g
    <3> QED BY <1>1, <2>1, <2>3, <2>4, <3>1
  <2>5. CASE n # N + 1
    <3>1. n \in 1..N /\ g[n] = f[n]
      BY <1>1, <2>2, <2>5
    <3>2. f[n] = IF s[n] \in set THEN Append(f[n - 1], s[n]) ELSE f[n - 1]
      BY <1>2, <3>1 DEF Keeps
    <3> HIDE DEF g
    <3> QED BY <1>1, <2>1, <2>3, <3>1, <3>2
  <2> QED BY <2>4, <2>5
<1>5. Kept(Append(s, e), set) = g[N + 1]
  <2> HIDE DEF g
  <2> QED BY <1>1, <1>4, KeptIs
<1>6. g[N + 1] = last
  BY <1>1
<1> QED BY <1>3, <1>5, <1>6

\* How often something occurs.
LEMMA TimesType ==
  ASSUME NEW S, NEW s \in Seq(S), NEW x
  PROVE  /\ IsFiniteSet({i \in DOMAIN s : s[i] = x}) /\ Times(x, s) \in Nat
         /\ Times(x, s) # 0 <=> \E i \in 1..Len(s) : s[i] = x
         /\ Times(x, s) <= Len(s)
<1>1. Len(s) \in Nat /\ DOMAIN s = 1..Len(s)
  BY LenProperties
<1>2. IsFiniteSet(1..Len(s)) /\ Cardinality(1..Len(s)) = Len(s)
  BY <1>1, FS_Interval
<1> DEFINE at == {i \in DOMAIN s : s[i] = x}
<1>3. IsFiniteSet(at) /\ Cardinality(at) <= Len(s)
  <2>1. at \in SUBSET (1..Len(s))
    BY <1>1
  <2> HIDE DEF at
  <2> QED BY <1>2, <2>1, FS_Subset
<1>4. Cardinality(at) \in Nat /\ (Cardinality(at) = 0 <=> at = {})
  BY <1>3, FS_CardinalityType, FS_EmptySet
<1> QED BY <1>1, <1>3, <1>4 DEF Times

\* Nothing occurs in the empty sequence.
LEMMA TimesEmpty == \A x : Times(x, <<>>) = 0
<1> TAKE x
<1>1. <<>> \in Seq({}) /\ Len(<<>>) = 0
  BY EmptySeq
<1>2. Times(x, <<>>) \in Nat /\ Times(x, <<>>) <= Len(<<>>)
  BY <1>1, TimesType
<1> QED BY <1>1, <1>2

\* ... one time more with one more at the end,
LEMMA TimesAppend ==
  ASSUME NEW S, NEW s \in Seq(S), NEW e \in S, NEW x
  PROVE  Times(x, Append(s, e)) = Times(x, s) + (IF e = x THEN 1 ELSE 0)
<1> DEFINE N == Len(s)
           t == Append(s, e)
           at == {i \in DOMAIN s : s[i] = x}
<1>1. /\ N \in Nat /\ DOMAIN s = 1..N /\ t \in Seq(S) /\ Len(t) = N + 1 /\ t[N + 1] = e
      /\ \A i \in 1..N : t[i] = s[i]
  BY AppendProperties, LenProperties
<1>2. DOMAIN t = 1..(N + 1)
  BY <1>1, LenProperties
<1>3. N + 1 \notin at /\ IsFiniteSet(at) /\ Cardinality(at) \in Nat
  <2>1. N + 1 \notin at
    BY <1>1
  <2>2. IsFiniteSet(at)
    BY TimesType
  <2> HIDE DEF at
  <2> QED BY <2>1, <2>2, FS_CardinalityType
<1>4. {i \in DOMAIN t : t[i] = x} = IF e = x THEN at \cup {N + 1} ELSE at
  <2> HIDE DEF t
  <2>1. \A i : i \in DOMAIN t <=> i \in DOMAIN s \/ i = N + 1
    BY <1>1, <1>2
  <2> QED BY <1>1, <2>1
<1>5. Cardinality(at \cup {N + 1}) = Cardinality(at) + 1
  <2> HIDE DEF at
  <2> QED BY <1>3, FS_AddElement
<1>6. Times(x, t) = Cardinality({i \in DOMAIN t : t[i] = x}) /\ Times(x, s) = Cardinality(at)
  BY DEF Times
<1> HIDE DEF t, at
<1>7. Times(x, t) = Times(x, s) + (IF e = x THEN 1 ELSE 0)
  <2>1. CASE e = x
    BY <1>4, <1>5, <1>6, <2>1
  <2>2. CASE e # x
    <3>1. {i \in DOMAIN t : t[i] = x} = at
      BY <1>4, <2>2
    <3>2. Times(x, t) = Times(x, s) /\ Times(x, s) \in Nat
      BY <1>3, <1>6, <3>1
    <3> QED BY <2>2, <3>2
  <2> QED BY <2>1, <2>2
<1> QED BY <1>7 DEF t

\* ... and with one more at the beginning.
LEMMA TimesFirst ==
  ASSUME NEW S, NEW s \in Seq(S), NEW e \in S, NEW x
  PROVE  /\ Times(x, <<e>> \o s) = Times(x, s) + (IF e = x THEN 1 ELSE 0)
         /\ <<e>> \o s \in Seq(S) /\ Len(<<e>> \o s) = Len(s) + 1
<1> DEFINE T == {u \in Seq(S) : Times(x, <<e>> \o u) = Times(x, u) + (IF e = x THEN 1 ELSE 0)}
<1>1. <<>> \in T
  <2>1. <<e>> \o <<>> = Append(<<>>, e) /\ <<>> \in Seq(S)
    <3>1. <<e>> \in Seq(S) /\ <<>> \in Seq(S) /\ <<e>> = Append(<<>>, e)
      BY EmptySeq
    <3> QED BY <3>1, ConcatEmptySeq
  <2>2. Times(x, Append(<<>>, e)) = Times(x, <<>>) + (IF e = x THEN 1 ELSE 0)
    BY <2>1, TimesAppend
  <2> QED BY <2>1, <2>2
<1>2. ASSUME NEW u \in Seq(S) \cap T, NEW f \in S PROVE Append(u, f) \in T
  <2>1. <<e>> \in Seq(S) /\ <<f>> \in Seq(S)
    OBVIOUS
  <2>2. <<e>> \o Append(u, f) = Append(<<e>> \o u, f)
    <3>1. Append(u, f) = u \o <<f>> /\ <<e>> \o u \in Seq(S)
      BY <2>1, AppendIsConcat, ConcatProperties
    <3>2. <<e>> \o (u \o <<f>>) = (<<e>> \o u) \o <<f>>
      BY <2>1, ConcatAssociative
    <3> QED BY <3>1, <3>2, AppendIsConcat
  <2>3. <<e>> \o u \in Seq(S) /\ Append(u, f) \in Seq(S)
    BY <2>1, ConcatProperties, AppendProperties
  <2>4. Times(x, Append(<<e>> \o u, f)) = Times(x, <<e>> \o u) + (IF f = x THEN 1 ELSE 0)
    <3> PICK v \in Seq(S) : v = <<e>> \o u
      BY <2>3
    <3>1. Times(x, Append(v, f)) = Times(x, v) + (IF f = x THEN 1 ELSE 0)
      BY TimesAppend
    <3> QED BY <3>1
  <2>5. Times(x, Append(u, f)) = Times(x, u) + (IF f = x THEN 1 ELSE 0)
    BY TimesAppend
  <2>6. Times(x, u) \in Nat
    BY TimesType
  <2>7. Times(x, <<e>> \o u) = Times(x, u) + (IF e = x THEN 1 ELSE 0)
    OBVIOUS
  <2>8. Times(x, <<e>> \o Append(u, f)) = Times(x, Append(u, f)) + (IF e = x THEN 1 ELSE 0)
    <3> PICK a \in {0, 1} : a = IF e = x THEN 1 ELSE 0
      OBVIOUS
    <3> PICK b \in {0, 1} : b = IF f = x THEN 1 ELSE 0
      OBVIOUS
    <3> PICK n \in Nat : n = Times(x, u)
      BY <2>6
    <3>1. Times(x, <<e>> \o Append(u, f)) = (n + a) + b
      BY <2>2, <2>4, <2>7
    <3>2. Times(x, Append(u, f)) = n + b
      BY <2>5
    <3> QED BY <3>1, <3>2
  <2> QED BY <2>3, <2>8
<1> HIDE DEF T
<1>3. s \in T
  BY <1>1, <1>2, SeqInduction
<1>4. <<e>> \in Seq(S) /\ Len(<<e>>) = 1
  OBVIOUS
<1> QED BY <1>3, <1>4, ConcatProperties, LenProperties DEF T

\* ... in a part no more often than in the whole.
LEMMA TimesOfPart ==
  ASSUME NEW S, NEW s \in Seq(S), NEW t \in Seq(S), NEW d \in Nat, d + Len(t) <= Len(s),
         \A i \in 1..Len(t) : t[i] = s[d + i], NEW x
  PROVE  Times(x, t) <= Times(x, s)
<1> DEFINE here == {i \in DOMAIN t : t[i] = x}
           there == {i \in DOMAIN s : s[i] = x}
           f == [i \in here |-> d + i]
<1>1. /\ Len(s) \in Nat /\ DOMAIN s = 1..Len(s) /\ Len(t) \in Nat /\ DOMAIN t = 1..Len(t)
  BY LenProperties
<1>2. \A i \in here : d + i \in there
  BY <1>1
<1>3. f \in [here -> there] /\ \A i, j \in here : f[i] = f[j] => i = j
  BY <1>1, <1>2
<1>4. f \in Injection(here, there)
  <2> HIDE DEF f, here, there
  <2> QED BY <1>3 DEF Injection, IsInjective
<1>5. IsFiniteSet(there)
  BY TimesType
<1>6. Cardinality(here) <= Cardinality(there)
  <2> HIDE DEF f, here, there
  <2> QED BY <1>4, <1>5, FS_Injection DEF ExistsInjection
<1> QED BY <1>6 DEF Times

\* What is kept is in the set, and of that it is all.
LEMMA KeptSound ==
  ASSUME NEW S, NEW s \in Seq(S), NEW set
  PROVE  /\ Kept(s, set) \in Seq(S) /\ Len(Kept(s, set)) <= Len(s)
         /\ \A x : Times(x, Kept(s, set)) = IF x \in set THEN Times(x, s) ELSE 0
         /\ S \subseteq set => Kept(s, set) = s
         /\ \A other : set \subseteq other => Len(Kept(s, set)) <= Len(Kept(s, other))
<1> DEFINE Sound(u) ==
             /\ Kept(u, set) \in Seq(S) /\ Len(Kept(u, set)) <= Len(u)
             /\ \A x : Times(x, Kept(u, set)) = IF x \in set THEN Times(x, u) ELSE 0
             /\ S \subseteq set => Kept(u, set) = u
             /\ \A other : set \subseteq other =>
                  /\ Kept(u, other) \in Seq(S)
                  /\ Len(Kept(u, set)) <= Len(Kept(u, other))
           T == {u \in Seq(S) : Sound(u)}
<1>1. <<>> \in T
  <2>1. <<>> \in Seq(S) /\ Len(<<>>) = 0
    BY EmptySeq
  <2>2. \A z : Kept(<<>>, z) = <<>>
    BY KeptEmpty
  <2>3. Sound(<<>>)
    <3>1. \A x : Times(x, <<>>) = 0
      BY TimesEmpty
    <3>2. \A x : Times(x, Kept(<<>>, set)) = IF x \in set THEN Times(x, <<>>) ELSE 0
      BY <2>2, <3>1
    <3>3. ASSUME NEW other
          PROVE  Kept(<<>>, other) \in Seq(S) /\ Len(Kept(<<>>, set)) <= Len(Kept(<<>>, other))
      <4>1. Len(Kept(<<>>, set)) = 0 /\ Len(Kept(<<>>, other)) = 0
        BY <2>1, <2>2
      <4>2. Kept(<<>>, other) \in Seq(S)
        <5>1. Kept(<<>>, other) = <<>>
          BY <2>2
        <5> QED BY ONLY <2>1, <5>1
      <4> QED BY ONLY <4>1, <4>2
    <3> QED BY <2>1, <2>2, <3>2, <3>3
  <2> QED BY <2>1, <2>3
<1>2. ASSUME NEW u \in Seq(S) \cap T, NEW e \in S PROVE Append(u, e) \in T
  <2>1. Sound(u)
    OBVIOUS
  <2>2. \A z : Kept(Append(u, e), z) = IF e \in z THEN Append(Kept(u, z), e) ELSE Kept(u, z)
    BY KeptAppend
  <2>3. \A v \in Seq(S) : /\ Append(v, e) \in Seq(S) /\ Len(Append(v, e)) = Len(v) + 1
                          /\ Len(v) \in Nat
    BY AppendProperties, LenProperties
  <2>4. \A v \in Seq(S) : \A x : Times(x, v) \in Nat
    BY TimesType
  <2>9. \A v \in Seq(S) : \A x : Times(x, Append(v, e)) = Times(x, v) + (IF e = x THEN 1 ELSE 0)
    BY TimesAppend
  <2>5. ASSUME NEW x
        PROVE  Times(x, Kept(Append(u, e), set)) = IF x \in set THEN Times(x, Append(u, e)) ELSE 0
    <3>1. Times(x, Kept(u, set)) = IF x \in set THEN Times(x, u) ELSE 0
      BY <2>1
    <3>2. Kept(u, set) \in Seq(S) /\ Times(x, u) \in Nat
      BY <2>1, <2>4
    <3>3. /\ Times(x, Append(u, e)) = Times(x, u) + (IF e = x THEN 1 ELSE 0)
          /\ Times(x, Append(Kept(u, set), e)) =
               Times(x, Kept(u, set)) + (IF e = x THEN 1 ELSE 0)
      BY <2>9, <3>2
    <3>4. Kept(Append(u, e), set) = IF e \in set THEN Append(Kept(u, set), e) ELSE Kept(u, set)
      BY <2>2
    <3>5. CASE e \in set
      BY <3>1, <3>2, <3>3, <3>4, <3>5
    <3>6. CASE e \notin set
      BY <3>1, <3>2, <3>3, <3>4, <3>6
    <3> QED BY <3>5, <3>6
  <2>6. ASSUME NEW other, set \subseteq other
        PROVE  /\ Kept(Append(u, e), other) \in Seq(S)
               /\ Len(Kept(Append(u, e), set)) <= Len(Kept(Append(u, e), other))
    <3>1. Kept(u, other) \in Seq(S) /\ Len(Kept(u, set)) <= Len(Kept(u, other))
      BY <2>1, <2>6
    <3>2. Kept(u, set) \in Seq(S)
      BY <2>1
    <3>3. /\ Len(Append(Kept(u, set), e)) = Len(Kept(u, set)) + 1 /\ Len(Kept(u, set)) \in Nat
          /\ Len(Append(Kept(u, other), e)) = Len(Kept(u, other)) + 1
          /\ Len(Kept(u, other)) \in Nat /\ Append(Kept(u, other), e) \in Seq(S)
      BY <2>3, <3>1, <3>2
    <3>4. /\ Kept(Append(u, e), set) =
               IF e \in set THEN Append(Kept(u, set), e) ELSE Kept(u, set)
          /\ Kept(Append(u, e), other) =
               IF e \in other THEN Append(Kept(u, other), e) ELSE Kept(u, other)
      BY <2>2
    <3>5. e \in set => e \in other
      BY <2>6
    <3> QED BY <3>1, <3>3, <3>4, <3>5
  <2>7. /\ Kept(Append(u, e), set) \in Seq(S) /\ Len(Kept(Append(u, e), set)) <= Len(Append(u, e))
        /\ S \subseteq set => Kept(Append(u, e), set) = Append(u, e)
    <3>1. /\ Kept(u, set) \in Seq(S) /\ Len(Kept(u, set)) <= Len(u)
          /\ S \subseteq set => Kept(u, set) = u
      BY <2>1
    <3>2. /\ Append(Kept(u, set), e) \in Seq(S)
          /\ Len(Append(Kept(u, set), e)) = Len(Kept(u, set)) + 1 /\ Len(Kept(u, set)) \in Nat
          /\ Len(Append(u, e)) = Len(u) + 1 /\ Len(u) \in Nat
      BY <2>3, <3>1
    <3>3. Kept(Append(u, e), set) = IF e \in set THEN Append(Kept(u, set), e) ELSE Kept(u, set)
      BY <2>2
    <3> QED BY <3>1, <3>2, <3>3
  <2>8. Append(u, e) \in Seq(S)
    BY <2>3
  <2> QED BY <2>5, <2>6, <2>7, <2>8
<1> HIDE DEF T
<1>3. s \in T
  BY <1>1, <1>2, SeqInduction
<1> QED BY <1>3 DEF T

-----------------------------------------------------------------------------
(* Folds.                                                                  *)

\* The greatest of some of the first numbers.
LEMMA GreatestOf ==
  ASSUME NEW n \in Nat, NEW x \in SUBSET (1..n), x # {}
  PROVE  Max(x) \in x /\ \A y \in x : y <= Max(x)
<1> DEFINE T == {m \in Nat : \A z \in SUBSET (1..m) : z # {} => \E k \in z : \A y \in z : k >= y}
<1>1. 0 \in T
  <2>1. 1..0 = {}
    OBVIOUS
  <2>2. \A z \in SUBSET (1..0) : z = {}
    BY <2>1
  <2> QED BY <2>2
<1>2. ASSUME NEW m \in T \cap Nat PROVE m + 1 \in T
  <2> SUFFICES ASSUME NEW z \in SUBSET (1..(m + 1)), z # {}
               PROVE  \E k \in z : \A y \in z : k >= y
    OBVIOUS
  <2>1. CASE m + 1 \in z
    BY <2>1
  <2>2. CASE m + 1 \notin z
    <3>1. z \in SUBSET (1..m)
      BY <2>2
    <3> QED BY <3>1
  <2> QED BY <2>1, <2>2
<1> HIDE DEF T
<1>3. n \in T
  BY <1>1, <1>2, SetInduction
<1>4. \E k \in x : \A y \in x : k >= y
  BY <1>3 DEF T
<1>5. Max(x) \in x /\ \A y \in x : Max(x) >= y
  BY <1>4 DEF Max
<1> QED BY <1>5

\* The greatest of the first i numbers is i.
LEMMA GreatestOfFirst ==
  ASSUME NEW n \in Nat, NEW i \in 1..n
  PROVE  1..i \in SUBSET (1..n) /\ 1..i # {} /\ Max(1..i) = i /\ (1..i) \ {i} = 1..(i - 1)
<1>1. i \in Nat /\ i <= n /\ 1..i \in SUBSET (1..n) /\ i \in 1..i
  OBVIOUS
<1>2. Max(1..i) \in 1..i /\ i <= Max(1..i)
  BY <1>1, GreatestOf
<1> QED BY <1>1, <1>2

\* A fold adds elements from the last one on; its steps as a function.
Folds(f, n, base, step) ==
    f = [x \in SUBSET (1..n) |-> IF x = {} THEN base ELSE step[<<Max(x), f[x \ {Max(x)}]>>]]

\* A function that folds exists: built size by size.
LEMMA FoldExists ==
  ASSUME NEW n \in Nat, NEW D, NEW base \in D, NEW step \in [(1..n) \X D -> D]
  PROVE  \E f \in [SUBSET (1..n) -> D] : Folds(f, n, base, step)
<1> DEFINE Has(m) == \E f \in [SUBSET (1..m) -> D] : Folds(f, m, base, step)
           T == {m \in Nat : m <= n => Has(m)}
<1>1. Has(0)
  <2> DEFINE f == [x \in SUBSET (1..0) |-> base]
             g == [x \in SUBSET (1..0) |->
                     IF x = {} THEN base ELSE step[<<Max(x), f[x \ {Max(x)}]>>]]
  <2>1. 1..0 = {}
    OBVIOUS
  <2>2. \A x \in SUBSET (1..0) : x = {}
    BY <2>1
  <2>3. f \in [SUBSET (1..0) -> D]
    OBVIOUS
  <2>4. f = g
    BY <2>2
  <2>5. Folds(f, 0, base, step)
    <3> HIDE DEF f
    <3> QED BY <2>4 DEF Folds
  <2> HIDE DEF f
  <2> QED BY <2>3, <2>5 DEF Has
<1>2. ASSUME NEW m \in Nat, Has(m), m + 1 <= n PROVE Has(m + 1)
  <2>1. PICK f \in [SUBSET (1..m) -> D] : Folds(f, m, base, step)
    BY <1>2
  <2> DEFINE g == [x \in SUBSET (1..(m + 1)) |->
                     IF m + 1 \in x THEN step[<<m + 1, f[x \ {m + 1}]>>] ELSE f[x]]
             h == [x \in SUBSET (1..(m + 1)) |->
                     IF x = {} THEN base ELSE step[<<Max(x), g[x \ {Max(x)}]>>]]
  <2>2. ASSUME NEW x \in SUBSET (1..(m + 1)) PROVE g[x] = h[x] /\ g[x] \in D
    <3>1. CASE m + 1 \in x
      <4>1. Max(x) = m + 1
        <5>1. x # {} /\ m + 1 \in Nat
          BY <3>1
        <5>2. Max(x) \in 1..(m + 1) /\ m + 1 <= Max(x)
          BY <3>1, <5>1, GreatestOf
        <5> QED BY <5>2
      <4>2. /\ x \ {m + 1} \in SUBSET (1..(m + 1)) /\ m + 1 \notin x \ {m + 1}
            /\ x \ {m + 1} \in SUBSET (1..m)
        OBVIOUS
      <4>3. g[x] = step[<<m + 1, f[x \ {m + 1}]>>] /\ g[x \ {m + 1}] = f[x \ {m + 1}]
        BY <3>1, <4>2
      <4>4. h[x] = step[<<m + 1, g[x \ {m + 1}]>>]
        <5> HIDE DEF g
        <5> QED BY <3>1, <4>1
      <4>5. f[x \ {m + 1}] \in D /\ m + 1 \in 1..n
        BY <1>2, <4>2
      <4> HIDE DEF g, h
      <4> QED BY <4>3, <4>4, <4>5
    <3>2. CASE m + 1 \notin x
      <4>1. x \in SUBSET (1..m)
        BY <3>2
      <4>2. f[x] \in D /\ g[x] = f[x]
        BY <3>2, <4>1
      <4>3. CASE x = {}
        <5>1. f[x] = base
          BY <2>1, <4>1, <4>3 DEF Folds
        <5> HIDE DEF g
        <5> QED BY <4>2, <4>3, <5>1
      <4>4. CASE x # {}
        <5>1. f[x] = step[<<Max(x), f[x \ {Max(x)}]>>]
          BY <2>1, <4>1, <4>4 DEF Folds
        <5>2. x \ {Max(x)} \in SUBSET (1..(m + 1)) /\ m + 1 \notin x \ {Max(x)}
          BY <3>2
        <5>3. g[x \ {Max(x)}] = f[x \ {Max(x)}]
          BY <5>2
        <5> HIDE DEF g
        <5> QED BY <4>2, <4>4, <5>1, <5>3
      <4> QED BY <4>3, <4>4
    <3> QED BY <3>1, <3>2
  <2>3. g = h /\ g \in [SUBSET (1..(m + 1)) -> D]
    BY <2>2
  <2>4. Folds(g, m + 1, base, step)
    <3> HIDE DEF g
    <3> QED BY <2>3 DEF Folds
  <2> HIDE DEF g
  <2> QED BY <2>3, <2>4 DEF Has
<1>3. ASSUME NEW m \in T \cap Nat PROVE m + 1 \in T
  <2> HIDE DEF Has
  <2>1. m + 1 <= n => m <= n
    OBVIOUS
  <2>2. m + 1 <= n => Has(m + 1)
    BY <1>2, <2>1
  <2> QED BY <2>2
<1>4. Has(n)
  <2>0. 0 \in T
    <3> HIDE DEF Has
    <3> QED BY <1>1
  <2> HIDE DEF T
  <2>1. n \in T
    BY <1>3, <2>0, SetInduction
  <2> HIDE DEF Has
  <2> QED BY <2>1 DEF T
<1> QED BY <1>4

\* f[i] is the sum of the first i numbers of s.
Totals(f, s) ==
    /\ f[0] = 0
    /\ \A i \in 1..Len(s) : f[i] = f[i - 1] + s[i]

\* SumOf is the last of the running totals, which are unique.
LEMMA SumIsTotal ==
  ASSUME NEW s \in Seq(Nat)
  PROVE  /\ \E f \in [0..Len(s) -> Nat] : Totals(f, s)
         /\ \A f : Totals(f, s) => SumOf(s) = f[Len(s)]
<1> DEFINE n == Len(s)
           Adds(f) == f = [x \in SUBSET (1..n) |->
                             IF x = {} THEN 0 ELSE f[x \ {Max(x)}] + s[Max(x)]]
           adds == CHOOSE f : Adds(f)
<1>1. n \in Nat /\ DOMAIN s = 1..n /\ \A i \in 1..n : s[i] \in Nat
  BY LenProperties, ElementOfSeq
<1>2. Adds(adds)
  <2> DEFINE step == [p \in (1..n) \X Nat |-> p[2] + s[p[1]]]
  <2>1. step \in [(1..n) \X Nat -> Nat]
    BY <1>1
  <2>2. \A i \in 1..n, k \in Nat : step[<<i, k>>] = k + s[i]
    OBVIOUS
  <2> HIDE DEF step
  <2>3. PICK f \in [SUBSET (1..n) -> Nat] : Folds(f, n, 0, step)
    BY <1>1, <2>1, FoldExists
  <2>4. ASSUME NEW x \in SUBSET (1..n)
        PROVE  f[x] = IF x = {} THEN 0 ELSE f[x \ {Max(x)}] + s[Max(x)]
    <3>1. CASE x = {}
      BY <2>3, <3>1 DEF Folds
    <3>2. CASE x # {}
      <4>1. Max(x) \in 1..n /\ f[x \ {Max(x)}] \in Nat
        BY <1>1, <3>2, GreatestOf
      <4>2. f[x] = step[<<Max(x), f[x \ {Max(x)}]>>]
        BY <2>3, <3>2 DEF Folds
      <4> QED BY <2>2, <3>2, <4>1, <4>2
    <3> QED BY <3>1, <3>2
  <2>5. Adds(f)
    BY <2>4
  <2> QED BY <2>5
<1>3. SumOf(s) = adds[1..n]
  BY <1>1 DEF SumOf, FoldLeft, MapThenFoldSet
<1> HIDE DEF adds
<1>4. adds[1..0] = 0
  <2>1. 1..0 = {}
    OBVIOUS
  <2> QED BY <1>2, <2>1
<1>5. ASSUME NEW i \in 1..n PROVE adds[1..i] = adds[1..(i - 1)] + s[i]
  <2>1. /\ 1..i \in SUBSET (1..n) /\ 1..i # {}
        /\ Max(1..i) = i /\ (1..i) \ {i} = 1..(i - 1)
    BY <1>1, GreatestOfFirst
  <2> QED BY <1>2, <2>1
<1> DEFINE total == [i \in 0..n |-> adds[1..i]]
<1>6. total \in [0..n -> Nat] /\ Totals(total, s)
  <2> DEFINE T == {i \in Nat : i <= n => adds[1..i] \in Nat}
  <2>1. 0 \in T
    BY <1>4
  <2>2. ASSUME NEW i \in T \cap Nat PROVE i + 1 \in T
    <3> SUFFICES ASSUME i + 1 <= n PROVE adds[1..(i + 1)] \in Nat
      OBVIOUS
    <3>1. i + 1 \in 1..n /\ (i + 1) - 1 = i /\ i <= n
      BY <1>1
    <3>2. s[i + 1] \in Nat /\ adds[1..i] \in Nat
      BY <1>1, <3>1
    <3> QED BY <1>5, <3>1, <3>2
  <2> HIDE DEF T
  <2>3. \A i \in 0..n : i \in T
    BY <1>1, <2>1, <2>2, SetInduction
  <2>4. \A i \in 0..n : adds[1..i] \in Nat
    BY <1>1, <2>3 DEF T
  <2> HIDE DEF n
  <2>5. \A i \in 1..n : i \in 0..n /\ i - 1 \in 0..n
    BY <1>1
  <2> QED BY <1>1, <1>4, <1>5, <2>4, <2>5 DEF Totals, n
<1>7. ASSUME NEW f, Totals(f, s) PROVE SumOf(s) = f[n]
  <2> DEFINE T == {i \in Nat : i <= n => adds[1..i] = f[i]}
  <2>1. 0 \in T
    BY <1>4, <1>7 DEF Totals
  <2>2. ASSUME NEW i \in T \cap Nat PROVE i + 1 \in T
    <3> SUFFICES ASSUME i + 1 <= n PROVE adds[1..(i + 1)] = f[i + 1]
      OBVIOUS
    <3>1. i + 1 \in 1..n /\ (i + 1) - 1 = i /\ i <= n
      BY <1>1
    <3>2. adds[1..(i + 1)] = adds[1..i] + s[i + 1]
      BY <1>5, <3>1
    <3>3. f[i + 1] = f[i] + s[i + 1]
      BY <1>7, <3>1 DEF Totals
    <3> QED BY <3>1, <3>2, <3>3
  <2> HIDE DEF T
  <2>3. n \in T
    BY <1>1, <2>1, <2>2, SetInduction
  <2> QED BY <1>1, <1>3, <2>3 DEF T
<1> HIDE DEF total
<1> QED BY <1>6, <1>7

\* A sum grows by what is appended.
LEMMA SumOfAppend ==
  /\ SumOf(<<>>) = 0
  /\ \A s \in Seq(Nat), k \in Nat : SumOf(Append(s, k)) = SumOf(s) + k /\ SumOf(s) \in Nat
<1>1. SumOf(<<>>) = 0
  <2>1. <<>> \in Seq(Nat) /\ Len(<<>>) = 0
    BY EmptySeq
  <2>2. PICK f : Totals(f, <<>>)
    BY <2>1, SumIsTotal
  <2>3. SumOf(<<>>) = f[Len(<<>>)] /\ f[0] = 0
    BY <2>1, <2>2, SumIsTotal DEF Totals
  <2> QED BY <2>1, <2>3
<1>2. ASSUME NEW s \in Seq(Nat), NEW k \in Nat
      PROVE  SumOf(Append(s, k)) = SumOf(s) + k /\ SumOf(s) \in Nat
  <2> DEFINE n == Len(s)
             t == Append(s, k)
  <2>1. n \in Nat /\ t \in Seq(Nat) /\ Len(t) = n + 1 /\ t[n + 1] = k
        /\ \A i \in 1..n : t[i] = s[i]
    BY AppendProperties, LenProperties
  <2>2. PICK f \in [0..n -> Nat] : Totals(f, s)
    BY SumIsTotal
  <2>3. SumOf(s) = f[n] /\ f[n] \in Nat
    BY <2>1, <2>2, SumIsTotal
  <2> DEFINE g == [i \in 0..(n + 1) |-> IF i = n + 1 THEN f[n] + k ELSE f[i]]
  <2>4. /\ g[0] = 0 /\ g[n + 1] = g[n] + k
        /\ \A i \in 1..n : g[i] = f[i] /\ g[i - 1] = f[i - 1] /\ f[i] = f[i - 1] + s[i]
    BY <2>1, <2>2 DEF Totals
  <2>5. g[n + 1] = f[n] + k
    BY <2>1
  <2> HIDE DEF g, t
  <2>6. \A i \in 1..Len(t) : g[i] = g[i - 1] + t[i]
    <3>1. \A i \in 1..(n + 1) : i \in 1..n \/ i = n + 1
      BY <2>1
    <3>2. (n + 1) - 1 = n
      BY <2>1
    <3> QED BY <2>1, <2>4, <3>1, <3>2
  <2>7. SumOf(t) = g[n + 1]
    <3>1. Totals(g, t)
      BY <2>4, <2>6 DEF Totals
    <3>2. Len(t) = n + 1 /\ t \in Seq(Nat)
      BY <2>1
    <3> QED BY <3>1, <3>2, SumIsTotal
  <2> QED BY <2>3, <2>5, <2>7 DEF t
<1> QED BY <1>1, <1>2

-----------------------------------------------------------------------------
(* Sums of groups.                                                         *)

\* Zeros add up to zero.
LEMMA SumOfZeros ==
  ASSUME NEW s \in Seq(Nat), \A i \in 1..Len(s) : s[i] = 0
  PROVE  SumOf(s) = 0
<1> DEFINE n == Len(s)
           f == [i \in 0..n |-> 0]
<1>1. n \in Nat
  BY LenProperties
<1>2. Totals(f, s)
  <2>1. f[0] = 0 /\ \A i \in 1..n : f[i] = 0 /\ f[i - 1] = 0
    BY <1>1
  <2> HIDE DEF f
  <2> QED BY <2>1 DEF Totals
<1>3. f[n] = 0
  BY <1>1
<1> HIDE DEF f
<1> QED BY <1>2, <1>3, SumIsTotal

\* Two sequences that differ by k in one place.
LEMMA SumOfBump ==
  ASSUME NEW s \in Seq(Nat), NEW t \in Seq(Nat), Len(s) = Len(t),
         NEW j \in 1..Len(s), NEW k \in Nat,
         \A i \in 1..Len(s) : t[i] = IF i = j THEN s[i] + k ELSE s[i]
  PROVE  SumOf(t) = SumOf(s) + k
<1> DEFINE n == Len(s)
<1>1. n \in Nat /\ \A i \in 1..n : s[i] \in Nat
  BY LenProperties, ElementOfSeq
<1>2. PICK f \in [0..n -> Nat] : Totals(f, s)
  BY SumIsTotal
<1> DEFINE g == [i \in 0..n |-> IF i >= j THEN f[i] + k ELSE f[i]]
<1>3. Totals(g, t)
  <2>1. g[0] = 0
    BY <1>1, <1>2 DEF Totals
  <2>2. ASSUME NEW i \in 1..n PROVE g[i] = g[i - 1] + t[i]
    <3>0. i \in 0..n /\ i - 1 \in 0..n
      BY <1>1
    <3>1. f[i] = f[i - 1] + s[i] /\ f[i - 1] \in Nat /\ f[i] \in Nat /\ s[i] \in Nat
      <4>1. f[i - 1] \in Nat /\ f[i] \in Nat
        BY <1>2, <3>0
      <4>2. f[i] = f[i - 1] + s[i]
        BY <1>2 DEF Totals
      <4> QED BY <1>1, <4>1, <4>2
    <3>2. /\ g[i] = IF i >= j THEN f[i] + k ELSE f[i]
          /\ g[i - 1] = IF i - 1 >= j THEN f[i - 1] + k ELSE f[i - 1]
      BY <1>1
    <3>3. t[i] = IF i = j THEN s[i] + k ELSE s[i]
      OBVIOUS
    <3> HIDE DEF g
    <3>4. CASE i = j
      <4>1. ~(i - 1 >= j) /\ i >= j
        BY <3>4
      <4>2. g[i] = f[i] + k /\ g[i - 1] = f[i - 1] /\ t[i] = s[i] + k
        BY <3>2, <3>3, <3>4, <4>1
      <4>3. PICK a \in Nat : a = f[i - 1]
        BY <3>1
      <4>4. PICK b \in Nat : b = s[i]
        BY <3>1
      <4>5. g[i] = (a + b) + k /\ g[i - 1] = a /\ t[i] = b + k
        BY <3>1, <4>2, <4>3, <4>4
      <4>6. (a + b) + k = a + (b + k)
        OBVIOUS
      <4> QED BY <4>5, <4>6
    <3>5. CASE i > j
      <4>1. i - 1 >= j /\ i # j /\ i >= j
        BY <3>5
      <4>2. g[i] = f[i] + k /\ g[i - 1] = f[i - 1] + k /\ t[i] = s[i]
        BY <3>2, <3>3, <4>1
      <4>3. PICK a \in Nat : a = f[i - 1]
        BY <3>1
      <4>4. PICK b \in Nat : b = s[i]
        BY <3>1
      <4>5. g[i] = (a + b) + k /\ g[i - 1] = a + k /\ t[i] = b
        BY <3>1, <4>2, <4>3, <4>4
      <4>6. (a + b) + k = (a + k) + b
        OBVIOUS
      <4> QED BY <4>5, <4>6
    <3>6. CASE i < j
      <4>1. ~(i - 1 >= j) /\ i # j /\ ~(i >= j)
        BY <3>6
      <4> QED BY <3>1, <3>2, <3>3, <4>1
    <3> QED BY <3>4, <3>5, <3>6
  <2> HIDE DEF g
  <2> QED BY <2>1, <2>2 DEF Totals
<1>4. g[n] = f[n] + k
  BY <1>1
<1> HIDE DEF g
<1> QED BY <1>2, <1>3, <1>4, SumIsTotal

\* A finite set is enumerated without repetition.
LEMMA Enumerated ==
  ASSUME NEW S, IsFiniteSet(S)
  PROVE  /\ SetToSeq(S) \in Seq(S) /\ ToSet(SetToSeq(S)) = S
         /\ \A i, j \in 1..Len(SetToSeq(S)) : SetToSeq(S)[i] = SetToSeq(S)[j] => i = j
<1> DEFINE n == Cardinality(S)
           e == SetToSeq(S)
<1>1. n \in Nat /\ ExistsBijection(1..n, S)
  BY FS_CardinalityType
<1>2. e \in [1..n -> S] /\ IsInjective(e)
  <2>1. \E f \in [1..n -> S] : IsInjective(f)
    BY <1>1 DEF ExistsBijection, Bijection, Injection
  <2>2. e = CHOOSE f \in [1..n -> S] : IsInjective(f)
    BY DEF SetToSeq
  <2> HIDE DEF e
  <2> QED BY <2>1, <2>2
<1> HIDE DEF e
<1>3. e \in Seq(S) /\ Len(e) = n /\ DOMAIN e = 1..n
  BY <1>1, <1>2
<1>4. e \in Injection(1..n, S)
  BY <1>2 DEF Injection
<1>5. Cardinality(1..n) = n /\ IsFiniteSet(1..n)
  BY <1>1, FS_Interval
<1>6. e \in Surjection(1..n, S)
  <2> HIDE DEF n
  <2> QED BY <1>4, <1>5, FS_Injection DEF n
<1>7. ToSet(e) = S
  BY <1>2, <1>3, <1>6 DEF ToSet, Surjection
<1> QED BY <1>2, <1>3, <1>7 DEF e, IsInjective

\* One more element,
LEMMA ElementsAppend ==
  ASSUME NEW S, NEW s \in Seq(S), NEW e \in S
  PROVE  ToSet(Append(s, e)) = ToSet(s) \cup {e}
<1>1. /\ DOMAIN s = 1..Len(s) /\ DOMAIN Append(s, e) = 1..(Len(s) + 1) /\ Len(s) \in Nat
      /\ \A i \in 1..Len(s) : Append(s, e)[i] = s[i]
      /\ Append(s, e)[Len(s) + 1] = e
  BY AppendProperties, LenProperties
<1>2. \A i : i \in DOMAIN Append(s, e) <=> i \in DOMAIN s \/ i = Len(s) + 1
  BY <1>1
<1> QED BY <1>1, <1>2 DEF ToSet

\* ... and the elements of a sequence, which are finitely many.
LEMMA ElementsOf ==
  ASSUME NEW S, NEW s \in Seq(S)
  PROVE  /\ ToSet(s) \subseteq S /\ IsFiniteSet(ToSet(s))
         /\ \A x : x \in ToSet(s) <=> Times(x, s) # 0
         /\ \A x : x \in ToSet(s) <=> \E i \in 1..Len(s) : s[i] = x
<1>1. Len(s) \in Nat /\ DOMAIN s = 1..Len(s) /\ s \in [1..Len(s) -> S]
  BY LenProperties
<1>2. ToSet(s) \subseteq S
  BY <1>1 DEF ToSet
<1>3. IsFiniteSet(ToSet(s))
  <2>1. IsFiniteSet(1..Len(s))
    BY <1>1, FS_Interval
  <2>2. s \in Surjection(1..Len(s), ToSet(s))
    BY <1>1 DEF Surjection, ToSet
  <2> QED BY <2>1, <2>2, FS_Surjection
<1>4. \A x : x \in ToSet(s) <=> \E i \in 1..Len(s) : s[i] = x
  BY <1>1 DEF ToSet
<1>5. \A x : Times(x, s) # 0 <=> \E i \in 1..Len(s) : s[i] = x
  BY TimesType
<1> QED BY <1>2, <1>3, <1>4, <1>5

SizeOf(r) == r.size

\* Sizes of results are positive.
LEMMA SizeTypes == \A r \in Results : r.size \in Nat /\ r.size # 0 /\ r.size >= 1
<1> TAKE r \in Results
<1>1. r.size \in {x.size : x \in Results}
  OBVIOUS
<1>2. r.size \in Nat \ {0}
  BY <1>1, QueriesAssumption
<1> QED BY <1>2

OfType(t) == {r \in Results : r.type = t}

\* The sizes of one type grow by the size of a result of that type.
LEMMA SizesAppend ==
  ASSUME NEW s \in Seq(Results), NEW r \in Results, NEW t
  PROVE  /\ SizesOf(t, Append(s, r)) = SizesOf(t, s) + (IF r.type = t THEN r.size ELSE 0)
         /\ SizesOf(t, s) \in Nat
<1> DEFINE Sz(u) == [i \in DOMAIN u |-> u[i].size]
           k == Kept(s, OfType(t))
<1>1. \A u : OfTypes(u, {t}) = Kept(u, OfType(t))
  <2>1. {x \in Results : x.type \in {t}} = OfType(t)
    BY DEF OfType
  <2> QED BY <2>1 DEF OfTypes
<1>2. \A u : SizesOf(t, u) = SumOf(Sz(Kept(u, OfType(t))))
  <2> TAKE u
  <2>1. OfTypes(u, {t}) = Kept(u, OfType(t))
    BY <1>1
  <2> QED BY <2>1 DEF SizesOf
<1>3. k \in Seq(Results)
  BY KeptSound
<1>4. \A u \in Seq(Results) : Sz(u) \in Seq(Nat) /\ Len(Sz(u)) = Len(u)
  <2> TAKE u \in Seq(Results)
  <2>1. DOMAIN u = 1..Len(u) /\ Len(u) \in Nat /\ \A i \in 1..Len(u) : u[i] \in Results
    BY LenProperties, ElementOfSeq
  <2>2. \A i \in 1..Len(u) : u[i].size \in Nat
    BY <2>1, SizeTypes
  <2> QED BY <2>1, <2>2
<1>5. Sz(Append(k, r)) = Append(Sz(k), r.size)
  <2>1. /\ Append(k, r) \in Seq(Results) /\ Len(Append(k, r)) = Len(k) + 1 /\ Len(k) \in Nat
        /\ DOMAIN k = 1..Len(k) /\ DOMAIN Append(k, r) = 1..(Len(k) + 1)
        /\ \A i \in 1..Len(k) : Append(k, r)[i] = k[i]
        /\ Append(k, r)[Len(k) + 1] = r
    BY <1>3, AppendProperties, LenProperties
  <2>2. r.size \in Nat /\ Sz(k) \in Seq(Nat) /\ Len(Sz(k)) = Len(k)
    BY <1>3, <1>4, SizeTypes
  <2>3. /\ Append(Sz(k), r.size) \in Seq(Nat)
        /\ Len(Append(Sz(k), r.size)) = Len(k) + 1
        /\ \A i \in 1..Len(k) : Append(Sz(k), r.size)[i] = Sz(k)[i]
        /\ Append(Sz(k), r.size)[Len(k) + 1] = r.size
    BY <2>2, AppendProperties
  <2>4. /\ Sz(Append(k, r)) \in Seq(Nat) /\ Len(Sz(Append(k, r))) = Len(k) + 1
        /\ \A i \in 1..Len(k) : Sz(Append(k, r))[i] = k[i].size
        /\ Sz(Append(k, r))[Len(k) + 1] = r.size
    <3> PICK u \in Seq(Results) : u = Append(k, r)
      BY <2>1
    <3>1. Sz(u) \in Seq(Nat) /\ Len(Sz(u)) = Len(k) + 1
      BY <1>4, <2>1
    <3>2. \A i \in 1..(Len(k) + 1) : Sz(u)[i] = u[i].size
      BY <2>1
    <3>3. Len(k) + 1 \in 1..(Len(k) + 1) /\ \A i \in 1..Len(k) : i \in 1..(Len(k) + 1)
      BY <2>1
    <3> HIDE DEF Sz, k
    <3> QED BY <2>1, <3>1, <3>2, <3>3
  <2>5. \A i \in 1..Len(k) : Sz(k)[i] = k[i].size
    BY <2>1
  <2> HIDE DEF k, Sz
  <2>6. \A i \in 1..(Len(k) + 1) : Sz(Append(k, r))[i] = Append(Sz(k), r.size)[i]
    <3>1. \A i \in 1..(Len(k) + 1) : i \in 1..Len(k) \/ i = Len(k) + 1
      BY <2>1
    <3> QED BY <2>3, <2>4, <2>5, <3>1
  <2> QED BY <2>3, <2>4, <2>6, SeqEqual
<1>6. Kept(Append(s, r), OfType(t)) = IF r.type = t THEN Append(k, r) ELSE k
  <2>1. r \in OfType(t) <=> r.type = t
    BY DEF OfType
  <2> QED BY <2>1, KeptAppend
<1>7. Sz(k) \in Seq(Nat) /\ r.size \in Nat
  BY <1>3, <1>4, SizeTypes
<1>8. SumOf(Append(Sz(k), r.size)) = SumOf(Sz(k)) + r.size /\ SumOf(Sz(k)) \in Nat
  <2> HIDE DEF k, Sz
  <2> QED BY <1>7, SumOfAppend
<1>9. SizesOf(t, s) = SumOf(Sz(k))
  BY <1>2
<1>10. SizesOf(t, Append(s, r)) = SumOf(Sz(Kept(Append(s, r), OfType(t))))
  BY <1>2
<1> HIDE DEF k, Sz
<1>11. CASE r.type = t
  BY <1>5, <1>6, <1>8, <1>9, <1>10, <1>11
<1>12. CASE r.type # t
  BY <1>6, <1>8, <1>9, <1>10, <1>12
<1> QED BY <1>11, <1>12

\* They begin with nothing.
LEMMA SizesEmpty == \A t : SizesOf(t, <<>>) = 0
<1> TAKE t
<1>1. OfTypes(<<>>, {t}) = <<>>
  BY KeptEmpty DEF OfTypes
<1>2. SizesOf(t, <<>>) = SumOf([i \in DOMAIN <<>> |-> <<>>[i].size])
  BY <1>1 DEF SizesOf
<1>3. [i \in DOMAIN <<>> |-> <<>>[i].size] = <<>>
  OBVIOUS
<1> QED BY <1>2, <1>3, SumOfAppend

\* A product with one more factor.
LEMMA Products ==
  \A a, b \in Nat : a * (b + 1) = a * b + a /\ a * b \in Nat /\ a * b = b * a
<1> TAKE a \in Nat, b \in Nat
<1> QED OBVIOUS

\* The sizes of one type, added up group by group.
Weights(g, t, s) ==
    [i \in 1..Len(g) |-> IF g[i].type = t THEN g[i].size * Times(g[i], s) ELSE 0]

\* Weights are numbers, one for each group.
LEMMA WeightTypes ==
  ASSUME NEW g \in Seq(Results), NEW t, NEW s \in Seq(Results)
  PROVE  Weights(g, t, s) \in Seq(Nat) /\ Len(Weights(g, t, s)) = Len(g)
<1>1. Len(g) \in Nat /\ \A i \in 1..Len(g) : g[i] \in Results
  BY LenProperties, ElementOfSeq
<1>2. \A i \in 1..Len(g) : g[i].size \in Nat /\ Times(g[i], s) \in Nat
  BY <1>1, SizeTypes, TimesType
<1>3. \A a, b \in Nat : a * b \in Nat
  BY Products
<1>4. Weights(g, t, s) \in [1..Len(g) -> Nat]
  BY <1>2, <1>3 DEF Weights
<1> QED BY <1>1, <1>4

\* ... and the groups of all results add up to the sizes of all results.
LEMMA GroupsAdd ==
  ASSUME NEW g \in Seq(Results), \A i, j \in 1..Len(g) : g[i] = g[j] => i = j, NEW t,
         NEW s \in Seq(Results), ToSet(s) \subseteq ToSet(g)
  PROVE  SumOf(Weights(g, t, s)) = SizesOf(t, s)
<1> DEFINE Has(u) == SumOf(Weights(g, t, u)) = SizesOf(t, u)
           T == {u \in Seq(Results) : ToSet(u) \subseteq ToSet(g) => Has(u)}
<1>1. Len(g) \in Nat /\ \A i \in 1..Len(g) : g[i] \in Results
  BY LenProperties, ElementOfSeq
<1>2. <<>> \in T
  <2>1. <<>> \in Seq(Results)
    BY EmptySeq
  <2>2. \A i \in 1..Len(g) : Weights(g, t, <<>>)[i] = 0
    <3> TAKE i \in 1..Len(g)
    <3>1. Times(g[i], <<>>) = 0 /\ g[i].size \in Nat
      BY <1>1, TimesEmpty, SizeTypes
    <3>2. \A a \in Nat : a * 0 = 0
      OBVIOUS
    <3>3. g[i].size * Times(g[i], <<>>) = 0
      BY <3>1, <3>2
    <3> QED BY <3>3 DEF Weights
  <2>3. SumOf(Weights(g, t, <<>>)) = 0
    BY <2>1, <2>2, WeightTypes, SumOfZeros
  <2> QED BY <2>1, <2>3, SizesEmpty
<1>3. ASSUME NEW u \in Seq(Results) \cap T, NEW e \in Results PROVE Append(u, e) \in T
  <2>1. Append(u, e) \in Seq(Results)
    BY AppendProperties
  <2>2. ASSUME ToSet(Append(u, e)) \subseteq ToSet(g) PROVE Has(Append(u, e))
    <3>1. ToSet(u) \subseteq ToSet(g) /\ e \in ToSet(g)
      BY <2>2, ElementsAppend
    <3>2. Has(u)
      BY <3>1
    <3>3. PICK j \in 1..Len(g) : g[j] = e
      BY <3>1, ElementsOf
    <3>4. SizesOf(t, Append(u, e)) = SizesOf(t, u) + (IF e.type = t THEN e.size ELSE 0)
      BY SizesAppend
    <3> PICK k \in Nat : k = IF e.type = t THEN e.size ELSE 0
      BY SizeTypes
    <3> DEFINE v == Weights(g, t, u)
               w == Weights(g, t, Append(u, e))
    <3>5. ASSUME NEW i \in 1..Len(v) PROVE w[i] = IF i = j THEN v[i] + k ELSE v[i]
      <4>1. i \in 1..Len(g) /\ (g[i] = e <=> i = j)
        BY <3>3, WeightTypes
      <4>2. Times(g[i], Append(u, e)) = Times(g[i], u) + (IF e = g[i] THEN 1 ELSE 0)
        BY TimesAppend
      <4> PICK a \in Nat : a = g[i].size
        BY <1>1, <4>1, SizeTypes
      <4> PICK b \in Nat : b = Times(g[i], u)
        BY TimesType
      <4>3. /\ v[i] = IF g[i].type = t THEN a * b ELSE 0
            /\ w[i] = IF g[i].type = t THEN a * Times(g[i], Append(u, e)) ELSE 0
        BY <4>1 DEF Weights
      <4>4. a * (b + 1) = a * b + a /\ a * b \in Nat /\ b + 0 = b
        <5>1. a \in Nat /\ b \in Nat
          OBVIOUS
        <5>2. a * (b + 1) = a * b + a /\ a * b \in Nat
          BY ONLY <5>1, Products
        <5> QED BY ONLY <5>1, <5>2
      <4>5. CASE i = j
        <5>1. Times(g[i], Append(u, e)) = b + 1
          BY <4>1, <4>2, <4>5
        <5>2. e.size = a /\ e.type = g[i].type
          BY <4>1, <4>5
        <5> HIDE DEF v, w
        <5>3. CASE g[i].type = t
          <6>1. w[i] = a * (b + 1) /\ v[i] = a * b /\ k = a
            BY <4>3, <5>1, <5>2, <5>3
          <6>2. w[i] = v[i] + k
            BY <4>4, <6>1
          <6> QED BY <4>5, <6>2
        <5>4. CASE g[i].type # t
          BY <4>3, <4>5, <5>2, <5>4
        <5> QED BY <5>3, <5>4
      <4>6. CASE i # j
        <5>1. Times(g[i], Append(u, e)) = b
          BY <4>1, <4>2, <4>4, <4>6
        <5> HIDE DEF v, w
        <5> QED BY <4>3, <4>6, <5>1
      <4> QED BY <4>5, <4>6
    <3>6. v \in Seq(Nat) /\ w \in Seq(Nat) /\ Len(v) = Len(w) /\ j \in 1..Len(v)
      BY <2>1, WeightTypes
    <3> HIDE DEF v, w
    <3>7. SumOf(w) = SumOf(v) + k
      BY <3>5, <3>6, SumOfBump
    <3> QED BY <3>2, <3>4, <3>7 DEF v, w
  <2> HIDE DEF Has
  <2> QED BY <2>1, <2>2
<1> HIDE DEF T
<1>4. s \in T
  BY <1>2, <1>3, SeqInduction
<1> QED BY <1>4 DEF T

-----------------------------------------------------------------------------
(* What makes an answer honest.                                            *)

\* A bag is contained in another if nothing occurs more often in it.
LEMMA BagLess ==
  ASSUME NEW S, NEW a \in Seq(S), NEW b \in Seq(S), \A x : Times(x, a) <= Times(x, b)
  PROVE  ToBag(a) \sqsubseteq ToBag(b)
<1>1. \A s : Range(s) = ToSet(s)
  BY DEF Range, ToSet
<1>2. \A s : DOMAIN ToBag(s) = ToSet(s)
  BY <1>1 DEF ToBag
<1>3. \A s : \A x \in ToSet(s) : ToBag(s)[x] = Times(x, s)
  BY <1>1 DEF ToBag, Times
<1>4. /\ \A x : x \in ToSet(a) <=> Times(x, a) # 0
      /\ \A x : x \in ToSet(b) <=> Times(x, b) # 0
  BY ElementsOf
<1>5. \A x : Times(x, a) \in Nat /\ Times(x, b) \in Nat
  BY TimesType
<1>6. ToSet(a) \subseteq ToSet(b)
  <2> SUFFICES ASSUME NEW x \in ToSet(a) PROVE x \in ToSet(b)
    OBVIOUS
  <2>1. Times(x, a) # 0 /\ Times(x, a) <= Times(x, b)
    BY <1>4
  <2> QED BY <1>4, <1>5, <2>1
<1>7. \A x \in ToSet(a) : ToBag(a)[x] <= ToBag(b)[x]
  BY <1>3, <1>6
<1> QED BY <1>2, <1>6, <1>7 DEF \sqsubseteq

\* The arguments of a query.
LEMMA QueryTypes ==
  ASSUME NEW q \in AllQueries
  PROVE  /\ q.what \in {"data", "errors"} /\ q.groupby \in BOOLEAN
         /\ q.what = "errors" => q.type = None /\ ~q.groupby
         /\ First(q) \in Nat
         /\ q.size # None => q.size \in Nat /\ q.size # 0
         /\ q.start # None => q.start \in Nat
         /\ IsWhole(q) => First(q) = 0
<1>1. /\ q.what \in {"data", "errors"} /\ q.groupby \in BOOLEAN
      /\ q.what = "errors" => q.type = None /\ ~q.groupby
      /\ q.start \in Starts /\ q.size \in Sizes
  BY DEF AllQueries, DataQueries, ErrorQueries
<1>2. /\ q.start # None => q.start \in Nat
      /\ q.size # None => q.size \in Nat /\ q.size # 0
  BY <1>1, QueriesAssumption
<1> QED BY <1>1, <1>2 DEF First, IsWhole

\* The window of a query lies within what there is.
LEMMA WindowTypes ==
  ASSUME NEW q \in AllQueries, NEW n \in Nat
  PROVE  /\ WindowOf(q, n) \in Nat
         /\ WindowOf(q, n) # 0 => First(q) + WindowOf(q, n) <= n
         /\ WindowOf(q, n) <= n
         /\ q.size # None => WindowOf(q, n) <= q.size
         /\ IsWhole(q) => WindowOf(q, n) = n
         /\ \A m \in Nat : n <= m => WindowOf(q, n) <= WindowOf(q, m)
<1> DEFINE left(k) == IF First(q) < k THEN k - First(q) ELSE 0
<1>1. First(q) \in Nat /\ (q.size # None => q.size \in Nat) /\ (IsWhole(q) => First(q) = 0)
  BY QueryTypes
<1>2. \A k \in Nat : /\ left(k) \in Nat /\ left(k) <= k
                     /\ left(k) # 0 => First(q) + left(k) = k
  BY <1>1
<1>3. \A k : WindowOf(q, k) = IF q.size = None \/ left(k) < q.size THEN left(k) ELSE q.size
  BY DEF WindowOf
<1>4. \A k \in Nat : n <= k => left(n) <= left(k)
  BY <1>1
<1>5. IsWhole(q) => left(n) = n /\ q.size = None
  BY <1>1 DEF IsWhole
<1> HIDE DEF left
<1>6. WindowOf(q, n) \in Nat /\ WindowOf(q, n) <= left(n)
  BY <1>1, <1>2, <1>3
<1>7. q.size # None => WindowOf(q, n) <= q.size
  BY <1>1, <1>2, <1>3
<1>8. IsWhole(q) => WindowOf(q, n) = n
  BY <1>3, <1>5
<1>9. ASSUME NEW m \in Nat, n <= m PROVE WindowOf(q, n) <= WindowOf(q, m)
  <2>1. left(n) <= left(m) /\ left(n) \in Nat /\ left(m) \in Nat
    BY <1>2, <1>4, <1>9
  <2>2. CASE q.size = None
    BY <1>3, <2>1, <2>2
  <2>3. CASE q.size # None
    BY <1>1, <1>3, <2>1, <2>3
  <2> QED BY <2>2, <2>3
<1>10. /\ WindowOf(q, n) # 0 => First(q) + WindowOf(q, n) <= n
       /\ WindowOf(q, n) <= n
  BY <1>1, <1>2, <1>6
<1> QED BY <1>6, <1>7, <1>8, <1>9, <1>10

\* A page: a window of a list.
Page(q, s) == SubSeq(s, First(q) + 1, First(q) + WindowOf(q, Len(s)))

\* It is as long as the window and holds nothing more often than the list.
LEMMA PageSound ==
  ASSUME NEW S, NEW q \in AllQueries, NEW s \in Seq(S)
  PROVE  /\ Page(q, s) \in Seq(S) /\ Len(Page(q, s)) = WindowOf(q, Len(s))
         /\ \A x : Times(x, Page(q, s)) <= Times(x, s)
         /\ IsWhole(q) => Page(q, s) = s
<1> DEFINE n == Len(s)
           a == First(q)
           w == WindowOf(q, n)
<1>1. /\ n \in Nat /\ a \in Nat /\ w \in Nat /\ w <= n /\ (w # 0 => a + w <= n)
      /\ IsWhole(q) => a = 0 /\ w = n
  BY LenProperties, QueryTypes, WindowTypes
<1>2. \A i \in 1..n : s[i] \in S
  BY ElementOfSeq
<1> HIDE DEF n, a, w
<1>3. \A i \in (a + 1)..(a + w) : i \in 1..n
  BY <1>1
<1>4. \A i \in (a + 1)..(a + w) : s[i] \in S
  BY <1>2, <1>3
<1>5. a + 1 \in Int /\ a + w \in Int /\ (a + w) - (a + 1) + 1 = w
  BY <1>1
<1> DEFINE p == SubSeq(s, a + 1, a + w)
<1>6. /\ p \in Seq(S)
      /\ Len(p) = IF a + 1 <= a + w THEN (a + w) - (a + 1) + 1 ELSE 0
      /\ \A i \in 1..((a + w) - (a + 1) + 1) : p[i] = s[(a + 1) + i - 1]
  BY <1>4, <1>5, SubSeqProperties
<1> HIDE DEF p
<1>7. p \in Seq(S) /\ Len(p) = w /\ \A i \in 1..w : p[i] = s[a + i]
  BY <1>1, <1>5, <1>6
<1>8. ASSUME NEW x PROVE Times(x, p) <= Times(x, s)
  <2>1. CASE w = 0
    <3>1. Times(x, p) <= Len(p) /\ Times(x, p) \in Nat /\ Times(x, s) \in Nat
      BY <1>7, TimesType
    <3> QED BY <1>7, <2>1, <3>1
  <2>2. CASE w # 0
    <3>1. a \in Nat /\ a + Len(p) <= Len(s) /\ \A i \in 1..Len(p) : p[i] = s[a + i]
      BY <1>1, <1>7, <2>2 DEF n
    <3> QED BY <1>7, <3>1, TimesOfPart
  <2> QED BY <2>1, <2>2
<1>9. Page(q, s) = p
  BY DEF Page, p, a, w, n
<1>10. ASSUME IsWhole(q) PROVE p = s
  <2>1. Len(p) = Len(s) /\ \A i \in 1..Len(p) : p[i] = s[i]
    BY <1>1, <1>7, <1>10 DEF n
  <2> QED BY <1>7, <2>1, SeqEqual
<1> QED BY <1>7, <1>8, <1>9, <1>10 DEF w, n

\* What is selected is what is of the type of the query,
LEMMA SelectedSound ==
  ASSUME NEW q, NEW s \in Seq(Results)
  PROVE  /\ Selected(s, q) \in Seq(Results) /\ Len(Selected(s, q)) <= Len(s)
         /\ \A x : Times(x, Selected(s, q)) =
                     IF x \in Results /\ IsOfType(q, x) THEN Times(x, s) ELSE 0
         /\ q.type = None => Selected(s, q) = s
<1> DEFINE set == {r \in Results : IsOfType(q, r)}
<1>1. Selected(s, q) = Kept(s, set)
  BY DEF Selected
<1>2. /\ Kept(s, set) \in Seq(Results) /\ Len(Kept(s, set)) <= Len(s)
      /\ \A x : Times(x, Kept(s, set)) = IF x \in set THEN Times(x, s) ELSE 0
      /\ Results \subseteq set => Kept(s, set) = s
  <2> HIDE DEF set
  <2> QED BY KeptSound
<1>3. q.type = None => Results \subseteq set
  BY DEF IsOfType
<1>4. \A x : x \in set <=> x \in Results /\ IsOfType(q, x)
  OBVIOUS
<1> HIDE DEF set
<1> QED BY <1>1, <1>2, <1>3, <1>4

\* ... and what is kept of some types is all of them.
LEMMA OfTypesSound ==
  ASSUME NEW s \in Seq(Results), NEW types
  PROVE  /\ OfTypes(s, types) \in Seq(Results) /\ Len(OfTypes(s, types)) <= Len(s)
         /\ \A x : Times(x, OfTypes(s, types)) =
                     IF x \in Results /\ x.type \in types THEN Times(x, s) ELSE 0
         /\ \A more : types \subseteq more => Len(OfTypes(s, types)) <= Len(OfTypes(s, more))
<1> DEFINE set(t) == {r \in Results : r.type \in t}
<1>1. \A t : OfTypes(s, t) = Kept(s, set(t))
  BY DEF OfTypes
<1>2. /\ Kept(s, set(types)) \in Seq(Results) /\ Len(Kept(s, set(types))) <= Len(s)
      /\ \A x : Times(x, Kept(s, set(types))) = IF x \in set(types) THEN Times(x, s) ELSE 0
      /\ \A other : set(types) \subseteq other => Len(Kept(s, set(types))) <= Len(Kept(s, other))
  <2> PICK z : z = set(types)
    OBVIOUS
  <2> HIDE DEF set
  <2>1. /\ Kept(s, z) \in Seq(Results) /\ Len(Kept(s, z)) <= Len(s)
        /\ \A x : Times(x, Kept(s, z)) = IF x \in z THEN Times(x, s) ELSE 0
        /\ \A other : z \subseteq other => Len(Kept(s, z)) <= Len(Kept(s, other))
    BY KeptSound
  <2> QED BY <2>1
<1>3. \A x : x \in set(types) <=> x \in Results /\ x.type \in types
  OBVIOUS
<1>4. \A more : types \subseteq more => set(types) \subseteq set(more)
  OBVIOUS
<1> HIDE DEF set
<1> QED BY <1>1, <1>2, <1>3, <1>4

-----------------------------------------------------------------------------
(* Redis.                                                                  *)

RedisTypes ==
    /\ log \in Seq(Results) /\ over \in BOOLEAN
    /\ redis \in [metadata : SUBSET {"ended"}, counters : SUBSET AllTypes,
                  count : [AllTypes -> Nat], data : Seq(Results), errors : Seq(Results),
                  bcounters : SUBSET Results, bcount : [Results -> Nat]]

\* The same results as often, in whatever order.
SameAs(s, t) == Len(s) = Len(t) /\ \A x : Times(x, s) = Times(x, t)

\* The lists hold what was added; counters and groups count it.
KeysSound ==
    /\ SameAs(redis.data, log)
    /\ SameAs(redis.errors, OfTypes(log, {"addError"}))
    /\ redis.bcounters = ToSet(log)
    /\ \A r \in Results : redis.bcount[r] = r.size * Times(r, log)
    /\ \A t \in AllTypes :
         /\ redis.count[t] = SizesOf(t, log)
         /\ t \in redis.counters <=> redis.count[t] > 0

\* Nothing is added while an answer waits to be sent.
ReplySound ==
    /\ reply.status \in {"none", "answered", "failed"}
    /\ reply.status = "answered" /\ IsSync(reply.query) => AgreeWithCounts(reply.found)
    /\ Idle => reply = NoReply

RedisIInv == RedisTypes /\ KeysSound /\ ReplySound

\* The promise of redis is about the same operators.
LEMMA SameHelpers ==
  /\ \A s, types : RedisStore!OfTypes(s, types) = OfTypes(s, types)
  /\ \A s, q : RedisStore!Selected(s, q) = Selected(s, q)
  /\ \A s, x : RedisStore!Times(x, s) = Times(x, s)
  /\ \A q, n : RedisStore!WindowOf(q, n) = WindowOf(q, n)
  /\ \A q : RedisStore!IsWhole(q) <=> IsWhole(q)
  /\ \A s : RedisStore!ToBag(s) = ToBag(s)
  /\ \A s : RedisStore!ToSet(s) = ToSet(s)
  /\ \A a, b : RedisStore!\sqsubseteq(a, b) <=> a \sqsubseteq b
<1>1. \A s, types : RedisStore!OfTypes(s, types) = OfTypes(s, types)
  BY DEF RedisStore!OfTypes, OfTypes, RedisStore!Kept, Kept
<1>2. \A s, q : RedisStore!Selected(s, q) = Selected(s, q)
  BY DEF RedisStore!Selected, Selected, RedisStore!IsOfType, IsOfType, RedisStore!Kept, Kept
<1>3. \A s, x : RedisStore!Times(x, s) = Times(x, s)
  BY DEF RedisStore!Times, Times, RedisStore!Cardinality, Cardinality
<1>4. \A q, n : RedisStore!WindowOf(q, n) = WindowOf(q, n)
  BY DEF RedisStore!WindowOf, WindowOf, RedisStore!First, First
<1>5. \A q : RedisStore!IsWhole(q) <=> IsWhole(q)
  BY DEF RedisStore!IsWhole, IsWhole
<1>6. \A s : RedisStore!ToBag(s) = ToBag(s)
  BY DEF RedisStore!ToBag, ToBag, RedisStore!Range, Range, RedisStore!Cardinality, Cardinality
<1>7. \A s : RedisStore!ToSet(s) = ToSet(s)
  BY DEF RedisStore!ToSet, ToSet
<1>8. \A a, b : RedisStore!\sqsubseteq(a, b) <=> a \sqsubseteq b
  BY DEF RedisStore!\sqsubseteq, \sqsubseteq
<1> QED BY <1>1, <1>2, <1>3, <1>4, <1>5, <1>6, <1>7, <1>8

\* A page of a redis list keeps the promise, filtered or not.
LEMMA RedisListHonest ==
  ASSUME RedisTypes, KeysSound, NEW q \in AllQueries
  PROVE  /\ q.what = "errors" => RedisStore!HonestList(q, RedisPage(q, redis.errors))
         /\ q.what = "data" => RedisStore!HonestList(q, Selected(RedisPage(q, redis.data), q))
<1> DEFINE one == OfTypes(log, {"addError"})
           two == OfTypes(log, {"addError", "addFailure"})
<1>1. /\ log \in Seq(Results) /\ redis.data \in Seq(Results) /\ redis.errors \in Seq(Results)
      /\ SameAs(redis.data, log) /\ SameAs(redis.errors, one)
  BY DEF RedisTypes, KeysSound
<1>2. /\ one \in Seq(Results) /\ two \in Seq(Results) /\ Len(one) <= Len(two)
      /\ \A x : Times(x, one) <= Times(x, two)
  <2>1. /\ one \in Seq(Results) /\ two \in Seq(Results) /\ Len(one) <= Len(two)
    <3>1. {"addError"} \subseteq {"addError", "addFailure"}
      OBVIOUS
    <3> QED BY <1>1, <3>1, OfTypesSound
  <2>2. ASSUME NEW x PROVE Times(x, one) <= Times(x, two)
    <3>1. Times(x, one) =
            IF x \in Results /\ x.type \in {"addError"} THEN Times(x, log) ELSE 0
      BY <1>1, OfTypesSound
    <3>2. Times(x, two) =
            IF x \in Results /\ x.type \in {"addError", "addFailure"} THEN Times(x, log) ELSE 0
      BY <1>1, OfTypesSound
    <3>3. Times(x, log) \in Nat
      BY <1>1, TimesType
    <3> HIDE DEF one, two
    <3> QED BY <3>1, <3>2, <3>3
  <2> QED BY <2>1, <2>2
<1>3. /\ Len(log) \in Nat /\ Len(one) \in Nat /\ Len(two) \in Nat
  BY <1>1, <1>2, LenProperties
<1>4. \A s \in Seq(Results) : \A x : Times(x, s) \in Nat
  BY TimesType
<1>5. q.size # None => q.size \in Nat
  BY QueryTypes
<1>6. \A n \in Nat : /\ WindowOf(q, n) \in Nat /\ WindowOf(q, n) <= n
                     /\ q.size # None => WindowOf(q, n) <= q.size
                     /\ \A m \in Nat : n <= m => WindowOf(q, n) <= WindowOf(q, m)
  BY WindowTypes
<1>7. CASE q.what = "errors"
  <2> DEFINE found == RedisPage(q, redis.errors)
  <2>1. found = Page(q, redis.errors)
    BY DEF RedisPage, Page
  <2>2. /\ found \in Seq(Results) /\ Len(found) = WindowOf(q, Len(one))
        /\ \A x : Times(x, found) <= Times(x, one)
        /\ IsWhole(q) => \A x : Times(x, found) = Times(x, one)
    BY <1>1, <2>1, PageSound DEF SameAs
  <2> HIDE DEF found
  <2>3. \A x : Times(x, found) <= Times(x, two)
    <3> TAKE x
    <3>1. Times(x, found) \in Nat /\ Times(x, one) \in Nat /\ Times(x, two) \in Nat
      BY <1>2, <1>4, <2>2
    <3>2. Times(x, found) <= Times(x, one) /\ Times(x, one) <= Times(x, two)
      BY <1>2, <2>2
    <3> QED BY <3>1, <3>2
  <2>4. ToBag(found) \sqsubseteq ToBag(two)
    BY <1>2, <2>2, <2>3, BagLess
  <2>5. q.size # None => Len(found) <= q.size
    BY <1>3, <1>6, <2>2
  <2>6. ASSUME IsWhole(q) PROVE ToBag(one) \sqsubseteq ToBag(found)
    <3>1. \A x : Times(x, one) <= Times(x, found)
      BY <1>2, <1>4, <2>2, <2>6
    <3> QED BY <1>2, <2>2, <3>1, BagLess
  <2>7. Len(found) \in WindowOf(q, Len(one))..WindowOf(q, Len(two))
    BY <1>2, <1>3, <1>6, <2>2
  <2>8. RedisStore!Least(q) = one /\ RedisStore!Most(q) = two
    BY <1>7, SameHelpers DEF RedisStore!Least, RedisStore!Most
  <2> HIDE DEF one, two
  <2>9. RedisStore!HonestList(q, found)
    BY <2>4, <2>5, <2>6, <2>7, <2>8, SameHelpers DEF RedisStore!HonestList
  <2> QED BY <1>7, <2>9 DEF found
<1>8. CASE q.what = "data"
  <2> DEFINE page == RedisPage(q, redis.data)
             found == Selected(page, q)
             all == Selected(log, q)
  <2>1. page = Page(q, redis.data)
    BY DEF RedisPage, Page
  <2>2. /\ page \in Seq(Results) /\ Len(page) = WindowOf(q, Len(log))
        /\ \A x : Times(x, page) <= Times(x, log)
        /\ IsWhole(q) => \A x : Times(x, page) = Times(x, log)
    <3> HIDE DEF page
    <3>1. /\ page \in Seq(Results) /\ Len(page) = WindowOf(q, Len(redis.data))
          /\ \A x : Times(x, page) <= Times(x, redis.data)
          /\ IsWhole(q) => page = redis.data
      BY <1>1, <2>1, PageSound
    <3> QED BY <1>1, <3>1 DEF SameAs
  <2>3. /\ found \in Seq(Results) /\ Len(found) <= Len(page) /\ Len(found) \in Nat
        /\ \A x : Times(x, found) = IF x \in Results /\ IsOfType(q, x) THEN Times(x, page) ELSE 0
        /\ q.type = None => found = page
    <3> HIDE DEF page
    <3> QED BY <2>2, SelectedSound, LenProperties
  <2>4. /\ all \in Seq(Results)
        /\ \A x : Times(x, all) = IF x \in Results /\ IsOfType(q, x) THEN Times(x, log) ELSE 0
        /\ q.type = None => all = log
    BY <1>1, SelectedSound
  <2>5. RedisStore!Least(q) = all /\ RedisStore!Most(q) = all
    BY <1>8, SameHelpers DEF RedisStore!Least, RedisStore!Most
  <2> HIDE DEF page, found, all
  <2>6. \A x : Times(x, found) <= Times(x, all)
    <3> TAKE x
    <3>1. Times(x, page) <= Times(x, log) /\ Times(x, page) \in Nat /\ Times(x, log) \in Nat
      BY <1>1, <1>4, <2>2
    <3> QED BY <2>3, <2>4, <3>1
  <2>7. ToBag(found) \sqsubseteq ToBag(all)
    BY <2>3, <2>4, <2>6, BagLess
  <2>8. q.size # None => Len(found) <= q.size
    <3>1. WindowOf(q, Len(log)) \in Nat /\ (q.size # None => WindowOf(q, Len(log)) <= q.size)
      BY <1>3, <1>6
    <3> QED BY <1>5, <2>2, <2>3, <3>1
  <2>9. ASSUME IsWhole(q) PROVE ToBag(all) \sqsubseteq ToBag(found)
    <3>1. ASSUME NEW x PROVE Times(x, all) <= Times(x, found)
      <4>1. Times(x, page) = Times(x, log) /\ Times(x, log) \in Nat
        BY <1>1, <1>4, <2>2, <2>9
      <4> QED BY <2>3, <2>4, <4>1
    <3> QED BY <2>3, <2>4, <3>1, BagLess
  <2>10. ASSUME q.type = None
         PROVE  Len(found) \in WindowOf(q, Len(all))..WindowOf(q, Len(all))
    <3>1. Len(found) = WindowOf(q, Len(all)) /\ WindowOf(q, Len(all)) \in Nat
      BY <1>3, <1>6, <2>2, <2>3, <2>4, <2>10
    <3> QED BY <3>1
  <2>11. RedisStore!HonestList(q, found)
    BY <2>5, <2>7, <2>8, <2>9, <2>10, SameHelpers DEF RedisStore!HonestList
  <2> QED BY <1>8, <2>11 DEF found, page
<1> QED BY <1>7, <1>8

\* The groups of a query in redis: one of each result, with the sum of its sizes.
LEMMA Groups ==
  ASSUME RedisTypes, KeysSound, NEW q \in AllQueries
  PROVE  \E g \in Seq(Results) :
           /\ \A i, j \in 1..Len(g) : g[i] = g[j] => i = j
           /\ ToSet(g) = {r \in ToSet(log) : IsOfType(q, r)}
           /\ Len(g) \in Nat
           /\ RedisGroups(q) =
                [i \in 1..Len(g) |-> [result |-> g[i], count |-> g[i].size * Times(g[i], log)]]
<1> DEFINE set == {r \in redis.bcounters : IsOfType(q, r)}
<1>1. redis.bcounters = ToSet(log) /\ log \in Seq(Results)
  BY DEF KeysSound, RedisTypes
<1>2. IsFiniteSet(ToSet(log)) /\ ToSet(log) \subseteq Results
  BY <1>1, ElementsOf
<1>3. IsFiniteSet(set) /\ set \subseteq Results /\ set = {r \in ToSet(log) : IsOfType(q, r)}
  <2>1. set \in SUBSET ToSet(log)
    BY <1>1
  <2>2. IsFiniteSet(set)
    <3> HIDE DEF set
    <3> QED BY <1>2, <2>1, FS_Subset
  <2> QED BY <1>1, <1>2, <2>1, <2>2
<1> DEFINE g == SetToSeq(set)
<1>4. /\ g \in Seq(set) /\ ToSet(g) = set
      /\ \A i, j \in 1..Len(g) : g[i] = g[j] => i = j
  <2> HIDE DEF set
  <2> QED BY <1>3, Enumerated
<1>5. g \in Seq(Results)
  <2> HIDE DEF g
  <2> QED BY <1>3, <1>4, SeqMonotonic
<1>6. DOMAIN g = 1..Len(g) /\ Len(g) \in Nat /\ \A i \in 1..Len(g) : g[i] \in Results
  <2> HIDE DEF g
  <2> QED BY <1>5, LenProperties, ElementOfSeq
<1>7. RedisGroups(q) =
        [i \in DOMAIN g |-> [result |-> g[i], count |-> redis.bcount[g[i]]]]
  BY DEF RedisGroups
<1> HIDE DEF g
<1>8. \A i \in 1..Len(g) : redis.bcount[g[i]] = g[i].size * Times(g[i], log)
  BY <1>6 DEF KeysSound
<1>9. RedisGroups(q) =
        [i \in 1..Len(g) |-> [result |-> g[i], count |-> g[i].size * Times(g[i], log)]]
  BY <1>6, <1>7, <1>8
<1> QED BY <1>3, <1>4, <1>5, <1>6, <1>9

\* Groups keep the promise, and all of them add up to the counts.
LEMMA RedisGroupsHonest ==
  ASSUME RedisTypes, KeysSound, NEW q \in AllQueries, q.what = "data"
  PROVE  /\ RedisStore!HonestGroups(q, RedisGroups(q))
         /\ IsSync(q) => AgreeWithCounts(RedisGroups(q))
<1>1. PICK g \in Seq(Results) :
        /\ \A i, j \in 1..Len(g) : g[i] = g[j] => i = j
        /\ ToSet(g) = {r \in ToSet(log) : IsOfType(q, r)}
        /\ Len(g) \in Nat
        /\ RedisGroups(q) =
             [i \in 1..Len(g) |-> [result |-> g[i], count |-> g[i].size * Times(g[i], log)]]
  BY Groups
<1> DEFINE found == RedisGroups(q)
           all == Selected(log, q)
<1>2. /\ DOMAIN found = 1..Len(g)
      /\ \A i \in 1..Len(g) : /\ found[i].result = g[i]
                              /\ found[i].count = g[i].size * Times(g[i], log)
  BY <1>1
<1>3. /\ log \in Seq(Results)
      /\ \A i \in 1..Len(g) : g[i] \in ToSet(log) /\ g[i] \in Results /\ IsOfType(q, g[i])
  <2>1. log \in Seq(Results)
    BY DEF RedisTypes
  <2>2. \A i \in 1..Len(g) : g[i] \in ToSet(g)
    BY ElementsOf
  <2> QED BY <1>1, <2>1, <2>2, ElementOfSeq
<1>4. RedisStore!Least(q) = all /\ RedisStore!Most(q) = all
  BY SameHelpers DEF RedisStore!Least, RedisStore!Most
<1>5. /\ all \in Seq(Results)
      /\ \A x : Times(x, all) = IF x \in Results /\ IsOfType(q, x) THEN Times(x, log) ELSE 0
  BY <1>3, SelectedSound
<1> HIDE DEF found, all
<1>6. \A i, j \in DOMAIN found : found[i].result = found[j].result => i = j
  BY <1>1, <1>2
<1>7. ASSUME NEW i \in DOMAIN found
      PROVE  /\ found[i].count \in 1..(Times(found[i].result, all) * found[i].result.size)
             /\ found[i].count = Times(found[i].result, all) * found[i].result.size
  <2> PICK n \in Nat : n = Times(g[i], log)
    BY <1>3, TimesType
  <2> PICK k \in Nat : k = g[i].size /\ k # 0
    BY <1>2, <1>3, SizeTypes
  <2>1. n # 0
    BY <1>2, <1>3, ElementsOf
  <2>2. n * k \in Nat /\ n * k >= 1 /\ k * n = n * k
    <3>1. n \in Nat /\ k \in Nat /\ n # 0 /\ k # 0
      BY <2>1
    <3> QED BY ONLY <3>1
  <2>3. Times(found[i].result, all) = n /\ found[i].count = k * n /\ found[i].result.size = k
    BY <1>2, <1>3, <1>5
  <2> QED BY <2>2, <2>3
<1>8. ToSet(all) = {found[i].result : i \in DOMAIN found}
  <2>1. \A x : x \in ToSet(all) <=> x \in ToSet(log) /\ IsOfType(q, x)
    <3> TAKE x
    <3>1. /\ x \in ToSet(all) <=> Times(x, all) # 0
          /\ x \in ToSet(log) <=> Times(x, log) # 0
          /\ x \in ToSet(log) => x \in Results
      BY <1>3, <1>5, ElementsOf
    <3> QED BY <1>5, <3>1
  <2>2. \A x : x \in ToSet(g) <=> \E i \in 1..Len(g) : g[i] = x
    BY ElementsOf
  <2>3. \A x : x \in ToSet(g) <=> x \in ToSet(log) /\ IsOfType(q, x)
    BY <1>1
  <2>4. \A x : x \in {found[i].result : i \in DOMAIN found} <=> \E i \in 1..Len(g) : g[i] = x
    BY <1>2
  <2>5. \A x : x \in ToSet(all) <=> x \in {found[i].result : i \in DOMAIN found}
    BY ONLY <2>1, <2>2, <2>3, <2>4
  <2> QED BY ONLY <2>5
<1>9. RedisStore!HonestGroups(q, found)
  BY <1>4, <1>6, <1>7, <1>8, SameHelpers DEF RedisStore!HonestGroups
<1>10. ASSUME IsSync(q), NEW t \in AllTypes PROVE GroupsOf(t, found) = SizesOf(t, log)
  <2>1. ToSet(log) \subseteq ToSet(g)
    BY <1>1, <1>10 DEF IsSync, IsOfType
  <2>2. [i \in DOMAIN found |-> IF found[i].result.type = t THEN found[i].count ELSE 0] =
          Weights(g, t, log)
    BY <1>2 DEF Weights
  <2>3. GroupsOf(t, found) = SumOf(Weights(g, t, log))
    BY <2>2 DEF GroupsOf
  <2> QED BY <1>1, <1>3, <2>1, <2>3, GroupsAdd
<1> QED BY <1>9, <1>10 DEF AgreeWithCounts, found

\* What a query finds in redis.
RedisFound(q) ==
    IF q.what = "errors" THEN RedisPage(q, redis.errors)
    ELSE IF q.groupby THEN RedisGroups(q)
    ELSE Selected(RedisPage(q, redis.data), q)

\* It is honest, whatever the query.
LEMMA RedisHonest ==
  ASSUME RedisTypes, KeysSound, NEW q \in AllQueries
  PROVE  /\ IF q.groupby THEN RedisStore!HonestGroups(q, RedisFound(q))
            ELSE RedisStore!HonestList(q, RedisFound(q))
         /\ IsSync(q) => AgreeWithCounts(RedisFound(q))
<1>1. /\ q.what \in {"data", "errors"} /\ q.groupby \in BOOLEAN
      /\ q.what = "errors" => ~q.groupby
  BY QueryTypes
<1>2. CASE q.what = "errors"
  BY <1>1, <1>2, RedisListHonest DEF RedisFound, IsSync
<1>3. CASE q.what = "data" /\ ~q.groupby
  BY <1>3, RedisListHonest DEF RedisFound, IsSync
<1>4. CASE q.what = "data" /\ q.groupby
  BY <1>4, RedisGroupsHonest DEF RedisFound
<1> QED BY <1>1, <1>2, <1>3, <1>4

\* An add keeps lists, counters and groups together.
LEMMA KeysAdd ==
  ASSUME RedisTypes, KeysSound, NEW r \in Results, RedisAdd(r), log' = Append(log, r)
  PROVE  /\ redis' \in [metadata : SUBSET {"ended"}, counters : SUBSET AllTypes,
                        count : [AllTypes -> Nat], data : Seq(Results), errors : Seq(Results),
                        bcounters : SUBSET Results, bcount : [Results -> Nat]]
         /\ KeysSound'
<1>1. redis' = [redis EXCEPT
         !.counters = @ \cup {r.type},
         !.count[r.type] = @ + r.size,
         !.data = <<r>> \o @,
         !.errors = IF IsRedisError(r) THEN <<r>> \o @ ELSE @,
         !.bcounters = @ \cup {r},
         !.bcount[r] = @ + r.size]
  BY DEF RedisAdd, Increment
<1>2. /\ redis.metadata \in SUBSET {"ended"} /\ redis.counters \in SUBSET AllTypes
      /\ redis.count \in [AllTypes -> Nat] /\ redis.data \in Seq(Results)
      /\ redis.errors \in Seq(Results) /\ redis.bcounters \in SUBSET Results
      /\ redis.bcount \in [Results -> Nat] /\ log \in Seq(Results)
      /\ redis = [metadata |-> redis.metadata, counters |-> redis.counters,
                  count |-> redis.count, data |-> redis.data, errors |-> redis.errors,
                  bcounters |-> redis.bcounters, bcount |-> redis.bcount]
  BY DEF RedisTypes
<1>3. redis' =
        [metadata |-> redis.metadata, counters |-> redis.counters \cup {r.type},
         count |-> [redis.count EXCEPT ![r.type] = @ + r.size],
         data |-> <<r>> \o redis.data,
         errors |-> IF IsRedisError(r) THEN <<r>> \o redis.errors ELSE redis.errors,
         bcounters |-> redis.bcounters \cup {r},
         bcount |-> [redis.bcount EXCEPT ![r] = @ + r.size]]
  BY <1>1, <1>2
<1>4. r.type \in AllTypes /\ r.size \in Nat /\ r.size >= 1
  BY SizeTypes DEF AllTypes
<1>5. <<r>> \o redis.data \in Seq(Results) /\ <<r>> \o redis.errors \in Seq(Results)
  BY <1>2, TimesFirst
<1>6. /\ redis'.counters = redis.counters \cup {r.type}
      /\ redis'.count = [redis.count EXCEPT ![r.type] = @ + r.size]
      /\ redis'.data = <<r>> \o redis.data
      /\ redis'.errors = IF IsRedisError(r) THEN <<r>> \o redis.errors ELSE redis.errors
      /\ redis'.bcounters = redis.bcounters \cup {r}
      /\ redis'.bcount = [redis.bcount EXCEPT ![r] = @ + r.size]
      /\ redis'.metadata = redis.metadata
  BY <1>3
<1>7. redis' \in [metadata : SUBSET {"ended"}, counters : SUBSET AllTypes,
                  count : [AllTypes -> Nat], data : Seq(Results), errors : Seq(Results),
                  bcounters : SUBSET Results, bcount : [Results -> Nat]]
  <2>1. /\ redis.counters \cup {r.type} \in SUBSET AllTypes
        /\ [redis.count EXCEPT ![r.type] = @ + r.size] \in [AllTypes -> Nat]
        /\ redis.bcounters \cup {r} \in SUBSET Results
        /\ [redis.bcount EXCEPT ![r] = @ + r.size] \in [Results -> Nat]
    BY <1>2, <1>4
  <2> QED BY <1>2, <1>3, <1>5, <2>1
<1>8. SameAs(redis'.data, log')
  <2>1. \A x : Times(x, <<r>> \o redis.data) = Times(x, redis.data) + (IF r = x THEN 1 ELSE 0)
    BY <1>2, TimesFirst
  <2>2. \A x : Times(x, Append(log, r)) = Times(x, log) + (IF r = x THEN 1 ELSE 0)
    BY <1>2, TimesAppend
  <2>3. Len(<<r>> \o redis.data) = Len(redis.data) + 1 /\ Len(Append(log, r)) = Len(log) + 1
    BY <1>2, TimesFirst, AppendProperties
  <2>4. Len(redis.data) = Len(log) /\ \A x : Times(x, redis.data) = Times(x, log)
    BY DEF KeysSound, SameAs
  <2> QED BY <1>6, <2>1, <2>2, <2>3, <2>4 DEF SameAs
<1>9. SameAs(redis'.errors, OfTypes(log', {"addError"}))
  <2> DEFINE old == OfTypes(log, {"addError"})
             new == OfTypes(Append(log, r), {"addError"})
  <2>1. new = IF r.type = "addError" THEN Append(old, r) ELSE old
    <3>1. r \in {x \in Results : x.type \in {"addError"}} <=> r.type = "addError"
      OBVIOUS
    <3> QED BY <1>2, <3>1, KeptAppend DEF OfTypes
  <2>2. old \in Seq(Results)
    BY <1>2, OfTypesSound
  <2> HIDE DEF old, new
  <2>3. \A x : Times(x, <<r>> \o redis.errors) = Times(x, redis.errors) + (IF r = x THEN 1 ELSE 0)
    BY <1>2, TimesFirst
  <2>4. \A x : Times(x, Append(old, r)) = Times(x, old) + (IF r = x THEN 1 ELSE 0)
    BY <2>2, TimesAppend
  <2>5. Len(<<r>> \o redis.errors) = Len(redis.errors) + 1 /\ Len(Append(old, r)) = Len(old) + 1
    BY <1>2, <2>2, TimesFirst, AppendProperties
  <2>6. Len(redis.errors) = Len(old) /\ \A x : Times(x, redis.errors) = Times(x, old)
    BY DEF KeysSound, SameAs, old
  <2>7. CASE r.type = "addError"
    <3>1. redis'.errors = <<r>> \o redis.errors /\ OfTypes(log', {"addError"}) = Append(old, r)
      BY <1>6, <2>1, <2>7 DEF IsRedisError, new
    <3>2. \A x : Times(x, redis'.errors) = Times(x, OfTypes(log', {"addError"}))
      BY <2>3, <2>4, <2>6, <3>1
    <3>3. Len(redis'.errors) = Len(OfTypes(log', {"addError"}))
      BY <2>5, <2>6, <3>1
    <3> QED BY <3>2, <3>3 DEF SameAs
  <2>8. CASE r.type # "addError"
    BY <1>6, <2>1, <2>6, <2>8 DEF SameAs, IsRedisError, new
  <2> QED BY <2>7, <2>8
<1>10. redis'.bcounters = ToSet(log')
  BY <1>2, <1>6, ElementsAppend DEF KeysSound
<1>11. ASSUME NEW x \in Results PROVE redis'.bcount[x] = x.size * Times(x, log')
  <2>1. redis.bcount[x] = x.size * Times(x, log)
    BY DEF KeysSound
  <2>2. Times(x, log') = Times(x, log) + (IF r = x THEN 1 ELSE 0)
    BY <1>2, TimesAppend
  <2> PICK a \in Nat : a = x.size
    BY SizeTypes
  <2> PICK b \in Nat : b = Times(x, log)
    BY <1>2, TimesType
  <2>3. a * (b + 1) = a * b + a
    <3>1. a \in Nat /\ b \in Nat
      OBVIOUS
    <3> QED BY ONLY <3>1, Products
  <2>4. redis'.bcount[x] = IF x = r THEN redis.bcount[x] + r.size ELSE redis.bcount[x]
    BY <1>2, <1>6
  <2>5. CASE x = r
    <3>1. redis'.bcount[x] = a * b + a /\ Times(x, log') = b + 1
      BY <2>1, <2>2, <2>4, <2>5
    <3> QED BY <2>3, <3>1
  <2>6. CASE x # r
    <3>1. Times(x, log') = b
      BY <2>2, <2>6
    <3> QED BY <2>1, <2>4, <2>6, <3>1
  <2> QED BY <2>5, <2>6
<1>12. ASSUME NEW t \in AllTypes
       PROVE  /\ redis'.count[t] = SizesOf(t, log')
              /\ t \in redis'.counters <=> redis'.count[t] > 0
  <2>1. /\ SizesOf(t, log') = SizesOf(t, log) + (IF r.type = t THEN r.size ELSE 0)
        /\ SizesOf(t, log) \in Nat
    BY <1>2, SizesAppend
  <2>2. redis.count[t] = SizesOf(t, log) /\ (t \in redis.counters <=> redis.count[t] > 0)
    BY DEF KeysSound
  <2>3. redis'.count[t] = IF t = r.type THEN redis.count[t] + r.size ELSE redis.count[t]
    BY <1>2, <1>4, <1>6
  <2>4. CASE t = r.type
    BY <1>4, <1>6, <2>1, <2>2, <2>3, <2>4
  <2>5. CASE t # r.type
    BY <1>6, <2>1, <2>2, <2>3, <2>5
  <2> QED BY <2>4, <2>5
<1> QED BY <1>7, <1>8, <1>9, <1>10, <1>11, <1>12 DEF KeysSound

-----------------------------------------------------------------------------
(* Records given to _batch.                                                *)

\* A record, or the error of a line that is none.
Records == Results \cup {None}

Readers == [status : {"reading", "ended", "failed"}, query : AllQueries, chunk : Nat, at : Nat,
            remaining : Seq(Nat), current : Nat, sent : Nat, found : Seq(Results)]

\* The fields of a reader.
LEMMA ReaderIs ==
  ASSUME NEW rd \in Readers
  PROVE  /\ rd = [status |-> rd.status, query |-> rd.query, chunk |-> rd.chunk, at |-> rd.at,
                  remaining |-> rd.remaining, current |-> rd.current, sent |-> rd.sent,
                  found |-> rd.found]
         /\ rd.status \in {"reading", "ended", "failed"} /\ rd.query \in AllQueries
         /\ rd.chunk \in Nat /\ rd.at \in Nat /\ rd.remaining \in Seq(Nat)
         /\ rd.current \in Nat /\ rd.sent \in Nat /\ rd.found \in Seq(Results)
BY DEF Readers

\* What feeding a record does.
Skips(rd, r) ==
    \/ rd.query.what = "data" /\ ~IsOfType(rd.query, r)
    \/ rd.current < First(rd.query)

\* Feed is this, and an error is the end.
LEMMA FeedIs ==
  ASSUME NEW rd \in Readers, NEW r \in Records
  PROVE  /\ rd.status # "reading" => Feed(rd, r) = rd
         /\ rd.status = "reading" /\ r = None => Feed(rd, r) = [rd EXCEPT !.status = "failed"]
         /\ rd.status = "reading" /\ r \in Results =>
              /\ Skips(rd, r) => Feed(rd, r) = [rd EXCEPT !.current = @ + 1]
              /\ ~Skips(rd, r) /\ IsFull(rd.query, rd) =>
                   Feed(rd, r) = [rd EXCEPT !.status = "ended"]
              /\ ~Skips(rd, r) /\ ~IsFull(rd.query, rd) =>
                   Feed(rd, r) = [rd EXCEPT !.current = @ + 1, !.sent = @ + 1,
                                            !.found = Append(@, r)]
<1>1. None \notin Results
  BY FileReaderAssumption
<1>2. [[rd EXCEPT !.current = @ + 1] EXCEPT !.found = Append(@, r), !.sent = @ + 1] =
      [rd EXCEPT !.current = @ + 1, !.sent = @ + 1, !.found = Append(@, r)]
  BY ReaderIs
<1> QED BY <1>1, <1>2 DEF Feed, Batch, Skips

\* Feeding leaves the query and the bytes alone.
LEMMA FeedFields ==
  ASSUME NEW rd \in Readers, NEW r \in Records
  PROVE  /\ Feed(rd, r) \in Readers
         /\ Feed(rd, r).query = rd.query /\ Feed(rd, r).chunk = rd.chunk
         /\ Feed(rd, r).at = rd.at /\ Feed(rd, r).remaining = rd.remaining
<1>1. CASE rd.status # "reading"
  BY <1>1, FeedIs
<1>2. CASE rd.status = "reading" /\ r = None
  <2>1. Feed(rd, r) = [rd EXCEPT !.status = "failed"]
    BY <1>2, FeedIs
  <2> QED BY <2>1 DEF Readers
<1>3. CASE rd.status = "reading" /\ r \in Results
  <2>1. CASE Skips(rd, r)
    <3>1. Feed(rd, r) = [rd EXCEPT !.current = @ + 1]
      BY <1>3, <2>1, FeedIs
    <3>2. Feed(rd, r) =
            [status |-> rd.status, query |-> rd.query, chunk |-> rd.chunk, at |-> rd.at,
             remaining |-> rd.remaining, current |-> rd.current + 1, sent |-> rd.sent,
             found |-> rd.found]
      BY <3>1, ReaderIs
    <3>3. rd.current + 1 \in Nat
      BY ReaderIs
    <3> QED BY <3>2, <3>3, ReaderIs DEF Readers
  <2>2. CASE ~Skips(rd, r) /\ IsFull(rd.query, rd)
    <3>1. Feed(rd, r) = [rd EXCEPT !.status = "ended"]
      BY <1>3, <2>2, FeedIs
    <3> QED BY <3>1 DEF Readers
  <2>3. CASE ~Skips(rd, r) /\ ~IsFull(rd.query, rd)
    <3>1. Feed(rd, r) =
            [rd EXCEPT !.current = @ + 1, !.sent = @ + 1, !.found = Append(@, r)]
      BY <1>3, <2>3, FeedIs
    <3>2. Feed(rd, r) =
            [status |-> rd.status, query |-> rd.query, chunk |-> rd.chunk, at |-> rd.at,
             remaining |-> rd.remaining, current |-> rd.current + 1, sent |-> rd.sent + 1,
             found |-> Append(rd.found, r)]
      <4> PICK all : all = Append(rd.found, r)
        OBVIOUS
      <4> PICK c : c = rd.current + 1
        OBVIOUS
      <4> PICK n : n = rd.sent + 1
        OBVIOUS
      <4>1. Feed(rd, r) = [rd EXCEPT !.current = c, !.sent = n, !.found = all]
        BY <3>1
      <4>2. Feed(rd, r) =
              [status |-> rd.status, query |-> rd.query, chunk |-> rd.chunk, at |-> rd.at,
               remaining |-> rd.remaining, current |-> c, sent |-> n, found |-> all]
        BY <4>1, ReaderIs
      <4> QED BY <4>2
    <3>3. rd.current + 1 \in Nat /\ rd.sent + 1 \in Nat /\ Append(rd.found, r) \in Seq(Results)
      BY <1>3, ReaderIs, AppendProperties
    <3> QED BY <3>2, <3>3, ReaderIs DEF Readers
  <2> QED BY <2>1, <2>2, <2>3
<1> QED BY <1>1, <1>2, <1>3 DEF Records

\* Feeding one after another.
Feeds(f, rd, s) ==
    /\ f[0] = rd
    /\ \A i \in 1..Len(s) : f[i] = Feed(f[i - 1], s[i])

\* A fold feeds one after another.
LEMMA FeedAll ==
  ASSUME NEW rd \in Readers, NEW s \in Seq(Records)
  PROVE  \E f \in [0..Len(s) -> Readers] :
           Feeds(f, rd, s) /\ FoldLeft(Feed, rd, s) = f[Len(s)]
<1> DEFINE n == Len(s)
           Runs(f) == f = [x \in SUBSET (1..n) |->
                             IF x = {} THEN rd ELSE Feed(f[x \ {Max(x)}], s[Max(x)])]
           runs == CHOOSE f : Runs(f)
<1>1. n \in Nat /\ DOMAIN s = 1..n /\ \A i \in 1..n : s[i] \in Records
  BY LenProperties, ElementOfSeq
<1>2. PICK f \in [SUBSET (1..n) -> Readers] : Runs(f)
  <2> DEFINE step == [p \in (1..n) \X Readers |-> Feed(p[2], s[p[1]])]
  <2>1. step \in [(1..n) \X Readers -> Readers]
    <3>1. ASSUME NEW p \in (1..n) \X Readers PROVE Feed(p[2], s[p[1]]) \in Readers
      <4>1. p[2] \in Readers /\ s[p[1]] \in Records
        BY <1>1
      <4> QED BY <4>1, FeedFields
    <3> QED BY <3>1
  <2>2. \A i \in 1..n, k \in Readers : step[<<i, k>>] = Feed(k, s[i])
    OBVIOUS
  <2> HIDE DEF step
  <2>3. PICK f \in [SUBSET (1..n) -> Readers] : Folds(f, n, rd, step)
    BY <1>1, <2>1, FoldExists
  <2>4. ASSUME NEW x \in SUBSET (1..n)
        PROVE  f[x] = IF x = {} THEN rd ELSE Feed(f[x \ {Max(x)}], s[Max(x)])
    <3>1. CASE x = {}
      BY <2>3, <3>1 DEF Folds
    <3>2. CASE x # {}
      <4>1. Max(x) \in 1..n
        BY <1>1, <3>2, GreatestOf
      <4>2. f[x \ {Max(x)}] \in Readers
        <5>1. x \ {Max(x)} \in SUBSET (1..n)
          OBVIOUS
        <5> QED BY <5>1
      <4>3. f[x] = step[<<Max(x), f[x \ {Max(x)}]>>]
        BY <2>3, <3>2 DEF Folds
      <4> QED BY <2>2, <3>2, <4>1, <4>2, <4>3
    <3> QED BY <3>1, <3>2
  <2>5. Runs(f)
    BY <2>4
  <2> HIDE DEF Runs
  <2> QED BY <2>5
<1>3. Runs(runs)
  <2> HIDE DEF Runs
  <2> QED BY <1>2
<1>4. FoldLeft(Feed, rd, s) = runs[1..n]
  BY <1>1 DEF FoldLeft, MapThenFoldSet
<1> HIDE DEF runs
<1>5. runs[1..0] = rd
  <2>1. 1..0 = {}
    OBVIOUS
  <2> QED BY <1>3, <2>1
<1>6. ASSUME NEW i \in 1..n PROVE runs[1..i] = Feed(runs[1..(i - 1)], s[i])
  <2>1. /\ 1..i \in SUBSET (1..n) /\ 1..i # {}
        /\ Max(1..i) = i /\ (1..i) \ {i} = 1..(i - 1)
    BY <1>1, GreatestOfFirst
  <2> QED BY <1>3, <2>1
<1> HIDE DEF Runs
<1> DEFINE T == {i \in Nat : i <= n => runs[1..i] \in Readers}
<1>7. 0 \in T
  BY <1>5
<1>8. ASSUME NEW i \in T \cap Nat PROVE i + 1 \in T
  <2> SUFFICES ASSUME i + 1 <= n PROVE runs[1..(i + 1)] \in Readers
    OBVIOUS
  <2>1. i + 1 \in 1..n /\ (i + 1) - 1 = i /\ i <= n
    BY <1>1
  <2>2. s[i + 1] \in Records /\ runs[1..i] \in Readers
    BY <1>1, <2>1
  <2>3. runs[1..(i + 1)] = Feed(runs[1..i], s[i + 1])
    BY <1>6, <2>1
  <2> QED BY <2>2, <2>3, FeedFields
<1> HIDE DEF T
<1>9. \A i \in 0..n : i \in T
  BY <1>1, <1>7, <1>8, SetInduction
<1>10. \A i \in 0..n : runs[1..i] \in Readers
  BY <1>1, <1>9 DEF T
<1> DEFINE g == [i \in 0..n |-> runs[1..i]]
<1>11. g \in [0..n -> Readers] /\ g[0] = rd /\ g[n] = runs[1..n]
  BY <1>1, <1>5, <1>10
<1>12. \A i \in 1..n : g[i] = runs[1..i] /\ g[i - 1] = runs[1..(i - 1)]
  BY <1>1
<1> HIDE DEF g
<1>13. Feeds(g, rd, s)
  BY <1>6, <1>11, <1>12 DEF Feeds
<1> QED BY <1>4, <1>11, <1>13

\* One more at the end of a part.
LEMMA SubSeqStep ==
  ASSUME NEW S, NEW s \in Seq(S), NEW d \in Nat, NEW k \in Nat, k < Len(s)
  PROVE  /\ d <= k => SubSeq(s, d + 1, k + 1) = Append(SubSeq(s, d + 1, k), s[k + 1])
         /\ k < d => SubSeq(s, d + 1, k + 1) = <<>> /\ SubSeq(s, d + 1, k) = <<>>
<1>1. Len(s) \in Nat
  BY LenProperties
<1>2. ASSUME d <= k
      PROVE  SubSeq(s, d + 1, k + 1) = Append(SubSeq(s, d + 1, k), s[k + 1])
  <2>1. d + 1 \in 1..Len(s) /\ k + 1 \in (d + 1)..Len(s) /\ (k + 1) - 1 = k
    BY <1>1, <1>2
  <2>2. SubSeq(s, d + 1, k + 1) = SubSeq(s, d + 1, (k + 1) - 1) \o <<s[k + 1]>>
    BY <2>1, SubSeqRecursiveSecond
  <2>3. SubSeq(s, d + 1, k) \in Seq(S) /\ s[k + 1] \in S
    <3>1. \A i \in (d + 1)..k : i \in 1..Len(s)
      BY <1>1
    <3>2. \A i \in (d + 1)..k : s[i] \in S
      BY <3>1, ElementOfSeq
    <3>3. d + 1 \in Int /\ k \in Int /\ k + 1 \in 1..Len(s)
      BY <1>1
    <3> QED BY <3>2, <3>3, SubSeqProperties, ElementOfSeq
  <2> QED BY <2>1, <2>2, <2>3, AppendIsConcat
<1>3. ASSUME k < d PROVE SubSeq(s, d + 1, k + 1) = <<>> /\ SubSeq(s, d + 1, k) = <<>>
  <2>1. k + 1 < d + 1 /\ k < d + 1 /\ d + 1 \in Int /\ k + 1 \in Int /\ k \in Int
    BY <1>3
  <2> QED BY <2>1, SubSeqEmpty
<1> QED BY <1>2, <1>3

\* ... and how long a part is.
LEMMA PartIs ==
  ASSUME NEW S, NEW s \in Seq(S), NEW d \in Nat, NEW k \in Nat, k <= Len(s)
  PROVE  /\ SubSeq(s, d + 1, k) \in Seq(S)
         /\ Len(SubSeq(s, d + 1, k)) = IF d <= k THEN k - d ELSE 0
         /\ \A i \in 1..(k - d) : SubSeq(s, d + 1, k)[i] = s[d + i]
         /\ k <= d => SubSeq(s, d + 1, k) = <<>>
<1>1. Len(s) \in Nat
  BY LenProperties
<1>2. \A i \in (d + 1)..k : i \in 1..Len(s)
  BY <1>1
<1>3. \A i \in (d + 1)..k : s[i] \in S
  BY <1>2, ElementOfSeq
<1>4. d + 1 \in Int /\ k \in Int /\ k - (d + 1) + 1 = k - d
  OBVIOUS
<1> DEFINE p == SubSeq(s, d + 1, k)
<1>5. /\ p \in Seq(S) /\ Len(p) = IF d + 1 <= k THEN k - (d + 1) + 1 ELSE 0
      /\ \A i \in 1..(k - (d + 1) + 1) : p[i] = s[(d + 1) + i - 1]
  BY <1>3, <1>4, SubSeqProperties
<1>6. k <= d => p = <<>>
  BY <1>4, SubSeqEmpty
<1> HIDE DEF p
<1>7. \A i \in 1..(k - d) : p[i] = s[d + i]
  BY <1>4, <1>5
<1> QED BY <1>4, <1>5, <1>6, <1>7 DEF p

\* Appending to the second of two.
LEMMA ConcatAppend ==
  ASSUME NEW S, NEW a \in Seq(S), NEW b \in Seq(S), NEW e \in S
  PROVE  Append(a \o b, e) = a \o Append(b, e) /\ Append(b, e) \in Seq(S)
<1>1. <<e>> \in Seq(S) /\ a \o b \in Seq(S)
  BY ConcatProperties
<1>2. Append(a \o b, e) = (a \o b) \o <<e>> /\ Append(b, e) = b \o <<e>>
  BY <1>1, AppendIsConcat
<1>3. (a \o b) \o <<e>> = a \o (b \o <<e>>)
  BY <1>1, ConcatAssociative
<1> QED BY <1>2, <1>3, AppendProperties

\* What is kept of a beginning is a beginning of what is kept.
LEMMA KeptPrefix ==
  ASSUME NEW S, NEW s \in Seq(S), NEW n \in 0..Len(s), NEW set
  PROVE  IsPrefix(Kept(SubSeq(s, 1, n), set), Kept(s, set))
<1> DEFINE Has(u, m) == \E w \in Seq(S) : Kept(u, set) = Kept(SubSeq(u, 1, m), set) \o w
           T == {u \in Seq(S) : \A m \in 0..Len(u) : Has(u, m)}
<1>0. ASSUME NEW u \in Seq(S) PROVE Has(u, Len(u))
  <2>1. SubSeq(u, 1, Len(u)) = u /\ Kept(u, set) \in Seq(S)
    BY SubSeqFull, KeptSound
  <2>2. Kept(u, set) \o <<>> = Kept(u, set) /\ <<>> \in Seq(S)
    BY <2>1, ConcatEmptySeq, EmptySeq
  <2> QED BY <2>1, <2>2
<1>1. <<>> \in T
  <2>1. <<>> \in Seq(S) /\ Len(<<>>) = 0
    BY EmptySeq
  <2>2. Has(<<>>, Len(<<>>))
    BY <1>0, <2>1
  <2> HIDE DEF Has
  <2> QED BY <2>1, <2>2
<1>2. ASSUME NEW u \in Seq(S) \cap T, NEW e \in S PROVE Append(u, e) \in T
  <2>1. Append(u, e) \in Seq(S) /\ Len(Append(u, e)) = Len(u) + 1 /\ Len(u) \in Nat
    BY AppendProperties, LenProperties
  <2>2. ASSUME NEW m \in 0..Len(Append(u, e)) PROVE Has(Append(u, e), m)
    <3>1. CASE m = Len(u) + 1
      <4> HIDE DEF Has
      <4> QED BY <1>0, <2>1, <3>1
    <3>2. CASE m # Len(u) + 1
      <4>1. m \in 0..Len(u)
        BY <2>1, <3>2
      <4>2. PICK w \in Seq(S) : Kept(u, set) = Kept(SubSeq(u, 1, m), set) \o w
        BY <4>1
      <4>3. SubSeq(Append(u, e), 1, m) = SubSeq(u, 1, m)
        <5>1. Append(u, e) = u \o <<e>> /\ <<e>> \in Seq(S)
          BY AppendIsConcat
        <5>2. CASE m = 0
          <6>1. 1 \in Int /\ 0 \in Int /\ 0 < 1
            OBVIOUS
          <6> QED BY <5>2, <6>1, SubSeqEmpty
        <5>3. CASE m # 0
          <6>1. 1 \in 1..Len(u) /\ m \in 1..Len(u)
            BY <2>1, <4>1, <5>3
          <6> QED BY <5>1, <6>1, SubSeqOfConcat1
        <5> QED BY <5>2, <5>3
      <4> PICK k : k = Kept(SubSeq(u, 1, m), set)
        OBVIOUS
      <4>4. k \in Seq(S) /\ Kept(u, set) \in Seq(S)
        <5>1. SubSeq(u, 1, m) \in Seq(S)
          <6>1. \A i \in 1..m : i \in 1..Len(u)
            BY <2>1, <4>1
          <6>2. \A i \in 1..m : u[i] \in S
            BY <6>1, ElementOfSeq
          <6>3. 1 \in Int /\ m \in Int
            BY <4>1
          <6> QED BY <6>2, <6>3, SubSeqProperties
        <5> QED BY <5>1, KeptSound
      <4>5. Kept(Append(u, e), set) = IF e \in set THEN Append(Kept(u, set), e) ELSE Kept(u, set)
        BY KeptAppend
      <4>6. Kept(u, set) = k \o w
        BY <4>2
      <4>7. Append(k \o w, e) = k \o Append(w, e) /\ Append(w, e) \in Seq(S)
        <5>1. k \in Seq(S) /\ w \in Seq(S) /\ e \in S
          BY <4>4
        <5>2. \A a, b \in Seq(S) : \A f \in S :
                Append(a \o b, f) = a \o Append(b, f) /\ Append(b, f) \in Seq(S)
          BY ConcatAppend
        <5> QED BY ONLY <5>1, <5>2
      <4>8. \E v \in Seq(S) : Kept(Append(u, e), set) = k \o v
        BY <4>5, <4>6, <4>7
      <4> QED BY <4>3, <4>8
    <3> QED BY <3>1, <3>2
  <2> HIDE DEF Has
  <2> QED BY <2>1, <2>2
<1> HIDE DEF T
<1>3. s \in T
  BY <1>1, <1>2, SeqInduction
<1>4. PICK w \in Seq(S) : Kept(s, set) = Kept(SubSeq(s, 1, n), set) \o w
  BY <1>3 DEF T
<1> DEFINE k == Kept(SubSeq(s, 1, n), set)
<1>5. k \in Seq(S)
  <2>1. 0 \in Nat /\ n \in Nat /\ n <= Len(s) /\ 0 + 1 = 1
    BY LenProperties
  <2>2. SubSeq(s, 0 + 1, n) \in Seq(S)
    BY <2>1, PartIs
  <2> QED BY <2>1, <2>2, KeptSound, ZenonT(40)
<1>6. Kept(s, set) = k \o w
  BY <1>4
<1> HIDE DEF k
<1>7. Len(k \o w) = Len(k) + Len(w) /\ Len(k) \in Nat /\ Len(w) \in Nat
  BY <1>5, ConcatProperties, LenProperties
<1>8. SubSeq(k \o w, 1, Len(k)) = k /\ SubSeq(k, 1, Len(k)) = k
  <2>1. SubSeq(k, 1, Len(k)) = k
    BY <1>5, SubSeqFull
  <2>2. CASE Len(k) = 0
    <3>1. 1 \in Int /\ 0 \in Int /\ 0 < 1
      OBVIOUS
    <3>2. SubSeq(k \o w, 1, 0) = <<>> /\ SubSeq(k, 1, 0) = <<>>
      BY <3>1, SubSeqEmpty
    <3> QED BY <2>1, <2>2, <3>2
  <2>3. CASE Len(k) # 0
    <3>1. 1 \in 1..Len(k) /\ Len(k) \in 1..Len(k)
      BY <1>7, <2>3
    <3> QED BY <1>5, <2>1, <3>1, SubSeqOfConcat1
  <2> QED BY <2>2, <2>3
<1>9. IsPrefix(k, k \o w)
  BY <1>7, <1>8 DEF IsPrefix
<1> QED BY <1>6, <1>9 DEF k

-----------------------------------------------------------------------------
(* What _batch has found after some of s, and when it ends.                *)

From(rd, s) == SubSeq(s, First(rd.query) + 1, rd.current)

BatchSound(rd, s) ==
    /\ rd.current <= Len(s)
    /\ rd.found = Selected(From(rd, s), rd.query)
    /\ rd.sent = Len(rd.found)
    /\ rd.query.size # None => rd.sent <= rd.query.size

Through(rd, s) ==
    \/ rd.current = Len(s)
    \/ rd.query.size # None /\ First(rd.query) + rd.query.size <= rd.current

\* One more record: selected if it is in the window and of the type.
LEMMA SelectedStep ==
  ASSUME NEW s \in Seq(Results), NEW k \in Nat, k < Len(s), NEW q \in AllQueries
  PROVE  LET now == Selected(SubSeq(s, First(q) + 1, k), q)
             next == Selected(SubSeq(s, First(q) + 1, k + 1), q)
         IN /\ First(q) <= k =>
                 next = IF IsOfType(q, s[k + 1]) THEN Append(now, s[k + 1]) ELSE now
            /\ k < First(q) => next = now
            /\ now \in Seq(Results)
            /\ Len(now) <= IF First(q) <= k THEN k - First(q) ELSE 0
<1> DEFINE d == First(q)
           p == SubSeq(s, d + 1, k)
           set == {r \in Results : IsOfType(q, r)}
<1>1. d \in Nat /\ s[k + 1] \in Results
  <2>1. k + 1 \in 1..Len(s)
    BY LenProperties
  <2> QED BY <2>1, QueryTypes, ElementOfSeq
<1> HIDE DEF d
<1>2. /\ d <= k => SubSeq(s, d + 1, k + 1) = Append(p, s[k + 1])
      /\ k < d => SubSeq(s, d + 1, k + 1) = p
  BY <1>1, SubSeqStep
<1>3. /\ p \in Seq(Results)
      /\ Len(p) = IF d <= k THEN k - d ELSE 0
  BY <1>1, PartIs
<1>4. \A u : Selected(u, q) = Kept(u, set)
  BY DEF Selected
<1>5. s[k + 1] \in set <=> IsOfType(q, s[k + 1])
  BY <1>1
<1> HIDE DEF p, set
<1>6. Kept(Append(p, s[k + 1]), set) =
        IF s[k + 1] \in set THEN Append(Kept(p, set), s[k + 1]) ELSE Kept(p, set)
  <2>1. \A u \in Seq(Results), x \in Results : \A z :
          Kept(Append(u, x), z) = IF x \in z THEN Append(Kept(u, z), x) ELSE Kept(u, z)
    BY KeptAppend
  <2>2. ASSUME NEW x, x \in Results
        PROVE  Kept(Append(p, x), set) =
                 IF x \in set THEN Append(Kept(p, set), x) ELSE Kept(p, set)
    BY ONLY <1>3, <2>1, <2>2
  <2> PICK x : x = s[k + 1]
    OBVIOUS
  <2>3. x \in Results
    BY <1>1
  <2>4. Kept(Append(p, x), set) = IF x \in set THEN Append(Kept(p, set), x) ELSE Kept(p, set)
    BY ONLY <2>2, <2>3
  <2> QED BY ONLY <2>4, x = s[k + 1]
<1>7. Selected(p, q) \in Seq(Results) /\ Len(Selected(p, q)) <= Len(p)
  BY <1>3, SelectedSound
<1> QED BY <1>2, <1>3, <1>4, <1>5, <1>6, <1>7 DEF d, p

\* Feeding the next record of s keeps that, and ends only when enough is found.
LEMMA FeedSound ==
  ASSUME NEW s \in Seq(Results), NEW rd \in Readers, rd.status = "reading",
         BatchSound(rd, s), rd.current < Len(s)
  PROVE  LET n == Feed(rd, s[rd.current + 1])
         IN /\ BatchSound(n, s)
            /\ \/ n.status = "reading" /\ n.current = rd.current + 1
               \/ n.status = "ended" /\ Through(n, s)
<1> DEFINE q == rd.query
           k == rd.current
           r == s[k + 1]
           n == Feed(rd, r)
           now == Selected(SubSeq(s, First(q) + 1, k), q)
           next == Selected(SubSeq(s, First(q) + 1, k + 1), q)
<1>1. /\ q \in AllQueries /\ k \in Nat /\ rd.sent \in Nat /\ rd.found \in Seq(Results)
      /\ Len(s) \in Nat /\ k < Len(s)
  BY ReaderIs, LenProperties
<1>2. r \in Results /\ r \in Records
  <2>1. k + 1 \in 1..Len(s)
    BY <1>1
  <2> QED BY <2>1, ElementOfSeq DEF Records
<1>3. /\ First(q) \in Nat /\ (q.size # None => q.size \in Nat)
      /\ q.what \in {"data", "errors"} /\ (q.what = "errors" => q.type = None)
  BY <1>1, QueryTypes
<1>4. /\ First(q) <= k => next = IF IsOfType(q, r) THEN Append(now, r) ELSE now
      /\ k < First(q) => next = now
      /\ now \in Seq(Results)
      /\ Len(now) <= IF First(q) <= k THEN k - First(q) ELSE 0
  BY <1>1, SelectedStep
<1>5. rd.found = now /\ rd.sent = Len(now) /\ (q.size # None => rd.sent <= q.size)
  BY DEF BatchSound, From
<1>6. n.query = q
  BY <1>2, FeedFields
<1> HIDE DEF now, next, n
<1>7. CASE Skips(rd, r)
  <2>1. n = [rd EXCEPT !.current = @ + 1]
    BY <1>2, <1>7, FeedIs DEF n
  <2>2. n.current = k + 1 /\ n.found = rd.found /\ n.sent = rd.sent /\ n.status = "reading"
    BY <2>1, ReaderIs
  <2>3. next = now
    BY <1>1, <1>3, <1>4, <1>7 DEF Skips
  <2>4. k + 1 <= Len(s)
    BY <1>1
  <2>5. n.found = Selected(SubSeq(s, First(n.query) + 1, n.current), n.query)
    BY <1>5, <1>6, <2>2, <2>3 DEF next
  <2>6. BatchSound(n, s)
    BY <1>5, <1>6, <2>2, <2>4, <2>5 DEF BatchSound, From
  <2> QED BY <2>2, <2>6 DEF n
<1>8. CASE ~Skips(rd, r) /\ IsFull(q, rd)
  <2>1. n = [rd EXCEPT !.status = "ended"]
    BY <1>2, <1>8, FeedIs DEF n
  <2>2. n.current = k /\ n.found = rd.found /\ n.sent = rd.sent /\ n.status = "ended"
    BY <2>1, ReaderIs
  <2>3. BatchSound(n, s)
    BY <1>6, <2>2 DEF BatchSound, From
  <2>4. First(q) <= k
    BY <1>1, <1>3, <1>8 DEF Skips
  <2>5. q.size # None /\ First(q) + q.size <= k
    <3>1. q.size # None /\ (k > First(q) + q.size \/ rd.sent = q.size)
      BY <1>8 DEF IsFull
    <3>2. CASE k > First(q) + q.size
      BY <1>1, <1>3, <3>1, <3>2
    <3>3. CASE rd.sent = q.size
      <4>1. q.size <= k - First(q)
        BY <1>4, <1>5, <2>4, <3>3
      <4> QED BY <1>1, <1>3, <3>1, <4>1
    <3> QED BY <3>1, <3>2, <3>3
  <2>6. Through(n, s)
    BY <1>6, <2>2, <2>5 DEF Through
  <2> QED BY <2>2, <2>3, <2>6 DEF n
<1>9. CASE ~Skips(rd, r) /\ ~IsFull(q, rd)
  <2>1. n = [rd EXCEPT !.current = @ + 1, !.sent = @ + 1, !.found = Append(@, r)]
    BY <1>2, <1>9, FeedIs DEF n
  <2>2. /\ n.current = k + 1 /\ n.found = Append(rd.found, r) /\ n.sent = rd.sent + 1
        /\ n.status = "reading"
    <3> PICK all : all = Append(rd.found, r)
      OBVIOUS
    <3>1. n = [rd EXCEPT !.current = @ + 1, !.sent = @ + 1, !.found = all]
      BY <2>1
    <3> HIDE DEF r
    <3> QED BY <3>1, ReaderIs
  <2>3. First(q) <= k /\ IsOfType(q, r)
    BY <1>1, <1>3, <1>9 DEF Skips, IsOfType
  <2>4. next = Append(now, r)
    BY <1>4, <2>3
  <2>5. k + 1 <= Len(s)
    BY <1>1
  <2>6. Len(Append(now, r)) = Len(now) + 1
    BY <1>2, <1>4, AppendProperties
  <2>7. q.size # None => rd.sent + 1 <= q.size
    BY <1>1, <1>3, <1>5, <1>9 DEF IsFull
  <2>8. n.found = Selected(SubSeq(s, First(n.query) + 1, n.current), n.query)
    BY <1>5, <1>6, <2>2, <2>4 DEF next
  <2>9. n.sent = Len(n.found)
    BY <1>5, <2>2, <2>6
  <2>10. BatchSound(n, s)
    BY <1>6, <2>2, <2>5, <2>7, <2>8, <2>9 DEF BatchSound, From
  <2> QED BY <2>2, <2>10 DEF n
<1> QED BY <1>7, <1>8, <1>9

\* The page that is found.
LEMMA PageFound ==
  ASSUME NEW s \in Seq(Results), NEW rd \in Readers, BatchSound(rd, s), Through(rd, s)
  PROVE  LET q == rd.query
             window == SubSeq(s, First(q) + 1, First(q) + WindowOf(q, Len(s)))
         IN /\ IsPrefix(Selected(window, q), rd.found)
            /\ q.type = None =>
                 rd.found = window /\ Len(rd.found) = WindowOf(q, Len(s))
            /\ \A x : Times(x, rd.found) <= Times(x, Selected(s, q))
            /\ IsWhole(q) => rd.found = Selected(s, q)
            /\ q.size # None => Len(rd.found) <= q.size
<1> DEFINE q == rd.query
           k == rd.current
           d == First(q)
           w == WindowOf(q, Len(s))
           from == SubSeq(s, d + 1, k)
           window == SubSeq(s, d + 1, d + w)
           set == {r \in Results : IsOfType(q, r)}
<1>1. /\ q \in AllQueries /\ k \in Nat /\ k <= Len(s) /\ Len(s) \in Nat
      /\ rd.found \in Seq(Results)
  BY ReaderIs, LenProperties DEF BatchSound
<1>2. /\ d \in Nat /\ (q.size # None => q.size \in Nat)
      /\ IsWhole(q) => d = 0 /\ q.size = None
  BY <1>1, QueryTypes DEF IsWhole
<1>3. /\ w \in Nat /\ w <= Len(s) /\ (w # 0 => d + w <= Len(s))
      /\ q.size # None => w <= q.size
  BY <1>1, WindowTypes
<1>4. /\ rd.found = Selected(from, q)
      /\ q.size # None => Len(rd.found) <= q.size
      /\ k = Len(s) \/ (q.size # None /\ d + q.size <= k)
  BY DEF BatchSound, From, Through
<1>5. w = LET left == IF d < Len(s) THEN Len(s) - d ELSE 0
          IN IF q.size = None \/ left < q.size THEN left ELSE q.size
  BY DEF WindowOf
<1> HIDE DEF d, w
<1>6. /\ from \in Seq(Results) /\ Len(from) = IF d <= k THEN k - d ELSE 0
      /\ \A i \in 1..(k - d) : from[i] = s[d + i]
      /\ k <= d => from = <<>>
  <2>1. \A a, b \in Nat : b <= Len(s) =>
          /\ SubSeq(s, a + 1, b) \in Seq(Results)
          /\ Len(SubSeq(s, a + 1, b)) = IF a <= b THEN b - a ELSE 0
          /\ \A i \in 1..(b - a) : SubSeq(s, a + 1, b)[i] = s[a + i]
          /\ b <= a => SubSeq(s, a + 1, b) = <<>>
    BY PartIs
  <2> QED BY <1>1, <1>2, <2>1
<1>7. w # 0 => d + w <= k
  BY <1>1, <1>2, <1>3, <1>4
<1>8. window = SubSeq(from, 1, w) /\ w \in 0..Len(from)
  <2>1. CASE w = 0
    <3>1. d + 0 < d + 1 /\ d + 1 \in Int /\ d + 0 \in Int /\ 0 < 1 /\ 1 \in Int /\ 0 \in Int
      BY <1>2
    <3>2. SubSeq(s, d + 1, d + 0) = <<>> /\ SubSeq(from, 1, 0) = <<>>
      BY <3>1, SubSeqEmpty
    <3>3. 0 \in 0..Len(from)
      BY <1>1, <1>2, <1>6
    <3> QED BY <2>1, <3>2, <3>3
  <2>2. CASE w # 0
    <3>1. /\ d + 1 \in 1..Len(s) /\ k \in 1..Len(s)
          /\ 1 \in 1..(k - (d + 1) + 1) /\ w \in 1..(k - (d + 1) + 1)
          /\ (d + 1) + 1 - 1 = d + 1 /\ (d + 1) + w - 1 = d + w /\ w \in 0..Len(from)
      BY <1>1, <1>2, <1>3, <1>6, <1>7, <2>2
    <3>2. SubSeq(SubSeq(s, d + 1, k), 1, w) = SubSeq(s, (d + 1) + 1 - 1, (d + 1) + w - 1)
      <4>1. \A i, j \in 1..Len(s) : \A m, n \in 1..(j - i + 1) :
              SubSeq(SubSeq(s, i, j), m, n) = SubSeq(s, i + m - 1, i + n - 1)
        BY SubSeqOfSubSeq
      <4> QED BY <3>1, <4>1
    <3> QED BY <3>1, <3>2
  <2> QED BY <2>1, <2>2
<1> HIDE DEF from, window
<1>9. IsPrefix(Selected(window, q), rd.found)
  <2>1. \A u : Selected(u, q) = Kept(u, set)
    BY DEF Selected
  <2> HIDE DEF set
  <2>2. IsPrefix(Kept(SubSeq(from, 1, w), set), Kept(from, set))
    BY <1>6, <1>8, KeptPrefix
  <2> QED BY <1>4, <1>8, <2>1, <2>2
<1>10. ASSUME q.type = None PROVE rd.found = window /\ Len(rd.found) = w
  <2>1. rd.found = from
    BY <1>4, <1>6, <1>10, SelectedSound
  <2>2. Len(from) = w
    <3> DEFINE n == Len(s)
    <3>1. Len(from) = IF d <= k THEN k - d ELSE 0
      BY <1>6
    <3>2. q.size # None => Len(from) <= q.size
      BY <1>4, <2>1
    <3>3. CASE k = Len(s)
      <4>1. Len(from) = IF d < n THEN n - d ELSE 0
        BY <1>1, <1>2, <3>1, <3>3
      <4> HIDE DEF n
      <4>2. w = IF q.size = None \/ Len(from) < q.size THEN Len(from) ELSE q.size
        BY <1>5, <4>1 DEF n
      <4>3. Len(from) \in Nat
        BY <1>6, LenProperties
      <4> QED BY <1>2, <3>2, <4>2, <4>3
    <3>4. CASE q.size # None /\ d + q.size <= k
      <4>1. Len(from) = k - d /\ k - d = q.size
        BY <1>1, <1>2, <3>1, <3>2, <3>4
      <4>2. CASE d < n
        <5>1. w = IF n - d < q.size THEN n - d ELSE q.size
          BY <1>5, <3>4, <4>2
        <5> QED BY <1>1, <1>2, <3>4, <4>1, <5>1
      <4>3. CASE ~(d < n)
        <5>1. w = IF 0 < q.size THEN 0 ELSE q.size
          BY <1>5, <3>4, <4>3
        <5>2. q.size = 0
          BY <1>1, <1>2, <3>4, <4>1, <4>3
        <5> QED BY <4>1, <5>1, <5>2
      <4> QED BY <4>2, <4>3
    <3> QED BY <1>4, <3>3, <3>4
  <2>3. SubSeq(from, 1, Len(from)) = from
    BY <1>6, SubSeqFull
  <2> QED BY <1>8, <2>1, <2>2, <2>3
<1>11. ASSUME NEW x PROVE Times(x, rd.found) <= Times(x, Selected(s, q))
  <2>1. Times(x, from) <= Times(x, s)
    <3>1. CASE d <= k
      <4>1. d \in Nat /\ d + Len(from) <= Len(s) /\ \A i \in 1..Len(from) : from[i] = s[d + i]
        BY <1>1, <1>2, <1>6, <3>1
      <4> QED BY <1>6, <4>1, TimesOfPart
    <3>2. CASE ~(d <= k)
      <4>1. from = <<>>
        BY <1>1, <1>2, <1>6, <3>2
      <4>2. Times(x, from) = 0 /\ Times(x, s) \in Nat
        BY <4>1, TimesEmpty, TimesType
      <4> QED BY <4>2
    <3> QED BY <3>1, <3>2
  <2>2. /\ Times(x, Selected(from, q)) =
             IF x \in Results /\ IsOfType(q, x) THEN Times(x, from) ELSE 0
        /\ Times(x, Selected(s, q)) =
             IF x \in Results /\ IsOfType(q, x) THEN Times(x, s) ELSE 0
    BY <1>6, SelectedSound
  <2> QED BY <1>4, <2>1, <2>2
<1>12. ASSUME IsWhole(q) PROVE rd.found = Selected(s, q)
  <2>1. k = Len(s) /\ d + 1 = 1
    BY <1>2, <1>4, <1>12
  <2>2. from = s
    BY <2>1, SubSeqFull DEF from
  <2> QED BY <1>4, <2>2
<1> QED BY <1>4, <1>9, <1>10, <1>11, <1>12 DEF window, d, w

-----------------------------------------------------------------------------
(* The bytes of the db file.                                               *)

\* Two bytes that stand at p.
Stands(f, p, a, b) == p \in 1..(Len(f) - 1) /\ f[p] = a /\ f[p + 1] = b

\* Two elements that SubSeq cuts out.
LEMMA CutIs ==
  ASSUME NEW f, NEW m \in Int, NEW n \in Int, \A i \in m..n : f[i] \in Nat, n = m + 1
  PROVE  SubSeq(f, m, n) = <<f[m], f[n]>>
<1>1. SubSeq(f, m, n) \in Seq(Nat)
  BY SubSeqProperties
<1>2. Len(SubSeq(f, m, n)) = 2
  OBVIOUS
<1>3. \A i \in 1..2 : SubSeq(f, m, n)[i] = f[m + i - 1]
  OBVIOUS
<1>4. SubSeq(f, m, n)[1] = f[m] /\ SubSeq(f, m, n)[2] = f[n]
  <2>1. m + 1 - 1 = m /\ m + 2 - 1 = n /\ 1 \in 1..2 /\ 2 \in 1..2
    OBVIOUS
  <2> QED BY <1>3, <2>1
<1> DEFINE s == SubSeq(f, m, n)
<1> HIDE DEF s
<1>5. s \in Seq(Nat) /\ Len(s) = 2
  BY <1>1, <1>2 DEF s
<1>6. s = <<s[1], s[2]>>
  BY ONLY <1>5
<1> QED BY <1>4, <1>6 DEF s

\* A pair of bytes that SubSeq cuts out stands there.
LEMMA PairIs ==
  ASSUME NEW f \in Seq(Nat), NEW p \in 1..(Len(f) - 1), NEW a, NEW b
  PROVE  SubSeq(f, p, p + 1) = <<a, b>> <=> Stands(f, p, a, b)
<1>1. Len(f) \in Nat /\ p \in Int /\ p + 1 \in Int
  BY LenProperties
<1>2. \A i \in p..(p + 1) : i \in 1..Len(f)
  BY <1>1
<1>3. \A i \in p..(p + 1) : f[i] \in Nat
  BY <1>2, ElementOfSeq
<1>4. SubSeq(f, p, p + 1) = <<f[p], f[p + 1]>>
  BY <1>1, <1>3, CutIs
<1> QED BY <1>4 DEF Stands

\* The least of some numbers.
LEMMA LeastOf ==
  ASSUME NEW x \in SUBSET Nat, x # {}
  PROVE  Min(x) \in x /\ \A y \in x : Min(x) <= y
<1> DEFINE T == {m \in Nat : (\E y \in x : y <= m) => \E k \in x : \A y \in x : k <= y}
<1>1. 0 \in T
  <2> SUFFICES ASSUME NEW k \in x, k <= 0 PROVE \A y \in x : k <= y
    OBVIOUS
  <2> QED OBVIOUS
<1>2. ASSUME NEW m \in T \cap Nat PROVE m + 1 \in T
  <2> SUFFICES ASSUME NEW k \in x, k <= m + 1 PROVE \E l \in x : \A y \in x : l <= y
    OBVIOUS
  <2>1. CASE \E y \in x : y <= m
    BY <2>1
  <2>2. CASE ~ \E y \in x : y <= m
    <3>1. \A y \in x : k <= y
      BY <2>2
    <3> QED BY <3>1
  <2> QED BY <2>1, <2>2
<1> HIDE DEF T
<1>3. PICK m \in x : m \in Nat
  OBVIOUS
<1>4. m \in T
  BY <1>1, <1>2, SetInduction
<1>5. \E k \in x : \A y \in x : k <= y
  BY <1>4 DEF T
<1> QED BY <1>5 DEF Min

\* Where Find finds a mark.
LEMMA FindIs ==
  ASSUME NEW f \in Seq(Nat), NEW a, NEW b, NEW from \in Nat, from >= 1
  PROVE  LET at == Find(f, <<a, b>>, from)
         IN /\ at \in Nat
            /\ at = 0 => \A p \in Nat : p >= from => ~Stands(f, p, a, b)
            /\ at # 0 => /\ at >= from /\ Stands(f, at, a, b)
                         /\ \A p \in Nat : p >= from /\ Stands(f, p, a, b) => at <= p
<1> DEFINE set == {i \in from..(Len(f) - 1) : SubSeq(f, i, i + 1) = <<a, b>>}
           at == Find(f, <<a, b>>, from)
<1>1. Len(f) \in Nat
  BY LenProperties
<1>2. \A i : i \in set <=> i \in Nat /\ i >= from /\ Stands(f, i, a, b)
  <2> TAKE i
  <2>1. CASE i \in from..(Len(f) - 1)
    <3>1. i \in 1..(Len(f) - 1) /\ i \in Nat /\ i >= from
      BY <1>1, <2>1
    <3> QED BY <2>1, <3>1, PairIs
  <2>2. CASE i \notin from..(Len(f) - 1)
    <3>1. ~(i \in Nat /\ i >= from /\ i \in 1..(Len(f) - 1))
      BY <1>1, <2>2
    <3> QED BY <2>2, <3>1 DEF Stands
  <2> QED BY <2>1, <2>2
<1>3. at = IF set = {} THEN 0 ELSE Min(set)
  BY DEF Find
<1>4. CASE set = {}
  BY <1>2, <1>3, <1>4
<1>5. CASE set # {}
  <2>1. set \in SUBSET Nat
    BY <1>2
  <2> HIDE DEF set
  <2>2. Min(set) \in set /\ \A i \in set : Min(set) <= i
    BY <1>5, <2>1, LeastOf
  <2>3. at = Min(set)
    BY <1>3, <1>5
  <2> HIDE DEF at
  <2>4. at \in set /\ \A i \in set : at <= i
    BY <2>2, <2>3
  <2>5. at # 0
    BY <1>2, <2>4
  <2> QED BY <1>2, <2>4, <2>5 DEF at
<1> QED BY <1>4, <1>5

\* A record as it is written.
LEMMA EncodedIs ==
  ASSUME NEW r \in Results
  PROVE  LET c == Compressed(r)
             s == Encoded(r)
             n == Len(s)
         IN /\ s \in Seq(Nat) /\ n \in Nat /\ n >= 4
            /\ c \in Seq(Nat) /\ Len(c) = n - 2
            /\ \A i \in 1..(n - 2) : s[i] = c[i]
            /\ s[1] = 0 /\ s[2] = 1 /\ s[n - 1] = 0 /\ s[n] = 2
<1> DEFINE c == Compressed(r)
           s == Encoded(r)
           n == Len(s)
<1>1. r.bytes \in Seq(Nat) /\ Len(r.bytes) \in Nat
  <2>1. r.bytes \in Seq(Nat)
    BY FileReaderAssumption
  <2> QED BY <2>1, LenProperties
<1>2. /\ ZLIB_START \in Seq(Nat) /\ Len(ZLIB_START) = 2 /\ ZLIB_START[1] = 0 /\ ZLIB_START[2] = 1
      /\ ZLIB_END \in Seq(Nat) /\ Len(ZLIB_END) = 2 /\ ZLIB_END[1] = 0 /\ ZLIB_END[2] = 2
  BY DEF ZLIB_START, ZLIB_END, X
<1>3. /\ c \in Seq(Nat) /\ Len(c) = 2 + Len(r.bytes)
      /\ \A i \in 1..(2 + Len(r.bytes)) :
           c[i] = IF i <= 2 THEN ZLIB_START[i] ELSE r.bytes[i - 2]
  <2> HIDE DEF c
  <2>1. c = ZLIB_START \o r.bytes
    BY DEF c, Compressed
  <2>2. \A a, b \in Seq(Nat) :
          /\ a \o b \in Seq(Nat) /\ Len(a \o b) = Len(a) + Len(b)
          /\ \A i \in 1..(Len(a) + Len(b)) :
               (a \o b)[i] = IF i <= Len(a) THEN a[i] ELSE b[i - Len(a)]
    BY ConcatProperties
  <2>3. ZLIB_START \in Seq(Nat) /\ r.bytes \in Seq(Nat) /\ Len(ZLIB_START) = 2
    BY <1>1, <1>2
  <2>4. /\ c \in Seq(Nat) /\ Len(c) = Len(ZLIB_START) + Len(r.bytes)
        /\ \A i \in 1..(Len(ZLIB_START) + Len(r.bytes)) :
             c[i] = IF i <= Len(ZLIB_START) THEN ZLIB_START[i] ELSE r.bytes[i - Len(ZLIB_START)]
    BY ONLY <2>1, <2>2, <2>3
  <2> QED BY ONLY <2>3, <2>4
<1>4. Len(c) \in Nat /\ Len(c) >= 2 /\ c[1] = 0 /\ c[2] = 1 /\ DOMAIN c = 1..Len(c)
  <2>1. c[1] = ZLIB_START[1] /\ c[2] = ZLIB_START[2]
    BY <1>1, <1>3
  <2> QED BY <1>1, <1>2, <1>3, <2>1, LenProperties
<1> HIDE DEF c
<1>5. /\ s \in Seq(Nat) /\ n = Len(c) + 2
      /\ \A i \in 1..(Len(c) + 2) : s[i] = IF i <= Len(c) THEN c[i] ELSE ZLIB_END[i - Len(c)]
  <2>1. s = c \o ZLIB_END
    BY DEF c, Encoded
  <2> HIDE DEF s
  <2>2. /\ s \in Seq(Nat) /\ Len(s) = Len(c) + Len(ZLIB_END)
        /\ \A i \in 1..(Len(c) + Len(ZLIB_END)) :
             s[i] = IF i <= Len(c) THEN c[i] ELSE ZLIB_END[i - Len(c)]
    BY <1>2, <1>3, <2>1, ConcatProperties
  <2> QED BY <1>2, <2>2
<1> HIDE DEF s
<1>6. s[1] = c[1] /\ s[2] = c[2] /\ s[Len(c) + 1] = ZLIB_END[1] /\ s[Len(c) + 2] = ZLIB_END[2]
  <2>1. (Len(c) + 1) - Len(c) = 1 /\ (Len(c) + 2) - Len(c) = 2
    BY <1>4
  <2> QED BY <1>4, <1>5, <2>1
<1>7. n \in Nat /\ n >= 4 /\ Len(c) = n - 2 /\ n - 1 = Len(c) + 1
  BY <1>4, <1>5
<1> HIDE DEF n
<1>8. \A i \in 1..(n - 2) : s[i] = c[i]
  BY <1>5, <1>7
<1>9. s[1] = 0 /\ s[2] = 1 /\ s[n - 1] = 0 /\ s[n] = 2
  BY <1>2, <1>4, <1>6, <1>7
<1> QED BY <1>3, <1>5, <1>7, <1>8, <1>9 DEF c, s, n

\* Where the first end mark is in what is written of a result: behind it or, if
\* it holds one, before.
EndsAt(r, p) ==
    /\ p \in 3..(Len(Encoded(r)) - 1) /\ Stands(Encoded(r), p, 0, 2)
    /\ \A i \in 1..(p - 1) : ~Stands(Encoded(r), i, 0, 2)
    /\ p # Len(Encoded(r)) - 1 => HoldsMark(r)

\* There is a first one.
LEMMA EndIs == ASSUME NEW r \in Results PROVE \E p \in Nat : EndsAt(r, p)
<1> DEFINE c == Compressed(r)
           s == Encoded(r)
<1>1. PICK n \in Nat : n = Len(s)
  BY EncodedIs
<1>2. /\ s \in Seq(Nat) /\ n >= 4 /\ c \in Seq(Nat) /\ Len(c) = n - 2
      /\ s[1] = 0 /\ s[2] = 1 /\ s[n - 1] = 0 /\ s[n] = 2
  BY <1>1, EncodedIs
<1>3. HoldsMark(r) <=> \E i \in DOMAIN c : SubSeq(s, i, i + 1) = <<0, 2>>
  BY DEF HoldsMark, ZLIB_END, X
<1> HIDE DEF s, c
<1> DEFINE set == {i \in 1..(n - 1) : Stands(s, i, 0, 2)}
<1>4. n - 1 \in set
  <2>1. n - 1 \in 1..(n - 1) /\ (n - 1) + 1 = n
    BY <1>2
  <2> QED BY <1>1, <1>2, <2>1 DEF Stands
<1>5. set \in SUBSET Nat /\ set # {}
  BY <1>4
<1>6. \A i : i \in set <=> i \in 1..(n - 1) /\ Stands(s, i, 0, 2)
  OBVIOUS
<1> HIDE DEF set
<1>7. PICK p \in set : \A i \in set : p <= i
  BY <1>5, LeastOf
<1>8. p \in 1..(n - 1) /\ Stands(s, p, 0, 2) /\ s[p] = 0 /\ s[p + 1] = 2
  BY <1>6, <1>7 DEF Stands
<1>9. p \in 3..(n - 1)
  <2>1. p # 1
    <3>1. 1 + 1 = 2
      OBVIOUS
    <3> QED BY <1>2, <1>8, <3>1
  <2>2. p # 2
    BY <1>2, <1>8
  <2> QED BY <1>8, <2>1, <2>2
<1>10. \A i \in 1..(p - 1) : ~Stands(s, i, 0, 2)
  <2> SUFFICES ASSUME NEW i \in 1..(p - 1), Stands(s, i, 0, 2) PROVE FALSE
    OBVIOUS
  <2>1. i \in 1..(n - 1) /\ ~(p <= i)
    BY <1>8
  <2> QED BY <1>6, <1>7, <2>1
<1>11. ASSUME p # n - 1 PROVE HoldsMark(r)
  <2>1. p \in 1..(n - 2)
    BY <1>8, <1>11
  <2>2. p \in DOMAIN c
    BY <1>2, <2>1, LenProperties
  <2>3. p \in 1..(Len(s) - 1)
    BY <1>1, <1>8
  <2>4. SubSeq(s, p, p + 1) = <<0, 2>>
    BY <1>2, <1>8, <2>3, PairIs
  <2> QED BY <1>3, <2>2, <2>4
<1>12. p \in Nat
  BY <1>9
<1> QED BY <1>1, <1>8, <1>9, <1>10, <1>11, <1>12 DEF EndsAt, s

\* Where each of the records d ends in the file f, which holds nothing else.
Layout(e, d, f) ==
    /\ e \in [0..Len(d) -> 0..Len(f)] /\ e[0] = 0 /\ e[Len(d)] = Len(f)
    /\ \A c \in 1..Len(d) :
         /\ e[c - 1] + Len(Encoded(d[c])) = e[c]
         /\ \A i \in 1..Len(Encoded(d[c])) :
              f[e[c] - Len(Encoded(d[c])) + i] = Encoded(d[c])[i]

\* An empty file has the layout of no records.
LEMMA LayoutEmpty == \E e : Layout(e, <<>>, <<>>)
<1> DEFINE e == [c \in 0..0 |-> 0]
<1>1. e \in [0..0 -> 0..0] /\ e[0] = 0 /\ Len(<<>>) = 0
  OBVIOUS
<1> HIDE DEF e
<1>2. Layout(e, <<>>, <<>>)
  BY <1>1 DEF Layout
<1> QED BY <1>2

\* A record that is appended is one more.
LEMMA LayoutAdd ==
  ASSUME NEW d \in Seq(Results), NEW f \in Seq(Nat), NEW e, Layout(e, d, f), NEW r \in Results
  PROVE  /\ f \o Encoded(r) \in Seq(Nat)
         /\ \E e2 : Layout(e2, Append(d, r), f \o Encoded(r))
<1> DEFINE s == Encoded(r)
           l == Len(s)
           n == Len(f)
           k == Len(d)
           f2 == f \o s
           d2 == Append(d, r)
           e2 == [c \in 0..(k + 1) |-> IF c = k + 1 THEN n + l ELSE e[c]]
<1>1. s \in Seq(Nat) /\ l \in Nat /\ l >= 4
  BY EncodedIs
<1>2. n \in Nat /\ k \in Nat
  BY LenProperties
<1> HIDE DEF s
<1>3. /\ f2 \in Seq(Nat) /\ Len(f2) = n + l
      /\ \A i \in 1..(n + l) : f2[i] = IF i <= n THEN f[i] ELSE s[i - n]
  BY <1>1, ConcatProperties
<1>4. Len(d2) = k + 1 /\ d2[k + 1] = r /\ \A c \in 1..k : d2[c] = d[c]
  BY AppendProperties
<1>5. /\ e \in [0..k -> 0..n] /\ e[0] = 0 /\ e[k] = n
      /\ \A c \in 1..k :
           /\ e[c - 1] + Len(Encoded(d[c])) = e[c]
           /\ \A i \in 1..Len(Encoded(d[c])) :
                f[e[c] - Len(Encoded(d[c])) + i] = Encoded(d[c])[i]
  BY DEF Layout
<1>6. e2 \in [0..(k + 1) -> 0..(n + l)] /\ e2[0] = 0
  BY <1>1, <1>2, <1>5
<1>7. e2[k + 1] = n + l /\ \A c \in 0..k : e2[c] = e[c]
  BY <1>2
<1> HIDE DEF e2, f2, d2
<1>8. ASSUME NEW c \in 1..(k + 1)
      PROVE  /\ e2[c - 1] + Len(Encoded(d2[c])) = e2[c]
             /\ \A i \in 1..Len(Encoded(d2[c])) :
                  f2[e2[c] - Len(Encoded(d2[c])) + i] = Encoded(d2[c])[i]
  <2>1. CASE c = k + 1
    <3>1. Encoded(d2[c]) = s /\ e2[c] = n + l /\ c - 1 = k /\ e2[c - 1] = n
      BY <1>2, <1>4, <1>5, <1>7, <2>1 DEF s
    <3>2. ASSUME NEW i \in 1..l PROVE f2[(n + l) - l + i] = s[i]
      <4>1. (n + l) - l + i = n + i /\ n + i \in 1..(n + l) /\ ~(n + i <= n) /\ (n + i) - n = i
        BY <1>1, <1>2
      <4> QED BY <1>3, <4>1
    <3> QED BY <3>1, <3>2
  <2>2. CASE c \in 1..k
    <3>1. c \in 0..k /\ c - 1 \in 0..k
      BY <1>2, <2>2
    <3>2. Encoded(d2[c]) = Encoded(d[c]) /\ e2[c] = e[c] /\ e2[c - 1] = e[c - 1]
      BY <1>4, <1>7, <2>2, <3>1
    <3> PICK t : t = Encoded(d[c])
      OBVIOUS
    <3>3. Len(t) \in Nat
      <4>1. d[c] \in Results
        BY <2>2, ElementOfSeq
      <4> QED BY <4>1, EncodedIs
    <3>4. e[c] \in 0..n /\ e[c - 1] \in 0..n /\ e[c - 1] + Len(t) = e[c]
      BY <1>5, <2>2, <3>1
    <3>5. ASSUME NEW i \in 1..Len(t) PROVE f2[e[c] - Len(t) + i] = t[i]
      <4> PICK a \in 0..n : a = e[c]
        BY <3>4
      <4> PICK b \in Nat : b = Len(t)
        BY <3>3
      <4>0. n \in Nat /\ l \in Nat /\ b <= a /\ i \in 1..b
        <5> PICK z \in 0..n : z = e[c - 1]
          BY <3>4
        <5>1. z + b = a
          BY <3>4
        <5> QED BY <1>2, <5>1, SMTT(40)
      <4>1. e[c] - Len(t) + i \in 1..(n + l) /\ e[c] - Len(t) + i <= n
        <5>1. a - b + i \in 1..(n + l) /\ a - b + i <= n
          BY ONLY <4>0, a \in 0..n, b \in Nat
        <5> QED BY <5>1
      <4>2. f2[e[c] - Len(t) + i] = f[e[c] - Len(t) + i]
        BY <1>3, <4>1
      <4> QED BY <1>5, <2>2, <4>2
    <3> QED BY <3>2, <3>4, <3>5
  <2> QED BY <1>2, <2>1, <2>2
<1>9. Layout(e2, d2, f2)
  <2>1. /\ e2 \in [0..Len(d2) -> 0..Len(f2)] /\ Len(d2) = k + 1 /\ Len(f2) = n + l
        /\ e2[Len(d2)] = Len(f2)
    BY <1>3, <1>4, <1>6, <1>7
  <2> QED BY <1>6, <1>8, <2>1 DEF Layout
<1> QED BY <1>3, <1>9 DEF f2, d2, s

-----------------------------------------------------------------------------
(* What read_zfile finds.                                                  *)

\* A record and the others.
Before(record, others) ==
    [records |-> <<record>> \o others.records, remaining |-> others.remaining]

\* The records from pos on, if g knows those from a later position on.
Parses(g, data, pos) ==
    LET rstart == Find(data, ZLIB_START, pos)
        rend == IF rstart = 0 THEN 0 ELSE Find(data, ZLIB_END, rstart + 1)
    IN IF rend = 0 THEN [records |-> <<>>, remaining |-> Remaining(data, pos)]
       ELSE Before(Decompressed(SubSeq(data, rstart, rend - 1)), g[AfterRecord(rend)])

\* The next record ends after pos.
LEMMA NextRecord ==
  ASSUME NEW data \in Seq(Nat), NEW pos \in 1..(Len(data) + 1)
  PROVE  LET rstart == Find(data, ZLIB_START, pos)
             rend == IF rstart = 0 THEN 0 ELSE Find(data, ZLIB_END, rstart + 1)
         IN /\ rstart \in Nat /\ rend \in Nat
            /\ rstart = 0 => \A p \in Nat : p >= pos => ~Stands(data, p, 0, 1)
            /\ rstart # 0 => /\ rstart >= pos /\ Stands(data, rstart, 0, 1)
                             /\ \A p \in Nat : p >= pos /\ Stands(data, p, 0, 1) => rstart <= p
            /\ rstart # 0 /\ rend = 0 => \A p \in Nat : p > rstart => ~Stands(data, p, 0, 2)
            /\ rend # 0 => /\ rstart # 0 /\ rend > rstart /\ Stands(data, rend, 0, 2)
                           /\ \A p \in Nat : p > rstart /\ Stands(data, p, 0, 2) => rend <= p
                           /\ AfterRecord(rend) \in (pos + 1)..(Len(data) + 1)
                           /\ AfterRecord(rend) = rend + 2
<1> DEFINE rstart == Find(data, ZLIB_START, pos)
           rend == IF rstart = 0 THEN 0 ELSE Find(data, ZLIB_END, rstart + 1)
<1>1. ZLIB_START = <<0, 1>> /\ ZLIB_END = <<0, 2>> /\ Len(ZLIB_END) = 2
  BY DEF ZLIB_START, ZLIB_END, X
<1>2. pos \in Nat /\ pos >= 1 /\ Len(data) \in Nat
  BY LenProperties
<1>3. /\ rstart \in Nat
      /\ rstart = 0 => \A p \in Nat : p >= pos => ~Stands(data, p, 0, 1)
      /\ rstart # 0 => /\ rstart >= pos /\ Stands(data, rstart, 0, 1)
                       /\ \A p \in Nat : p >= pos /\ Stands(data, p, 0, 1) => rstart <= p
  BY <1>1, <1>2, FindIs
<1>4. ASSUME rstart # 0
      PROVE  /\ rend \in Nat
             /\ rend = 0 => \A p \in Nat : p >= rstart + 1 => ~Stands(data, p, 0, 2)
             /\ rend # 0 => /\ rend >= rstart + 1 /\ Stands(data, rend, 0, 2)
                            /\ \A p \in Nat : p >= rstart + 1 /\ Stands(data, p, 0, 2) => rend <= p
  <2> HIDE DEF rstart
  <2>1. rstart + 1 \in Nat /\ rstart + 1 >= 1
    BY <1>3
  <2>2. rend = Find(data, <<0, 2>>, rstart + 1)
    BY <1>1, <1>4
  <2> HIDE DEF rend
  <2> QED BY <2>1, <2>2, FindIs
<1>5. rstart = 0 => rend = 0
  OBVIOUS
<1> HIDE DEF rstart, rend
<1>6. rend \in Nat
  BY <1>4, <1>5
<1>7. \A p \in Nat : p > rstart <=> p >= rstart + 1
  BY <1>3
<1>8. ASSUME rend # 0
      PROVE  AfterRecord(rend) \in (pos + 1)..(Len(data) + 1) /\ AfterRecord(rend) = rend + 2
  <2>1. rstart # 0 /\ rstart >= pos /\ rend >= rstart + 1 /\ rend \in 1..(Len(data) - 1)
    BY <1>3, <1>4, <1>5, <1>8 DEF Stands
  <2>2. AfterRecord(rend) = rend + 2
    BY <1>1 DEF AfterRecord
  <2> QED BY <1>2, <1>3, <1>6, <2>1, <2>2
<1> QED BY <1>3, <1>4, <1>5, <1>6, <1>7, <1>8 DEF rstart, rend

\* What Parsed is: its recursive function taken step by step.
LEMMA ParsedIs ==
  ASSUME NEW data \in Seq(Nat)
  PROVE  \E g : /\ \A pos \in 1..(Len(data) + 1) : g[pos] = Parses(g, data, pos)
                /\ Parsed(data) = g[1]
<1> DEFINE n == Len(data)
           Is(g, m) == g = [pos \in m..(n + 1) |-> Parses(g, data, pos)]
           T == {m \in Nat : m <= n => \E g : Is(g, n + 1 - m)}
<1>1. n \in Nat
  BY LenProperties
<1>0. \A pos \in 1..(n + 1) : \A g, h :
        (\A p \in (pos + 1)..(n + 1) : g[p] = h[p]) => Parses(g, data, pos) = Parses(h, data, pos)
  BY NextRecord DEF Parses
<1> HIDE DEF n
<1>2. 0 \in T
  <2> DEFINE g == [pos \in (n + 1)..(n + 1) |-> Parses(<<>>, data, pos)]
  <2>1. \A pos \in (n + 1)..(n + 1) : pos \in 1..(n + 1) /\ (pos + 1)..(n + 1) = {}
    BY <1>1
  <2>2. \A pos \in (n + 1)..(n + 1) : Parses(<<>>, data, pos) = Parses(g, data, pos)
    <3> HIDE DEF g
    <3> QED BY <1>0, <2>1
  <2>3. g = [pos \in (n + 1)..(n + 1) |-> Parses(g, data, pos)]
    BY <2>2
  <2>4. n + 1 - 0 = n + 1
    BY <1>1
  <2> HIDE DEF g
  <2> QED BY <2>3, <2>4
<1>3. ASSUME NEW m \in T \cap Nat PROVE m + 1 \in T
  <2> SUFFICES ASSUME m + 1 <= n PROVE \E g : Is(g, n + 1 - (m + 1))
    OBVIOUS
  <2> PICK b \in Nat : b = n - m /\ b >= 1 /\ b <= n
    BY <1>1
  <2>1. n + 1 - m = b + 1 /\ n + 1 - (m + 1) = b /\ m <= n /\ b \in 1..(n + 1)
    BY <1>1
  <2>2. PICK g : Is(g, b + 1)
    BY <2>1
  <2> DEFINE h == [pos \in b..(n + 1) |-> IF pos = b THEN Parses(g, data, b) ELSE g[pos]]
             k == [pos \in b..(n + 1) |-> Parses(h, data, pos)]
  <2>3. \A p \in (b + 1)..(n + 1) : h[p] = g[p] /\ p \in b..(n + 1)
    BY <1>1
  <2>4. h[b] = Parses(g, data, b) /\ b \in b..(n + 1)
    BY <1>1, <2>1
  <2>5. \A p \in (b + 1)..(n + 1) : g[p] = Parses(g, data, p)
    BY <2>2
  <2> HIDE DEF h
  <2>6. ASSUME NEW pos \in b..(n + 1) PROVE h[pos] = Parses(h, data, pos)
    <3>1. pos \in 1..(n + 1) /\ \A p \in (pos + 1)..(n + 1) : p \in (b + 1)..(n + 1)
      BY <1>1
    <3>2. Parses(g, data, pos) = Parses(h, data, pos)
      <4>1. \A p \in (pos + 1)..(n + 1) : g[p] = h[p]
        BY <2>3, <3>1
      <4> QED BY <1>0, <3>1, <4>1
    <3>3. CASE pos = b
      BY <2>4, <3>2, <3>3
    <3>4. CASE pos # b
      <4>1. pos \in (b + 1)..(n + 1)
        BY <1>1, <3>4
      <4> QED BY <2>3, <2>5, <3>2, <4>1
    <3> QED BY <3>3, <3>4
  <2>7. Is(h, b)
    BY <2>6 DEF h
  <2> HIDE DEF Is
  <2> QED BY <2>1, <2>7
<1> HIDE DEF Is, T
<1>4. n \in T
  BY <1>1, <1>2, <1>3, SetInduction
<1>5. \E g : Is(g, 1)
  <2>1. n + 1 - n = 1 /\ n <= n
    BY <1>1
  <2> QED BY <1>4, <2>1 DEF T
<1> DEFINE from == CHOOSE g : Is(g, 1)
<1>6. Is(from, 1)
  BY <1>5
<1>7. Parsed(data) = from[1]
  BY DEF Parsed, Parses, Before, Is, n
<1> HIDE DEF from
<1>8. \A pos \in 1..(n + 1) : from[pos] = Parses(from, data, pos)
  BY <1>6 DEF Is
<1> QED BY <1>7, <1>8 DEF n

\* What is yielded and what remains.
IsParsed(p) == p.records \in Seq(Records) /\ p.remaining \in Seq(Nat)

\* Whatever the bytes are, that is records, or errors, and bytes.
LEMMA ParsesTyped ==
  ASSUME NEW data \in Seq(Nat), NEW g,
         \A pos \in 1..(Len(data) + 1) : g[pos] = Parses(g, data, pos)
  PROVE  \A pos \in 1..(Len(data) + 1) : IsParsed(g[pos])
<1> DEFINE T == {m \in Nat : \A pos \in 1..(Len(data) + 1) :
                               pos + m >= Len(data) + 1 => IsParsed(g[pos])}
<1>1. PICK n \in Nat : n = Len(data)
  BY LenProperties
<1>2. ASSUME NEW pos \in 1..(n + 1), \A p \in (pos + 1)..(n + 1) : IsParsed(g[p])
      PROVE  IsParsed(g[pos])
  <2> DEFINE rstart == Find(data, ZLIB_START, pos)
             rend == IF rstart = 0 THEN 0 ELSE Find(data, ZLIB_END, rstart + 1)
  <2>1. rend # 0 => AfterRecord(rend) \in (pos + 1)..(n + 1)
    BY <1>1, NextRecord
  <2>2. g[pos] = IF rend = 0 THEN [records |-> <<>>, remaining |-> Remaining(data, pos)]
                 ELSE Before(Decompressed(SubSeq(data, rstart, rend - 1)), g[AfterRecord(rend)])
    BY <1>1 DEF Parses
  <2> HIDE DEF rend, rstart
  <2>3. CASE rend = 0
    <3>1. Remaining(data, pos) \in Seq(Nat)
      <4>1. pos \in Int /\ n \in Int /\ \A i \in pos..n : i \in 1..Len(data)
        BY <1>1
      <4>2. \A i \in pos..n : data[i] \in Nat
        BY <4>1, ElementOfSeq
      <4> QED BY <1>1, <4>1, <4>2, SubSeqProperties DEF Remaining
    <3>2. <<>> \in Seq(Records)
      BY EmptySeq
    <3> QED BY <2>2, <2>3, <3>1, <3>2 DEF IsParsed
  <2>4. CASE rend # 0
    <3> PICK x : x = Decompressed(SubSeq(data, rstart, rend - 1))
      OBVIOUS
    <3>1. x \in Records
      BY DEF Decompressed, Records
    <3> PICK others : others = g[AfterRecord(rend)]
      OBVIOUS
    <3>2. IsParsed(others)
      BY <1>2, <2>1, <2>4
    <3>3. <<x>> \o others.records \in Seq(Records)
      <4>1. <<x>> \in Seq(Records) /\ others.records \in Seq(Records)
        BY <3>1, <3>2 DEF IsParsed
      <4> QED BY ONLY <4>1, ConcatProperties
    <3>4. g[pos] = [records |-> <<x>> \o others.records, remaining |-> others.remaining]
      BY <2>2, <2>4 DEF Before
    <3> QED BY <3>2, <3>3, <3>4 DEF IsParsed
  <2> QED BY <2>3, <2>4
<1>3. 0 \in T
  <2> SUFFICES ASSUME NEW pos \in 1..(n + 1), pos + 0 >= n + 1 PROVE IsParsed(g[pos])
    BY <1>1
  <2>1. (pos + 1)..(n + 1) = {}
    OBVIOUS
  <2> QED BY <1>2, <2>1
<1>4. ASSUME NEW m \in T \cap Nat PROVE m + 1 \in T
  <2> SUFFICES ASSUME NEW pos \in 1..(n + 1), pos + (m + 1) >= n + 1 PROVE IsParsed(g[pos])
    BY <1>1
  <2>1. ASSUME NEW p \in (pos + 1)..(n + 1) PROVE IsParsed(g[p])
    <3>1. p \in 1..(n + 1) /\ p + m >= n + 1
      OBVIOUS
    <3> QED BY <1>1, <3>1
  <2> QED BY <1>2, <2>1
<1>5. n \in T
  <2> HIDE DEF T
  <2> QED BY <1>3, <1>4, SetInduction
<1>6. ASSUME NEW pos \in 1..(n + 1) PROVE IsParsed(g[pos])
  <2>1. pos + n >= n + 1
    OBVIOUS
  <2> QED BY <1>1, <1>5, <2>1
<1> QED BY <1>1, <1>6

\* ... and so is what Parsed yields.
LEMMA ParsedTypes == ASSUME NEW data \in Seq(Nat) PROVE IsParsed(Parsed(data))
<1>1. PICK g : /\ \A pos \in 1..(Len(data) + 1) : g[pos] = Parses(g, data, pos)
               /\ Parsed(data) = g[1]
  BY ParsedIs
<1>2. 1 \in 1..(Len(data) + 1)
  BY LenProperties
<1>3. IsParsed(g[1])
  BY <1>1, <1>2, ParsesTyped
<1> QED BY <1>1, <1>3

\* Records take bytes: e grows.
LEMMA LayoutGrows ==
  ASSUME NEW d \in Seq(Results), NEW f \in Seq(Nat), NEW e, Layout(e, d, f)
  PROVE  /\ Len(d) \in Nat /\ Len(f) \in Nat
         /\ \A c \in 0..Len(d) : e[c] \in Nat /\ e[c] <= Len(f)
         /\ \A i, j \in 0..Len(d) : i < j => e[i] + 4 <= e[j]
<1> DEFINE k == Len(d)
           T == {j \in Nat : j <= k => \A i \in 0..k : i < j => e[i] + 4 <= e[j]}
<1>1. k \in Nat /\ Len(f) \in Nat
  BY LenProperties
<1>2. \A c \in 0..k : e[c] \in Nat /\ e[c] <= Len(f)
  <2>1. e \in [0..k -> 0..Len(f)]
    BY DEF Layout
  <2>2. \A c \in 0..k : e[c] \in 0..Len(f)
    BY <2>1
  <2> QED BY <1>1, <2>2
<1>3. ASSUME NEW c \in 1..k PROVE e[c - 1] + 4 <= e[c]
  <2> PICK t : t = Encoded(d[c])
    OBVIOUS
  <2>1. Len(t) \in Nat /\ Len(t) >= 4
    <3>1. d[c] \in Results
      BY ElementOfSeq
    <3> QED BY <3>1, EncodedIs
  <2>2. e[c - 1] + Len(t) = e[c]
    BY DEF Layout
  <2> PICK a \in Nat : a = e[c - 1]
    <3>1. c - 1 \in 0..k
      BY <1>1
    <3> QED BY <1>2, <3>1
  <2> PICK z \in Nat : z = e[c]
    <3>1. c \in 0..k
      BY <1>1
    <3> QED BY <1>2, <3>1
  <2>3. a + Len(t) = z
    BY <2>2
  <2>4. a + 4 <= z
    BY ONLY <2>1, <2>3, a \in Nat, z \in Nat
  <2> QED BY <2>4
<1> HIDE DEF k
<1>4. 0 \in T
  OBVIOUS
<1>5. ASSUME NEW j \in T \cap Nat PROVE j + 1 \in T
  <2> SUFFICES ASSUME j + 1 <= k, NEW i \in 0..k, i < j + 1 PROVE e[i] + 4 <= e[j + 1]
    OBVIOUS
  <2>1. j + 1 \in 1..k /\ (j + 1) - 1 = j /\ j \in 0..k /\ j + 1 \in 0..k
    BY <1>1
  <2>2. e[j] + 4 <= e[j + 1] /\ e[i] \in Nat /\ e[j] \in Nat /\ e[j + 1] \in Nat
    BY <1>2, <1>3, <2>1
  <2>3. CASE i = j
    BY <2>2, <2>3
  <2>4. CASE i < j
    <3>1. e[i] + 4 <= e[j]
      BY <2>1, <2>4
    <3> QED BY <2>2, <3>1
  <2> QED BY <1>1, <2>1, <2>3, <2>4
<1> HIDE DEF T
<1>6. \A j \in 0..k : j \in T
  BY <1>1, <1>4, <1>5, SetInduction
<1>7. \A i, j \in 0..k : i < j => e[i] + 4 <= e[j]
  BY <1>1, <1>6 DEF T
<1> QED BY <1>1, <1>2, <1>7 DEF k

\* A part of the bytes.
LEMMA PartStands ==
  ASSUME NEW f \in Seq(Nat), NEW o \in Nat, NEW at \in Nat, o <= at, at <= Len(f)
  PROVE  LET data == SubSeq(f, o + 1, at)
         IN /\ data \in Seq(Nat) /\ Len(data) = at - o
            /\ \A i \in 1..(at - o) : data[i] = f[o + i]
            /\ \A p \in Nat : \A x, y : Stands(data, p, x, y) <=>
                 p >= 1 /\ o + p + 1 <= at /\ Stands(f, o + p, x, y)
<1> DEFINE data == SubSeq(f, o + 1, at)
<1>1. Len(f) \in Nat
  BY LenProperties
<1>2. /\ data \in Seq(Nat) /\ Len(data) = at - o
      /\ \A i \in 1..(at - o) : data[i] = f[o + i]
  BY PartIs
<1> HIDE DEF data
<1>3. ASSUME NEW p \in Nat, NEW x, NEW y
      PROVE  Stands(data, p, x, y) <=> p >= 1 /\ o + p + 1 <= at /\ Stands(f, o + p, x, y)
  <2>1. p \in 1..(Len(data) - 1) <=> p >= 1 /\ o + p + 1 <= at /\ o + p \in 1..(Len(f) - 1)
    BY <1>1, <1>2
  <2>2. ASSUME p \in 1..(Len(data) - 1)
        PROVE  data[p] = f[o + p] /\ data[p + 1] = f[(o + p) + 1]
    <3>1. p \in 1..(at - o) /\ p + 1 \in 1..(at - o) /\ o + (p + 1) = (o + p) + 1
      <4>1. p \in 1..((at - o) - 1)
        BY <1>2, <2>2
      <4> QED BY <4>1
    <3> QED BY <1>2, <3>1
  <2> QED BY <2>1, <2>2 DEF Stands
<1> QED BY <1>2, <1>3 DEF data

\* A part of a part is a part.
LEMMA PartOfPart ==
  ASSUME NEW f \in Seq(Nat), NEW o \in Nat, NEW a \in Nat, NEW at \in Nat,
         o <= a, a <= at, at <= Len(f)
  PROVE  SubSeq(SubSeq(f, o + 1, at), (a - o) + 1, at - o) = SubSeq(f, a + 1, at)
<1> DEFINE data == SubSeq(f, o + 1, at)
           s == SubSeq(data, (a - o) + 1, at - o)
           t == SubSeq(f, a + 1, at)
<1>1. /\ data \in Seq(Nat) /\ Len(data) = at - o
      /\ \A i \in 1..(at - o) : data[i] = f[o + i]
  BY PartStands
<1>2. t \in Seq(Nat) /\ Len(t) = at - a /\ \A i \in 1..(at - a) : t[i] = f[a + i]
  BY PartStands
<1>3. a - o \in Nat /\ at - o \in Nat /\ a - o <= at - o /\ (at - o) - (a - o) = at - a
  OBVIOUS
<1> HIDE DEF data, t
<1>4. s \in Seq(Nat) /\ Len(s) = at - a /\ \A i \in 1..(at - a) : s[i] = data[(a - o) + i]
  <2> PICK p \in Nat : p = a - o
    BY <1>3
  <2> PICK q \in Nat : q = at - o
    BY <1>3
  <2>1. p <= q /\ q <= Len(data) /\ q - p = at - a
    BY <1>1, <1>3
  <2>2. /\ SubSeq(data, p + 1, q) \in Seq(Nat) /\ Len(SubSeq(data, p + 1, q)) = q - p
        /\ \A i \in 1..(q - p) : SubSeq(data, p + 1, q)[i] = data[p + i]
    BY <1>1, <2>1, PartStands
  <2> QED BY <2>1, <2>2
<1> HIDE DEF s
<1>5. \A i \in 1..(at - a) : s[i] = t[i]
  <2> TAKE i \in 1..(at - a)
  <2>1. (a - o) + i \in 1..(at - o) /\ o + ((a - o) + i) = a + i
    OBVIOUS
  <2> QED BY <1>1, <1>2, <1>4, <2>1
<1>6. s = t
  BY <1>2, <1>4, <1>5, SeqEqual
<1> QED BY <1>6 DEF s, t, data

\* A line that begins a record is that record, or the error of what is cut off:
\* no record begins another.
LEMMA LineIs ==
  ASSUME NEW r \in Results, NEW u \in Seq(Nat), Len(u) <= Len(Compressed(r)),
         \A i \in 1..Len(u) : u[i] = Compressed(r)[i]
  PROVE  Decompressed(u) = IF Len(u) = Len(Compressed(r)) THEN r ELSE None
<1> DEFINE code(s) == Compressed(s)
<1>1. \A s \in Results : code(s) \in Seq(Nat) /\ Len(code(s)) \in Nat
  <2> TAKE s \in Results
  <2>1. code(s) \in Seq(Nat)
    BY EncodedIs
  <2> HIDE DEF code
  <2> QED BY <2>1, LenProperties
<1>2. \A s \in Results : IsPrefix(code(s), code(r)) => s = r
  BY FileReaderAssumption
<1>3. Decompressed(u) =
        IF \E s \in Results : IsPrefix(code(s), u)
        THEN CHOOSE s \in Results : IsPrefix(code(s), u) ELSE None
  BY DEF Decompressed
<1>4. Len(u) <= Len(code(r)) /\ \A i \in 1..Len(u) : u[i] = code(r)[i]
  OBVIOUS
<1> HIDE DEF code
<1>5. PICK n \in Nat : n = Len(u)
  BY LenProperties
<1>6. ASSUME NEW s \in Results, IsPrefix(code(s), u) PROVE s = r /\ Len(code(r)) <= n
  <2> PICK m \in Nat : m = Len(code(s))
    BY <1>1
  <2>1. m <= n /\ SubSeq(code(s), 1, m) = SubSeq(u, 1, m)
    BY <1>5, <1>6 DEF IsPrefix
  <2>2. SubSeq(u, 1, m) = SubSeq(code(r), 1, m)
    <3> PICK c \in Seq(Nat) : c = code(r)
      BY <1>1
    <3>1. Len(c) \in Nat /\ n <= Len(c) /\ \A i \in 1..n : u[i] = c[i]
      BY <1>4, <1>5, LenProperties
    <3>2. 0 \in Nat /\ 0 <= m /\ m <= Len(u) /\ m <= Len(c) /\ m - 0 = m /\ 0 + 1 = 1
      BY <1>5, <2>1, <3>1
    <3> PICK x : x = SubSeq(u, 0 + 1, m)
      OBVIOUS
    <3> PICK y : y = SubSeq(c, 0 + 1, m)
      OBVIOUS
    <3>3. x \in Seq(Nat) /\ Len(x) = m /\ \A i \in 1..m : x[i] = u[0 + i]
      <4>1. x \in Seq(Nat) /\ Len(x) = m - 0 /\ \A i \in 1..(m - 0) : x[i] = u[0 + i]
        BY <3>2, PartStands
      <4> QED BY <3>2, <4>1
    <3>4. y \in Seq(Nat) /\ Len(y) = m /\ \A i \in 1..m : y[i] = c[0 + i]
      <4>1. y \in Seq(Nat) /\ Len(y) = m - 0 /\ \A i \in 1..(m - 0) : y[i] = c[0 + i]
        BY <3>2, PartStands
      <4> QED BY <3>2, <4>1
    <3>5. \A i \in 1..m : 0 + i = i /\ i \in 1..n
      BY <2>1
    <3>6. \A i \in 1..m : x[i] = y[i]
      BY <3>1, <3>3, <3>4, <3>5
    <3>7. x = y
      BY <3>3, <3>4, <3>6, SeqEqual
    <3> QED BY <3>2, <3>7
  <2>3. Len(code(r)) \in Nat /\ n <= Len(code(r))
    BY <1>1, <1>4, <1>5
  <2>4. IsPrefix(code(s), code(r))
    <3>1. m <= Len(code(r))
      BY <2>1, <2>3
    <3>2. SubSeq(code(s), 1, m) = SubSeq(code(r), 1, m)
      BY <2>1, <2>2
    <3> QED BY <3>1, <3>2 DEF IsPrefix
  <2>5. s = r
    BY <1>2, <2>4
  <2> QED BY <2>1, <2>5
<1>7. ASSUME n = Len(code(r)) PROVE Decompressed(u) = r
  <2>1. u = code(r)
    BY <1>1, <1>4, <1>5, <1>7, SeqEqual
  <2>2. IsPrefix(code(r), u)
    <3>1. Len(code(r)) <= Len(u)
      BY <1>5, <1>7
    <3> QED BY <2>1, <3>1 DEF IsPrefix
  <2>3. \A s \in Results : IsPrefix(code(s), u) => s = r
    BY <1>6
  <2> QED BY <1>3, <2>2, <2>3
<1>8. ASSUME n # Len(code(r)) PROVE Decompressed(u) = None
  <2>1. ~(Len(code(r)) <= n)
    <3>1. n <= Len(code(r)) /\ Len(code(r)) \in Nat
      BY <1>1, <1>4, <1>5
    <3> QED BY <1>8, <3>1
  <2>2. \A s \in Results : ~IsPrefix(code(s), u)
    BY <1>6, <2>1
  <2> QED BY <1>3, <2>2
<1> QED BY <1>5, <1>7, <1>8 DEF code

\* No end mark ends behind a and not behind at.
NoMark(f, a, at) == \A p \in Nat : p > a /\ Stands(f, p, 0, 2) => p + 1 > at

\* The bytes s stand behind q.
Follows(f, q, s) == q + Len(s) <= Len(f) /\ \A i \in 1..Len(s) : f[q + i] = s[i]

\* The same marks stand there.
LEMMA FollowsStands ==
  ASSUME NEW f \in Seq(Nat), NEW s \in Seq(Nat), NEW q \in Nat, Follows(f, q, s),
         NEW i \in 1..(Len(s) - 1), NEW x, NEW y
  PROVE  Stands(f, q + i, x, y) <=> Stands(s, i, x, y)
<1>1. PICK n \in Nat : n = Len(f)
  BY LenProperties
<1>2. PICK l \in Nat : l = Len(s)
  BY LenProperties
<1>3. /\ q + l <= n /\ i \in 1..(l - 1) /\ i + 1 \in 1..l /\ i \in 1..l
      /\ q + i \in 1..(n - 1) /\ (q + i) + 1 = q + (i + 1)
  <2>1. q + l <= n /\ i \in 1..(l - 1)
    BY <1>1, <1>2 DEF Follows
  <2> QED BY ONLY <2>1, q \in Nat, n \in Nat, l \in Nat
<1>4. f[q + i] = s[i] /\ f[(q + i) + 1] = s[i + 1]
  <2>1. \A j \in 1..l : f[q + j] = s[j]
    BY <1>2 DEF Follows
  <2>2. f[q + i] = s[i] /\ f[q + (i + 1)] = s[i + 1]
    BY ONLY <1>3, <2>1
  <2> QED BY ONLY <1>3, <2>2
<1> QED BY <1>1, <1>2, <1>3, <1>4 DEF Stands

\* The record r stands behind q, and its first end mark, at p in it, is among the
\* first at bytes.
NextIs(f, q, at, r, p) ==
    Follows(f, q, Encoded(r)) /\ EndsAt(r, p) /\ (q + p) + 1 <= at

\* It is found, or the error of what stands before the mark.
FindsNext(f, o, q, at, r, p, g) ==
    Parses(g, SubSeq(f, o + 1, at), (q - o) + 1) =
      Before(IF p = Len(Encoded(r)) - 1 THEN r ELSE None, g[(((q + p) + 1) - o) + 1])

\* From q on, the start mark is that of the record and the end mark its first.
LEMMA RecordFound ==
  ASSUME NEW f \in Seq(Nat), NEW o \in Nat, NEW q \in Nat, NEW at \in Nat,
         NEW r \in Results, NEW p \in Nat, NEW g, o <= q, at <= Len(f), NextIs(f, q, at, r, p)
  PROVE  FindsNext(f, o, q, at, r, p, g)
<1> DEFINE data == SubSeq(f, o + 1, at)
           pos == (q - o) + 1
           rstart == Find(data, ZLIB_START, pos)
           rend == IF rstart = 0 THEN 0 ELSE Find(data, ZLIB_END, rstart + 1)
           t == Encoded(r)
           code == Compressed(r)
<1> PICK l \in Nat : l = Len(Encoded(r))
  BY EncodedIs
<1> PICK n \in Nat : n = Len(f)
  BY LenProperties
<1>1. /\ q + l <= n /\ p >= 3 /\ p <= l - 1 /\ (q + p) + 1 <= at
      /\ o <= q /\ at <= n /\ o <= at
      /\ Stands(t, p, 0, 2) /\ \A i \in 1..(p - 1) : ~Stands(t, i, 0, 2)
  <2>1. /\ q + l <= n /\ p \in 3..(l - 1) /\ (q + p) + 1 <= at /\ o <= q /\ at <= n
        /\ Stands(t, p, 0, 2) /\ \A i \in 1..(p - 1) : ~Stands(t, i, 0, 2)
    BY DEF NextIs, EndsAt, Follows
  <2>2. p >= 3 /\ p <= l - 1 /\ o <= at
    BY <2>1
  <2> QED BY <2>1, <2>2
<1>2. /\ data \in Seq(Nat) /\ Len(data) = at - o
      /\ \A i \in 1..(at - o) : data[i] = f[o + i]
      /\ \A i \in Nat : \A x, y : Stands(data, i, x, y) <=>
           i >= 1 /\ o + i + 1 <= at /\ Stands(f, o + i, x, y)
  <2>1. o <= at /\ at <= Len(f)
    BY <1>1
  <2> QED BY ONLY <2>1, f \in Seq(Nat), o \in Nat, at \in Nat, PartStands
<1> HIDE DEF data
<1> DEFINE m == q - o
<1>3. m \in Nat /\ o + m = q
  BY <1>1
<1> HIDE DEF m
<1>4. pos = m + 1 /\ pos \in 1..(Len(data) + 1)
  <2>1. pos = m + 1
    BY DEF m
  <2> QED BY <1>1, <1>2, <1>3, <2>1
<1> HIDE DEF pos
<1>5. /\ rstart \in Nat /\ rend \in Nat
      /\ rstart = 0 => \A i \in Nat : i >= pos => ~Stands(data, i, 0, 1)
      /\ rstart # 0 => /\ rstart >= pos /\ Stands(data, rstart, 0, 1)
                       /\ \A i \in Nat : i >= pos /\ Stands(data, i, 0, 1) => rstart <= i
      /\ rstart # 0 /\ rend = 0 => \A i \in Nat : i > rstart => ~Stands(data, i, 0, 2)
      /\ rend # 0 => /\ rstart # 0 /\ rend > rstart /\ Stands(data, rend, 0, 2)
                     /\ \A i \in Nat : i > rstart /\ Stands(data, i, 0, 2) => rend <= i
                     /\ AfterRecord(rend) = rend + 2
  BY <1>2, <1>4, NextRecord
<1>6. Parses(g, data, pos) =
        IF rend = 0 THEN [records |-> <<>>, remaining |-> Remaining(data, pos)]
        ELSE Before(Decompressed(SubSeq(data, rstart, rend - 1)), g[AfterRecord(rend)])
  BY DEF Parses
<1> HIDE DEF rstart, rend
<1>7. /\ l >= 4 /\ t \in Seq(Nat) /\ code \in Seq(Nat) /\ Len(code) = l - 2
      /\ \A i \in 1..(l - 2) : t[i] = code[i]
      /\ t[1] = 0 /\ t[2] = 1
  BY EncodedIs
<1>8. \A i \in 1..l : f[q + i] = t[i]
  BY DEF NextIs, Follows
<1>9. \A i \in 1..(l - 1) : \A x, y : Stands(f, q + i, x, y) <=> Stands(t, i, x, y)
  BY <1>7, FollowsStands DEF NextIs
<1> HIDE DEF t, code
\* The marks of the record, where they stand in data.
<1>10. ASSUME NEW i \in 1..(l - 1), q + i + 1 <= at, NEW x, NEW y
       PROVE  Stands(data, m + i, x, y) <=> Stands(t, i, x, y)
  <2>1. m + i \in Nat /\ m + i >= 1 /\ o + (m + i) = q + i /\ o + (m + i) + 1 <= at
    BY <1>3, <1>10
  <2>2. Stands(data, m + i, x, y) <=> Stands(f, q + i, x, y)
    BY <1>2, <2>1
  <2> QED BY <1>9, <2>2
<1>11. rstart = m + 1
  <2>1. 1 \in 1..(l - 1) /\ q + 1 + 1 <= at /\ m + 1 \in Nat
    BY <1>1, <1>3
  <2>2. Stands(t, 1, 0, 1)
    <3>1. 1 + 1 = 2 /\ 1 \in 1..(Len(t) - 1)
      BY <2>1 DEF t
    <3> QED BY <1>7, <3>1 DEF Stands
  <2>3. Stands(data, m + 1, 0, 1)
    BY <1>10, <2>1, <2>2
  <2>4. m + 1 >= pos
    BY <1>4, <2>1
  <2>5. rstart # 0 /\ rstart >= m + 1 /\ rstart <= m + 1
    BY <1>4, <1>5, <2>1, <2>3, <2>4
  <2> QED BY <1>5, <2>1, <2>5
<1>12. rend = m + p
  <2>1. p \in 1..(l - 1) /\ q + p + 1 <= at /\ m + p \in Nat /\ m + p > m + 1
    BY <1>1, <1>3
  <2>2. Stands(data, m + p, 0, 2)
    BY <1>1, <1>10, <2>1
  <2>3. rend # 0 /\ rend <= m + p /\ rend > m + 1 /\ Stands(data, rend, 0, 2)
    <3>1. rstart # 0 /\ m + p > rstart
      BY <1>3, <1>11, <2>1
    <3>2. rend # 0
      BY ONLY <1>5, <2>1, <2>2, <3>1
    <3>3. rend > rstart /\ Stands(data, rend, 0, 2) /\ rend <= m + p
      BY ONLY <1>5, <2>1, <2>2, <3>1, <3>2
    <3> QED BY ONLY <1>11, <3>2, <3>3
  <2>4. ASSUME rend # m + p PROVE FALSE
    <3> DEFINE i == rend - m
    <3>1. i \in 1..(p - 1) /\ m + i = rend /\ i \in 1..(l - 1) /\ q + i + 1 <= at
      BY <1>1, <1>3, <1>5, <2>1, <2>3, <2>4, SMTT(40)
    <3> HIDE DEF i
    <3>2. Stands(t, i, 0, 2)
      BY <1>10, <2>3, <3>1
    <3> QED BY <1>1, <3>1, <3>2
  <2> QED BY <2>4
\* The line between them.
<1> DEFINE u == SubSeq(data, rstart, rend - 1)
<1>13. u \in Seq(Nat) /\ Len(u) = p - 1 /\ \A i \in 1..(p - 1) : u[i] = code[i]
  <2> DEFINE w == (m + p) - 1
  <2>1. w \in Nat /\ m <= w /\ w - m = p - 1 /\ w <= Len(data)
    <3>1. w \in Nat /\ m <= w /\ w - m = p - 1 /\ o + w <= at
      BY <1>1, <1>3
    <3> QED BY <1>1, <1>2, <3>1
  <2>2. u = SubSeq(data, m + 1, w)
    BY <1>11, <1>12
  <2> HIDE DEF u, w
  <2>3. /\ SubSeq(data, m + 1, w) \in Seq(Nat) /\ Len(SubSeq(data, m + 1, w)) = w - m
        /\ \A i \in 1..(w - m) : SubSeq(data, m + 1, w)[i] = data[m + i]
    <3>1. m \in Nat /\ w \in Nat /\ m <= w
      BY <1>3, <2>1
    <3>2. data \in Seq(Nat) /\ w <= Len(data)
      BY <1>2, <2>1
    <3>3. /\ SubSeq(data, m + 1, w) \in Seq(Nat)
          /\ Len(SubSeq(data, m + 1, w)) = IF m <= w THEN w - m ELSE 0
          /\ \A i \in 1..(w - m) : SubSeq(data, m + 1, w)[i] = data[m + i]
      BY ONLY <3>1, <3>2, PartIs
    <3> QED BY ONLY <3>1, <3>3
  <2>4. ASSUME NEW i \in 1..(p - 1) PROVE u[i] = code[i]
    <3>1. i \in 1..(w - m) /\ i \in 1..l /\ i \in 1..(l - 2)
      <4>1. w - m = p - 1 /\ p <= l - 1
        BY <1>1, <2>1
      <4> QED BY ONLY <4>1, p \in Nat, l \in Nat, i \in 1..(p - 1)
    <3>2. m + i \in 1..(at - o) /\ o + (m + i) = q + i
      BY <1>1, <1>3
    <3>3. u[i] = data[m + i] /\ data[m + i] = f[q + i]
      BY <1>2, <2>2, <2>3, <3>1, <3>2
    <3> QED BY <1>7, <1>8, <3>1, <3>3
  <2> QED BY <2>1, <2>2, <2>3, <2>4
<1> HIDE DEF u
<1>14. Decompressed(u) = IF p = l - 1 THEN r ELSE None
  <2>1. Len(u) <= Len(code) /\ \A i \in 1..Len(u) : u[i] = code[i]
    BY <1>1, <1>7, <1>13
  <2>2. Decompressed(u) = IF Len(u) = Len(code) THEN r ELSE None
    BY <1>13, <2>1, LineIs DEF code
  <2>3. Len(u) = Len(code) <=> p = l - 1
    BY <1>1, <1>7, <1>13
  <2> QED BY <2>2, <2>3
<1>15. rend # 0 /\ AfterRecord(rend) = (((q + p) + 1) - o) + 1
  <2>1. rend # 0 /\ rend = m + p
    BY <1>1, <1>3, <1>12
  <2>2. AfterRecord(rend) = rend + 2
    BY <1>5, <2>1
  <2> QED BY ONLY <1>1, <1>3, <2>1, <2>2, q \in Nat, p \in Nat, o \in Nat
<1>16. Parses(g, data, pos) = Before(Decompressed(u), g[(((q + p) + 1) - o) + 1])
  BY <1>6, <1>15 DEF u
<1>17. l = Len(Encoded(r))
  OBVIOUS
<1> QED BY <1>14, <1>16, <1>17 DEF FindsNext, data, pos

FindsNone(f, o, a, at, g) ==
    Parses(g, SubSeq(f, o + 1, at), (a - o) + 1) =
      [records |-> <<>>, remaining |-> SubSeq(f, a + 1, at)]

\* ... and without an end mark there is none.
LEMMA NoRecord ==
  ASSUME NEW f \in Seq(Nat), NEW o \in Nat, NEW a \in Nat, NEW at \in Nat, NEW g,
         o <= a, a <= at, at <= Len(f),
         NoMark(f, a, at)
  PROVE  FindsNone(f, o, a, at, g)
<1> SUFFICES Parses(g, SubSeq(f, o + 1, at), (a - o) + 1) =
               [records |-> <<>>, remaining |-> SubSeq(f, a + 1, at)]
  BY DEF FindsNone
<1> DEFINE data == SubSeq(f, o + 1, at)
           pos == (a - o) + 1
           rstart == Find(data, ZLIB_START, pos)
           rend == IF rstart = 0 THEN 0 ELSE Find(data, ZLIB_END, rstart + 1)
<1>1. Len(f) \in Nat /\ o <= at
  BY LenProperties
<1>2. /\ data \in Seq(Nat) /\ Len(data) = at - o
      /\ \A p \in Nat : \A x, y : Stands(data, p, x, y) <=>
           p >= 1 /\ o + p + 1 <= at /\ Stands(f, o + p, x, y)
  BY <1>1, PartStands
<1> HIDE DEF data
<1>3. pos \in 1..(Len(data) + 1) /\ pos \in Nat /\ pos >= 1 /\ o + pos = a + 1
  BY <1>1, <1>2
<1>4. Remaining(data, pos) = SubSeq(f, a + 1, at)
  <2>1. SubSeq(SubSeq(f, o + 1, at), (a - o) + 1, at - o) = SubSeq(f, a + 1, at)
    BY PartOfPart
  <2> QED BY <1>2, <2>1 DEF Remaining, data
<1> HIDE DEF pos
<1>5. /\ rstart \in Nat /\ rend \in Nat
      /\ rstart # 0 => rstart >= pos
      /\ rend # 0 => rstart # 0 /\ rend > rstart /\ Stands(data, rend, 0, 2)
  BY <1>2, <1>3, NextRecord
<1>6. Parses(g, data, pos) =
        IF rend = 0 THEN [records |-> <<>>, remaining |-> Remaining(data, pos)]
        ELSE Before(Decompressed(SubSeq(data, rstart, rend - 1)), g[AfterRecord(rend)])
  BY DEF Parses
<1> HIDE DEF rstart, rend
<1>7. rend = 0
  <2> SUFFICES ASSUME rend # 0 PROVE FALSE
    OBVIOUS
  <2>1. o + rend \in Nat /\ Stands(f, o + rend, 0, 2) /\ o + rend + 1 <= at
    BY <1>2, <1>5
  <2>2. o + rend > a
    BY <1>3, <1>5
  <2>3. (o + rend) + 1 > at
    BY <2>1, <2>2 DEF NoMark
  <2> QED BY <2>1, <2>3
<1> QED BY <1>4, <1>6, <1>7 DEF data, pos

\* From the end of record c on, the next one is found if it is there, unless it
\* holds an end mark: then, once that is there, the error of what stands before
\* it.  What comes after that error does not matter.
StepsTo(d, f, e, c, o, at, g) ==
    LET found == Parses(g, SubSeq(f, o + 1, at), (e[c] - o) + 1)
    IN \/ c < Len(d) /\ e[c + 1] <= at /\ found = Before(d[c + 1], g[(e[c + 1] - o) + 1])
       \/ /\ c < Len(d) /\ HoldsMark(d[c + 1])
          /\ \E y \in 1..((at - o) + 1) : found = Before(None, g[y])
       \/ /\ c < Len(d) => at < e[c + 1]
          /\ found = [records |-> <<>>, remaining |-> SubSeq(f, e[c] + 1, at)]

\* That is what Parsed does at each of its steps.
LEMMA LayoutStep ==
  ASSUME NEW d \in Seq(Results), NEW f \in Seq(Nat), NEW e,
         Layout(e, d, f), NEW c \in 0..Len(d), NEW o \in Nat, o <= e[c],
         NEW at \in Nat, e[c] <= at, at <= Len(f), NEW g
  PROVE  StepsTo(d, f, e, c, o, at, g)
<1>1. /\ Len(d) \in Nat /\ Len(f) \in Nat
      /\ \A i \in 0..Len(d) : e[i] \in Nat /\ e[i] <= Len(f)
  BY LayoutGrows
<1>2. PICK a \in Nat : a = e[c]
  BY <1>1
<1>3. PICK n \in Nat : n = Len(f)
  BY <1>1
<1>4. o <= a /\ a <= at /\ at <= n
  BY <1>2, <1>3
<1> DEFINE found == Parses(g, SubSeq(f, o + 1, at), (a - o) + 1)
           none == [records |-> <<>>, remaining |-> SubSeq(f, a + 1, at)]
<1>5. ASSUME NoMark(f, a, at) PROVE found = none
  <2>1. o <= a /\ a <= at /\ at <= Len(f)
    BY <1>3, <1>4
  <2>2. FindsNone(f, o, a, at, g)
    BY <1>5, <2>1, NoRecord
  <2> QED BY <2>2 DEF FindsNone
<1> HIDE DEF found, none
<1>6. CASE ~(c < Len(d))
  <2>1. a = n
    <3>1. c = Len(d)
      BY <1>1, <1>6
    <3> QED BY <1>2, <1>3, <3>1 DEF Layout
  <2>2. NoMark(f, a, at)
    <3> SUFFICES ASSUME NEW p \in Nat, p > a, ~(p + 1 > at) PROVE FALSE
      BY DEF NoMark
    <3> QED BY ONLY <1>4, <2>1, p > a, ~(p + 1 > at), p \in Nat, a \in Nat, at \in Nat, n \in Nat
  <2> QED BY <1>2, <1>5, <1>6, <2>2 DEF StepsTo, found, none
<1>7. CASE c < Len(d)
  <2>1. c + 1 \in 1..Len(d) /\ c + 1 \in 0..Len(d) /\ (c + 1) - 1 = c
    BY <1>1, <1>7
  <2>2. PICK z \in Nat : z = e[c + 1] /\ z <= n
    BY <1>1, <1>3, <2>1
  <2>3. PICK r \in Results : r = d[c + 1]
    BY <2>1, ElementOfSeq
  <2> PICK t \in Seq(Nat) : t = Encoded(r)
    BY EncodedIs
  <2> PICK l \in Nat : l = Len(t)
    BY LenProperties
  <2>4. a + l = z /\ \A i \in 1..l : f[(z - l) + i] = t[i]
    BY <1>2, <2>1, <2>2, <2>3, ZenonT(40) DEF Layout
  <2>5. z - l = a
    BY ONLY <2>4, a \in Nat, l \in Nat, z \in Nat
  <2>6. Follows(f, a, t)
    BY <1>3, <2>2, <2>4, <2>5 DEF Follows
  <2>7. PICK p \in Nat : EndsAt(r, p)
    BY EndIs
  <2>8. /\ p >= 3 /\ p <= l - 1
        /\ \A i \in 1..(p - 1) : ~Stands(t, i, 0, 2)
        /\ p # l - 1 => HoldsMark(r)
    <3>1. /\ p \in 3..(l - 1)
          /\ \A i \in 1..(p - 1) : ~Stands(t, i, 0, 2)
          /\ p # l - 1 => HoldsMark(r)
      BY <2>7 DEF EndsAt
    <3> QED BY <3>1
  <2>9. CASE (a + p) + 1 <= at
    <3>1. NextIs(f, a, at, r, p)
      BY <2>6, <2>7, <2>9 DEF NextIs
    <3>2. FindsNext(f, o, a, at, r, p, g)
      <4>1. o <= a /\ at <= Len(f)
        BY <1>3, <1>4
      <4> QED BY <3>1, <4>1, RecordFound
    <3>3. found = Before(IF p = l - 1 THEN r ELSE None, g[(((a + p) + 1) - o) + 1])
      BY <3>2 DEF FindsNext, found
    <3>4. CASE p = l - 1
      <4>1. (a + p) + 1 = z
        BY ONLY <2>4, <3>4, a \in Nat, l \in Nat, z \in Nat, p \in Nat
      <4>2. z <= at
        BY <2>9, <4>1
      <4>3. found = Before(r, g[(z - o) + 1])
        BY <3>3, <3>4, <4>1
      <4> QED BY <1>2, <1>7, <2>2, <2>3, <4>2, <4>3 DEF StepsTo, found
    <3>5. CASE p # l - 1
      <4>1. (((a + p) + 1) - o) + 1 \in 1..((at - o) + 1)
        BY ONLY <1>4, <2>9, a \in Nat, p \in Nat, o \in Nat, at \in Nat
      <4>2. \E y \in 1..((at - o) + 1) : found = Before(None, g[y])
        BY <3>3, <3>5, <4>1
      <4>3. HoldsMark(d[c + 1])
        BY <2>3, <2>8, <3>5
      <4> QED BY <1>2, <1>7, <4>2, <4>3 DEF StepsTo, found
    <3> QED BY <3>4, <3>5
  <2>10. CASE ~((a + p) + 1 <= at)
    <3>1. at < z
      BY ONLY <2>4, <2>8, <2>10, a \in Nat, p \in Nat, l \in Nat, z \in Nat, at \in Nat
    <3>2. NoMark(f, a, at)
      <4> SUFFICES ASSUME NEW x \in Nat, x > a, Stands(f, x, 0, 2), ~(x + 1 > at) PROVE FALSE
        BY DEF NoMark
      <4> PICK i \in Nat : i = x - a
        OBVIOUS
      <4>1. i \in 1..(p - 1) /\ i \in 1..(l - 1) /\ a + i = x
        BY ONLY <2>8, <2>10, x > a, ~(x + 1 > at), i = x - a, i \in Nat, x \in Nat, a \in Nat,
                p \in Nat, l \in Nat, at \in Nat
      <4>2. Stands(t, i, 0, 2)
        <5>1. i \in 1..(Len(t) - 1) /\ Stands(f, a + i, 0, 2)
          BY <4>1
        <5> QED BY <2>6, <5>1, FollowsStands
      <4> QED BY <2>8, <4>1, <4>2
    <3>3. found = none
      BY <1>5, <3>2
    <3> QED BY <1>2, <1>7, <2>2, <3>1, <3>3 DEF StepsTo, found, none
  <2> QED BY <2>9, <2>10
<1> QED BY <1>6, <1>7

\* k is the last record that ends in the first at bytes.
LastBy(k, e, d, at) ==
    /\ k \in 0..Len(d) /\ e[k] <= at
    /\ k < Len(d) => at < e[k + 1]

\* z begins with the records of d behind the first b, up to k.  They are all that
\* end there and m is the rest, or the next one holds an end mark and is an error.
Yields(z, m, d, f, e, b, at, k) ==
    /\ \A i \in 1..(k - b) : z[i] = d[b + i]
    /\ \/ LastBy(k, e, d, at) /\ Len(z) = k - b /\ m = SubSeq(f, e[k] + 1, at)
       \/ k < Len(d) /\ HoldsMark(d[k + 1]) /\ Len(z) > k - b /\ z[(k - b) + 1] = None

\* What is found from the end of record b on.
ParsesAll(d, f, e, b, at) ==
    \E k \in b..Len(d), z \in Seq(Records), m \in Seq(Nat) :
      /\ Yields(z, m, d, f, e, b, at, k)
      /\ Parsed(SubSeq(f, e[b] + 1, at)) = [records |-> z, remaining |-> m]

\* A record more in front.
LEMMA YieldsMore ==
  ASSUME NEW d \in Seq(Results), NEW f, NEW e, NEW at, NEW c \in Nat, c < Len(d),
         NEW k \in (c + 1)..Len(d), NEW z \in Seq(Records), NEW m,
         Yields(z, m, d, f, e, c + 1, at, k)
  PROVE  /\ <<d[c + 1]>> \o z \in Seq(Records)
         /\ Yields(<<d[c + 1]>> \o z, m, d, f, e, c, at, k)
<1> PICK n \in Nat : n = Len(d)
  BY LenProperties
<1> PICK l \in Nat : l = Len(z)
  BY LenProperties
<1> PICK x : x = d[c + 1]
  OBVIOUS
<1> PICK y : y = <<x>> \o z
  OBVIOUS
<1>1. c < n /\ k \in (c + 1)..n /\ k \in Nat /\ (c + 1) - 1 = c
  OBVIOUS
<1>2. x \in Records
  <2>1. c + 1 \in 1..Len(d)
    BY <1>1
  <2>2. x \in Results
    BY <2>1, ElementOfSeq
  <2> QED BY <2>2 DEF Records
<1>3. /\ y \in Seq(Records) /\ Len(y) = 1 + l
      /\ \A i \in 1..(1 + l) : y[i] = IF i <= 1 THEN x ELSE z[i - 1]
  <2>1. <<x>> \in Seq(Records) /\ Len(<<x>>) = 1 /\ <<x>>[1] = x
    BY <1>2
  <2>2. PICK w : w = <<x>>
    OBVIOUS
  <2>3. w \in Seq(Records) /\ Len(w) = 1 /\ w[1] = x /\ y = w \o z
    BY <2>1, <2>2
  <2>4. /\ w \o z \in Seq(Records) /\ Len(w \o z) = Len(w) + Len(z)
        /\ \A i \in 1..(Len(w) + Len(z)) :
             (w \o z)[i] = IF i <= Len(w) THEN w[i] ELSE z[i - Len(w)]
    BY ONLY <2>3, z \in Seq(Records), ConcatProperties
  <2>5. \A i \in 1..(1 + l) : i <= 1 => i = 1
    OBVIOUS
  <2> QED BY ONLY <2>3, <2>4, <2>5, l = Len(z)
<1>4. /\ \A i \in 1..(k - (c + 1)) : z[i] = d[(c + 1) + i]
      /\ \/ LastBy(k, e, d, at) /\ l = k - (c + 1) /\ m = SubSeq(f, e[k] + 1, at)
         \/ /\ k < n /\ HoldsMark(d[k + 1]) /\ l > k - (c + 1)
            /\ z[(k - (c + 1)) + 1] = None
  BY DEF Yields
<1>5. l >= k - (c + 1)
  BY <1>1, <1>4
<1>6. ASSUME NEW i \in 1..(k - c) PROVE y[i] = d[c + i]
  <2>1. i \in 1..(1 + l)
    BY <1>1, <1>5
  <2>2. CASE i = 1
    BY <1>3, <2>1, <2>2
  <2>3. CASE i # 1
    <3>1. ~(i <= 1) /\ i - 1 \in 1..(k - (c + 1)) /\ (c + 1) + (i - 1) = c + i
      BY <1>1, <2>3
    <3>2. y[i] = z[i - 1]
      BY <1>3, <2>1, <3>1
    <3> QED BY <1>4, <3>1, <3>2
  <2> QED BY <2>2, <2>3
<1>7. CASE LastBy(k, e, d, at) /\ l = k - (c + 1) /\ m = SubSeq(f, e[k] + 1, at)
  <2>1. Len(y) = k - c
    BY <1>1, <1>3, <1>7
  <2> QED BY <1>3, <1>6, <1>7, <2>1 DEF Yields
<1>8. CASE /\ k < n /\ HoldsMark(d[k + 1]) /\ l > k - (c + 1)
           /\ z[(k - (c + 1)) + 1] = None
  <2>1. /\ Len(y) > k - c /\ (k - c) + 1 \in 1..(1 + l) /\ ~((k - c) + 1 <= 1)
        /\ ((k - c) + 1) - 1 = (k - (c + 1)) + 1
    BY <1>1, <1>3, <1>8
  <2>2. y[(k - c) + 1] = None
    BY <1>3, <1>8, <2>1
  <2> QED BY <1>3, <1>6, <1>8, <2>1, <2>2 DEF Yields
<1> QED BY <1>4, <1>7, <1>8

\* Parsed does that from the end of any record on.
LEMMA ParsedLayout ==
  ASSUME NEW d \in Seq(Results), NEW f \in Seq(Nat), NEW e,
         Layout(e, d, f), NEW b \in 0..Len(d), NEW at \in Nat, e[b] <= at, at <= Len(f)
  PROVE  ParsesAll(d, f, e, b, at)
<1> DEFINE n == Len(d)
<1>1. /\ n \in Nat /\ Len(f) \in Nat
      /\ \A i \in 0..n : e[i] \in Nat /\ e[i] <= Len(f)
      /\ \A i, j \in 0..n : i < j => e[i] + 4 <= e[j]
  BY LayoutGrows
<1>2. PICK o \in Nat : o = e[b]
  BY <1>1
<1> DEFINE data == SubSeq(f, o + 1, at)
<1>3. data \in Seq(Nat) /\ Len(data) = at - o /\ o <= at
  <2>1. o <= at
    BY <1>2
  <2> QED BY <2>1, PartStands
<1> HIDE DEF data
<1>4. PICK g : /\ \A pos \in 1..(Len(data) + 1) : g[pos] = Parses(g, data, pos)
               /\ Parsed(data) = g[1]
  BY <1>3, ParsedIs
<1> DEFINE Found(c) ==
             \E k \in c..n, z \in Seq(Records), m \in Seq(Nat) :
               /\ Yields(z, m, d, f, e, c, at, k)
               /\ g[(e[c] - o) + 1] = [records |-> z, remaining |-> m]
           T == {i \in Nat : \A c \in b..n : c + i = n /\ e[c] <= at => Found(c)}
<1> HIDE DEF n
<1>5. ASSUME NEW c \in b..n, e[c] <= at
      PROVE  /\ c \in 0..n /\ o <= e[c]
             /\ g[(e[c] - o) + 1] = Parses(g, data, (e[c] - o) + 1)
  <2>1. c \in 0..n /\ b \in 0..n
    BY <1>1 DEF n
  <2>2. PICK a \in Nat : a = e[c]
    BY <1>1, <2>1
  <2>3. o <= a
    <3>1. CASE b = c
      BY <1>2, <2>2, <3>1
    <3>2. CASE b < c
      <4>1. e[b] + 4 <= e[c]
        BY <1>1, <2>1, <3>2
      <4>2. o + 4 <= a
        BY <1>2, <2>2, <4>1
      <4> QED BY ONLY <4>2, o \in Nat, a \in Nat
    <3> QED BY <1>1, <2>1, <3>1, <3>2
  <2>4. a <= at
    BY <1>5, <2>2
  <2>5. (a - o) + 1 \in 1..(Len(data) + 1)
    BY ONLY <1>3, <2>3, <2>4, o \in Nat, a \in Nat, at \in Nat
  <2> QED BY <1>4, <2>1, <2>2, <2>3, <2>5
<1>6. ASSUME NEW c \in b..n, e[c] <= at, c < n /\ e[c + 1] <= at => Found(c + 1)
      PROVE  Found(c)
  <2>1. c \in 0..n /\ c \in Nat /\ o <= e[c]
    BY <1>1, <1>5, <1>6
  <2>2. StepsTo(d, f, e, c, o, at, g)
    BY <1>6, <2>1, LayoutStep DEF n
  <2> PICK x : x = g[(e[c] - o) + 1]
    OBVIOUS
  <2>3. \/ c < n /\ e[c + 1] <= at /\ x = Before(d[c + 1], g[(e[c + 1] - o) + 1])
        \/ /\ c < n /\ HoldsMark(d[c + 1])
           /\ \E y \in 1..((at - o) + 1) : x = Before(None, g[y])
        \/ /\ c < n => at < e[c + 1]
           /\ x = [records |-> <<>>, remaining |-> SubSeq(f, e[c] + 1, at)]
    <3>1. x = Parses(g, SubSeq(f, o + 1, at), (e[c] - o) + 1)
      BY <1>5, <1>6 DEF data
    <3> QED BY <2>2, <3>1 DEF StepsTo, n
  <2>4. CASE c < n /\ e[c + 1] <= at /\ x = Before(d[c + 1], g[(e[c + 1] - o) + 1])
    <3>1. PICK k \in (c + 1)..n, z \in Seq(Records), m \in Seq(Nat) :
            /\ Yields(z, m, d, f, e, c + 1, at, k)
            /\ g[(e[c + 1] - o) + 1] = [records |-> z, remaining |-> m]
      BY <1>6, <2>4
    <3> PICK y : y = <<d[c + 1]>> \o z
      OBVIOUS
    <3>2. y \in Seq(Records) /\ Yields(y, m, d, f, e, c, at, k)
      <4>1. c < Len(d) /\ k \in (c + 1)..Len(d)
        BY <2>4 DEF n
      <4> QED BY <2>1, <3>1, <4>1, YieldsMore
    <3>3. x = [records |-> y, remaining |-> m]
      BY <2>4, <3>1 DEF Before
    <3>4. k \in c..n
      BY <1>1, <2>1
    <3> QED BY <3>2, <3>3, <3>4
  <2>5. CASE /\ c < n /\ HoldsMark(d[c + 1])
             /\ \E y \in 1..((at - o) + 1) : x = Before(None, g[y])
    <3>1. PICK y \in 1..((at - o) + 1) : x = Before(None, g[y])
      BY <2>5
    <3>2. IsParsed(g[y])
      <4>1. y \in 1..(Len(data) + 1)
        BY <1>3
      <4> QED BY <1>3, <1>4, <4>1, ParsesTyped
    <3> PICK others \in Seq(Records) : others = g[y].records
      BY <3>2 DEF IsParsed
    <3> PICK m \in Seq(Nat) : m = g[y].remaining
      BY <3>2 DEF IsParsed
    <3> PICK w : w = <<None>>
      OBVIOUS
    <3>3. w \in Seq(Records) /\ Len(w) = 1 /\ w[1] = None
      BY DEF Records
    <3> PICK z : z = w \o others
      OBVIOUS
    <3>4. z \in Seq(Records) /\ Len(z) > 0 /\ z[1] = None
      <4>1. /\ w \o others \in Seq(Records) /\ Len(w \o others) = Len(w) + Len(others)
            /\ \A i \in 1..(Len(w) + Len(others)) :
                 (w \o others)[i] = IF i <= Len(w) THEN w[i] ELSE others[i - Len(w)]
        BY ONLY <3>3, others \in Seq(Records), ConcatProperties
      <4>2. Len(others) \in Nat
        BY LenProperties
      <4>3. 1 \in 1..(Len(w) + Len(others)) /\ 1 <= Len(w)
        BY <3>3, <4>2
      <4> QED BY <3>3, <4>1, <4>2, <4>3
    <3>5. x = [records |-> z, remaining |-> m]
      BY <3>1 DEF Before
    <3>6. Yields(z, m, d, f, e, c, at, c)
      <4>1. c - c = 0 /\ 1..0 = {} /\ 0 + 1 = 1 /\ c < Len(d)
        BY <2>1, <2>5 DEF n
      <4> QED BY <2>5, <3>4, <4>1 DEF Yields
    <3>7. c \in c..n
      BY <1>1, <2>1
    <3> QED BY <3>4, <3>5, <3>6, <3>7
  <2>6. CASE /\ c < n => at < e[c + 1]
             /\ x = [records |-> <<>>, remaining |-> SubSeq(f, e[c] + 1, at)]
    <3> PICK m : m = SubSeq(f, e[c] + 1, at)
      OBVIOUS
    <3>1. m \in Seq(Nat)
      <4> PICK a \in Nat : a = e[c]
        BY <1>1, <2>1
      <4>1. a <= at /\ at <= Len(f)
        BY <1>6
      <4> QED BY <4>1, PartStands
    <3>2. Yields(<<>>, m, d, f, e, c, at, c)
      <4>1. c - c = 0 /\ 1..0 = {} /\ Len(<<>>) = 0
        BY <2>1
      <4>2. LastBy(c, e, d, at)
        BY <1>6, <2>1, <2>6 DEF LastBy, n
      <4> QED BY <4>1, <4>2 DEF Yields
    <3>3. c \in c..n /\ <<>> \in Seq(Records)
      BY <1>1, <2>1, EmptySeq
    <3> QED BY <2>6, <3>1, <3>2, <3>3
  <2> QED BY <2>3, <2>4, <2>5, <2>6
<1> HIDE DEF Found
<1>8. 0 \in T
  <2> SUFFICES ASSUME NEW c \in b..n, c + 0 = n, e[c] <= at PROVE Found(c)
    OBVIOUS
  <2>1. ~(c < n)
    BY <1>1
  <2> QED BY <1>6, <2>1
<1>9. ASSUME NEW i \in T \cap Nat PROVE i + 1 \in T
  <2> SUFFICES ASSUME NEW c \in b..n, c + (i + 1) = n, e[c] <= at PROVE Found(c)
    OBVIOUS
  <2>1. c \in Nat /\ b \in Nat
    BY <1>1
  <2>2. c + 1 \in b..n /\ (c + 1) + i = n
    BY <1>1, <2>1
  <2>3. e[c + 1] <= at => Found(c + 1)
    BY <2>2
  <2> QED BY <1>6, <2>3
<1> HIDE DEF T
<1>10. Found(b)
  <2>1. b \in b..n /\ n - b \in Nat /\ b + (n - b) = n /\ n - b \in T
    <3>1. b \in 0..n
      BY DEF n
    <3>2. b \in b..n /\ n - b \in Nat /\ b + (n - b) = n
      BY <1>1, <3>1
    <3> QED BY <1>8, <1>9, <3>2, SetInduction
  <2> QED BY <2>1 DEF T
<1>11. PICK k \in b..n, z \in Seq(Records), m \in Seq(Nat) :
         /\ Yields(z, m, d, f, e, b, at, k)
         /\ g[(e[b] - o) + 1] = [records |-> z, remaining |-> m]
  BY <1>10 DEF Found
<1>12. (e[b] - o) + 1 = 1
  BY <1>2
<1>13. Parsed(SubSeq(f, e[b] + 1, at)) = [records |-> z, remaining |-> m]
  BY <1>2, <1>4, <1>11, <1>12 DEF data
<1> QED BY <1>11, <1>13 DEF n, ParsesAll

\* A reader that was given the first k of s, and then an error if broken.
Fed(rd, s, k, broken) ==
    \/ rd.status = "reading" /\ rd.current = k /\ BatchSound(rd, s) /\ ~broken
    \/ rd.status = "ended" /\ BatchSound(rd, s) /\ Through(rd, s)
    \/ rd.status = "failed" /\ broken

\* A reader that is given some of s in order, and then perhaps an error.
LEMMA FedSound ==
  ASSUME NEW s \in Seq(Results), NEW rd \in Readers, rd.status = "reading", BatchSound(rd, s),
         NEW k \in rd.current..Len(s), NEW z \in Seq(Records), NEW broken \in BOOLEAN,
         IF broken THEN Len(z) > k - rd.current /\ z[(k - rd.current) + 1] = None
                   ELSE Len(z) = k - rd.current,
         \A i \in 1..(k - rd.current) : z[i] = s[rd.current + i]
  PROVE  LET n == FoldLeft(Feed, rd, z)
         IN /\ n \in Readers /\ n.query = rd.query /\ n.chunk = rd.chunk
            /\ Fed(n, s, k, broken)
<1>1. PICK f \in [0..Len(z) -> Readers] :
        Feeds(f, rd, z) /\ FoldLeft(Feed, rd, z) = f[Len(z)]
  BY FeedAll
<1>2. PICK b \in Nat : b = rd.current
  BY ReaderIs
<1>3. PICK l \in Nat : l = Len(z)
  BY LenProperties
<1>4. PICK m \in Nat : m = Len(s)
  BY LenProperties
<1>5. PICK h \in Nat : h = k - b
  BY <1>2, <1>4
<1>6. /\ k \in Nat /\ b + h = k /\ b + h <= m /\ h <= l
      /\ IF broken THEN l > h /\ z[h + 1] = None ELSE l = h
      /\ \A i \in 1..h : z[i] = s[b + i]
  <2>1. k \in Nat /\ b + h = k /\ b + h <= m
    BY <1>2, <1>4, <1>5
  <2>2. IF broken THEN l > h /\ z[h + 1] = None ELSE l = h
    BY <1>2, <1>3, <1>5
  <2>3. \A i \in 1..h : z[i] = s[b + i]
    BY <1>2, <1>5
  <2>4. h <= l
    BY <2>2
  <2> QED BY <2>1, <2>2, <2>3, <2>4
<1>7. /\ f \in [0..l -> Readers] /\ f[0] = rd
      /\ \A i \in 1..l : f[i] = Feed(f[i - 1], z[i])
  BY <1>1, <1>3 DEF Feeds
<1> DEFINE T == {i \in Nat : i <= l => /\ f[i].query = rd.query /\ f[i].chunk = rd.chunk
                                       /\ Fed(f[i], s, b + i, i > h)}
<1>8. 0 \in T
  <2>1. b + 0 = b /\ ~(0 > h)
    OBVIOUS
  <2> QED BY <1>2, <1>7, <2>1 DEF Fed
<1>9. ASSUME NEW i \in T \cap Nat PROVE i + 1 \in T
  <2> SUFFICES ASSUME i + 1 <= l
               PROVE  /\ f[i + 1].query = rd.query /\ f[i + 1].chunk = rd.chunk
                      /\ Fed(f[i + 1], s, b + (i + 1), i + 1 > h)
    OBVIOUS
  <2>1. /\ i + 1 \in 1..l /\ (i + 1) - 1 = i /\ i \in 0..l /\ i <= l
        /\ b + (i + 1) = (b + i) + 1 /\ b + i \in Nat
    BY ONLY i + 1 <= l, i \in Nat, b \in Nat, l \in Nat
  <2>2. PICK p \in Readers : p = f[i]
    BY <1>7, <2>1
  <2>3. PICK x \in Records : x = z[i + 1]
    <3>1. i + 1 \in 1..Len(z)
      BY <1>3, <2>1
    <3> QED BY <3>1, ElementOfSeq
  <2>4. f[i + 1] = Feed(p, x)
    BY <1>7, <2>1, <2>2, <2>3
  <2>5. p.query = rd.query /\ p.chunk = rd.chunk /\ Fed(p, s, b + i, i > h)
    BY <2>1, <2>2
  <2>6. Feed(p, x).query = rd.query /\ Feed(p, x).chunk = rd.chunk
    BY <2>5, FeedFields
  <2>7. Fed(Feed(p, x), s, (b + i) + 1, i + 1 > h)
    <3>1. CASE p.status # "reading"
      <4>1. Feed(p, x) = p
        BY <3>1, FeedIs
      <4>2. i > h => i + 1 > h
        OBVIOUS
      <4> QED BY <2>5, <3>1, <4>1, <4>2 DEF Fed
    <3>2. CASE p.status = "reading" /\ i = h
      <4>1. x = None
        <5>1. broken
          BY <1>6, <2>1, <3>2
        <5> QED BY <1>6, <2>3, <3>2, <5>1
      <4>2. Feed(p, x) = [p EXCEPT !.status = "failed"]
        BY <3>2, <4>1, FeedIs
      <4>3. Feed(p, x).status = "failed"
        BY <4>2, ReaderIs
      <4>4. i + 1 > h
        BY <3>2
      <4> QED BY <4>3, <4>4 DEF Fed
    <3>3. CASE p.status = "reading" /\ i # h
      <4>1. p.current = b + i /\ BatchSound(p, s) /\ ~(i > h)
        BY <2>5, <3>3 DEF Fed
      <4>2. i < h /\ i + 1 \in 1..h /\ ~(i + 1 > h) /\ b + (i + 1) = (b + i) + 1 /\ b + i < m
        BY ONLY <1>6, <3>3, <4>1, i \in Nat, h \in Nat, b \in Nat, m \in Nat
      <4>3. x = s[(b + i) + 1]
        BY <1>6, <2>3, <4>2
      <4>4. p.current < Len(s) /\ x = s[p.current + 1]
        BY <1>4, <4>1, <4>2, <4>3
      <4>5. /\ BatchSound(Feed(p, x), s)
            /\ \/ Feed(p, x).status = "reading" /\ Feed(p, x).current = p.current + 1
               \/ Feed(p, x).status = "ended" /\ Through(Feed(p, x), s)
        BY <3>3, <4>1, <4>4, FeedSound
      <4> QED BY <4>1, <4>2, <4>5 DEF Fed
    <3> QED BY <3>1, <3>2, <3>3
  <2> QED BY <2>1, <2>4, <2>6, <2>7
<1> HIDE DEF T
<1>10. l \in T
  BY <1>8, <1>9, SetInduction
<1>11. /\ f[l] \in Readers /\ f[l].query = rd.query /\ f[l].chunk = rd.chunk
       /\ Fed(f[l], s, b + l, l > h)
  <2>1. l \in 0..l
    OBVIOUS
  <2> QED BY <1>7, <1>10, <2>1 DEF T
<1>12. Fed(f[l], s, k, broken)
  <2>1. CASE broken
    BY <1>6, <1>11, <2>1 DEF Fed
  <2>2. CASE ~broken
    <3>1. l = h /\ ~(l > h) /\ b + l = k
      BY <1>6, <2>2
    <3> QED BY <1>11, <2>2, <3>1 DEF Fed
  <2> QED BY <2>1, <2>2
<1> QED BY <1>1, <1>3, <1>11, <1>12

\* Whatever a reader is given, it stays one of its query.
LEMMA FedTypes ==
  ASSUME NEW rd \in Readers, NEW z \in Seq(Records)
  PROVE  LET n == FoldLeft(Feed, rd, z)
         IN n \in Readers /\ n.query = rd.query /\ n.chunk = rd.chunk
<1>1. PICK f \in [0..Len(z) -> Readers] :
        Feeds(f, rd, z) /\ FoldLeft(Feed, rd, z) = f[Len(z)]
  BY FeedAll
<1>2. PICK l \in Nat : l = Len(z)
  BY LenProperties
<1>3. /\ f \in [0..l -> Readers] /\ f[0] = rd
      /\ \A i \in 1..l : f[i] = Feed(f[i - 1], z[i])
  BY <1>1, <1>2 DEF Feeds
<1> DEFINE T == {i \in Nat : i <= l => f[i].query = rd.query /\ f[i].chunk = rd.chunk}
<1>4. 0 \in T
  BY <1>3
<1>5. ASSUME NEW i \in T \cap Nat PROVE i + 1 \in T
  <2> SUFFICES ASSUME i + 1 <= l
               PROVE  f[i + 1].query = rd.query /\ f[i + 1].chunk = rd.chunk
    OBVIOUS
  <2>1. i + 1 \in 1..l /\ (i + 1) - 1 = i /\ i \in 0..l /\ i <= l
    OBVIOUS
  <2>2. PICK p \in Readers : p = f[i]
    BY <1>3, <2>1
  <2>3. PICK x \in Records : x = z[i + 1]
    <3>1. i + 1 \in 1..Len(z)
      BY <1>2, <2>1
    <3> QED BY <3>1, ElementOfSeq
  <2>4. f[i + 1] = Feed(p, x)
    BY <1>3, <2>1, <2>2, <2>3
  <2>5. p.query = rd.query /\ p.chunk = rd.chunk
    BY <2>1, <2>2
  <2> QED BY <2>4, <2>5, FeedFields
<1> HIDE DEF T
<1>6. l \in T
  BY <1>4, <1>5, SetInduction
<1>7. f[l] \in Readers /\ f[l].query = rd.query /\ f[l].chunk = rd.chunk
  <2>1. l \in 0..l
    OBVIOUS
  <2> QED BY <1>3, <1>6, <2>1 DEF T
<1> QED BY <1>1, <1>2, <1>7

-----------------------------------------------------------------------------
(* Whole files hold nothing but their records.                             *)

\* What is flattened is what it is step by step.
Flattening(h, seqs, n) ==
    /\ n \in Nat /\ n # 0 /\ Len(seqs) = n
    /\ DOMAIN h = 1..n /\ h = [i \in 1..n |-> h[i]]
    /\ h[1] = seqs[1] /\ \A i \in 2..n : h[i] = h[i - 1] \o seqs[i]

\* FlattenSeq takes these steps.
LEMMA FlattenIs ==
  ASSUME NEW n, NEW seqs, NEW h, Flattening(h, seqs, n)
  PROVE  FlattenSeq(seqs) = h[n]
<1>0. /\ n \in Nat /\ n # 0 /\ Len(seqs) = n
      /\ DOMAIN h = 1..n /\ h = [i \in 1..n |-> h[i]]
      /\ h[1] = seqs[1] /\ \A i \in 2..n : h[i] = h[i - 1] \o seqs[i]
  BY DEF Flattening
<1> USE <1>0
<1> DEFINE Is(g) == g = [i \in 1..n |-> IF i = 1 THEN seqs[i] ELSE g[i - 1] \o seqs[i]]
           flat == CHOOSE g : Is(g)
<1>1. Is(h)
  <2>1. \A i \in 1..n : h[i] = IF i = 1 THEN seqs[i] ELSE h[i - 1] \o seqs[i]
    <3> TAKE i \in 1..n
    <3>1. i # 1 => i \in 2..n
      OBVIOUS
    <3> QED BY <3>1
  <2> QED BY <2>1
<1>2. Is(flat)
  <2> HIDE DEF Is
  <2> QED BY <1>1
<1>3. FlattenSeq(seqs) = flat[n]
  BY DEF FlattenSeq
<1> HIDE DEF flat
<1>4. /\ flat[1] = seqs[1]
      /\ \A i \in 2..n : flat[i] = flat[i - 1] \o seqs[i]
  <2>1. 1 \in 1..n /\ \A i \in 2..n : i \in 1..n /\ i # 1
    OBVIOUS
  <2>2. \A i \in 1..n : flat[i] = IF i = 1 THEN seqs[i] ELSE flat[i - 1] \o seqs[i]
    BY <1>2
  <2> QED BY <2>1, <2>2
<1> HIDE DEF Is
<1> DEFINE T == {i \in Nat : i + 1 <= n => flat[i + 1] = h[i + 1]}
<1>5. 0 \in T
  BY <1>4
<1>6. ASSUME NEW i \in T \cap Nat PROVE i + 1 \in T
  <2> SUFFICES ASSUME (i + 1) + 1 <= n PROVE flat[(i + 1) + 1] = h[(i + 1) + 1]
    OBVIOUS
  <2>1. (i + 1) + 1 \in 2..n /\ ((i + 1) + 1) - 1 = i + 1 /\ i + 1 <= n
    OBVIOUS
  <2> PICK j \in 2..n : j = (i + 1) + 1 /\ j - 1 = i + 1
    BY <2>1
  <2>2. flat[j] = flat[j - 1] \o seqs[j] /\ h[j] = h[j - 1] \o seqs[j]
    BY <1>4
  <2>3. flat[i + 1] = h[i + 1]
    BY <2>1
  <2> QED BY <2>2, <2>3
<1> HIDE DEF T
<1>7. n - 1 \in T /\ (n - 1) + 1 = n
  <2>1. n - 1 \in Nat /\ (n - 1) + 1 = n
    OBVIOUS
  <2> QED BY <1>5, <1>6, <2>1, SetInduction
<1> QED BY <1>3, <1>7 DEF T

\* The first records of the file are its first bytes.
LEMMA WholePrefix ==
  ASSUME NEW d \in Seq(Results), NEW f \in Seq(Nat), NEW e, Layout(e, d, f),
         NEW k \in 0..Len(d)
  PROVE  AllEncoded(SubSeq(d, 1, k)) = SubSeq(f, 1, e[k])
<1>1. /\ Len(d) \in Nat /\ Len(f) \in Nat
      /\ \A c \in 0..Len(d) : e[c] \in Nat /\ e[c] <= Len(f)
  BY LayoutGrows
<1>2. k \in Nat /\ k <= Len(d) /\ e[0] = 0
  BY <1>1 DEF Layout
<1> DEFINE s == SubSeq(d, 1, k)
           seqs == [i \in DOMAIN s |-> Encoded(s[i])]
           part(a) == SubSeq(f, 1, a)
<1>3. s \in Seq(Results) /\ Len(s) = k /\ \A i \in 1..k : s[i] = d[i] /\ d[i] \in Results
  <2>1. 0 \in Nat /\ 0 <= k /\ k - 0 = k /\ 0 + 1 = 1
    BY <1>2
  <2>2. /\ SubSeq(d, 0 + 1, k) \in Seq(Results)
        /\ Len(SubSeq(d, 0 + 1, k)) = IF 0 <= k THEN k - 0 ELSE 0
        /\ \A i \in 1..(k - 0) : SubSeq(d, 0 + 1, k)[i] = d[0 + i]
    BY <1>2, <2>1, PartIs
  <2>3. \A i \in 1..k : 0 + i = i /\ i \in 1..Len(d)
    BY <1>1, <1>2
  <2>4. \A i \in 1..k : d[i] \in Results
    BY <2>3, ElementOfSeq
  <2> QED BY <2>1, <2>2, <2>3, <2>4
<1>4. ASSUME NEW a \in Nat, a <= Len(f)
      PROVE  part(a) \in Seq(Nat) /\ Len(part(a)) = a /\ \A i \in 1..a : part(a)[i] = f[i]
  <2>1. 0 \in Nat /\ 0 <= a /\ a - 0 = a /\ 0 + 1 = 1
    OBVIOUS
  <2>2. /\ SubSeq(f, 0 + 1, a) \in Seq(Nat) /\ Len(SubSeq(f, 0 + 1, a)) = a - 0
        /\ \A i \in 1..(a - 0) : SubSeq(f, 0 + 1, a)[i] = f[0 + i]
    BY <1>4, <2>1, PartStands
  <2>3. \A i \in 1..a : 0 + i = i
    OBVIOUS
  <2> QED BY <2>1, <2>2, <2>3
<1>5. AllEncoded(s) = FlattenSeq(seqs)
  BY DEF AllEncoded
<1> HIDE DEF s
<1>6. DOMAIN s = 1..k
  BY <1>3, LenProperties
<1>7. \A i \in 1..k : seqs[i] = Encoded(d[i]) /\ Encoded(d[i]) \in Seq(Nat)
  BY <1>3, <1>6, EncodedIs
<1>8. seqs \in Seq(Seq(Nat)) /\ Len(seqs) = k
  <2>1. seqs = [i \in 1..k |-> seqs[i]]
    BY <1>6
  <2> HIDE DEF seqs
  <2>2. seqs \in [1..k -> Seq(Nat)]
    BY <1>7, <2>1
  <2>3. seqs \in Seq(Seq(Nat))
    BY <1>2, <2>2, SeqDef
  <2> QED BY <1>2, <2>2, <2>3, LenProperties
<1> HIDE DEF seqs
<1>9. CASE k = 0
  <2>1. seqs = <<>>
    BY <1>8, <1>9, EmptySeq
  <2>2. FlattenSeq(seqs) = <<>>
    BY <1>8, <1>9, <2>1 DEF FlattenSeq
  <2>3. 1 \in Int /\ 0 \in Int /\ 0 < 1
    OBVIOUS
  <2>4. SubSeq(f, 1, 0) = <<>>
    BY <2>3, SubSeqEmpty
  <2> QED BY <1>2, <1>5, <1>9, <2>2, <2>4 DEF s
<1>10. CASE k # 0
  <2> DEFINE h == [i \in 1..k |-> part(e[i])]
  <2>1. \A i \in 1..k : h[i] = part(e[i])
    OBVIOUS
  <2>2. DOMAIN h = 1..k /\ h = [i \in 1..k |-> h[i]]
    OBVIOUS
  <2>3. ASSUME NEW i \in 1..k PROVE part(e[i]) = part(e[i - 1]) \o Encoded(d[i])
    <3>1. i \in 0..Len(d) /\ i - 1 \in 0..Len(d) /\ i \in 1..Len(d)
      BY <1>1, <1>2
    <3>2. PICK z \in Nat : z = e[i]
      BY <1>1, <3>1
    <3>3. PICK y \in Nat : y = e[i - 1]
      BY <1>1, <3>1
    <3>4. PICK t \in Seq(Nat) : t = Encoded(d[i])
      BY <1>7
    <3>5. PICK l \in Nat : l = Len(t)
      BY LenProperties
    <3>6. y + l = z /\ \A j \in 1..l : f[z - l + j] = t[j]
      BY <3>1, <3>2, <3>3, <3>4, <3>5 DEF Layout
    <3>7. z <= Len(f) /\ y <= Len(f)
      BY <1>1, <3>1, <3>2, <3>3
    <3> PICK u : u = part(z)
      OBVIOUS
    <3> PICK v : v = part(y)
      OBVIOUS
    <3>8. /\ u \in Seq(Nat) /\ Len(u) = z /\ \A j \in 1..z : u[j] = f[j]
          /\ v \in Seq(Nat) /\ Len(v) = y /\ \A j \in 1..y : v[j] = f[j]
      BY <1>4, <3>7
    <3>9. /\ v \o t \in Seq(Nat) /\ Len(v \o t) = y + l
          /\ \A j \in 1..(y + l) : (v \o t)[j] = IF j <= y THEN v[j] ELSE t[j - y]
      <4>1. v \in Seq(Nat) /\ Len(v) = y
        BY <3>8
      <4> QED BY <3>5, <4>1, ConcatProperties, SMTT(40)
    <3>10. ASSUME NEW j \in 1..z PROVE u[j] = (v \o t)[j]
      <4>1. u[j] = f[j] /\ j \in 1..(y + l)
        BY <3>6, <3>8
      <4>2. CASE j <= y
        <5>1. j \in 1..y
          BY <4>2
        <5> QED BY <3>8, <3>9, <4>1, <4>2, <5>1
      <4>3. CASE ~(j <= y)
        <5>1. j - y \in 1..l /\ (z - l) + (j - y) = j
          BY ONLY <3>6, <4>3, j \in 1..z, y \in Nat, z \in Nat, l \in Nat
        <5>2. f[(z - l) + (j - y)] = t[j - y]
          BY <3>6, <5>1
        <5> QED BY <3>9, <4>1, <4>3, <5>1, <5>2
      <4> QED BY <4>2, <4>3
    <3>11. u = v \o t
      <4>1. Len(u) = Len(v \o t) /\ \A j \in 1..Len(u) : u[j] = (v \o t)[j]
        BY <3>6, <3>8, <3>9, <3>10
      <4> QED BY <3>8, <3>9, <4>1, SeqEqual
    <3> QED BY <3>2, <3>3, <3>4, <3>11
  <2> HIDE DEF h
  <2>4. h[1] = seqs[1]
    <3>1. 1 \in 1..k /\ 1 - 1 = 0
      BY <1>2, <1>10
    <3>2. part(e[1]) = part(e[1 - 1]) \o Encoded(d[1])
      BY <2>3, <3>1
    <3>3. part(0) = <<>>
      <4>1. 1 \in Int /\ 0 \in Int /\ 0 < 1
        OBVIOUS
      <4> QED BY <4>1, SubSeqEmpty
    <3>4. part(e[1 - 1]) = <<>>
      BY <1>2, <3>1, <3>3
    <3>5. <<>> \o Encoded(d[1]) = Encoded(d[1])
      BY <1>7, <3>1, ConcatEmptySeq
    <3> HIDE DEF part
    <3> QED BY <1>7, <2>1, <3>1, <3>2, <3>4, <3>5
  <2>5. ASSUME NEW i \in 2..k PROVE h[i] = h[i - 1] \o seqs[i]
    <3>1. i \in 1..k /\ i - 1 \in 1..k
      BY <1>2
    <3>2. part(e[i]) = part(e[i - 1]) \o Encoded(d[i])
      BY <2>3, <3>1
    <3> HIDE DEF part
    <3> QED BY <1>7, <2>1, <3>1, <3>2
  <2>6. FlattenSeq(seqs) = h[k]
    <3>1. Flattening(h, seqs, k)
      BY <1>2, <1>8, <1>10, <2>2, <2>4, <2>5 DEF Flattening
    <3> QED BY <3>1, FlattenIs
  <2>7. k \in 1..k
    BY <1>2, <1>10
  <2> QED BY <1>5, <2>1, <2>6, <2>7 DEF s
<1> QED BY <1>9, <1>10

-----------------------------------------------------------------------------
(* The file database.                                                      *)

FileErrors == {"addError", "addFailure"}

FileTypes ==
    /\ log \in Seq(Results) /\ Len(log) <= MaxResults
    /\ details \in Seq(Results) /\ errorsFile \in Seq(Results)
    /\ over \in BOOLEAN /\ torn \in 0..MaxTorn
    /\ dbFile = Absent \/ dbFile \in Seq(Nat)

\* Details are thrown away at once, and only when the run ends; errors never.
HistorySound ==
    /\ torn = 0 => \E old \in Seq(Results) : log = old \o details /\ (~over => old = <<>>)
    /\ errorsFile = OfTypes(log, FileErrors)
    /\ dbFile = Absent => details = <<>> /\ (over \/ log = <<>>)

\* A reader of details has a file.
ReaderTypes ==
    Reading => /\ reader \in Readers /\ reader.query.what = "data" /\ reader.chunk # 0
               /\ dbFile \in Seq(Nat) /\ reader.at <= Len(dbFile)

\* A reader has been given the records that end in what it has read.
ReadsOn(e) ==
    /\ BatchSound(reader, details) /\ LastBy(reader.current, e, details, reader.at)
    /\ reader.remaining = SubSeq(dbFile, e[reader.current] + 1, reader.at)

\* Files that were never cut off.
FileLaidOut == torn = 0 => \E e : Layout(e, details, Contents) /\ (Reading => ReadsOn(e))

Asked(q) == IF q.what = "errors" THEN errorsFile ELSE details

\* What was fed to it before an answer was made of it.
Ends(rd) ==
    /\ rd \in Readers /\ rd.status = "ended" /\ reader = Answered(rd)
    /\ BatchSound(rd, Asked(rd.query)) /\ Through(rd, Asked(rd.query))

AnswerSound ==
    /\ reader.status \in {"idle", "reading", "ended", "failed", "refused"}
    /\ reader.status = "refused" => over \/ log = <<>>
    /\ reader.status = "failed" => torn # 0 \/ \E i \in DOMAIN details : HoldsMark(details[i])
    /\ reader.status = "ended" /\ torn = 0 => \E rd : Ends(rd)

FileIInv == FileTypes /\ HistorySound /\ ReaderTypes /\ FileLaidOut /\ AnswerSound

\* The bytes of the file, whether or not it exists.
LEMMA ContentsIs ==
  ASSUME FileTypes
  PROVE  Contents \in Seq(Nat) /\ (dbFile \in Seq(Nat) => Contents = dbFile /\ dbFile # Absent)
<1>1. <<>> \in Seq(Nat)
  BY EmptySeq
<1>2. Absent \notin Seq(Nat)
  BY FileReaderAssumption
<1> QED BY <1>1, <1>2 DEF FileTypes, Contents

\* No results have no errors.
LEMMA OfTypesEmpty == \A types : OfTypes(<<>>, types) = <<>>
BY KeptEmpty DEF OfTypes

\* Both begin with nothing.
LEMMA FileInitial == Init => FileIInv
<1> SUFFICES ASSUME Init PROVE FileIInv
  OBVIOUS
<1>1. /\ log = <<>> /\ details = <<>> /\ errorsFile = <<>> /\ over = FALSE /\ torn = 0
      /\ dbFile = Absent /\ reader = NoReader
  BY DEF Init, FileInit
<1>2. /\ <<>> \in Seq(Results) /\ Len(<<>>) = 0 /\ <<>> \o <<>> = <<>>
  BY EmptySeq, ConcatEmptySeq
<1>3. FileTypes
  <2>1. 0 <= MaxResults /\ 0 \in 0..MaxTorn /\ FALSE \in BOOLEAN
    BY DatabasesAssumption
  <2> QED BY <1>1, <1>2, <2>1 DEF FileTypes
<1>4. HistorySound
  BY <1>1, <1>2, OfTypesEmpty DEF HistorySound
<1>5. FileLaidOut /\ ReaderTypes
  <2>1. PICK e : Layout(e, <<>>, <<>>)
    BY LayoutEmpty
  <2>2. Contents = <<>> /\ ~Reading
    BY <1>1 DEF Contents, Reading, NoReader
  <2> QED BY <1>1, <2>1, <2>2 DEF FileLaidOut, ReaderTypes
<1>6. AnswerSound
  BY <1>1 DEF AnswerSound, NoReader
<1> QED BY <1>3, <1>4, <1>5, <1>6 DEF FileIInv

\* The steps between two queries.
LEMMA IdleAnswer ==
  ASSUME reader' = reader, Idle
  PROVE  AnswerSound' /\ ~Reading /\ ~Reading'
BY DEF AnswerSound, Idle, Reading

\* A line more in the file of errors.
LEMMA ErrorsAdd ==
  ASSUME FileTypes, HistorySound, NEW r \in Results
  PROVE  LET next == IF IsFileError(r) THEN Append(errorsFile, r) ELSE errorsFile
         IN next \in Seq(Results) /\ next = OfTypes(Append(log, r), FileErrors)
<1> DEFINE set == {x \in Results : x.type \in FileErrors}
<1>1. r \in set <=> IsFileError(r)
  BY DEF IsFileError, FileErrors
<1>2. errorsFile = Kept(log, set)
  BY DEF HistorySound, OfTypes
<1>3. log \in Seq(Results) /\ errorsFile \in Seq(Results)
  BY DEF FileTypes
<1>4. Kept(Append(log, r), set) =
        IF r \in set THEN Append(Kept(log, set), r) ELSE Kept(log, set)
  BY <1>3, KeptAppend
<1>5. OfTypes(Append(log, r), FileErrors) = Kept(Append(log, r), set)
  BY DEF OfTypes
<1> HIDE DEF set
<1>6. Append(errorsFile, r) \in Seq(Results)
  BY <1>3, AppendProperties
<1> QED BY <1>1, <1>2, <1>3, <1>4, <1>5, <1>6

\* add: one more record at the end of the file, and one more line of errors.
LEMMA FileAddStep ==
  ASSUME FileIInv, NEW r \in Results, Add(r)
  PROVE  FileIInv'
<1>1. /\ Idle /\ reader' = reader /\ dbFile' = Contents \o Encoded(r)
      /\ errorsFile' = IF IsFileError(r) THEN Append(errorsFile, r) ELSE errorsFile
      /\ log' = Append(log, r) /\ details' = Append(details, r)
      /\ over' = over /\ torn' = torn /\ Len(log) < MaxResults
  BY DEF Add, FileAdd
<1>2. FileTypes /\ HistorySound /\ FileLaidOut
  BY DEF FileIInv
<1>3. Contents \in Seq(Nat) /\ log \in Seq(Results) /\ details \in Seq(Results)
  BY <1>2, ContentsIs DEF FileTypes
<1>4. dbFile' \in Seq(Nat)
  <2>1. Encoded(r) \in Seq(Nat)
    BY EncodedIs
  <2> QED BY <1>1, <1>3, <2>1, ConcatProperties
<1>5. ASSUME torn = 0 PROVE \E e : Layout(e, details', dbFile')
  <2>1. PICK e : Layout(e, details, Contents)
    BY <1>2, <1>5 DEF FileLaidOut
  <2> QED BY <1>1, <1>3, <2>1, LayoutAdd
<1>6. dbFile' # Absent /\ Contents' = dbFile'
  BY <1>4, FileReaderAssumption DEF Contents
<1>7. errorsFile' \in Seq(Results) /\ errorsFile' = OfTypes(log', FileErrors)
  BY <1>1, <1>2, ErrorsAdd
<1>8. FileTypes'
  <2>1. log' \in Seq(Results) /\ Len(log') = Len(log) + 1 /\ Len(log) \in Nat
    BY <1>1, <1>3, AppendProperties, LenProperties
  <2>2. details' \in Seq(Results)
    BY <1>1, <1>3, AppendProperties
  <2>3. torn \in 0..MaxTorn /\ over \in BOOLEAN /\ MaxResults \in Nat
    BY <1>2, DatabasesAssumption DEF FileTypes
  <2>4. Len(log') <= MaxResults
    BY <1>1, <2>1, <2>3
  <2> QED BY <1>1, <1>4, <1>7, <2>1, <2>2, <2>3, <2>4 DEF FileTypes
<1>9. HistorySound'
  <2>1. ASSUME torn' = 0
        PROVE  \E old \in Seq(Results) : log' = old \o details' /\ (~over' => old = <<>>)
    <3>1. PICK old \in Seq(Results) : log = old \o details /\ (~over => old = <<>>)
      BY <1>1, <1>2, <2>1 DEF HistorySound
    <3>2. Append(old \o details, r) = old \o Append(details, r)
      <4>1. PICK now \in Seq(Results) : now = details
        BY <1>3
      <4>2. Append(old \o now, r) = old \o Append(now, r)
        <5>1. \A a, b \in Seq(Results) : \A x \in Results :
                Append(a \o b, x) = a \o Append(b, x) /\ Append(b, x) \in Seq(Results)
          BY ConcatAppend
        <5> QED BY <5>1
      <4> QED BY <4>1, <4>2
    <3> QED BY <1>1, <3>1, <3>2
  <2> QED BY <1>6, <1>7, <2>1 DEF HistorySound
<1>10. AnswerSound' /\ ~Reading'
  BY <1>1, IdleAnswer
<1>11. FileLaidOut' /\ ReaderTypes'
  BY <1>1, <1>5, <1>6, <1>10 DEF FileLaidOut, ReaderTypes
<1> QED BY <1>8, <1>9, <1>10, <1>11 DEF FileIInv

\* summarize_run: the details are gone.
LEMMA FileEndStep ==
  ASSUME FileIInv, EndRun
  PROVE  FileIInv'
<1>1. /\ Idle /\ reader' = reader /\ dbFile' = Absent /\ errorsFile' = errorsFile
      /\ over' = TRUE /\ details' = <<>> /\ log' = log /\ torn' = torn
  BY DEF EndRun, FileSummarize
<1>2. FileTypes /\ HistorySound
  BY DEF FileIInv
<1>3. <<>> \in Seq(Results)
  BY EmptySeq
<1>4. FileTypes'
  BY <1>1, <1>2, <1>3 DEF FileTypes
<1>5. HistorySound'
  <2>1. log \in Seq(Results) /\ log = log \o <<>>
    BY <1>2, ConcatEmptySeq DEF FileTypes
  <2>2. \E old \in Seq(Results) : log' = old \o details' /\ (~over' => old = <<>>)
    BY <1>1, <2>1
  <2> QED BY <1>1, <1>2, <2>2 DEF HistorySound
<1>6. FileLaidOut' /\ ReaderTypes'
  <2>1. PICK e : Layout(e, <<>>, <<>>)
    BY LayoutEmpty
  <2>2. ~Reading' /\ Contents' = <<>>
    BY <1>1, IdleAnswer DEF Contents
  <2> QED BY <1>1, <2>1, <2>2 DEF FileLaidOut, ReaderTypes
<1>7. AnswerSound'
  BY <1>1, IdleAnswer
<1> QED BY <1>4, <1>5, <1>6, <1>7 DEF FileIInv

\* The broker dies while it writes: nothing is said of where records end then.
LEMMA FileTearStep ==
  ASSUME FileIInv, NEW r \in Results, Tear(r)
  PROVE  FileIInv'
<1>1. /\ Idle /\ reader' = reader /\ over' = over /\ details' = details
      /\ errorsFile' = IF IsFileError(r) THEN Append(errorsFile, r) ELSE errorsFile
      /\ log' = Append(log, r) /\ torn' = torn + 1 /\ torn < MaxTorn
      /\ Len(log) < MaxResults
  BY DEF Tear, FileTorn
<1>2. PICK n \in 0..(Len(Encoded(r)) - 1) : dbFile' = Contents \o SubSeq(Encoded(r), 1, n)
  BY DEF Tear, FileTorn
<1>3. FileTypes /\ HistorySound
  BY DEF FileIInv
<1>4. /\ Contents \in Seq(Nat) /\ log \in Seq(Results) /\ Len(log) \in Nat
      /\ torn \in 0..MaxTorn /\ MaxResults \in Nat /\ MaxTorn \in Nat
  BY <1>3, ContentsIs, LenProperties, DatabasesAssumption DEF FileTypes
<1>5. dbFile' \in Seq(Nat)
  <2>1. PICK t \in Seq(Nat) : t = Encoded(r)
    BY EncodedIs
  <2>2. Len(t) \in Nat
    BY LenProperties
  <2>3. 1 \in Int /\ n \in Int /\ \A i \in 1..n : i \in 1..Len(t)
    BY <2>1, <2>2
  <2>4. \A i \in 1..n : t[i] \in Nat
    BY <2>3, ElementOfSeq
  <2>5. SubSeq(t, 1, n) \in Seq(Nat)
    BY <2>3, <2>4, SubSeqProperties
  <2> QED BY <1>2, <1>4, <2>1, <2>5, ConcatProperties
<1>6. dbFile' # Absent /\ torn' # 0 /\ torn' \in 0..MaxTorn
  BY <1>1, <1>4, <1>5, FileReaderAssumption
<1>7. errorsFile' \in Seq(Results) /\ errorsFile' = OfTypes(log', FileErrors)
  BY <1>1, <1>3, ErrorsAdd
<1>8. FileTypes'
  <2>1. log' \in Seq(Results) /\ Len(log') = Len(log) + 1
    BY <1>1, <1>4, AppendProperties
  <2>2. Len(log') <= MaxResults
    BY <1>1, <1>4, <2>1
  <2> QED BY <1>1, <1>3, <1>5, <1>6, <1>7, <2>1, <2>2 DEF FileTypes
<1>9. HistorySound'
  BY <1>6, <1>7 DEF HistorySound
<1>10. AnswerSound' /\ ~Reading'
  BY <1>1, IdleAnswer
<1>11. FileLaidOut' /\ ReaderTypes'
  BY <1>6, <1>10 DEF FileLaidOut, ReaderTypes
<1> QED BY <1>8, <1>9, <1>10, <1>11 DEF FileIInv

-----------------------------------------------------------------------------
(* Queries to the file database.                                           *)

\* What does not change between two steps of a query.
LEMMA HistoryStays ==
  ASSUME FileIInv, UNCHANGED history, UNCHANGED <<dbFile, errorsFile>>
  PROVE  /\ FileTypes' /\ HistorySound' /\ (\A q : Asked(q)' = Asked(q))
         /\ (~Reading' => FileLaidOut' /\ ReaderTypes')
         /\ (torn # 0 => FileLaidOut')
         /\ (\A e : Layout(e, details, Contents) /\ (Reading' => ReadsOn(e)') => FileLaidOut')
<1>1. /\ log' = log /\ details' = details /\ over' = over /\ torn' = torn
      /\ dbFile' = dbFile /\ errorsFile' = errorsFile
  BY DEF history
<1>2. FileTypes' /\ HistorySound'
  BY <1>1 DEF FileIInv, FileTypes, HistorySound
<1>3. Contents' = Contents /\ \A q : Asked(q)' = Asked(q)
  BY <1>1 DEF Contents, Asked
<1>4. ASSUME NEW e, Layout(e, details, Contents), Reading' => ReadsOn(e)'
      PROVE  FileLaidOut'
  BY <1>1, <1>3, <1>4 DEF FileLaidOut
<1>5. ASSUME torn # 0 PROVE FileLaidOut'
  BY <1>1, <1>5 DEF FileLaidOut
<1>6. ASSUME ~Reading' PROVE FileLaidOut' /\ ReaderTypes'
  <2>1. CASE torn = 0
    <3>1. PICK e : Layout(e, details, Contents)
      BY <2>1 DEF FileIInv, FileLaidOut
    <3> QED BY <1>4, <1>6, <3>1 DEF ReaderTypes
  <2>2. CASE torn # 0
    BY <1>5, <1>6, <2>2 DEF ReaderTypes
  <2> QED BY <2>1, <2>2
<1> QED BY <1>2, <1>3, <1>4, <1>5, <1>6

\* A new reader has seen nothing.
LEMMA NewReaderIs ==
  ASSUME NEW q \in AllQueries, NEW s \in Seq(Results), NEW n \in Nat
  PROVE  LET rd == [NewReader(q) EXCEPT !.chunk = n]
         IN /\ rd \in Readers /\ rd.status = "reading" /\ rd.query = q /\ rd.chunk = n
            /\ rd.at = 0 /\ rd.current = 0 /\ rd.remaining = <<>> /\ BatchSound(rd, s)
<1> DEFINE rd == [NewReader(q) EXCEPT !.chunk = n]
<1>1. rd = [status |-> "reading", query |-> q, chunk |-> n, at |-> 0, remaining |-> <<>>,
            current |-> 0, sent |-> 0, found |-> <<>>]
  BY DEF NewReader
<1> HIDE DEF rd
<1>2. <<>> \in Seq(Nat) /\ <<>> \in Seq(Results) /\ Len(<<>>) = 0 /\ 0 \in Nat
  BY EmptySeq
<1>3. rd \in Readers
  BY <1>1, <1>2 DEF Readers
<1>4. rd.query = q /\ rd.current = 0 /\ rd.sent = 0 /\ rd.found = <<>>
  BY <1>1
<1>5. From(rd, s) = <<>>
  <2>1. First(q) \in Nat /\ 0 <= First(q) /\ 0 <= Len(s) /\ 0 \in Nat
    BY QueryTypes, LenProperties
  <2>2. PICK m \in Nat : m = First(q)
    BY <2>1
  <2>3. SubSeq(s, m + 1, 0) = <<>>
    BY <2>1, <2>2, PartIs
  <2> QED BY <1>4, <2>2, <2>3 DEF From
<1>6. Selected(<<>>, q) = <<>>
  BY KeptEmpty DEF Selected
<1>7. BatchSound(rd, s)
  <2>1. 0 <= Len(s)
    BY LenProperties
  <2>2. q.size # None => 0 <= q.size
    BY QueryTypes
  <2> QED BY <1>2, <1>4, <1>5, <1>6, <2>1, <2>2 DEF BatchSound
<1> QED BY <1>1, <1>3, <1>7 DEF rd

\* Neither depends on the bytes or on the status.
LEMMA SameBatch ==
  ASSUME NEW rd, NEW n, NEW s, n.query = rd.query, n.current = rd.current,
         n.sent = rd.sent, n.found = rd.found
  PROVE  (BatchSound(n, s) <=> BatchSound(rd, s)) /\ (Through(n, s) <=> Through(rd, s))
BY DEF BatchSound, Through, From

\* ... and a reader stays what it is when it ends.
LEMMA EndedReader ==
  ASSUME NEW rd \in Readers, NEW s, BatchSound(rd, s), Through(rd, s)
  PROVE  LET n == [rd EXCEPT !.status = "ended"]
         IN /\ n \in Readers /\ n.status = "ended" /\ n.query = rd.query
            /\ BatchSound(n, s) /\ Through(n, s)
<1> DEFINE n == [rd EXCEPT !.status = "ended"]
<1>1. /\ n \in Readers /\ n.status = "ended" /\ n.query = rd.query
      /\ n.current = rd.current /\ n.sent = rd.sent /\ n.found = rd.found
  BY ReaderIs DEF Readers
<1> HIDE DEF n
<1>2. BatchSound(n, s) /\ Through(n, s)
  BY <1>1, SameBatch
<1> QED BY <1>1, <1>2 DEF n

\* Lines of errors are fed one after another.
LEMMA FileAskErrors ==
  ASSUME FileIInv, NEW q \in AllQueries, q.what = "errors", FileAsk(q), UNCHANGED history
  PROVE  FileIInv' /\ ~Idle'
<1>1. /\ dbFile' = dbFile /\ errorsFile' = errorsFile
      /\ reader' = [FoldLeft(Feed, NewReader(q), errorsFile) EXCEPT !.status = "ended"]
  BY DEF FileAsk
<1>2. PICK s \in Seq(Results) : s = errorsFile
  BY DEF FileIInv, FileTypes
<1>3. PICK rd \in Readers : rd = NewReader(q) /\ rd.status = "reading" /\ rd.query = q
                            /\ rd.current = 0 /\ BatchSound(rd, s)
  <2>1. NewReader(q) = [NewReader(q) EXCEPT !.chunk = 0]
    BY DEF NewReader
  <2>2. 0 \in Nat
    OBVIOUS
  <2> PICK none \in Nat : none = 0
    BY <2>2
  <2>3. PICK rd : rd = [NewReader(q) EXCEPT !.chunk = none]
    OBVIOUS
  <2>4. \A k \in Nat : LET x == [NewReader(q) EXCEPT !.chunk = k]
                       IN /\ x \in Readers /\ x.status = "reading" /\ x.query = q
                          /\ x.current = 0 /\ BatchSound(x, s)
    BY NewReaderIs
  <2>5. rd = NewReader(q)
    BY <2>1, <2>3
  <2> QED BY <2>3, <2>4, <2>5
<1>4. PICK n \in Readers : /\ n = FoldLeft(Feed, rd, s) /\ n.query = q
                           /\ Fed(n, s, Len(s), FALSE)
  <2>1. s \in Seq(Records)
    <3>1. \A i \in 1..Len(s) : s[i] \in Records
      BY ElementOfSeq DEF Records
    <3>2. s \in [1..Len(s) -> Results] /\ Len(s) \in Nat
      BY LenProperties
    <3>3. s \in [1..Len(s) -> Records]
      BY <3>2 DEF Records
    <3> QED BY <3>2, <3>3, SeqDef
  <2>2. PICK k \in Nat : k = Len(s)
    BY LenProperties
  <2>3. PICK z \in Seq(Records) : z = s
    BY <2>1
  <2>4. k \in rd.current..Len(s) /\ Len(z) = k - rd.current
    BY <1>3, <2>2, <2>3
  <2>5. \A i \in 1..(k - rd.current) : z[i] = s[rd.current + i]
    <3> SUFFICES ASSUME NEW i \in 1..k PROVE z[i] = s[0 + i]
      BY <1>3
    <3>1. 0 + i = i
      OBVIOUS
    <3> QED BY <2>3, <3>1
  <2>6. PICK broken \in BOOLEAN : broken = FALSE
    OBVIOUS
  <2>7. IF broken THEN Len(z) > k - rd.current /\ z[(k - rd.current) + 1] = None
                  ELSE Len(z) = k - rd.current
    BY <2>4, <2>6
  <2>8. LET m == FoldLeft(Feed, rd, z)
        IN m \in Readers /\ m.query = rd.query /\ m.chunk = rd.chunk /\ Fed(m, s, k, broken)
    BY <1>3, <2>4, <2>5, <2>7, FedSound
  <2> QED BY <1>3, <2>2, <2>3, <2>6, <2>8
<1>5. BatchSound(n, s) /\ Through(n, s)
  BY <1>4 DEF Fed, Through
<1>6. reader' = [n EXCEPT !.status = "ended"]
  BY <1>1, <1>2, <1>3, <1>4
<1>7. PICK m : m = [n EXCEPT !.status = "ended"]
  OBVIOUS
<1>8. m \in Readers /\ m.status = "ended" /\ m.query = q /\ BatchSound(m, s) /\ Through(m, s)
  BY <1>4, <1>5, <1>7, EndedReader
<1>9. ~q.groupby
  BY QueryTypes
<1>10. reader' = m /\ Answered(m) = m
  BY <1>6, <1>7, <1>8, <1>9 DEF Answered
<1>11. Ends(m)'
  <2>1. Asked(q)' = s
    BY <1>1, <1>2 DEF Asked
  <2> QED BY <1>8, <1>10, <2>1 DEF Ends
<1>12. reader'.status = "ended"
  BY <1>8, <1>10
<1>13. AnswerSound' /\ ~Reading' /\ ~Idle'
  BY <1>11, <1>12 DEF AnswerSound, Reading, Idle
<1>14. FileTypes' /\ HistorySound' /\ FileLaidOut' /\ ReaderTypes'
  BY <1>1, <1>13, HistoryStays
<1> QED BY <1>13, <1>14 DEF FileIInv

\* get_data: the first chunk is still to be read, or the query is refused.
LEMMA FileAskDetails ==
  ASSUME FileIInv, NEW q \in AllQueries, q.what = "data", FileAsk(q), UNCHANGED history
  PROVE  FileIInv' /\ ~Idle'
<1>1. dbFile' = dbFile /\ errorsFile' = errorsFile
  BY DEF FileAsk
<1>2. FileTypes' /\ HistorySound'
  BY <1>1, HistoryStays
<1>3. CASE dbFile = Absent
  <2>1. reader' = [status |-> "refused"]
    BY <1>3 DEF FileAsk
  <2>2. over \/ log = <<>>
    BY <1>3 DEF FileIInv, HistorySound
  <2>3. over' \/ log' = <<>>
    BY <2>2 DEF history
  <2>4. AnswerSound' /\ ~Reading' /\ ~Idle'
    BY <2>1, <2>3 DEF AnswerSound, Reading, Idle
  <2>5. FileLaidOut' /\ ReaderTypes'
    BY <1>1, <2>4, HistoryStays
  <2> QED BY <1>2, <2>4, <2>5 DEF FileIInv
<1>4. CASE dbFile # Absent
  <2>1. PICK n \in Chunks : reader' = [NewReader(q) EXCEPT !.chunk = n]
    BY <1>4 DEF FileAsk
  <2>2. n \in Nat /\ n # 0
    BY FileReaderAssumption
  <2>3. PICK f \in Seq(Nat) : f = dbFile /\ f = Contents
    BY <1>4, ContentsIs DEF FileIInv, FileTypes
  <2>4. PICK d \in Seq(Results) : d = details
    BY DEF FileIInv, FileTypes
  <2>5. /\ reader' \in Readers /\ reader'.status = "reading" /\ reader'.query = q
        /\ reader'.chunk = n /\ reader'.at = 0 /\ reader'.current = 0
        /\ reader'.remaining = <<>> /\ BatchSound(reader', d)
    BY <2>1, <2>2, NewReaderIs
  <2>6. ASSUME torn = 0 PROVE FileLaidOut'
    <3>1. PICK e : Layout(e, d, f)
      BY <2>3, <2>4, <2>6 DEF FileIInv, FileLaidOut
    <3>2. e[0] = 0 /\ LastBy(0, e, d, 0)
      <4>1. /\ Len(d) \in Nat /\ \A c \in 0..Len(d) : e[c] \in Nat
            /\ \A i, j \in 0..Len(d) : i < j => e[i] + 4 <= e[j]
        BY <3>1, LayoutGrows
      <4>2. e[0] = 0
        BY <3>1 DEF Layout
      <4>3. ASSUME 0 < Len(d) PROVE 0 < e[0 + 1]
        <5>1. 0 \in 0..Len(d) /\ 1 \in 0..Len(d) /\ 0 < 1 /\ 0 + 1 = 1
          BY <4>1, <4>3
        <5>2. e[0] + 4 <= e[1] /\ e[1] \in Nat
          BY <4>1, <5>1
        <5> QED BY <4>2, <5>1, <5>2
      <4>4. 0 \in 0..Len(d)
        BY <4>1
      <4> QED BY <4>2, <4>3, <4>4 DEF LastBy
    <3>3. SubSeq(f, e[0] + 1, 0) = <<>>
      <4>1. 1 \in Int /\ 0 \in Int /\ 0 < 1 /\ 0 + 1 = 1
        OBVIOUS
      <4>2. SubSeq(f, 1, 0) = <<>>
        BY <4>1, SubSeqEmpty
      <4> QED BY <3>2, <4>1, <4>2
    <3>4. ReadsOn(e)'
      <4>1. details' = d /\ dbFile' = f
        BY <1>1, <2>3, <2>4 DEF history
      <4> QED BY <2>5, <3>2, <3>3, <4>1 DEF ReadsOn
    <3> QED BY <1>1, <2>3, <2>4, <3>1, <3>4, HistoryStays
  <2>7. FileLaidOut'
    <3>1. torn # 0 => FileLaidOut'
      BY <1>1, HistoryStays
    <3> QED BY <2>6, <3>1
  <2>8. ReaderTypes'
    <3>1. dbFile' = f /\ 0 <= Len(f)
      BY <1>1, <2>3, LenProperties
    <3> QED BY <2>2, <2>5, <3>1 DEF ReaderTypes
  <2>9. AnswerSound' /\ ~Idle'
    BY <2>5 DEF AnswerSound, Idle
  <2> QED BY <1>2, <2>7, <2>8, <2>9 DEF FileIInv
<1> QED BY <1>3, <1>4

\* A query is asked.
LEMMA FileAskStep ==
  ASSUME FileIInv, NEW q \in AllQueries, FileAsk(q), UNCHANGED history
  PROVE  FileIInv' /\ ~Idle'
<1>1. q.what \in {"data", "errors"}
  BY QueryTypes
<1>2. CASE q.what = "data"
  BY <1>2, FileAskDetails
<1>3. CASE q.what = "errors"
  BY <1>3, FileAskErrors
<1> QED BY <1>1, <1>2, <1>3

\* Its answer is sent.
LEMMA FileSendStep ==
  ASSUME FileIInv, FileSends, UNCHANGED history
  PROVE  FileIInv'
<1>1. dbFile' = dbFile /\ errorsFile' = errorsFile /\ reader' = NoReader
  BY DEF FileSends
<1>2. AnswerSound' /\ ~Reading'
  BY <1>1 DEF AnswerSound, Reading, NoReader
<1> QED BY <1>1, <1>2, HistoryStays DEF FileIInv

\* Two parts that follow each other.
LEMMA PartsJoin ==
  ASSUME NEW f \in Seq(Nat), NEW o \in Nat, NEW a \in Nat, NEW at \in Nat,
         o <= a, a <= at, at <= Len(f)
  PROVE  SubSeq(f, o + 1, a) \o SubSeq(f, a + 1, at) = SubSeq(f, o + 1, at)
<1> DEFINE u == SubSeq(f, o + 1, a)
           v == SubSeq(f, a + 1, at)
           w == SubSeq(f, o + 1, at)
<1>1. u \in Seq(Nat) /\ Len(u) = a - o /\ \A i \in 1..(a - o) : u[i] = f[o + i]
  <2>1. a <= Len(f)
    BY LenProperties
  <2> QED BY <2>1, PartStands
<1>2. v \in Seq(Nat) /\ Len(v) = at - a /\ \A i \in 1..(at - a) : v[i] = f[a + i]
  BY PartStands
<1>3. w \in Seq(Nat) /\ Len(w) = at - o /\ \A i \in 1..(at - o) : w[i] = f[o + i]
  <2>1. o <= at
    OBVIOUS
  <2> QED BY <2>1, PartStands
<1> HIDE DEF u, v, w
<1>4. /\ u \o v \in Seq(Nat) /\ Len(u \o v) = (a - o) + (at - a)
      /\ \A i \in 1..((a - o) + (at - a)) :
           (u \o v)[i] = IF i <= a - o THEN u[i] ELSE v[i - (a - o)]
  <2>1. u \in Seq(Nat) /\ v \in Seq(Nat)
    BY <1>1, <1>2
  <2>2. /\ u \o v \in Seq(Nat) /\ Len(u \o v) = Len(u) + Len(v)
        /\ \A i \in 1..(Len(u) + Len(v)) :
             (u \o v)[i] = IF i <= Len(u) THEN u[i] ELSE v[i - Len(u)]
    BY <2>1, ConcatProperties
  <2>3. Len(u) = a - o /\ Len(v) = at - a
    BY <1>1, <1>2
  <2> QED BY <2>2, <2>3
<1>5. (a - o) + (at - a) = at - o /\ at - o \in Nat
  OBVIOUS
<1>6. ASSUME NEW i \in 1..(at - o) PROVE (u \o v)[i] = w[i]
  <2>1. w[i] = f[o + i]
    BY <1>3
  <2>2. CASE i <= a - o
    <3>1. i \in 1..(a - o)
      BY <2>2
    <3> QED BY <1>1, <1>4, <1>5, <2>1, <2>2, <3>1
  <2>3. CASE ~(i <= a - o)
    <3>1. i - (a - o) \in 1..(at - a) /\ a + (i - (a - o)) = o + i
      BY <2>3
    <3>2. v[i - (a - o)] = f[o + i]
      BY <1>2, <3>1
    <3> QED BY <1>4, <1>5, <2>1, <2>3, <3>2
  <2> QED BY <2>2, <2>3
<1>7. u \o v = w
  <2>1. Len(u \o v) = at - o /\ \A i \in 1..Len(u \o v) : (u \o v)[i] = w[i]
    BY <1>4, <1>5, <1>6, SMTT(40)
  <2> QED BY <1>3, <1>4, <2>1, SeqEqual
<1> QED BY <1>7 DEF u, v, w

\* What a chunk does to the reader that reads d from f.
Advances(rd, d, f, e, m) ==
    LET data == SubSeq(f, e[rd.current] + 1, m)
        parsed == Parsed(data)
        next == [FoldLeft(Feed, rd, parsed.records) EXCEPT !.at = m, !.remaining = parsed.remaining]
    IN /\ next.status = "reading" =>
            /\ BatchSound(next, d) /\ LastBy(next.current, e, d, m)
            /\ next.remaining = SubSeq(f, e[next.current] + 1, m)
       /\ next.status = "ended" => BatchSound(next, d) /\ Through(next, d)
       /\ next.status = "failed" => \E i \in DOMAIN d : HoldsMark(d[i])

\* It does: the records that end in the chunk are found and fed.
LEMMA ChunkAdvances ==
  ASSUME NEW d \in Seq(Results), NEW f \in Seq(Nat), NEW e,
         Layout(e, d, f), NEW rd \in Readers, rd.status = "reading", BatchSound(rd, d),
         NEW m \in Nat, e[rd.current] <= m, m <= Len(f)
  PROVE  Advances(rd, d, f, e, m)
<1>1. PICK b \in Nat : b = rd.current
  BY ReaderIs
<1>2. b \in 0..Len(d) /\ e[b] \in Nat
  <2>1. b <= Len(d)
    BY <1>1 DEF BatchSound
  <2>2. b \in 0..Len(d)
    BY <2>1, LenProperties
  <2> QED BY <2>2, LayoutGrows
<1>3. PICK k \in b..Len(d), z \in Seq(Records), rest \in Seq(Nat) :
        /\ Yields(z, rest, d, f, e, b, m, k)
        /\ Parsed(SubSeq(f, e[b] + 1, m)) = [records |-> z, remaining |-> rest]
  <2>1. e[b] <= m
    BY <1>1
  <2>2. ParsesAll(d, f, e, b, m)
    BY <1>2, <2>1, ParsedLayout
  <2> QED BY <2>2 DEF ParsesAll
<1>4. PICK broken \in BOOLEAN :
        IF broken THEN /\ k < Len(d) /\ HoldsMark(d[k + 1])
                       /\ Len(z) > k - b /\ z[(k - b) + 1] = None
        ELSE LastBy(k, e, d, m) /\ Len(z) = k - b /\ rest = SubSeq(f, e[k] + 1, m)
  <2>1. CASE LastBy(k, e, d, m) /\ Len(z) = k - b /\ rest = SubSeq(f, e[k] + 1, m)
    <3>1. FALSE \in BOOLEAN
      OBVIOUS
    <3> QED BY <2>1, <3>1
  <2>2. CASE k < Len(d) /\ HoldsMark(d[k + 1]) /\ Len(z) > k - b /\ z[(k - b) + 1] = None
    <3>1. TRUE \in BOOLEAN
      OBVIOUS
    <3> QED BY <2>2, <3>1
  <2> QED BY <1>3, <2>1, <2>2 DEF Yields
<1>5. PICK n \in Readers : n = FoldLeft(Feed, rd, z) /\ Fed(n, d, k, broken)
  <2>1. k \in rd.current..Len(d)
    BY <1>1, <1>3
  <2>2. \A i \in 1..(k - rd.current) : z[i] = d[rd.current + i]
    BY <1>1, <1>3 DEF Yields
  <2>3. IF broken THEN Len(z) > k - rd.current /\ z[(k - rd.current) + 1] = None
                  ELSE Len(z) = k - rd.current
    BY <1>1, <1>4
  <2>4. LET x == FoldLeft(Feed, rd, z)
        IN x \in Readers /\ x.query = rd.query /\ x.chunk = rd.chunk /\ Fed(x, d, k, broken)
    BY <2>1, <2>2, <2>3, FedSound
  <2> QED BY <2>4
<1>6. PICK next : next = [n EXCEPT !.at = m, !.remaining = rest]
  OBVIOUS
<1>7. /\ next.status = n.status /\ next.query = n.query /\ next.remaining = rest
      /\ next.current = n.current /\ next.sent = n.sent /\ next.found = n.found
  BY <1>6, ReaderIs DEF Readers
<1>8. (BatchSound(next, d) <=> BatchSound(n, d)) /\ (Through(next, d) <=> Through(n, d))
  BY <1>7, SameBatch
<1>9. next.status = "reading" =>
        /\ BatchSound(next, d) /\ LastBy(next.current, e, d, m)
        /\ next.remaining = SubSeq(f, e[next.current] + 1, m)
  BY <1>4, <1>5, <1>7, <1>8 DEF Fed
<1>10. next.status = "ended" => BatchSound(next, d) /\ Through(next, d)
  BY <1>5, <1>7, <1>8 DEF Fed
<1>11. next.status = "failed" => \E i \in DOMAIN d : HoldsMark(d[i])
  <2> SUFFICES ASSUME next.status = "failed" PROVE \E i \in DOMAIN d : HoldsMark(d[i])
    OBVIOUS
  <2>1. broken
    BY <1>5, <1>7 DEF Fed
  <2>2. k < Len(d) /\ HoldsMark(d[k + 1])
    BY <1>4, <2>1
  <2>3. DOMAIN d = 1..Len(d) /\ Len(d) \in Nat
    BY LenProperties
  <2>4. k + 1 \in DOMAIN d
    BY <1>3, <2>2, <2>3
  <2> QED BY <2>2, <2>4
<1>12. next = [FoldLeft(Feed, rd, Parsed(SubSeq(f, e[rd.current] + 1, m)).records) EXCEPT
                 !.at = m, !.remaining = Parsed(SubSeq(f, e[rd.current] + 1, m)).remaining]
  <2> PICK parsed : parsed = Parsed(SubSeq(f, e[b] + 1, m))
    OBVIOUS
  <2>1. parsed.records = z /\ parsed.remaining = rest
    BY <1>3
  <2> QED BY <1>1, <1>5, <1>6, <2>1
<1> QED BY <1>9, <1>10, <1>11, <1>12 DEF Advances

\* Of whatever bytes, what comes of them is a reader again.
LEMMA ChunkTyped ==
  ASSUME NEW rd \in Readers, NEW data \in Seq(Nat), NEW m \in Nat
  PROVE  LET n == [FoldLeft(Feed, rd, Parsed(data).records) EXCEPT
                     !.at = m, !.remaining = Parsed(data).remaining]
         IN n \in Readers /\ n.query = rd.query /\ n.chunk = rd.chunk /\ n.at = m
<1> PICK z \in Seq(Records) : z = Parsed(data).records
  BY ParsedTypes DEF IsParsed
<1> PICK rest \in Seq(Nat) : rest = Parsed(data).remaining
  BY ParsedTypes DEF IsParsed
<1>1. PICK n \in Readers : n = FoldLeft(Feed, rd, z) /\ n.query = rd.query /\ n.chunk = rd.chunk
  BY FedTypes
<1>2. PICK next : next = [n EXCEPT !.at = m, !.remaining = rest]
  OBVIOUS
<1>3. next \in Readers /\ next.query = n.query /\ next.chunk = n.chunk /\ next.at = m
  BY <1>2, ReaderIs DEF Readers
<1> QED BY <1>1, <1>2, <1>3

\* Where a chunk ends.
LEMMA UptoIs ==
  ASSUME NEW rd \in Readers, rd.chunk # 0, dbFile \in Seq(Nat), rd.at <= Len(dbFile)
  PROVE  /\ Upto(rd) \in Nat /\ rd.at <= Upto(rd) /\ Upto(rd) <= Len(dbFile)
         /\ Upto(rd) = rd.at => rd.at = Len(dbFile)
<1>1. PICK a \in Nat : a = rd.at
  BY ReaderIs
<1>2. PICK c \in Nat : c = rd.chunk
  BY ReaderIs
<1>3. PICK l \in Nat : l = Len(dbFile)
  BY LenProperties
<1>4. Upto(rd) = IF a + c < l THEN a + c ELSE l
  BY <1>1, <1>2, <1>3 DEF Upto
<1>5. c # 0 /\ a <= l
  BY <1>1, <1>2, <1>3
<1>6. /\ Upto(rd) \in Nat /\ a <= Upto(rd) /\ Upto(rd) <= l
      /\ Upto(rd) = a => a = l
  BY ONLY <1>4, <1>5, a \in Nat, c \in Nat, l \in Nat
<1> QED BY <1>1, <1>3, <1>6

\* read_zfile goes on: one more chunk, or the end.
LEMMA FileReadStep ==
  ASSUME FileIInv, ReadChunk, UNCHANGED history
  PROVE  FileIInv' /\ ~Idle'
<1>1. /\ dbFile' = dbFile /\ errorsFile' = errorsFile /\ Reading
      /\ details' = details /\ torn' = torn
  BY DEF ReadChunk, history
<1>2. PICK d \in Seq(Results) : d = details
  BY DEF FileIInv, FileTypes
<1>3. PICK f \in Seq(Nat) : f = dbFile /\ f = Contents
  BY <1>1, ContentsIs DEF FileIInv, ReaderTypes
<1>4. PICK rd \in Readers : rd = reader
  BY <1>1 DEF FileIInv, ReaderTypes
<1>5. rd.status = "reading" /\ rd.query.what = "data" /\ rd.chunk # 0 /\ rd.at <= Len(f)
  BY <1>1, <1>3, <1>4 DEF FileIInv, ReaderTypes, Reading
<1>6. PICK a \in Nat : a = rd.at
  BY ReaderIs
<1>7. PICK m \in Nat : m = Upto(reader) /\ a <= m /\ m <= Len(f) /\ (m = a => a = Len(f))
  <2>1. /\ Upto(rd) \in Nat /\ rd.at <= Upto(rd) /\ Upto(rd) <= Len(dbFile)
        /\ Upto(rd) = rd.at => rd.at = Len(dbFile)
    BY <1>3, <1>5, UptoIs
  <2> QED BY <1>3, <1>4, <1>6, <2>1
<1>8. PICK data \in Seq(Nat) : data = reader.remaining \o SubSeq(dbFile, reader.at + 1, Upto(reader))
  <2>1. SubSeq(f, a + 1, m) \in Seq(Nat)
    BY <1>7, PartStands
  <2>2. rd.remaining \in Seq(Nat)
    BY ReaderIs
  <2> QED BY <1>3, <1>4, <1>6, <1>7, <2>1, <2>2, ConcatProperties
<1>9. reader' =
        IF data = <<>> THEN Answered([rd EXCEPT !.status = "ended"])
        ELSE Answered([FoldLeft(Feed, rd, Parsed(data).records) EXCEPT
                         !.at = m, !.remaining = Parsed(data).remaining])
  BY <1>4, <1>7, <1>8 DEF ReadChunk
<1>10. FileTypes' /\ HistorySound' /\ \A q : Asked(q)' = Asked(q)
  BY <1>1, HistoryStays
\* What is known of a file that was never cut off.
<1>11. ASSUME torn = 0
       PROVE  \E e : /\ Layout(e, d, f) /\ BatchSound(rd, d)
                     /\ LastBy(rd.current, e, d, a)
                     /\ e[rd.current] \in Nat /\ e[rd.current] <= m
                     /\ data = SubSeq(f, e[rd.current] + 1, m)
  <2>1. PICK e : Layout(e, d, f) /\ ReadsOn(e)
    BY <1>1, <1>2, <1>3, <1>11 DEF FileIInv, FileLaidOut
  <2>2. /\ BatchSound(rd, d) /\ LastBy(rd.current, e, d, a)
        /\ rd.remaining = SubSeq(f, e[rd.current] + 1, a)
    BY <1>2, <1>3, <1>4, <1>6, <2>1 DEF ReadsOn
  <2>3. rd.current \in 0..Len(d) /\ e[rd.current] <= a
    BY <2>2 DEF LastBy
  <2>4. PICK o \in Nat : o = e[rd.current]
    BY <2>1, <2>3, LayoutGrows
  <2>5. o <= a /\ a <= m /\ m <= Len(f) /\ o <= m
    <3>1. o <= a
      BY <2>3, <2>4
    <3> QED BY <1>7, <3>1
  <2>6. SubSeq(f, o + 1, a) \o SubSeq(f, a + 1, m) = SubSeq(f, o + 1, m)
    BY <2>5, PartsJoin, SMTT(40)
  <2>7. data = SubSeq(f, o + 1, m)
    BY <1>3, <1>4, <1>6, <1>7, <1>8, <2>2, <2>4, <2>6
  <2> QED BY <2>1, <2>2, <2>4, <2>5, <2>7
<1>12. ASSUME NEW n \in Readers, n.status = "ended", n.query = rd.query,
              torn = 0 => BatchSound(n, d) /\ Through(n, d), reader' = Answered(n)
       PROVE  FileIInv' /\ ~Idle'
  <2>1. Asked(n.query)' = d
    <3>1. n.query.what = "data"
      BY <1>5, <1>12
    <3>2. Asked(n.query) = d
      BY <1>2, <3>1 DEF Asked
    <3> QED BY <1>10, <3>2
  <2>2. torn = 0 => Ends(n)'
    BY <1>12, <2>1 DEF Ends
  <2>3. reader'.status = "ended"
    BY <1>12, ReaderIs DEF Answered
  <2>4. AnswerSound' /\ ~Reading' /\ ~Idle'
    BY <1>1, <2>2, <2>3 DEF AnswerSound, Reading, Idle
  <2>5. FileLaidOut' /\ ReaderTypes'
    BY <1>1, <2>4, HistoryStays
  <2> QED BY <1>10, <2>4, <2>5 DEF FileIInv
<1>13. CASE data = <<>>
  <2>1. PICK n : n = [rd EXCEPT !.status = "ended"]
    OBVIOUS
  <2>2. n \in Readers /\ n.status = "ended" /\ n.query = rd.query
    BY <2>1, ReaderIs DEF Readers
  <2>3. ASSUME torn = 0 PROVE BatchSound(n, d) /\ Through(n, d)
    <3>1. PICK e : /\ Layout(e, d, f) /\ BatchSound(rd, d)
                   /\ LastBy(rd.current, e, d, a)
                   /\ e[rd.current] \in Nat /\ e[rd.current] <= m
                   /\ data = SubSeq(f, e[rd.current] + 1, m)
      BY <1>11, <2>3
    <3>2. PICK o \in Nat : o = e[rd.current]
      BY <3>1
    <3>3. o <= m /\ Len(data) = m - o
      <4>1. o <= m
        BY <3>1, <3>2
      <4>2. m <= Len(f)
        BY <1>7
      <4>3. Len(SubSeq(f, o + 1, m)) = m - o
        BY ONLY f \in Seq(Nat), o \in Nat, m \in Nat, <4>1, <4>2, PartStands
      <4>4. data = SubSeq(f, o + 1, m)
        BY <3>1, <3>2
      <4> QED BY ONLY <4>1, <4>3, <4>4
    <3>4. m = o
      BY <1>13, <3>3
    <3>5. rd.current \in 0..Len(d) /\ o <= a /\ (rd.current < Len(d) => a < e[rd.current + 1])
      BY <3>1, <3>2 DEF LastBy
    <3>6. a = Len(f)
      BY <1>7, <3>4, <3>5
    <3>7. ASSUME rd.current < Len(d) PROVE FALSE
      <4>1. rd.current + 1 \in 0..Len(d)
        BY <3>5, <3>7, LenProperties
      <4>2. e[rd.current + 1] \in Nat /\ e[rd.current + 1] <= Len(f) /\ Len(f) \in Nat
        BY <3>1, <4>1, LayoutGrows
      <4>3. a < e[rd.current + 1]
        BY <3>5, <3>7
      <4> QED BY <3>6, <4>2, <4>3
    <3>8. rd.current = Len(d)
      BY <3>5, <3>7, LenProperties
    <3>9. Through(rd, d)
      BY <3>8 DEF Through
    <3> QED BY <2>1, <3>1, <3>9, EndedReader
  <2>4. reader' = Answered(n)
    BY <1>9, <1>13, <2>1
  <2> QED BY <1>12, <2>2, <2>3, <2>4
<1>14. CASE data # <<>>
  <2>1. PICK n : n = [FoldLeft(Feed, rd, Parsed(data).records) EXCEPT
                        !.at = m, !.remaining = Parsed(data).remaining]
    OBVIOUS
  <2>2. n \in Readers /\ n.query = rd.query /\ n.chunk = rd.chunk /\ n.at = m
    <3> DEFINE x == [FoldLeft(Feed, rd, Parsed(data).records) EXCEPT
                       !.at = m, !.remaining = Parsed(data).remaining]
    <3>1. x \in Readers /\ x.query = rd.query /\ x.chunk = rd.chunk /\ x.at = m
      BY ONLY rd \in Readers, data \in Seq(Nat), m \in Nat, ChunkTyped, ZenonT(40)
    <3>2. n = x
      BY <2>1
    <3> QED BY ONLY <3>1, <3>2
  <2>3. ASSUME torn = 0
        PROVE  \E e : /\ Layout(e, d, f)
                      /\ n.status = "reading" =>
                           /\ BatchSound(n, d) /\ LastBy(n.current, e, d, m)
                           /\ n.remaining = SubSeq(f, e[n.current] + 1, m)
                      /\ n.status = "ended" => BatchSound(n, d) /\ Through(n, d)
                      /\ n.status = "failed" => \E i \in DOMAIN d : HoldsMark(d[i])
    <3>1. PICK e : /\ Layout(e, d, f) /\ BatchSound(rd, d)
                   /\ e[rd.current] <= m
                   /\ data = SubSeq(f, e[rd.current] + 1, m)
      BY <1>11, <2>3
    <3>2. Advances(rd, d, f, e, m)
      BY <1>5, <1>7, <3>1, ChunkAdvances
    <3> QED BY <2>1, <3>1, <3>2 DEF Advances
  <2>4. reader' = Answered(n)
    BY <1>9, <1>14, <2>1
  <2>5. n.status \in {"reading", "ended", "failed"}
    BY <2>2, ReaderIs
  <2>6. CASE n.status = "ended"
    <3>1. torn = 0 => BatchSound(n, d) /\ Through(n, d)
      BY <2>3, <2>6
    <3> QED BY <1>12, <2>2, <2>4, <2>6, <3>1
  <2>7. CASE n.status = "failed"
    <3>1. reader' = n
      BY <2>4, <2>7 DEF Answered
    <3>2. torn # 0 \/ \E i \in DOMAIN details : HoldsMark(details[i])
      BY <1>2, <2>3, <2>7
    <3>3. torn' # 0 \/ \E i \in DOMAIN details' : HoldsMark(details'[i])
      BY <1>1, <3>2
    <3>4. AnswerSound' /\ ~Reading' /\ ~Idle'
      BY <2>7, <3>1, <3>3 DEF AnswerSound, Reading, Idle
    <3>5. FileLaidOut' /\ ReaderTypes'
      BY <1>1, <3>4, HistoryStays
    <3> QED BY <1>10, <3>4, <3>5 DEF FileIInv
  <2>8. CASE n.status = "reading"
    <3>1. reader' = n
      BY <2>4, <2>8 DEF Answered
    <3>2. ReaderTypes'
      BY <1>1, <1>3, <1>5, <1>7, <2>2, <3>1 DEF ReaderTypes
    <3>3. AnswerSound' /\ ~Idle'
      BY <2>8, <3>1 DEF AnswerSound, Idle
    <3>4. ASSUME torn = 0 PROVE FileLaidOut'
      <4>1. PICK e : /\ Layout(e, d, f)
                     /\ BatchSound(n, d) /\ LastBy(n.current, e, d, m)
                     /\ n.remaining = SubSeq(f, e[n.current] + 1, m)
        BY <2>3, <2>8, <3>4
      <4>2. ReadsOn(e)'
        BY <1>1, <1>2, <1>3, <2>2, <3>1, <4>1 DEF ReadsOn
      <4> QED BY <1>1, <1>2, <1>3, <4>1, <4>2, HistoryStays
    <3>5. FileLaidOut'
      <4>1. torn # 0 => FileLaidOut'
        BY <1>1, HistoryStays
      <4> QED BY <3>4, <4>1
    <3> QED BY <1>10, <3>2, <3>3, <3>5 DEF FileIInv
  <2> QED BY <2>5, <2>6, <2>7, <2>8
<1> QED BY <1>13, <1>14

-----------------------------------------------------------------------------
(* The inductive invariant.                                                *)

\* No key of the run exists.
LEMMA RedisInitial == Init => RedisIInv
<1> SUFFICES ASSUME Init PROVE RedisIInv
  OBVIOUS
<1>1. /\ log = <<>> /\ over = FALSE /\ reply = NoReply
      /\ redis = [metadata |-> {}, counters |-> {}, count |-> [t \in AllTypes |-> 0],
                  data |-> <<>>, errors |-> <<>>,
                  bcounters |-> {}, bcount |-> [r \in Results |-> 0]]
  BY DEF Init, RedisInit
<1>2. <<>> \in Seq(Results) /\ Len(<<>>) = 0 /\ 0 \in Nat
  BY EmptySeq
<1>3. RedisTypes
  BY <1>1, <1>2 DEF RedisTypes
<1>4. KeysSound
  <2>1. SameAs(redis.data, log) /\ SameAs(redis.errors, OfTypes(log, {"addError"}))
    BY <1>1, OfTypesEmpty DEF SameAs
  <2>2. redis.bcounters = ToSet(log)
    <3>1. \A x : x \notin ToSet(<<>>)
      <4>1. \A x : x \in ToSet(<<>>) <=> \E i \in 1..0 : <<>>[i] = x
        BY <1>2, ElementsOf
      <4> QED BY <4>1
    <3> QED BY <1>1, <3>1
  <2>3. \A r \in Results : redis.bcount[r] = r.size * Times(r, log)
    <3> TAKE r \in Results
    <3> PICK size \in Nat : size = r.size
      BY SizeTypes
    <3>1. size * 0 = 0
      OBVIOUS
    <3>2. redis.bcount[r] = 0 /\ Times(r, log) = 0
      BY <1>1, TimesEmpty
    <3> QED BY <3>1, <3>2
  <2>4. \A t \in AllTypes : /\ redis.count[t] = SizesOf(t, log)
                            /\ t \in redis.counters <=> redis.count[t] > 0
    <3> TAKE t \in AllTypes
    <3>1. redis.count[t] = 0 /\ SizesOf(t, log) = 0 /\ t \notin redis.counters
      BY <1>1, SizesEmpty
    <3> QED BY <3>1
  <2> QED BY <2>1, <2>2, <2>3, <2>4 DEF KeysSound
<1>5. ReplySound
  BY <1>1 DEF ReplySound, NoReply
<1> QED BY <1>3, <1>4, <1>5 DEF RedisIInv

\* A step that adds nothing to redis.
LEMMA KeysStay ==
  ASSUME RedisTypes, KeysSound, log' = log, over' \in BOOLEAN, redis' = redis
  PROVE  RedisTypes' /\ KeysSound'
BY DEF RedisTypes, KeysSound

\* add: one pipeline changes all keys.
LEMMA RedisAdds ==
  ASSUME RedisIInv, NEW r \in Results, Idle, reader' = reader, RedisAdd(r),
         log' = Append(log, r), over' = over
  PROVE  RedisIInv'
<1>1. reply' = reply
  BY DEF RedisAdd
<1>2. RedisTypes /\ KeysSound /\ ReplySound
  BY DEF RedisIInv
<1>3. RedisTypes' /\ KeysSound'
  <2>1. log' \in Seq(Results) /\ over' \in BOOLEAN
    BY <1>2, AppendProperties DEF RedisTypes
  <2>2. /\ redis' \in [metadata : SUBSET {"ended"}, counters : SUBSET AllTypes,
                       count : [AllTypes -> Nat], data : Seq(Results), errors : Seq(Results),
                       bcounters : SUBSET Results, bcount : [Results -> Nat]]
        /\ KeysSound'
    BY <1>2, KeysAdd
  <2> QED BY <2>1, <2>2 DEF RedisTypes
<1>4. ReplySound'
  BY <1>1, <1>2 DEF ReplySound, NoReply
<1> QED BY <1>3, <1>4 DEF RedisIInv

\* summarize_run keeps them.
LEMMA RedisEndStep ==
  ASSUME RedisIInv, EndRun
  PROVE  RedisIInv'
<1>1. /\ Idle /\ log' = log /\ over' = TRUE /\ reply' = reply
      /\ redis' = [redis EXCEPT !.metadata = @ \cup {"ended"}]
  BY DEF EndRun, FileSummarize, RedisSummarize
<1>2. RedisTypes /\ KeysSound /\ ReplySound
  BY DEF RedisIInv
<1>3. /\ redis'.metadata = redis.metadata \cup {"ended"}
      /\ redis'.counters = redis.counters /\ redis'.count = redis.count
      /\ redis'.data = redis.data /\ redis'.errors = redis.errors
      /\ redis'.bcounters = redis.bcounters /\ redis'.bcount = redis.bcount
  BY <1>1, <1>2 DEF RedisTypes
<1>4. RedisTypes'
  BY <1>1, <1>2 DEF RedisTypes
<1>5. KeysSound'
  BY <1>1, <1>2, <1>3 DEF KeysSound
<1>6. ReplySound'
  BY <1>1, <1>2 DEF ReplySound, NoReply
<1> QED BY <1>4, <1>5, <1>6 DEF RedisIInv

\* A query is answered at once.
LEMMA RedisAskStep ==
  ASSUME RedisIInv, NEW q \in AllQueries, RedisAsk(q), UNCHANGED history, ~Idle'
  PROVE  RedisIInv'
<1>1. /\ log' = log /\ over' = over /\ redis' = redis
      /\ \/ reply' = [status |-> "failed"]
         \/ reply' = [status |-> "answered", query |-> q, found |-> RedisFound(q)]
  BY DEF history, RedisAsk, RedisFound
<1>2. RedisTypes /\ KeysSound
  BY DEF RedisIInv
<1>3. RedisTypes' /\ KeysSound'
  BY <1>1, <1>2, KeysStay DEF RedisTypes
<1>4. CASE reply' = [status |-> "failed"]
  BY <1>3, <1>4 DEF RedisIInv, ReplySound
<1>5. CASE reply' = [status |-> "answered", query |-> q, found |-> RedisFound(q)]
  <2>1. reply'.query = q /\ reply'.found = RedisFound(q) /\ reply'.status = "answered"
    BY <1>5
  <2>2. IsSync(q) => AgreeWithCounts(RedisFound(q))
    BY <1>2, RedisHonest
  <2>3. PICK found : found = RedisFound(q)
    OBVIOUS
  <2>4. IsSync(q) => AgreeWithCounts(reply.found)'
    BY <1>1, <2>1, <2>2, <2>3 DEF AgreeWithCounts
  <2> QED BY <1>3, <2>1, <2>4 DEF RedisIInv, ReplySound
<1> QED BY <1>1, <1>4, <1>5

\* The answer waits,
LEMMA RedisReadStep ==
  ASSUME RedisIInv, UNCHANGED <<redisVars, history>>, ~Idle'
  PROVE  RedisIInv'
<1>1. log' = log /\ over' = over /\ reply' = reply /\ redis' = redis
  BY DEF redisVars, history
<1>2. RedisTypes /\ KeysSound /\ ReplySound
  BY DEF RedisIInv
<1>3. RedisTypes' /\ KeysSound'
  BY <1>1, <1>2, KeysStay DEF RedisTypes
<1>4. ReplySound'
  BY <1>1, <1>2 DEF ReplySound, AgreeWithCounts
<1> QED BY <1>3, <1>4 DEF RedisIInv

\* ... and is sent.
LEMMA RedisSendStep ==
  ASSUME RedisIInv, RedisSends, UNCHANGED history
  PROVE  RedisIInv'
<1>1. log' = log /\ over' = over /\ reply' = NoReply /\ redis' = redis
  BY DEF history, RedisSends
<1>2. RedisTypes /\ KeysSound
  BY DEF RedisIInv
<1>3. RedisTypes' /\ KeysSound'
  BY <1>1, <1>2, KeysStay DEF RedisTypes
<1>4. ReplySound'
  BY <1>1 DEF ReplySound, NoReply
<1> QED BY <1>3, <1>4 DEF RedisIInv

DatabasesIInv == FileIInv /\ RedisIInv

\* Stuttering.
LEMMA DatabasesStays ==
  ASSUME DatabasesIInv, UNCHANGED vars
  PROVE  DatabasesIInv'
<1>1. /\ dbFile' = dbFile /\ errorsFile' = errorsFile /\ reader' = reader
      /\ redis' = redis /\ reply' = reply /\ log' = log /\ details' = details
      /\ over' = over /\ torn' = torn
  BY DEF vars, fileVars, redisVars, history
<1>2. FileIInv /\ RedisTypes /\ KeysSound /\ ReplySound
  BY DEF DatabasesIInv, RedisIInv
<1>3. UNCHANGED history /\ UNCHANGED <<dbFile, errorsFile>>
  BY <1>1 DEF history
<1>4. AnswerSound'
  <2>1. \A rd : Ends(rd) => Ends(rd)'
    BY <1>1, <1>2, <1>3, HistoryStays DEF Ends
  <2> QED BY <1>1, <1>2, <2>1 DEF FileIInv, AnswerSound
<1>5. FileLaidOut' /\ ReaderTypes'
  BY <1>1, <1>2 DEF FileIInv, FileLaidOut, ReadsOn, ReaderTypes, Contents, Reading
<1>6. FileIInv'
  BY <1>2, <1>3, <1>4, <1>5, HistoryStays DEF FileIInv
<1>7. RedisTypes' /\ KeysSound'
  BY <1>1, <1>2, KeysStay DEF RedisTypes
<1>8. ReplySound'
  BY <1>1, <1>2 DEF ReplySound, AgreeWithCounts, Idle
<1> QED BY <1>6, <1>7, <1>8 DEF DatabasesIInv, RedisIInv

\* Whatever is added and asked: as long as no record was cut off the file holds
\* what was added since it was summarized, and a reader what _batch makes of what
\* it has read; the lines of errors and the keys of redis are always those of what
\* was added, and wherever flush is cut off a query goes on, fails or ends.
THEOREM DatabasesInductive == Spec => []DatabasesIInv
<1>1. Init => DatabasesIInv
  BY FileInitial, RedisInitial DEF DatabasesIInv
<1>2. DatabasesIInv /\ [Next]_vars => DatabasesIInv'
  <2> SUFFICES ASSUME DatabasesIInv, [Next]_vars
               PROVE  DatabasesIInv'
    OBVIOUS
  <2>0. FileIInv /\ RedisIInv
    BY DEF DatabasesIInv
  <2>1. ASSUME NEW r \in Results, Add(r) PROVE DatabasesIInv'
    <3>1. /\ Idle /\ reader' = reader /\ RedisAdd(r)
          /\ log' = Append(log, r) /\ over' = over
      BY <2>1 DEF Add, FileAdd
    <3> QED BY <2>0, <2>1, <3>1, FileAddStep, RedisAdds DEF DatabasesIInv
  <2>2. ASSUME NEW r \in Results, Tear(r) PROVE DatabasesIInv'
    <3>1. /\ Idle /\ reader' = reader /\ RedisAdd(r)
          /\ log' = Append(log, r) /\ over' = over
      BY <2>2 DEF Tear, FileTorn
    <3> QED BY <2>0, <2>2, <3>1, FileTearStep, RedisAdds DEF DatabasesIInv
  <2>3. CASE EndRun
    BY <2>0, <2>3, FileEndStep, RedisEndStep DEF DatabasesIInv
  <2>4. ASSUME NEW q \in AllQueries, Ask(q) PROVE DatabasesIInv'
    <3>1. FileAsk(q) /\ RedisAsk(q) /\ UNCHANGED history
      BY <2>4 DEF Ask
    <3>2. FileIInv' /\ ~Idle'
      BY <2>0, <3>1, FileAskStep
    <3>3. RedisIInv'
      BY <2>0, <3>1, <3>2, RedisAskStep
    <3> QED BY <3>2, <3>3 DEF DatabasesIInv
  <2>5. CASE Read
    <3>1. ReadChunk /\ UNCHANGED <<redisVars, history>> /\ UNCHANGED history
      BY <2>5 DEF Read
    <3>2. FileIInv' /\ ~Idle'
      BY <2>0, <3>1, FileReadStep
    <3>3. RedisIInv'
      BY <2>0, <3>1, <3>2, RedisReadStep
    <3> QED BY <3>2, <3>3 DEF DatabasesIInv
  <2>6. CASE Send
    <3>1. FileSends /\ RedisSends /\ UNCHANGED history
      BY <2>6 DEF Send
    <3> QED BY <2>0, <3>1, FileSendStep, RedisSendStep DEF DatabasesIInv
  <2>7. CASE UNCHANGED vars
    BY <2>7, DatabasesStays
  <2> QED BY <2>1, <2>2, <2>3, <2>4, <2>5, <2>6, <2>7 DEF Next
<1> QED BY <1>1, <1>2, PTL DEF Spec

-----------------------------------------------------------------------------
(* What holds between any two steps.                                       *)

\* The end of a sequence.
LEMMA SuffixIs ==
  ASSUME NEW S, NEW old \in Seq(S), NEW s \in Seq(S), NEW t, t = old \o s
  PROVE  IsSuffix(s, t) /\ t \in Seq(S) /\ Len(t) = Len(old) + Len(s)
<1>1. PICK a \in Nat : a = Len(old)
  BY LenProperties
<1>2. PICK b \in Nat : b = Len(s)
  BY LenProperties
<1>3. /\ t \in Seq(S) /\ Len(t) = a + b
      /\ \A i \in 1..(a + b) : t[i] = IF i <= a THEN old[i] ELSE s[i - a]
  <2>1. /\ old \o s \in Seq(S) /\ Len(old \o s) = Len(old) + Len(s)
        /\ \A i \in 1..(Len(old) + Len(s)) :
             (old \o s)[i] = IF i <= Len(old) THEN old[i] ELSE s[i - Len(old)]
    BY ConcatProperties
  <2> QED BY <1>1, <1>2, <2>1
<1>4. \A i \in 1..b : s[(b - i) + 1] = t[((a + b) - i) + 1]
  <2> TAKE i \in 1..b
  <2>1. /\ ((a + b) - i) + 1 \in 1..(a + b) /\ ~(((a + b) - i) + 1 <= a)
        /\ (((a + b) - i) + 1) - a = (b - i) + 1
    OBVIOUS
  <2>2. \A j \in 1..(a + b) : ~(j <= a) => t[j] = s[j - a]
    BY <1>3
  <2>3. t[((a + b) - i) + 1] = s[(((a + b) - i) + 1) - a]
    BY <2>1, <2>2
  <2> QED BY <2>1, <2>3
<1> DEFINE u == Reverse(s)
           v == Reverse(t)
<1>5. /\ u \in Seq(S) /\ Len(u) = b /\ \A i \in 1..b : u[i] = s[(b - i) + 1]
  <2>1. u = [i \in 1..b |-> s[(b - i) + 1]]
    BY <1>2 DEF Reverse
  <2>2. \A i \in 1..b : s[(b - i) + 1] \in S
    <3> TAKE i \in 1..b
    <3>1. (b - i) + 1 \in 1..Len(s)
      BY <1>2
    <3> QED BY <3>1, ElementOfSeq
  <2> HIDE DEF u
  <2>3. u \in [1..b -> S]
    BY <2>1, <2>2
  <2>4. u \in Seq(S)
    BY <2>3, SeqDef
  <2> QED BY <2>1, <2>3, <2>4, LenProperties
<1>6. /\ v \in Seq(S) /\ Len(v) = a + b /\ \A i \in 1..(a + b) : v[i] = t[((a + b) - i) + 1]
  <2> PICK l \in Nat : l = a + b
    OBVIOUS
  <2>1. v = [i \in 1..l |-> t[(l - i) + 1]]
    BY <1>3 DEF Reverse
  <2>2. \A i \in 1..l : t[(l - i) + 1] \in S
    <3> TAKE i \in 1..l
    <3>1. (l - i) + 1 \in 1..Len(t)
      BY <1>3
    <3> QED BY <1>3, <3>1, ElementOfSeq
  <2> HIDE DEF v
  <2>3. v \in [1..l -> S]
    BY <2>1, <2>2
  <2>4. v \in Seq(S)
    BY <2>3, SeqDef
  <2>5. Len(v) = l
    BY <2>3, <2>4, LenProperties
  <2>6. \A i \in 1..l : v[i] = t[(l - i) + 1]
    BY <2>1
  <2> QED BY <2>4, <2>5, <2>6
<1> HIDE DEF u, v
<1>7. SubSeq(u, 1, b) = SubSeq(v, 1, b)
  <2>1. 0 \in Nat /\ 0 <= b /\ b - 0 = b /\ 0 + 1 = 1 /\ b <= Len(u) /\ b <= Len(v)
    BY <1>5, <1>6
  <2>2. PICK x : x = SubSeq(u, 0 + 1, b)
    OBVIOUS
  <2>3. PICK y : y = SubSeq(v, 0 + 1, b)
    OBVIOUS
  <2>4. /\ x \in Seq(S) /\ Len(x) = (IF 0 <= b THEN b - 0 ELSE 0)
        /\ \A i \in 1..(b - 0) : x[i] = u[0 + i]
    BY <1>5, <2>1, <2>2, PartIs
  <2>5. /\ y \in Seq(S) /\ Len(y) = (IF 0 <= b THEN b - 0 ELSE 0)
        /\ \A i \in 1..(b - 0) : y[i] = v[0 + i]
    BY <1>6, <2>1, <2>3, PartIs
  <2>6. Len(x) = b /\ Len(y) = b
    BY <2>1, <2>4, <2>5
  <2>7. \A i \in 1..b : x[i] = y[i]
    <3> TAKE i \in 1..b
    <3>1. 0 + i = i /\ i \in 1..(b - 0) /\ i \in 1..(a + b)
      OBVIOUS
    <3>2. x[i] = u[i] /\ y[i] = v[i]
      BY <2>4, <2>5, <3>1
    <3> QED BY <1>4, <1>5, <1>6, <3>1, <3>2
  <2>8. x = y
    BY <2>4, <2>5, <2>6, <2>7, SeqEqual
  <2> QED BY <2>1, <2>2, <2>3, <2>8
<1>8. IsPrefix(u, v)
  BY <1>5, <1>6, <1>7 DEF IsPrefix
<1> QED BY <1>1, <1>2, <1>3, <1>8 DEF IsSuffix, u, v

\* What was yielded and what remains is what was read of a whole file.
LEMMA ReaderIsSound == FileIInv => ReaderSound
<1> SUFFICES ASSUME FileIInv, Reading, torn = 0
             PROVE  SubSeq(dbFile, 1, reader.at) =
                      AllEncoded(SubSeq(details, 1, reader.current)) \o reader.remaining
  BY DEF ReaderSound
<1>1. PICK d \in Seq(Results) : d = details
  BY DEF FileIInv, FileTypes
<1>2. PICK e : Layout(e, details, Contents) /\ ReadsOn(e)
  BY DEF FileIInv, FileLaidOut
<1>3. PICK f \in Seq(Nat) : f = dbFile /\ f = Contents
  BY ContentsIs DEF FileIInv, ReaderTypes
<1>4. Layout(e, d, f)
  BY <1>1, <1>2, <1>3
<1>5. PICK a \in Nat : a = reader.at /\ a <= Len(f)
  <2>1. reader.at \in Nat /\ reader.at <= Len(f)
    BY <1>3, ReaderIs DEF FileIInv, ReaderTypes
  <2> QED BY <2>1
<1>6. PICK b \in 0..Len(d) : b = reader.current /\ e[b] <= a
  <2>1. reader.current \in 0..Len(d) /\ e[reader.current] <= a
    BY <1>1, <1>2, <1>5 DEF ReadsOn, LastBy
  <2> QED BY <2>1
<1>7. PICK o \in Nat : o = e[b]
  <2>1. \A c \in 0..Len(d) : e[c] \in Nat /\ e[c] <= Len(f)
    BY <1>4, LayoutGrows
  <2> QED BY <2>1
<1>8. AllEncoded(SubSeq(d, 1, b)) = SubSeq(f, 1, o)
  <2>1. AllEncoded(SubSeq(d, 1, b)) = SubSeq(f, 1, e[b])
    BY <1>4, WholePrefix
  <2> QED BY <1>7, <2>1
<1>9. reader.remaining = SubSeq(f, o + 1, a)
  BY <1>2, <1>3, <1>5, <1>6, <1>7 DEF ReadsOn
<1>10. SubSeq(f, 1, o) \o SubSeq(f, o + 1, a) = SubSeq(f, 1, a)
  <2>1. PICK z \in Nat : z = 0
    OBVIOUS
  <2>2. z <= o /\ o <= a /\ z + 1 = 1
    BY <1>6, <1>7, <2>1
  <2>3. SubSeq(f, z + 1, o) \o SubSeq(f, o + 1, a) = SubSeq(f, z + 1, a)
    BY <1>5, <2>2, PartsJoin
  <2> QED BY <2>2, <2>3
<1> QED BY <1>1, <1>3, <1>5, <1>6, <1>8, <1>9, <1>10

\* Wherever the chunks of read_zfile end, it has lost no record of a whole file,
\* yielded none twice and cut none; a query fails only when a record was cut off
\* or one that is whole holds the end mark; and counters and groups of redis agree
\* with the sizes of what was added.
THEOREM QueriesSound == Spec => []QueriesInv
<1>1. DatabasesIInv => QueriesInv
  <2> SUFFICES ASSUME DatabasesIInv PROVE QueriesInv
    OBVIOUS
  <2>1. FileIInv /\ RedisTypes /\ KeysSound /\ ReplySound
    BY DEF DatabasesIInv, RedisIInv
  <2>2. TypeOK
    <3>1. ASSUME torn = 0 PROVE IsSuffix(details, log)
      <4>1. PICK old \in Seq(Results) : log = old \o details
        BY <2>1, <3>1 DEF FileIInv, HistorySound
      <4>2. details \in Seq(Results)
        BY <2>1 DEF FileIInv, FileTypes
      <4> QED BY <4>1, <4>2, SuffixIs
    <3> QED BY <2>1, <3>1 DEF TypeOK, FileIInv, FileTypes, AnswerSound, ReplySound
  <2>3. ReaderSound
    BY <2>1, ReaderIsSound
  <2>4. FailsForCause
    <3> SUFFICES ASSUME reader.status = "failed"
                 PROVE  torn > 0 \/ \E i \in DOMAIN details : HoldsMark(details[i])
      BY DEF FailsForCause
    <3>1. torn \in 0..MaxTorn /\ MaxTorn \in Nat
      BY <2>1, DatabasesAssumption DEF FileIInv, FileTypes
    <3>2. torn # 0 \/ \E i \in DOMAIN details : HoldsMark(details[i])
      BY <2>1 DEF FileIInv, AnswerSound
    <3> QED BY <3>1, <3>2
  <2>5. RedisSyncs
    BY <2>1 DEF RedisSyncs, KeysSound, ReplySound
  <2> QED BY <2>2, <2>3, <2>4, <2>5 DEF QueriesInv
<1> QED BY <1>1, DatabasesInductive, PTL

\* What _batch answers without groups begins with the window of the query, and
\* without a type is that, the oldest result first: pages partition the results.
THEOREM PagesAreFound == Spec => []PagesAreWindows
<1>1. DatabasesIInv => PagesAreWindows
  <2> SUFFICES ASSUME DatabasesIInv, reader.status = "ended", torn = 0,
                      reader.query.what = "data", ~reader.query.groupby
               PROVE  LET q == reader.query
                          n == WindowOf(q, Len(details))
                          window == SubSeq(details, First(q) + 1, First(q) + n)
                      IN /\ IsPrefix(Selected(window, q), reader.found)
                         /\ q.type = None => reader.found = window
    BY DEF PagesAreWindows
  <2>1. PICK rd : Ends(rd)
    BY DEF DatabasesIInv, FileIInv, AnswerSound
  <2>2. PICK d \in Seq(Results) : d = details
    BY DEF DatabasesIInv, FileIInv, FileTypes
  <2>3. rd \in Readers /\ rd.status = "ended" /\ reader = Answered(rd)
    BY <2>1 DEF Ends
  <2>4. reader.query = rd.query
    BY <2>3, ReaderIs DEF Answered
  <2>5. reader = rd
    BY <2>3, <2>4 DEF Answered
  <2>6. BatchSound(rd, d) /\ Through(rd, d)
    BY <2>1, <2>2, <2>5 DEF Ends, Asked
  <2>7. LET q == rd.query
            window == SubSeq(d, First(q) + 1, First(q) + WindowOf(q, Len(d)))
        IN /\ IsPrefix(Selected(window, q), rd.found)
           /\ q.type = None => rd.found = window
    BY <2>3, <2>6, PageFound
  <2> QED BY <2>2, <2>5, <2>7
<1> QED BY <1>1, DatabasesInductive, PTL

-----------------------------------------------------------------------------
(* The promise of the file database.                                       *)

\* The promise of the file database is about the same operators.
LEMMA FileHelpers ==
  /\ \A s, types : FileStore!OfTypes(s, types) = OfTypes(s, types)
  /\ \A s, q : FileStore!Selected(s, q) = Selected(s, q)
  /\ \A s, x : FileStore!Times(x, s) = Times(x, s)
  /\ \A q, n : FileStore!WindowOf(q, n) = WindowOf(q, n)
  /\ \A q : FileStore!IsWhole(q) <=> IsWhole(q)
  /\ \A s : FileStore!ToBag(s) = ToBag(s)
  /\ \A s : FileStore!ToSet(s) = ToSet(s)
  /\ \A a, b : FileStore!\sqsubseteq(a, b) <=> a \sqsubseteq b
<1>1. \A s, types : FileStore!OfTypes(s, types) = OfTypes(s, types)
  BY DEF FileStore!OfTypes, OfTypes, FileStore!Kept, Kept
<1>2. \A s, q : FileStore!Selected(s, q) = Selected(s, q)
  BY DEF FileStore!Selected, Selected, FileStore!IsOfType, IsOfType, FileStore!Kept, Kept
<1>3. \A s, x : FileStore!Times(x, s) = Times(x, s)
  BY DEF FileStore!Times, Times, FileStore!Cardinality, Cardinality
<1>4. \A q, n : FileStore!WindowOf(q, n) = WindowOf(q, n)
  BY DEF FileStore!WindowOf, WindowOf, FileStore!First, First
<1>5. \A q : FileStore!IsWhole(q) <=> IsWhole(q)
  BY DEF FileStore!IsWhole, IsWhole
<1>6. \A s : FileStore!ToBag(s) = ToBag(s)
  BY DEF FileStore!ToBag, ToBag, FileStore!Range, Range, FileStore!Cardinality, Cardinality
<1>7. \A s : FileStore!ToSet(s) = ToSet(s)
  BY DEF FileStore!ToSet, ToSet
<1>8. \A a, b : FileStore!\sqsubseteq(a, b) <=> a \sqsubseteq b
  BY DEF FileStore!\sqsubseteq, \sqsubseteq
<1> QED BY <1>1, <1>2, <1>3, <1>4, <1>5, <1>6, <1>7, <1>8

\* The files hold nothing that was not added, and all of it until the run ends.
LEMMA AskedIs ==
  ASSUME FileTypes, HistorySound, torn = 0, NEW q \in AllQueries
  PROVE  LET least == FileStore!Least(q)
             most == FileStore!Most(q)
             s == Selected(Asked(q), q)
         IN /\ least \in Seq(Results) /\ most \in Seq(Results) /\ s \in Seq(Results)
            /\ Len(least) <= Len(most)
            /\ \A x : Times(x, least) <= Times(x, most) /\ Times(x, s) <= Times(x, most)
            /\ q.what = "data" => least = most
            /\ ~over => s = most
            /\ q.type = None => s = Asked(q)
            /\ Asked(q) \in Seq(Results)
<1> DEFINE one == OfTypes(log, {"addError"})
           two == OfTypes(log, FileErrors)
           all == Selected(log, q)
<1>1. /\ log \in Seq(Results) /\ details \in Seq(Results) /\ errorsFile \in Seq(Results)
      /\ errorsFile = two
  BY DEF FileTypes, HistorySound
<1>2. PICK old \in Seq(Results) : log = old \o details /\ (~over => old = <<>>)
  BY DEF HistorySound
<1>3. Asked(q) \in Seq(Results)
  BY <1>1 DEF Asked
<1>4. /\ Selected(Asked(q), q) \in Seq(Results)
      /\ q.type = None => Selected(Asked(q), q) = Asked(q)
  BY <1>3, SelectedSound
<1>5. \A s \in Seq(Results) : \A x : Times(x, s) \in Nat
  BY TimesType
<1>6. CASE q.what = "errors"
  <2>1. FileStore!Least(q) = one /\ FileStore!Most(q) = two
    BY <1>6, FileHelpers DEF FileStore!Least, FileStore!Most, FileErrors
  <2>2. q.type = None /\ q.what # "data" /\ Asked(q) = two
    BY <1>1, <1>6, QueryTypes DEF Asked
  <2>3. one \in Seq(Results) /\ two \in Seq(Results) /\ Len(one) <= Len(two)
    <3>1. {"addError"} \subseteq FileErrors
      BY DEF FileErrors
    <3> QED BY <1>1, <3>1, OfTypesSound
  <2>4. ASSUME NEW x PROVE Times(x, one) <= Times(x, two)
    <3>1. Times(x, one) =
            IF x \in Results /\ x.type \in {"addError"} THEN Times(x, log) ELSE 0
      BY <1>1, OfTypesSound
    <3>2. Times(x, two) =
            IF x \in Results /\ x.type \in FileErrors THEN Times(x, log) ELSE 0
      BY <1>1, OfTypesSound
    <3>3. Times(x, log) \in Nat
      BY <1>1, <1>5
    <3>4. x.type \in {"addError"} => x.type \in FileErrors
      BY DEF FileErrors
    <3> HIDE DEF one, two
    <3> QED BY <3>1, <3>2, <3>3, <3>4
  <2> HIDE DEF one, two
  <2>5. ASSUME NEW x PROVE Times(x, two) <= Times(x, two)
    <3>1. Times(x, two) \in Nat
      BY <1>5, <2>3
    <3> QED BY <3>1
  <2> QED BY <1>3, <1>4, <2>1, <2>2, <2>3, <2>4, <2>5
<1>7. CASE q.what = "data"
  <2>1. FileStore!Least(q) = all /\ FileStore!Most(q) = all
    BY <1>7, FileHelpers DEF FileStore!Least, FileStore!Most
  <2>2. Asked(q) = details
    BY <1>7 DEF Asked
  <2>3. /\ all \in Seq(Results)
        /\ \A x : Times(x, all) = IF x \in Results /\ IsOfType(q, x) THEN Times(x, log) ELSE 0
    BY <1>1, SelectedSound
  <2>4. PICK s : s = Selected(details, q)
    OBVIOUS
  <2>5. /\ s \in Seq(Results)
        /\ \A x : Times(x, s) = IF x \in Results /\ IsOfType(q, x) THEN Times(x, details) ELSE 0
    BY <1>1, <2>4, SelectedSound
  <2>6. ASSUME NEW x PROVE Times(x, details) <= Times(x, log)
    <3>1. PICK d \in Seq(Results) : d = details
      BY <1>1
    <3>2. PICK a \in Nat : a = Len(old)
      BY LenProperties
    <3>3. PICK b \in Nat : b = Len(d)
      BY LenProperties
    <3>4. PICK t \in Seq(Results) : t = log
      BY <1>1
    <3>5. /\ Len(t) = a + b
          /\ \A i \in 1..(a + b) : t[i] = IF i <= a THEN old[i] ELSE d[i - a]
      <4>1. t = old \o d
        BY <1>2, <3>1, <3>4
      <4>2. /\ Len(old \o d) = Len(old) + Len(d)
            /\ \A i \in 1..(Len(old) + Len(d)) :
                 (old \o d)[i] = IF i <= Len(old) THEN old[i] ELSE d[i - Len(old)]
        BY ConcatProperties
      <4> QED BY <3>2, <3>3, <4>1, <4>2
    <3>6. \A i \in 1..b : d[i] = t[a + i]
      <4> TAKE i \in 1..b
      <4>1. a + i \in 1..(a + b) /\ ~(a + i <= a) /\ (a + i) - a = i
        OBVIOUS
      <4> QED BY <3>5, <4>1
    <3>7. a + Len(d) <= Len(t) /\ \A i \in 1..Len(d) : d[i] = t[a + i]
      BY <3>3, <3>5, <3>6
    <3>8. Times(x, d) <= Times(x, t)
      BY <3>7, TimesOfPart
    <3> QED BY <3>1, <3>4, <3>8
  <2>7. ~over => details = log
    <3>1. <<>> \o details = details
      BY <1>1, ConcatEmptySeq
    <3> QED BY <1>2, <3>1
  <2> HIDE DEF all
  <2>8. ASSUME NEW x PROVE Times(x, s) <= Times(x, all) /\ Times(x, all) <= Times(x, all)
    <3>1. Times(x, s) \in Nat /\ Times(x, all) \in Nat /\ Times(x, details) <= Times(x, log)
      BY <1>5, <2>3, <2>5, <2>6
    <3> QED BY <2>3, <2>5, <3>1
  <2>9. Len(all) <= Len(all)
    BY <2>3, LenProperties
  <2>10. ~over => s = all
    BY <2>4, <2>7 DEF all
  <2>11. Selected(Asked(q), q) = s
    BY <2>2, <2>4
  <2>12. PICK a : a = Asked(q)
    OBVIOUS
  <2>13. (q.type = None => s = a) /\ a \in Seq(Results)
    BY <1>3, <1>4, <2>11, <2>12
  <2> QED BY <2>1, <2>3, <2>5, <2>8, <2>9, <2>10, <2>11, <2>12, <2>13
<1>8. q.what \in {"data", "errors"}
  BY QueryTypes
<1> QED BY <1>6, <1>7, <1>8

\* What a query has found when it is through keeps the promise,
LEMMA FileListHonest ==
  ASSUME FileTypes, HistorySound, torn = 0, NEW rd \in Readers,
         BatchSound(rd, Asked(rd.query)), Through(rd, Asked(rd.query))
  PROVE  FileStore!HonestList(rd.query, rd.found)
<1>1. PICK q \in AllQueries : q = rd.query
  BY ReaderIs
<1>2. PICK asked \in Seq(Results) : asked = Asked(q)
  BY AskedIs
<1>3. PICK least \in Seq(Results) : least = FileStore!Least(q)
  BY AskedIs
<1>4. PICK most \in Seq(Results) : most = FileStore!Most(q)
  BY AskedIs
<1>5. PICK s \in Seq(Results) : s = Selected(asked, q)
  BY <1>2, AskedIs
<1>6. /\ Len(least) <= Len(most)
      /\ \A x : Times(x, least) <= Times(x, most) /\ Times(x, s) <= Times(x, most)
      /\ ~over => s = most
      /\ q.type = None => s = asked
  BY <1>2, <1>3, <1>4, <1>5, AskedIs
<1>7. PICK found \in Seq(Results) : found = rd.found
  BY ReaderIs
<1>8. /\ q.type = None => Len(found) = WindowOf(q, Len(asked))
      /\ \A x : Times(x, found) <= Times(x, s)
      /\ IsWhole(q) => found = s
      /\ q.size # None => Len(found) <= q.size
  <2>1. BatchSound(rd, asked) /\ Through(rd, asked)
    BY <1>1, <1>2
  <2>2. LET p == rd.query
            window == SubSeq(asked, First(p) + 1, First(p) + WindowOf(p, Len(asked)))
        IN /\ p.type = None => rd.found = window /\ Len(rd.found) = WindowOf(p, Len(asked))
           /\ \A x : Times(x, rd.found) <= Times(x, Selected(asked, p))
           /\ IsWhole(p) => rd.found = Selected(asked, p)
           /\ p.size # None => Len(rd.found) <= p.size
    BY <2>1, PageFound
  <2> QED BY <1>1, <1>5, <1>7, <2>2
<1>9. \A x : Times(x, found) <= Times(x, most)
  <2> TAKE x
  <2>1. Times(x, found) \in Nat /\ Times(x, s) \in Nat /\ Times(x, most) \in Nat
    BY TimesType
  <2> QED BY <1>6, <1>8, <2>1
<1>10. ToBag(found) \sqsubseteq ToBag(most)
  BY <1>9, BagLess
<1>11. ASSUME ~over, IsWhole(q) PROVE ToBag(least) \sqsubseteq ToBag(found)
  <2>1. \A x : Times(x, least) <= Times(x, found)
    BY <1>6, <1>8, <1>11
  <2> QED BY <2>1, BagLess
<1>12. ASSUME ~over, q.type = None
       PROVE  Len(found) \in WindowOf(q, Len(least))..WindowOf(q, Len(most))
  <2>1. Len(least) \in Nat /\ Len(most) \in Nat
    BY LenProperties
  <2>2. PICK a \in Nat : a = Len(least)
    BY <2>1
  <2>3. PICK b \in Nat : b = Len(most)
    BY <2>1
  <2>4. WindowOf(q, a) \in Nat /\ WindowOf(q, b) \in Nat /\ WindowOf(q, a) <= WindowOf(q, b)
    <3>1. a <= b
      BY <1>6, <2>2, <2>3
    <3> QED BY <3>1, WindowTypes
  <2>5. Len(found) = WindowOf(q, b)
    BY <1>6, <1>8, <1>12, <2>3
  <2> QED BY <2>2, <2>3, <2>4, <2>5
<1>13. FileStore!HonestList(q, found)
  BY <1>3, <1>4, <1>8, <1>10, <1>11, <1>12, FileHelpers
  DEF FileStore!HonestList, FileStore!Complete
<1> QED BY <1>1, <1>7, <1>13

\* ... and so do the groups of it.
LEMMA FileGroupsHonest ==
  ASSUME FileTypes, HistorySound, torn = 0, NEW rd \in Readers, rd.query.what = "data",
         BatchSound(rd, Asked(rd.query)), Through(rd, Asked(rd.query))
  PROVE  FileStore!HonestGroups(rd.query, Grouped(rd.found))
<1>1. PICK q \in AllQueries : q = rd.query
  BY ReaderIs
<1>2. PICK asked \in Seq(Results) : asked = Asked(q)
  BY AskedIs
<1>3. PICK most \in Seq(Results) : most = FileStore!Most(q) /\ most = FileStore!Least(q)
  BY <1>1, AskedIs
<1>4. PICK s \in Seq(Results) : s = Selected(asked, q)
  BY <1>2, AskedIs
<1>5. /\ \A x : Times(x, s) <= Times(x, most)
      /\ ~over => s = most
  BY <1>2, <1>3, <1>4, AskedIs
<1>6. PICK f \in Seq(Results) : f = rd.found
  BY ReaderIs
<1>7. /\ \A x : Times(x, f) <= Times(x, s)
      /\ IsWhole(q) => f = s
  <2>1. BatchSound(rd, asked) /\ Through(rd, asked)
    BY <1>1, <1>2
  <2>2. LET p == rd.query
        IN /\ \A x : Times(x, rd.found) <= Times(x, Selected(asked, p))
           /\ IsWhole(p) => rd.found = Selected(asked, p)
    BY <2>1, PageFound
  <2> QED BY <1>1, <1>4, <1>6, <2>2
<1>8. IsFiniteSet(ToSet(f)) /\ ToSet(f) \subseteq Results
      /\ \A x : x \in ToSet(f) <=> Times(x, f) # 0
  BY ElementsOf
<1>9. PICK set : set = ToSet(f)
  OBVIOUS
<1>10. PICK g \in Seq(set) : /\ g = SetToSeq(set) /\ ToSet(g) = set
                             /\ \A i, j \in 1..Len(g) : g[i] = g[j] => i = j
  BY <1>8, <1>9, Enumerated
<1>11. /\ DOMAIN g = 1..Len(g) /\ Len(g) \in Nat
       /\ \A i \in 1..Len(g) : g[i] \in set /\ g[i] \in Results /\ Times(g[i], f) # 0
  BY <1>8, <1>9, LenProperties, ElementOfSeq
<1> DEFINE found == Grouped(f)
<1>12. found = [i \in 1..Len(g) |-> [result |-> g[i], count |-> Times(g[i], f)]]
  BY <1>9, <1>10, <1>11 DEF Grouped
<1> HIDE DEF found
<1>13. /\ DOMAIN found = 1..Len(g)
       /\ \A i \in 1..Len(g) : found[i].result = g[i] /\ found[i].count = Times(g[i], f)
  BY <1>12
<1>14. \A i, j \in DOMAIN found : found[i].result = found[j].result => i = j
  BY <1>10, <1>13
<1>15. ASSUME NEW i \in DOMAIN found
       PROVE  /\ found[i].count \in 1..(Times(found[i].result, most) * found[i].result.size)
              /\ ~over /\ IsWhole(q) => found[i].count = Times(found[i].result, most)
  <2> PICK x \in Results : x = g[i] /\ Times(x, f) # 0
    BY <1>11, <1>13
  <2> PICK n \in Nat : n = Times(x, most)
    BY TimesType
  <2> PICK c \in Nat : c = Times(x, f) /\ c # 0
    BY TimesType
  <2> PICK k \in Nat : k = x.size /\ k # 0
    BY SizeTypes
  <2>1. c <= n
    <3>1. Times(x, s) \in Nat
      BY TimesType
    <3> QED BY <1>5, <1>7, <3>1
  <2>2. n <= n * k
    <3>1. PICK j \in Nat : k = j + 1
      <4>1. k - 1 \in Nat /\ k = (k - 1) + 1
        BY ONLY k \in Nat, k # 0
      <4> QED BY <4>1
    <3>2. n * (j + 1) = n * j + n /\ n * j \in Nat
      BY Products
    <3> QED BY <3>1, <3>2
  <2>3. c \in 1..(n * k)
    <3>1. n * k \in Nat
      BY Products
    <3> PICK m \in Nat : m = n * k
      BY <3>1
    <3>2. c \in 1..m
      BY <2>1, <2>2
    <3> QED BY <3>2
  <2>4. found[i].count = c /\ found[i].result = x
    BY <1>13
  <2>5. ~over /\ IsWhole(q) => c = n
    BY <1>5, <1>7
  <2> QED BY <2>3, <2>4, <2>5
<1>16. ASSUME ~over, IsWhole(q) PROVE ToSet(most) = {found[i].result : i \in DOMAIN found}
  <2>1. ToSet(most) = ToSet(g)
    BY <1>5, <1>7, <1>9, <1>10, <1>16
  <2>2. \A x : x \in ToSet(g) <=> \E i \in 1..Len(g) : g[i] = x
    <3>1. g \in Seq(Results)
      BY <1>8, <1>9, SeqMonotonic
    <3> QED BY <3>1, ElementsOf
  <2>3. \A x : x \in {found[i].result : i \in DOMAIN found} <=> \E i \in 1..Len(g) : g[i] = x
    BY <1>13
  <2>4. \A x : x \in ToSet(g) <=> x \in {found[i].result : i \in DOMAIN found}
    BY ONLY <2>2, <2>3
  <2>5. ToSet(g) = {found[i].result : i \in DOMAIN found}
    BY ONLY <2>4
  <2> QED BY <2>1, <2>5
<1>17. FileStore!HonestGroups(q, found)
  BY <1>3, <1>14, <1>15, <1>16, FileHelpers DEF FileStore!HonestGroups, FileStore!Complete
<1> QED BY <1>1, <1>6, <1>17 DEF found

-----------------------------------------------------------------------------
(* Both databases keep the promise.                                        *)

\* The same queries are asked.
LEMMA SameQueries ==
  FileStore!AllQueries = AllQueries /\ RedisStore!AllQueries = AllQueries
BY DEF FileStore!AllQueries, RedisStore!AllQueries, AllQueries,
       FileStore!DataQueries, RedisStore!DataQueries, DataQueries,
       FileStore!ErrorQueries, RedisStore!ErrorQueries, ErrorQueries

\* Whatever a step of a query makes of the reader is an answer, or none yet.
LEMMA FileAnswers ==
  ASSUME FileIInv, FileIInv', torn = 0, UNCHANGED history, errorsFile' = errorsFile,
         NEW q \in AllQueries
  PROVE  FileStore!Next
<1>1. log' = log /\ over' = over /\ details' = details /\ torn' = torn /\ (torn > 0)' = (torn > 0)
  BY DEF history
<1>2. CASE reader'.status = "ended"
  <2>1. PICK rd : Ends(rd)'
    BY <1>1, <1>2 DEF FileIInv, AnswerSound
  <2>2. \A p : Asked(p)' = Asked(p)
    BY <1>1 DEF Asked
  <2>3. /\ rd \in Readers /\ rd.status = "ended" /\ reader' = Answered(rd)
        /\ BatchSound(rd, Asked(rd.query)) /\ Through(rd, Asked(rd.query))
    BY <2>1, <2>2 DEF Ends
  <2>4. PICK p \in AllQueries : p = rd.query
    BY <2>3, ReaderIs
  <2>5. /\ reader'.query = p
        /\ reader'.found = IF p.groupby THEN Grouped(rd.found) ELSE rd.found
    BY <2>3, <2>4, ReaderIs DEF Answered
  <2>6. FileTypes /\ HistorySound
    BY DEF FileIInv
  <2>7. IF p.groupby THEN FileStore!HonestGroups(p, reader'.found)
        ELSE FileStore!HonestList(p, reader'.found)
    <3>1. CASE p.groupby
      <4>1. p.what = "data"
        BY <3>1, QueryTypes
      <4>2. FileStore!HonestGroups(p, Grouped(rd.found))
        BY <2>3, <2>4, <2>6, <4>1, FileGroupsHonest
      <4> QED BY <2>5, <3>1, <4>2
    <3>2. CASE ~p.groupby
      <4>1. FileStore!HonestList(p, rd.found)
        BY <2>3, <2>4, <2>6, FileListHonest
      <4> QED BY <2>5, <3>2, <4>1
    <3> QED BY <3>1, <3>2
  <2>8. FileAnswer' = [status |-> "answered", query |-> p, found |-> reader'.found]
    BY <1>2, <2>5 DEF FileAnswer
  <2>9. FileStore!Answer(p)
    BY <1>1, <2>7, <2>8 DEF FileStore!Answer
  <2> QED BY <2>4, <2>9, SameQueries DEF FileStore!Next
<1>3. CASE reader'.status = "refused"
  <2>1. over \/ log = <<>>
    BY <1>1, <1>3 DEF FileIInv, AnswerSound
  <2>2. FileAnswer' = [status |-> "refused"]
    BY <1>3 DEF FileAnswer
  <2>3. FileStore!Answer(q)
    BY <1>1, <2>1, <2>2 DEF FileStore!Answer, FileStore!Refusal
  <2> QED BY <2>3, SameQueries DEF FileStore!Next
<1>4. CASE reader'.status # "ended" /\ reader'.status # "refused"
  <2>1. FileAnswer' = [status |-> "none"]
    BY <1>4 DEF FileAnswer
  <2>2. FileStore!Forget
    BY <1>1, <2>1 DEF FileStore!Forget, FileStore!NoAnswer
  <2> QED BY <2>2 DEF FileStore!Next
<1> QED BY <1>2, <1>3, <1>4

\* Between two queries there is no answer.
LEMMA FileIdles ==
  ASSUME Idle, reader' = reader
  PROVE  FileAnswer' = FileStore!NoAnswer
BY DEF Idle, FileAnswer, FileStore!NoAnswer

\* The file database implements ResultStore as long as no record is cut off: it
\* answers get_data and get_errors with results that it was given, none more often
\* than that, in pages as long as they can be, or not at all, and refuses only
\* details that are gone or not there yet.  It fails, but never answers wrongly,
\* when a result holds an end mark.
THEOREM FileImplements == Spec /\ [](torn = 0) => FileKeepsPromise
<1>1. Init => FileStore!Init
  <2> SUFFICES ASSUME Init PROVE FileStore!Init
    OBVIOUS
  <2>1. log = <<>> /\ over = FALSE /\ torn = 0 /\ reader = NoReader
    BY DEF Init, FileInit
  <2>2. (torn > 0) = FALSE /\ FileAnswer = FileStore!NoAnswer
    BY <2>1 DEF NoReader, FileAnswer, FileStore!NoAnswer
  <2> QED BY <2>1, <2>2 DEF FileStore!Init
<1>2. DatabasesIInv /\ DatabasesIInv' /\ torn = 0 /\ (torn = 0)' /\ [Next]_vars
        => [FileStore!Next]_FileStore!vars
  <2> SUFFICES ASSUME DatabasesIInv, DatabasesIInv', torn = 0, torn' = 0, [Next]_vars
               PROVE  [FileStore!Next]_FileStore!vars
    OBVIOUS
  <2>0. FileIInv /\ FileIInv' /\ (torn > 0)' = (torn > 0)
    BY DEF DatabasesIInv
  <2>1. ASSUME NEW r \in Results, Add(r) PROVE FileStore!Next
    <3>1. Idle /\ reader' = reader /\ log' = Append(log, r) /\ over' = over
      BY <2>1 DEF Add, FileAdd
    <3>2. FileStore!Add(r)
      BY <2>0, <3>1, FileIdles DEF FileStore!Add
    <3> QED BY <3>2 DEF FileStore!Next
  <2>2. ASSUME NEW r \in Results, Tear(r) PROVE FALSE
    <3>1. torn' = torn + 1
      BY <2>2 DEF Tear
    <3> QED BY <3>1
  <2>3. CASE EndRun
    <3>1. Idle /\ reader' = reader /\ log' = log /\ over' = TRUE
      BY <2>3 DEF EndRun, FileSummarize
    <3>2. FileStore!End
      BY <2>0, <3>1, FileIdles DEF FileStore!End
    <3> QED BY <3>2 DEF FileStore!Next
  <2>4. ASSUME NEW q \in AllQueries, Ask(q) PROVE FileStore!Next
    <3>1. UNCHANGED history /\ errorsFile' = errorsFile
      BY <2>4 DEF Ask, FileAsk
    <3> QED BY <2>0, <3>1, FileAnswers
  <2>5. CASE Read
    <3>1. UNCHANGED history /\ errorsFile' = errorsFile /\ Reading
      BY <2>5 DEF Read, ReadChunk
    <3>2. reader.query \in AllQueries
      <4>1. reader \in Readers
        BY <2>0, <3>1 DEF FileIInv, ReaderTypes
      <4> QED BY <4>1, ReaderIs
    <3> QED BY <2>0, <3>1, <3>2, FileAnswers
  <2>6. CASE Send
    <3>1. log' = log /\ over' = over /\ reader' = NoReader
      BY <2>6 DEF Send, FileSends, history
    <3>2. FileStore!Forget
      BY <2>0, <3>1 DEF FileStore!Forget, FileStore!NoAnswer, FileAnswer, NoReader
    <3> QED BY <3>2 DEF FileStore!Next
  <2>7. CASE UNCHANGED vars
    <3>1. log' = log /\ over' = over /\ reader' = reader
      BY <2>7 DEF vars, fileVars, history
    <3>2. UNCHANGED FileStore!vars
      BY <2>0, <3>1 DEF FileStore!vars, FileAnswer
    <3> QED BY <3>2
  <2> QED BY <2>1, <2>2, <2>3, <2>4, <2>5, <2>6, <2>7 DEF Next
<1> QED BY <1>1, <1>2, DatabasesInductive, PTL DEF Spec, FileKeepsPromise, FileStore!Spec

\* Redis implements ResultStore: its lists, groups and counters answer for the
\* same results, in another order and by their sizes, and it never refuses.
THEOREM RedisImplements == Spec => RedisKeepsPromise
<1>1. Init => RedisStore!Init
  BY DEF Init, RedisInit, NoReply, RedisStore!Init, RedisStore!NoAnswer, RedisAnswer
<1>2. DatabasesIInv /\ [Next]_vars => [RedisStore!Next]_RedisStore!vars
  <2> SUFFICES ASSUME DatabasesIInv, [Next]_vars
               PROVE  [RedisStore!Next]_RedisStore!vars
    OBVIOUS
  <2>0. /\ RedisTypes /\ KeysSound
        /\ Idle /\ reply' = reply => RedisAnswer' = RedisStore!NoAnswer
    BY DEF DatabasesIInv, RedisIInv, ReplySound, RedisAnswer, RedisStore!NoAnswer, NoReply
  <2>1. ASSUME NEW r \in Results, Add(r) PROVE RedisStore!Next
    <3>1. Idle /\ reply' = reply /\ log' = Append(log, r) /\ over' = over
      BY <2>1 DEF Add, FileAdd, RedisAdd
    <3>2. RedisStore!Add(r)
      BY <2>0, <3>1 DEF RedisStore!Add
    <3> QED BY <3>2 DEF RedisStore!Next
  <2>2. ASSUME NEW r \in Results, Tear(r) PROVE RedisStore!Next
    <3>1. Idle /\ reply' = reply /\ log' = Append(log, r) /\ over' = over
      BY <2>2 DEF Tear, FileTorn, RedisAdd
    <3>2. RedisStore!Add(r)
      BY <2>0, <3>1 DEF RedisStore!Add
    <3> QED BY <3>2 DEF RedisStore!Next
  <2>3. CASE EndRun
    <3>1. Idle /\ reply' = reply /\ log' = log /\ over' = TRUE
      BY <2>3 DEF EndRun, FileSummarize, RedisSummarize
    <3>2. RedisStore!End
      BY <2>0, <3>1 DEF RedisStore!End
    <3> QED BY <3>2 DEF RedisStore!Next
  <2>4. ASSUME NEW q \in AllQueries, Ask(q) PROVE RedisStore!Next
    <3>1. /\ log' = log /\ over' = over
          /\ \/ reply' = [status |-> "failed"]
             \/ reply' = [status |-> "answered", query |-> q, found |-> RedisFound(q)]
      BY <2>4 DEF Ask, RedisAsk, RedisFound, history
    <3>2. CASE reply' = [status |-> "failed"]
      <4>1. RedisAnswer' = RedisStore!NoAnswer
        BY <3>2 DEF RedisAnswer, RedisStore!NoAnswer, NoReply
      <4>2. RedisStore!Forget
        BY <3>1, <4>1 DEF RedisStore!Forget
      <4> QED BY <4>2 DEF RedisStore!Next
    <3>3. CASE reply' = [status |-> "answered", query |-> q, found |-> RedisFound(q)]
      <4>1. PICK found : found = RedisFound(q)
        OBVIOUS
      <4>2. RedisAnswer' = [status |-> "answered", query |-> q, found |-> found]
        BY <3>3, <4>1 DEF RedisAnswer
      <4>3. IF q.groupby THEN RedisStore!HonestGroups(q, found)
            ELSE RedisStore!HonestList(q, found)
        BY <2>0, <4>1, RedisHonest
      <4>4. RedisStore!Answer(q)
        BY <3>1, <4>2, <4>3 DEF RedisStore!Answer
      <4> QED BY <4>4, SameQueries DEF RedisStore!Next
    <3> QED BY <3>1, <3>2, <3>3
  <2>5. CASE Read
    <3>1. log' = log /\ over' = over /\ reply' = reply
      BY <2>5 DEF Read, redisVars, history
    <3>2. UNCHANGED RedisStore!vars
      BY <3>1 DEF RedisStore!vars, RedisAnswer
    <3> QED BY <3>2
  <2>6. CASE Send
    <3>1. log' = log /\ over' = over /\ reply' = NoReply
      BY <2>6 DEF Send, RedisSends, history
    <3>2. RedisStore!Forget
      BY <3>1 DEF RedisStore!Forget, RedisStore!NoAnswer, RedisAnswer, NoReply
    <3> QED BY <3>2 DEF RedisStore!Next
  <2>7. CASE UNCHANGED vars
    <3>1. log' = log /\ over' = over /\ reply' = reply
      BY <2>7 DEF vars, redisVars, history
    <3>2. UNCHANGED RedisStore!vars
      BY <3>1 DEF RedisStore!vars, RedisAnswer
    <3> QED BY <3>2
  <2> QED BY <2>1, <2>2, <2>3, <2>4, <2>5, <2>6, <2>7 DEF Next
<1> QED BY <1>1, <1>2, DatabasesInductive, PTL DEF Spec, RedisKeepsPromise, RedisStore!Spec
=============================================================================
