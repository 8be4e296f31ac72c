--------------------------- MODULE BrokerDBProofs ---------------------------
(***************************************************************************)
(* What holds of BrokerDB for any runs, results and restarts: the order    *)
(* and the number of the results it keeps, what the files hold, and what   *)
(* an interrupted flush leaves.  DBIInv is the inductive invariant; what   *)
(* it says of a run is in Sound.                                           *)
(***************************************************************************)
EXTENDS BrokerDB, Integers, FiniteSetTheorems, SequenceTheorems, TLAPS

Fields == {"args", "has_data", "ended"}

\* The lines of a file, some of which may be torn, and what is kept of a run:
\* the lines in its file and the results in memory.
Lines == Seq(StoredLine \cup {Torn})
Entry == StoredLine \cup {Torn} \cup Result

\* The files of a run.
Text == Seq(StoredLine \cup {Torn}) \cup {Absent}

FileSet == [metadata : (SUBSET Fields) \cup {Absent, Torn}, errors : Text, data : Text,
            counts : [Kinds -> Nat] \cup {Absent, Torn},
            headers : Seq(Kinds) \cup {Absent, Torn}]

Flags == [RunIds -> SUBSET Fields]
Queues == [RunIds -> Seq(Result)]
Tallies == [RunIds -> [Kinds -> Nat]]
Keys == [RunIds -> Seq(Kinds)]
Disks == [RunIds -> FileSet]

\* A database, whatever it lists.
IsDB(s) ==
    s \in [dirty : BOOLEAN, metadata : Flags, known : SUBSET RunIds, buffer : Queues,
          errors : Queues, counts : Tallies, headers : Keys, files : Disks,
          listing : {s.listing}]

\* Whole entries come in the order of their ids, none of which exceeds n.
Orderly(text, n) ==
    \A i \in DOMAIN text : Whole(text[i]) =>
      /\ text[i].id <= n
      /\ \A j \in DOMAIN text : i < j /\ Whole(text[j]) => text[i].id < text[j].id

\* ... and they are the last of n, with none torn.
LastOf(text, n) ==
    \A i \in DOMAIN text : Whole(text[i]) /\ text[i].id = n - Len(text) + i

\* A run is tracked in the queues once they hold something of it.
Tracked(s, r) == r \notin s.known => s.buffer[r] = <<>> /\ s.errors[r] = <<>>

\* What the metadata file has memory has too, unless it has nothing yet.
Grown(s, r) ==
    s.metadata[r] # {} /\ Present(s.files[r].metadata) =>
      s.files[r].metadata \subseteq s.metadata[r]

\* The headers on disk are those in memory, and they are enough.
Coded(s, r) ==
    LET files == s.files[r]
    IN /\ \/ files.headers = s.headers[r]
          \/ files.headers = Absent /\ s.headers[r] = <<>>
       /\ Decodes(files.headers, Content(files.data))
       /\ Decodes(files.headers, Content(files.errors))

\* Memory and files together hold the totals of all results.
Counted(s, r, results) ==
    /\ \A k \in Kinds : s.counts[r][k] = Number(results, k)
    /\ Len(Content(s.files[r].errors)) + Len(s.errors[r]) = Number(results, "addError")
    /\ results # <<>> => r \in s.known

\* The files have everything memory has.
Synced(s, r) ==
    /\ s.buffer[r] = <<>> /\ s.errors[r] = <<>>
    /\ s.metadata[r] # {} => s.files[r].metadata = s.metadata[r]
    /\ r \in s.known => /\ s.files[r].counts = s.counts[r]
                        /\ s.files[r].headers = s.headers[r]

\* What holds of a run whose results were these, while the broker never
\* restarted (age 0) and while the run is not among the lost ones.
Sound(s, r, results, age, lost) ==
    /\ Tracked(s, r) /\ Grown(s, r)
    /\ Orderly(Kept(s, r), Len(results))
    /\ age = 0 => Coded(s, r)
    /\ age = 0 /\ r \notin lost => LastOf(Kept(s, r), Len(results)) /\ Counted(s, r, results)
    /\ ~s.dirty /\ r \notin lost => Synced(s, r)

\* Nothing is there of a run that was not started.
Fresh(s, r) ==
    /\ r \notin s.known /\ s.metadata[r] = {} /\ s.files[r] = NoFiles
    /\ s.counts[r] = NoCounts /\ s.headers[r] = <<>>

\* A database of runs with these results, some of which are lost and some of
\* which were not started yet.
SoundDB(s, results, age, lost, strangers) ==
    /\ IsDB(s)
    /\ \A r \in RunIds : Sound(s, r, results[r], age, lost)
    /\ \A r \in strangers : Fresh(s, r)

Strangers == {r \in RunIds : ~Contains(started, r)}

\* A batch belongs to a run that was started.
Types ==
    /\ started \in Seq(RunIds) /\ wiped \subseteq RunIds
    /\ log \in [RunIds -> Seq(Kinds)] /\ restarts \in 0..MaxRestarts
    /\ deferred \in Seq(RunIds \X Kinds)
    /\ \A i \in 1..Len(deferred) : Contains(started, deferred[i][1])

\* The inductive invariant.
DBIInv ==
    /\ Types
    /\ SoundDB(db, log, restarts, wiped, Strangers)
    /\ \A r \in Strangers : log[r] = <<>>

-----------------------------------------------------------------------------
(* Keys.                                                                   *)

\* Induction over the naturals, for a set instead of an operator: the smallest
\* interval that leaves the set would be a least one of a family of finite sets.
LEMMA SetInduction ==
  ASSUME NEW T, 0 \in T, \A n \in T \cap Nat : n + 1 \in T
  PROVE  Nat \subseteq T
<1> SUFFICES ASSUME NEW n \in Nat, n \notin T PROVE FALSE
  OBVIOUS
<1> DEFINE below == {0..k : k \in Nat \ T}
           R == StrictSubsetOrdering(Nat)
<1>1. below \subseteq FiniteSubsetsOf(Nat) /\ below # {}
  <2>1. \A k \in Nat : IsFiniteSet(0..k) /\ 0..k \in SUBSET Nat
    BY FS_Interval
  <2>2. \A k \in Nat : 0..k \in FiniteSubsetsOf(Nat)
    BY <2>1 DEF FiniteSubsetsOf
  <2>3. 0..n \in below
    OBVIOUS
  <2> QED BY <2>2, <2>3
<1>2. PICK k \in Nat \ T : \A m \in Nat \ T : ~(<<0..m, 0..k>> \in R)
  <2> HIDE DEF R
  <2>1. IsWellFoundedOn(R, FiniteSubsetsOf(Nat))
    BY FS_StrictSubsetOrderingWellFounded DEF R
  <2> HIDE DEF below
  <2>2. \E x \in below : \A y \in below : ~(<<y, x>> \in R)
    BY <1>1, <2>1, WFMin
  <2> QED BY <2>2 DEF below
<1>3. k # 0 /\ k - 1 \in Nat /\ (k - 1) + 1 = k
  OBVIOUS
<1>4. k - 1 \notin T
  BY <1>3
<1>5. 0..(k - 1) \subseteq 0..k /\ k \in 0..k /\ k \notin 0..(k - 1)
  BY <1>3
<1>6. <<0..(k - 1), 0..k>> \in R
  BY <1>3, <1>5 DEF StrictSubsetOrdering
<1> QED BY <1>2, <1>3, <1>4, <1>6

IsRun(f, n, queue, keys) ==
    f = [i \in 0..n |-> IF i = 0 THEN keys ELSE WithKey(f[i - 1], queue[i].kind)]

\* WithKeysFor has a value: the keys after each result of a queue.
LEMMA RunExists ==
  ASSUME NEW queue, NEW keys, NEW n \in Nat
  PROVE  \E f : IsRun(f, n, queue, keys)
<1> DEFINE T == {m \in Nat : \E f : IsRun(f, m, queue, keys)}
<1>1. 0 \in T
  <2>1. IsRun([i \in 0..0 |-> keys], 0, queue, keys)
    BY DEF IsRun
  <2> QED BY <2>1
<1>2. ASSUME NEW m \in T PROVE m + 1 \in T
  <2>1. PICK f : IsRun(f, m, queue, keys)
    OBVIOUS
  <2> DEFINE g == [i \in 0..(m + 1) |-> IF i <= m THEN f[i] ELSE WithKey(f[m], queue[i].kind)]
  <2>2. ASSUME NEW i \in 0..(m + 1)
        PROVE  g[i] = IF i = 0 THEN keys ELSE WithKey(g[i - 1], queue[i].kind)
    <3>1. CASE i = 0
      BY <2>1, <3>1 DEF IsRun
    <3>2. CASE i \in 1..m
      <4>1. i \in 0..m /\ i - 1 \in 0..m /\ i # 0
        BY <3>2
      <4>2. f[i] = WithKey(f[i - 1], queue[i].kind)
        BY <2>1, <4>1 DEF IsRun
      <4>3. g[i] = f[i] /\ g[i - 1] = f[i - 1]
        BY <4>1
      <4> QED BY <4>1, <4>2, <4>3
    <3>3. CASE i = m + 1
      BY <3>3
    <3> QED BY <3>1, <3>2, <3>3
  <2>3. IsRun(g, m + 1, queue, keys)
    <3> HIDE DEF T
    <3> DEFINE h == [i \in 0..(m + 1) |-> IF i = 0 THEN keys ELSE WithKey(g[i - 1], queue[i].kind)]
    <3>1. g = h
      BY <2>2
    <3> QED BY <3>1 DEF IsRun
  <2> QED BY <2>3
<1> HIDE DEF T
<1>3. Nat \subseteq T
  BY <1>1, <1>2, SetInduction
<1> QED BY <1>3 DEF T

\* Kinds got a key and none lost it.
Coding(keys, queue, n, new) ==
    /\ new \in Seq(Kinds) /\ Len(keys) <= Len(new)
    /\ \A i \in 1..Len(keys) : new[i] = keys[i]
    /\ \A i \in 1..n : Contains(new, queue[i].kind)

\* One more result of a queue is compressed.
LEMMA WithKeyCoding ==
  ASSUME NEW keys \in Seq(Kinds), NEW queue, NEW n \in Nat, NEW new, Coding(keys, queue, n, new),
         queue[n + 1].kind \in Kinds
  PROVE  Coding(keys, queue, n + 1, WithKey(new, queue[n + 1].kind))
<1> DEFINE kind == queue[n + 1].kind
<1>1. new \in Seq(Kinds) /\ kind \in Kinds /\ Len(new) \in Nat /\ Len(keys) \in Nat
      /\ Len(keys) <= Len(new)
  BY LenProperties DEF Coding
<1>2. CASE Contains(new, kind)
  <2>1. WithKey(new, kind) = new
    BY <1>2 DEF WithKey
  <2>2. \A i \in 1..(n + 1) : i \in 1..n \/ i = n + 1
    OBVIOUS
  <2> QED BY <1>1, <1>2, <2>1, <2>2 DEF Coding
<1>3. CASE ~Contains(new, kind)
  <2> DEFINE more == Append(new, kind)
  <2>1. WithKey(new, kind) = more
    BY <1>3 DEF WithKey
  <2>2. more \in Seq(Kinds) /\ Len(more) = Len(new) + 1 /\ more[Len(new) + 1] = kind
        /\ \A i \in 1..Len(new) : more[i] = new[i]
    BY <1>1
  <2> HIDE DEF more
  <2>3. \A k : Contains(new, k) => Contains(more, k)
    BY <1>1, <2>2 DEF Contains
  <2>4. Contains(more, kind)
    BY <1>1, <2>2 DEF Contains
  <2>5. \A i \in 1..(n + 1) : i \in 1..n \/ i = n + 1
    OBVIOUS
  <2>6. \A i \in 1..(n + 1) : Contains(more, queue[i].kind)
    BY <2>3, <2>4, <2>5 DEF Coding
  <2>7. \A i \in 1..Len(keys) : more[i] = keys[i]
    BY <1>1, <2>2 DEF Coding
  <2> QED BY <1>1, <2>1, <2>2, <2>6, <2>7 DEF Coding
<1> QED BY <1>2, <1>3

\* _compress_headers: for any queue, no key is lost or moved, and in the end every
\* kind of result in it has one.
THEOREM KeysForQueue ==
  ASSUME NEW keys \in Seq(Kinds), NEW queue \in Seq(Result)
  PROVE  Coding(keys, queue, Len(queue), WithKeysFor(queue, keys))
<1> DEFINE m == Len(queue)
           after == CHOOSE f : IsRun(f, m, queue, keys)
           T == {n \in Nat : n <= m => Coding(keys, queue, n, after[n])}
<1>1. m \in Nat /\ \A i \in 1..m : queue[i].kind \in Kinds
  <2>1. m \in Nat
    BY LenProperties
  <2>2. \A i \in 1..m : queue[i] \in Result
    BY ElementOfSeq
  <2> QED BY <2>1, <2>2 DEF Result
<1>2. IsRun(after, m, queue, keys)
  BY <1>1, RunExists
<1>3. WithKeysFor(queue, keys) = after[m]
  BY DEF WithKeysFor, IsRun
<1> HIDE DEF after, m
<1>4. 0 \in T
  <2>1. after[0] = keys
    BY <1>1, <1>2 DEF IsRun
  <2> QED BY <1>1, <2>1, LenProperties DEF Coding
<1>5. ASSUME NEW n \in T \cap Nat PROVE n + 1 \in T
  <2> SUFFICES ASSUME n + 1 <= m PROVE Coding(keys, queue, n + 1, after[n + 1])
    OBVIOUS
  <2>1. Coding(keys, queue, n, after[n]) /\ queue[n + 1].kind \in Kinds
    BY <1>1
  <2>2. after[n + 1] = WithKey(after[n], queue[n + 1].kind)
    BY <1>1, <1>2 DEF IsRun
  <2> QED BY <2>1, <2>2, WithKeyCoding
<1> HIDE DEF T
<1>6. m \in T
  BY <1>1, <1>4, <1>5, SetInduction
<1> QED BY <1>1, <1>3, <1>6 DEF T, m

-----------------------------------------------------------------------------
(* What the operations do, field by field.                                 *)

\* Two databases hold the same of a run.
SameRun(s, t, q) ==
    /\ q \in t.known <=> q \in s.known
    /\ t.metadata[q] = s.metadata[q] /\ t.buffer[q] = s.buffer[q] /\ t.errors[q] = s.errors[q]
    /\ t.counts[q] = s.counts[q] /\ t.headers[q] = s.headers[q] /\ t.files[q] = s.files[q]

\* What each operation makes of a database.
LEMMA UpdatedDB ==
  ASSUME NEW s, IsDB(s), NEW r \in RunIds, Loadable(s, r), NEW field \in Fields
  PROVE  LET t == Updated(s, r, field)
         IN /\ IsDB(t) /\ t.dirty
            /\ t.known = s.known /\ t.buffer = s.buffer /\ t.errors = s.errors
            /\ t.counts = s.counts /\ t.headers = s.headers /\ t.files = s.files
            /\ \A q \in RunIds \ {r} : t.metadata[q] = s.metadata[q]
            /\ s.metadata[r] \subseteq t.metadata[r]
            /\ Present(s.files[r].metadata) /\ s.metadata[r] = {}
                 => s.files[r].metadata \subseteq t.metadata[r]
<1> DEFINE existing == IF s.metadata[r] = {} THEN Reloaded(s, r) ELSE s.metadata[r]
<1>1. existing \in SUBSET Fields
  <2>1. s.metadata[r] \in SUBSET Fields /\ s.files[r] \in FileSet
    BY DEF IsDB, Flags, Disks
  <2> QED BY <2>1 DEF FileSet, Reloaded, Loadable
<1>2. s.metadata[r] \subseteq existing
      /\ (Present(s.files[r].metadata) /\ s.metadata[r] = {} => s.files[r].metadata = existing)
  BY DEF Reloaded, Present
<1>3. Updated(s, r, field) = [s EXCEPT !.metadata[r] = existing \cup {field}, !.dirty = TRUE]
  BY DEF Updated
<1> DEFINE t == Updated(s, r, field)
<1> HIDE DEF existing
<1>4. existing \cup {field} \in SUBSET Fields
  BY <1>1
<1>5. t.dirty /\ t.known = s.known /\ t.buffer = s.buffer /\ t.errors = s.errors
      /\ t.counts = s.counts /\ t.headers = s.headers /\ t.files = s.files
      /\ t.metadata = [s.metadata EXCEPT ![r] = existing \cup {field}]
  BY <1>3 DEF IsDB
<1>6. s.metadata \in [RunIds -> SUBSET Fields]
  BY DEF IsDB, Flags
<1>7. [s.metadata EXCEPT ![r] = existing \cup {field}] \in Flags
  BY <1>4, <1>6 DEF Flags
<1>8. IsDB(t)
  BY <1>3, <1>7 DEF IsDB
<1> HIDE DEF t
<1> QED BY <1>2, <1>5, <1>6, <1>8 DEF t

\* ... add:
LEMMA AddedDB ==
  ASSUME NEW s, IsDB(s), NEW r \in RunIds, Loadable(s, r), NEW result \in Result
  PROVE  LET u == Updated(s, r, "has_data")
             t == Added(s, r, result)
         IN /\ IsDB(t) /\ t.dirty
            /\ t.metadata = u.metadata /\ t.headers = s.headers /\ t.files = s.files
            /\ t.known = s.known \cup {r}
            /\ \A q \in RunIds \ {r} : t.buffer[q] = s.buffer[q] /\ t.errors[q] = s.errors[q]
                                       /\ t.counts[q] = s.counts[q]
            /\ t.buffer[r] = Append(s.buffer[r], result)
            /\ t.errors[r] = IF IsError(result) THEN Append(s.errors[r], result) ELSE s.errors[r]
            /\ \A k \in Kinds : t.counts[r][k] = IF k = result.kind THEN s.counts[r][k] + 1
                                                ELSE s.counts[r][k]
<1> DEFINE u == Updated(s, r, "has_data")
<1>1. IsDB(u) /\ u.known = s.known /\ u.buffer = s.buffer /\ u.errors = s.errors
      /\ u.counts = s.counts /\ u.headers = s.headers /\ u.files = s.files /\ u.dirty
  BY UpdatedDB DEF Fields
<1>2. Added(s, r, result) = [u EXCEPT
        !.known = @ \cup {r},
        !.counts[r][result.kind] = @ + 1,
        !.buffer[r] = Append(@, result),
        !.errors[r] = IF IsError(result) THEN Append(@, result) ELSE @]
  BY DEF Added
<1> HIDE DEF u
<1>3. result.kind \in Kinds /\ Append(u.buffer[r], result) \in Seq(Result)
      /\ Append(u.errors[r], result) \in Seq(Result)
  <2>1. u.buffer[r] \in Seq(Result) /\ u.errors[r] \in Seq(Result)
    BY <1>1 DEF IsDB, Queues
  <2>2. result.kind \in Kinds
    BY DEF Result
  <2> QED BY <2>1, <2>2
<1> DEFINE t == Added(s, r, result)
           tally == [u.counts EXCEPT ![r][result.kind] = @ + 1]
           buffer == [u.buffer EXCEPT ![r] = Append(@, result)]
           errors == [u.errors EXCEPT ![r] = IF IsError(result) THEN Append(@, result) ELSE @]
<1>4. t.dirty /\ t.metadata = u.metadata /\ t.headers = s.headers /\ t.files = s.files
      /\ t.known = s.known \cup {r} /\ t.counts = tally /\ t.buffer = buffer /\ t.errors = errors
  BY <1>1, <1>2, SMTT(30) DEF IsDB
<1>5. tally \in Tallies
      /\ (\A q \in RunIds \ {r} : tally[q] = s.counts[q])
      /\ \A k \in Kinds : tally[r][k] = IF k = result.kind THEN s.counts[r][k] + 1
                                       ELSE s.counts[r][k]
  <2>1. u.counts \in [RunIds -> [Kinds -> Nat]] /\ u.counts = s.counts
    BY <1>1 DEF IsDB, Tallies
  <2> QED BY <1>3, <2>1 DEF Tallies
<1>6. buffer \in Queues /\ buffer[r] = Append(s.buffer[r], result)
      /\ \A q \in RunIds \ {r} : buffer[q] = s.buffer[q]
  <2>1. u.buffer \in [RunIds -> Seq(Result)] /\ u.buffer = s.buffer
    BY <1>1 DEF IsDB, Queues
  <2> QED BY <1>3, <2>1 DEF Queues
<1>7. errors \in Queues
      /\ errors[r] = (IF IsError(result) THEN Append(s.errors[r], result) ELSE s.errors[r])
      /\ \A q \in RunIds \ {r} : errors[q] = s.errors[q]
  <2>1. u.errors \in [RunIds -> Seq(Result)] /\ u.errors = s.errors
    BY <1>1 DEF IsDB, Queues
  <2> QED BY <1>3, <2>1 DEF Queues
<1>8. t = [u EXCEPT !.known = u.known \cup {r}, !.counts = tally, !.buffer = buffer, !.errors = errors]
  BY <1>1, <1>2 DEF IsDB
<1> HIDE DEF t, tally, buffer, errors
<1>9. IsDB(t)
  BY <1>1, <1>5, <1>6, <1>7, <1>8 DEF IsDB
<1> QED BY <1>4, <1>5, <1>6, <1>7, <1>9 DEF t, u

\* ... save_metadata:
LEMMA SavedDB ==
  ASSUME NEW s, IsDB(s), NEW r \in RunIds
  PROVE  LET t == Saved(s, r)
         IN /\ IsDB(t) /\ t.dirty
            /\ t.known = s.known /\ t.buffer = s.buffer /\ t.errors = s.errors
            /\ t.counts = s.counts /\ t.headers = s.headers /\ t.files = s.files
            /\ \A q \in RunIds \ {r} : t.metadata[q] = s.metadata[q]
BY DEF Saved, IsDB, Flags, Fields

\* ... delete_run:
LEMMA DeletedDB ==
  ASSUME NEW s, IsDB(s), NEW gone \in SUBSET RunIds
  PROVE  LET t == Deleted(s, gone)
         IN /\ IsDB(t) /\ t.dirty = s.dirty
            /\ t.known = s.known /\ t.buffer = s.buffer /\ t.errors = s.errors
            /\ \A q \in RunIds \ gone : SameRun(s, t, q)
            /\ \A q \in gone : t.files[q] = NoFiles /\ t.metadata[q] = {}
                              /\ t.counts[q] = NoCounts /\ t.headers[q] = <<>>
<1>1. NoFiles \in FileSet /\ NoCounts \in [Kinds -> Nat] /\ <<>> \in Seq(Kinds)
  <2>1. NoFiles \in FileSet
    BY DEF NoFiles, FileSet, Text
  <2>2. NoCounts \in [Kinds -> Nat]
    BY DEF NoCounts
  <2> QED BY <2>1, <2>2
<1> QED BY <1>1 DEF Deleted, IsDB, SameRun, Flags, Tallies, Keys, Disks

\* ... summarize_run:
LEMMA SummarizedDB ==
  ASSUME NEW s, IsDB(s), NEW r \in RunIds
  PROVE  LET t == Summarized(s, r)
         IN /\ IsDB(t) /\ t.dirty = s.dirty
            /\ t.known = s.known /\ t.buffer = s.buffer /\ t.errors = s.errors
            /\ t.counts = s.counts /\ t.headers = s.headers /\ t.metadata = s.metadata
            /\ \A q \in RunIds \ {r} : t.files[q] = s.files[q]
            /\ t.files[r].data = Absent /\ t.files[r].errors = s.files[r].errors
            /\ t.files[r].counts = s.files[r].counts /\ t.files[r].headers = s.files[r].headers
            /\ t.files[r].metadata = s.files[r].metadata
<1> DEFINE t == Summarized(s, r)
           left == [s.files[r] EXCEPT !.data = Absent]
<1>1. s.files \in Disks /\ s.files[r] \in FileSet /\ Absent \in Text
  BY DEF IsDB, Disks, Text
<1>2. /\ left \in FileSet /\ left.data = Absent /\ left.errors = s.files[r].errors
      /\ left.counts = s.files[r].counts /\ left.headers = s.files[r].headers
      /\ left.metadata = s.files[r].metadata
  BY <1>1 DEF FileSet
<1>3. t = [s EXCEPT !.files = [s.files EXCEPT ![r] = left]]
  BY DEF Summarized, IsDB
<1> HIDE DEF t, left
<1>4. [s.files EXCEPT ![r] = left] \in Disks
  BY <1>1, <1>2 DEF Disks
<1>5. /\ IsDB(t) /\ t.dirty = s.dirty /\ t.known = s.known /\ t.buffer = s.buffer
      /\ t.errors = s.errors /\ t.counts = s.counts /\ t.headers = s.headers
      /\ t.metadata = s.metadata /\ t.files = [s.files EXCEPT ![r] = left]
  BY <1>3, <1>4 DEF IsDB
<1>6. t.files[r] = left /\ \A q \in RunIds \ {r} : t.files[q] = s.files[q]
  BY <1>1, <1>5 DEF Disks
<1> QED BY <1>2, <1>5, <1>6 DEF t

\* ... _update_headers:
LEMMA WithHeadersDB ==
  ASSUME NEW s, IsDB(s), NEW r \in RunIds, s.files[r].headers # Torn
  PROVE  LET t == WithHeaders(s, r)
         IN /\ IsDB(t) /\ t.dirty = s.dirty
            /\ t.known = s.known /\ t.buffer = s.buffer /\ t.errors = s.errors
            /\ t.counts = s.counts /\ t.files = s.files /\ t.metadata = s.metadata
            /\ \A q \in RunIds \ {r} : t.headers[q] = s.headers[q]
            /\ t.headers[r] = IF s.files[r].headers = Absent THEN s.headers[r]
                              ELSE s.files[r].headers
BY DEF WithHeaders, IsDB, Keys, Disks, FileSet

\* No file with lines passes for one that is missing.
LEMMA ContentIsLines ==
  /\ \A file \in Text : Content(file) \in Lines
  /\ Content(Absent) = <<>>
  /\ \A lines \in Lines : lines # Absent /\ Content(lines) = lines
<1>1. \A lines \in Lines : lines # Absent
  BY BrokerDBAssumption DEF Lines
<1> QED BY <1>1 DEF Text, Content, Lines

\* What a queue looks like on disk, its kinds having keys.
LEMMA LinesOfQueue ==
  ASSUME NEW keys \in Seq(Kinds), NEW queue \in Seq(Result),
         \A i \in 1..Len(queue) : Contains(keys, queue[i].kind)
  PROVE  LET lines == LinesOf(keys, queue)
         IN /\ lines \in Lines /\ Len(lines) = Len(queue)
            /\ \A i \in 1..Len(queue) :
                 /\ lines[i] \in StoredLine /\ lines[i] # Torn
                 /\ lines[i].id = queue[i].id /\ lines[i].kind = queue[i].kind
                 /\ lines[i].key \in DOMAIN keys /\ keys[lines[i].key] = lines[i].kind
<1> DEFINE n == Len(queue)
           lines == LinesOf(keys, queue)
<1>1. n \in Nat /\ DOMAIN queue = 1..n /\ Len(keys) \in Nat /\ DOMAIN keys = 1..Len(keys)
  BY LenProperties
<1>2. ASSUME NEW i \in 1..n
      PROVE  /\ lines[i] \in StoredLine /\ lines[i].id = queue[i].id /\ lines[i].kind = queue[i].kind
             /\ lines[i].key \in DOMAIN keys /\ keys[lines[i].key] = lines[i].kind
  <2>1. queue[i] \in Result
    BY ElementOfSeq
  <2> DEFINE k == CHOOSE j \in DOMAIN keys : keys[j] = queue[i].kind
  <2>2. k \in DOMAIN keys /\ keys[k] = queue[i].kind
    BY <1>1 DEF Contains
  <2>3. lines[i] = [id |-> queue[i].id, kind |-> queue[i].kind, key |-> k]
    BY <1>1 DEF LinesOf, Line
  <2> HIDE DEF k, lines
  <2>4. k \in Nat \ {0}
    BY <1>1, <2>2
  <2> QED BY <2>1, <2>2, <2>3, <2>4 DEF Result, StoredLine
<1>3. lines = [i \in 1..n |-> lines[i]]
  BY <1>1 DEF LinesOf
<1> HIDE DEF lines
<1>4. \A i \in 1..n : lines[i] # Torn
  BY <1>2, BrokerDBAssumption
<1>5. lines \in Seq(StoredLine \cup {Torn}) /\ Len(lines) = n
  <2>1. lines \in [1..n -> StoredLine \cup {Torn}]
    BY <1>2, <1>3
  <2> HIDE DEF n
  <2> QED BY <1>1, <2>1, LenProperties, SeqDef
<1> QED BY <1>2, <1>4, <1>5 DEF lines, Lines

\* _dump_queue.
LEMMA DumpedText ==
  ASSUME NEW file \in Text, NEW lines \in Lines
  PROVE  /\ Dumped(file, lines) \in Text
         /\ Content(Dumped(file, lines)) = Content(file) \o lines
<1>1. Content(file) \in Lines
  BY ContentIsLines
<1>2. Content(file) \o lines \in Lines
  BY <1>1, ConcatProperties DEF Lines
<1>3. CASE lines = <<>>
  <2>1. Content(file) \o lines = Content(file)
    BY <1>1, <1>3, ConcatEmptySeq DEF Lines
  <2> QED BY <1>3, <2>1 DEF Dumped
<1>4. CASE lines # <<>>
  BY <1>2, <1>4, ContentIsLines DEF Dumped, Text, Lines
<1> QED BY <1>3, <1>4

\* The headers a flush writes.
LEMMA HeadersForRun ==
  ASSUME NEW s, IsDB(s), NEW r \in RunIds
  PROVE  LET keys == DumpedHeaders(s, r)
         IN /\ keys \in Seq(Kinds)
            /\ Len(s.headers[r]) <= Len(keys)
            /\ \A i \in 1..Len(s.headers[r]) : keys[i] = s.headers[r][i]
            /\ \A i \in 1..Len(s.errors[r]) : Contains(keys, s.errors[r][i].kind)
            /\ \A i \in 1..Len(s.buffer[r]) : Contains(keys, s.buffer[r][i].kind)
<1> DEFINE keys == DumpedHeaders(s, r)
           e == s.errors[r]
           b == s.buffer[r]
<1>1. e \in Seq(Result) /\ b \in Seq(Result) /\ s.headers[r] \in Seq(Kinds)
  BY DEF IsDB, Queues, Keys
<1>2. Len(e) \in Nat /\ Len(b) \in Nat
  BY <1>1, LenProperties
<1> HIDE DEF e, b
<1>3. /\ e \o b \in Seq(Result) /\ Len(e \o b) = Len(e) + Len(b)
      /\ \A i \in 1..Len(e) + Len(b) : (e \o b)[i] = IF i <= Len(e) THEN e[i] ELSE b[i - Len(e)]
  BY <1>1, ConcatProperties
<1>4. Coding(s.headers[r], e \o b, Len(e \o b), keys)
  BY <1>1, <1>3, KeysForQueue DEF DumpedHeaders, e, b
<1> HIDE DEF keys
<1>5. \A i \in 1..Len(e) : Contains(keys, e[i].kind)
  BY <1>2, <1>3, <1>4 DEF Coding
<1>6. ASSUME NEW i \in 1..Len(b) PROVE Contains(keys, b[i].kind)
  <2>1. i + Len(e) \in 1..Len(e) + Len(b) /\ ~(i + Len(e) <= Len(e)) /\ (i + Len(e)) - Len(e) = i
    BY <1>2
  <2>2. (e \o b)[i + Len(e)] = b[i]
    BY <1>3, <2>1
  <2> QED BY <1>3, <1>4, <2>1, <2>2 DEF Coding
<1> QED BY <1>4, <1>5, <1>6 DEF Coding, keys, e, b

\* The files flush writes of a run.
LEMMA WrittenRun ==
  ASSUME NEW s, IsDB(s), NEW r \in RunIds
  PROVE  LET w == Written(s, r)
             old == s.files[r]
             keys == DumpedHeaders(s, r)
         IN /\ w \in FileSet
            /\ w.metadata = IF s.metadata[r] = {} THEN old.metadata ELSE s.metadata[r]
            /\ r \notin s.known => /\ w.errors = old.errors /\ w.data = old.data
                                  /\ w.counts = old.counts /\ w.headers = old.headers
            /\ r \in s.known =>
                 /\ w.counts = s.counts[r] /\ w.headers = keys
                 /\ Content(w.errors) = Content(old.errors) \o LinesOf(keys, s.errors[r])
                 /\ Content(w.data) = Content(old.data) \o LinesOf(keys, s.buffer[r])
<1> DEFINE w == Written(s, r)
           old == s.files[r]
           keys == DumpedHeaders(s, r)
           meta == IF s.metadata[r] = {} THEN old.metadata ELSE s.metadata[r]
<1>1. old \in FileSet /\ meta \in (SUBSET Fields) \cup {Absent, Torn} /\ s.counts[r] \in [Kinds -> Nat]
      /\ s.errors[r] \in Seq(Result) /\ s.buffer[r] \in Seq(Result)
  <2>1. old \in FileSet /\ s.metadata[r] \in SUBSET Fields
    BY DEF IsDB, Disks, Flags
  <2>2. s.counts[r] \in [Kinds -> Nat] /\ s.errors[r] \in Seq(Result) /\ s.buffer[r] \in Seq(Result)
    BY DEF IsDB, Queues, Tallies
  <2> QED BY <2>1, <2>2 DEF FileSet
<1>2. CASE r \notin s.known
  <2>1. w = [old EXCEPT !.metadata = meta]
    BY <1>2 DEF Written
  <2> HIDE DEF w, old, meta
  <2>2. w \in FileSet /\ w.metadata = meta /\ w.errors = old.errors /\ w.data = old.data
        /\ w.counts = old.counts /\ w.headers = old.headers
    BY <1>1, <2>1 DEF FileSet
  <2> QED BY <1>2, <2>2 DEF w, old, meta
<1>3. CASE r \in s.known
  <2> DEFINE e == LinesOf(keys, s.errors[r])
             b == LinesOf(keys, s.buffer[r])
  <2>1. keys \in Seq(Kinds) /\ e \in Lines /\ b \in Lines
    BY <1>1, HeadersForRun, LinesOfQueue
  <2>2. w = [metadata |-> meta, errors |-> Dumped(old.errors, e), data |-> Dumped(old.data, b),
             counts |-> s.counts[r], headers |-> keys]
    BY <1>3 DEF Written
  <2> HIDE DEF w, old, meta, e, b, keys
  <2>3. old.errors \in Text /\ old.data \in Text
    BY <1>1 DEF FileSet
  <2>4. /\ Dumped(old.errors, e) \in Text /\ Content(Dumped(old.errors, e)) = Content(old.errors) \o e
        /\ Dumped(old.data, b) \in Text /\ Content(Dumped(old.data, b)) = Content(old.data) \o b
    BY <2>1, <2>3, DumpedText
  <2>5. w \in FileSet
    BY <1>1, <2>1, <2>2, <2>4 DEF FileSet
  <2>6. /\ w.metadata = meta /\ w.counts = s.counts[r] /\ w.headers = keys
        /\ Content(w.errors) = Content(old.errors) \o e
        /\ Content(w.data) = Content(old.data) \o b
    BY <2>2, <2>4
  <2> QED BY <1>3, <2>5, <2>6 DEF w, old, meta, e, b, keys
<1> QED BY <1>2, <1>3

\* What flush makes of a database.
LEMMA FlushedDB ==
  ASSUME NEW s, IsDB(s), NEW order
  PROVE  LET t == FlushedIn(s, order)
         IN /\ IsDB(t) /\ t.known = s.known /\ t.metadata = s.metadata /\ t.counts = s.counts
            /\ t.dirty <=> s.dirty /\ s.known = {}
            /\ \A q \in RunIds :
                 /\ t.files[q].metadata = IF s.metadata[q] = {} THEN s.files[q].metadata
                                          ELSE s.metadata[q]
                 /\ q \notin s.known =>
                      /\ t.buffer[q] \in {s.buffer[q], <<>>} /\ t.errors[q] \in {s.errors[q], <<>>}
                      /\ t.headers[q] = s.headers[q]
                      /\ t.files[q] = [s.files[q] EXCEPT !.metadata = t.files[q].metadata]
                 /\ q \in s.known =>
                      /\ t.buffer[q] = <<>> /\ t.errors[q] = <<>>
                      /\ t.headers[q] = DumpedHeaders(s, q) /\ t.files[q] = Written(s, q)
<1> DEFINE t == FlushedIn(s, order)
           listed == [s EXCEPT !.listing = Listed(s, order)]
           meta == [q \in RunIds |-> [s.files[q] EXCEPT !.metadata = Written(s, q).metadata]]
           written == [q \in RunIds |-> Written(s, q)]
           headers == [q \in RunIds |-> IF q \in s.known THEN DumpedHeaders(s, q) ELSE s.headers[q]]
<1>1. \A q \in RunIds :
        /\ s.files[q] \in FileSet /\ Written(s, q) \in FileSet
        /\ Written(s, q).metadata = IF s.metadata[q] = {} THEN s.files[q].metadata ELSE s.metadata[q]
        /\ q \notin s.known => Written(s, q) = meta[q]
        /\ meta[q] \in FileSet /\ meta[q].metadata = Written(s, q).metadata
  <2> SUFFICES ASSUME NEW q \in RunIds
               PROVE  /\ s.files[q] \in FileSet /\ Written(s, q) \in FileSet
                      /\ Written(s, q).metadata = IF s.metadata[q] = {} THEN s.files[q].metadata
                                                  ELSE s.metadata[q]
                      /\ q \notin s.known => Written(s, q) = meta[q]
                      /\ meta[q] \in FileSet /\ meta[q].metadata = Written(s, q).metadata
    OBVIOUS
  <2> DEFINE w == Written(s, q)
  <2>1. s.files[q] \in FileSet
    BY DEF IsDB, Disks
  <2>2. w \in FileSet /\ w.metadata = IF s.metadata[q] = {} THEN s.files[q].metadata ELSE s.metadata[q]
    BY WrittenRun
  <2>3. q \notin s.known => /\ w.errors = s.files[q].errors /\ w.data = s.files[q].data
                           /\ w.counts = s.files[q].counts /\ w.headers = s.files[q].headers
    BY WrittenRun
  <2> DEFINE m == [s.files[q] EXCEPT !.metadata = w.metadata]
  <2>4. meta[q] = m
    OBVIOUS
  <2> HIDE DEF w
  <2>5. m \in FileSet /\ m.metadata = w.metadata
    BY <2>1, <2>2 DEF FileSet
  <2>6. q \notin s.known => w = m
    BY <2>1, <2>2, <2>3 DEF FileSet
  <2> HIDE DEF m, meta
  <2> QED BY <2>1, <2>2, <2>4, <2>5, <2>6 DEF w
<1>2. meta \in Disks /\ written \in Disks
  BY <1>1 DEF Disks
<1>3. headers \in Keys
  <2>1. \A q \in RunIds : DumpedHeaders(s, q) \in Seq(Kinds) /\ s.headers[q] \in Seq(Kinds)
    BY HeadersForRun DEF IsDB, Keys
  <2> QED BY <2>1 DEF Keys
<1>4. IsDB(listed) /\ listed.known = s.known /\ listed.metadata = s.metadata
      /\ listed.counts = s.counts /\ listed.dirty = s.dirty /\ listed.headers = s.headers
      /\ listed.buffer = s.buffer /\ listed.errors = s.errors
  BY DEF IsDB
<1>5. CASE s.known = {}
  <2>1. t = [listed EXCEPT !.files = meta]
    BY <1>5 DEF FlushedIn, NothingToDump
  <2> HIDE DEF t, listed, meta, written, headers
  <2>2. IsDB(t) /\ t.known = s.known /\ t.metadata = s.metadata /\ t.counts = s.counts
        /\ t.dirty = s.dirty /\ t.buffer = s.buffer /\ t.errors = s.errors
        /\ t.headers = s.headers /\ t.files = meta
    BY <1>2, <1>4, <2>1 DEF IsDB
  <2>3. \A q \in RunIds : meta[q] = [s.files[q] EXCEPT !.metadata = meta[q].metadata]
    BY <1>1 DEF meta
  <2> QED BY <1>1, <1>5, <2>2, <2>3 DEF t
<1>6. CASE s.known # {}
  <2> DEFINE none == [q \in RunIds |-> <<>>]
  <2>1. t = [listed EXCEPT !.files = written, !.headers = headers, !.buffer = none,
                           !.errors = none, !.dirty = FALSE]
    BY <1>6 DEF FlushedIn, NothingToDump, Emptied
  <2>2. none \in Queues
    BY DEF Queues
  <2>3. \A q \in RunIds : none[q] = <<>>
    OBVIOUS
  <2> HIDE DEF t, listed, written, headers, none
  <2>4. IsDB(t) /\ t.known = s.known /\ t.metadata = s.metadata /\ t.counts = s.counts
        /\ t.dirty = FALSE /\ t.buffer = none /\ t.errors = none
        /\ t.headers = headers /\ t.files = written
    BY <1>2, <1>3, <1>4, <2>1, <2>2 DEF IsDB
  <2>5. \A q \in RunIds : written[q] = Written(s, q)
        /\ headers[q] = IF q \in s.known THEN DumpedHeaders(s, q) ELSE s.headers[q]
    BY DEF written, headers
  <2>6. \A q \in RunIds \ s.known : written[q] = [s.files[q] EXCEPT !.metadata = written[q].metadata]
    BY <1>1, <2>5 DEF meta
  <2> HIDE DEF meta
  <2> QED BY <1>1, <1>6, <2>3, <2>4, <2>5, <2>6 DEF t
<1> QED BY <1>5, <1>6

-----------------------------------------------------------------------------
(* What is kept of a run.                                                  *)

\* What is kept of a run, entry by entry.
LEMMA KeptText ==
  ASSUME NEW s, IsDB(s), NEW r \in RunIds
  PROVE  LET kept == Kept(s, r)
             data == Content(s.files[r].data)
             buffer == s.buffer[r]
         IN /\ data \in Lines /\ data \in Seq(Entry) /\ Content(s.files[r].errors) \in Lines
            /\ buffer \in Seq(Result) /\ s.errors[r] \in Seq(Result)
            /\ kept \in Seq(Entry) /\ kept = data \o buffer
            /\ Len(data) \in Nat /\ Len(buffer) \in Nat /\ Len(kept) = Len(data) + Len(buffer)
            /\ DOMAIN kept = 1..Len(kept) /\ DOMAIN data = 1..Len(data)
            /\ DOMAIN buffer = 1..Len(buffer)
            /\ \A i \in 1..Len(data) : kept[i] = data[i]
            /\ \A i \in 1..Len(buffer) : kept[Len(data) + i] = buffer[i] /\ Whole(buffer[i])
<1> DEFINE kept == Kept(s, r)
           data == Content(s.files[r].data)
           buffer == s.buffer[r]
<1>1. data \in Lines /\ Content(s.files[r].errors) \in Lines
  <2>1. s.files[r] \in FileSet
    BY DEF IsDB, Disks
  <2> QED BY <2>1, ContentIsLines DEF FileSet
<1>2. buffer \in Seq(Result) /\ s.errors[r] \in Seq(Result)
  BY DEF IsDB, Queues
<1>3. kept = data \o buffer
  BY DEF Kept
<1> HIDE DEF kept, data, buffer
<1>4. data \in Seq(Entry) /\ buffer \in Seq(Entry)
  BY <1>1, <1>2, SeqMonotonic DEF Lines, Entry
<1>5. /\ kept \in Seq(Entry) /\ Len(kept) = Len(data) + Len(buffer)
      /\ \A i \in 1..Len(data) + Len(buffer) : kept[i] =
           IF i <= Len(data) THEN data[i] ELSE buffer[i - Len(data)]
  BY <1>3, <1>4, ConcatProperties
<1>6. Len(data) \in Nat /\ Len(buffer) \in Nat /\ DOMAIN kept = 1..Len(kept)
      /\ DOMAIN data = 1..Len(data) /\ DOMAIN buffer = 1..Len(buffer)
  BY <1>4, <1>5, LenProperties
<1>7. \A i \in 1..Len(data) : kept[i] = data[i]
  BY <1>5, <1>6
<1>8. ASSUME NEW i \in 1..Len(buffer) PROVE kept[Len(data) + i] = buffer[i] /\ Whole(buffer[i])
  <2>1. Len(data) + i \in 1..Len(data) + Len(buffer) /\ ~(Len(data) + i <= Len(data))
        /\ (Len(data) + i) - Len(data) = i
    BY <1>6
  <2>2. buffer[i] \in Result
    BY <1>2, ElementOfSeq
  <2> QED BY <1>5, <2>1, <2>2, BrokerDBAssumption DEF Whole
<1> QED BY <1>1, <1>2, <1>3, <1>4, <1>5, <1>6, <1>7, <1>8 DEF kept, data, buffer

\* ... how much it is,
LEMMA KeptLen ==
  ASSUME NEW s, IsDB(s), NEW r \in RunIds
  PROVE  LET data == Content(s.files[r].data)
             kept == Kept(s, r)
         IN /\ Len(data) \in Nat /\ DOMAIN data = 1..Len(data)
            /\ Len(s.buffer[r]) \in Nat
            /\ Len(kept) = Len(data) + Len(s.buffer[r]) /\ DOMAIN kept = 1..Len(kept)
<1> DEFINE data == Content(s.files[r].data)
           kept == Kept(s, r)
<1>1. data \in Seq(Entry) /\ s.buffer[r] \in Seq(Result) /\ kept \in Seq(Entry)
  BY KeptText
<1>2. Len(kept) = Len(data) + Len(s.buffer[r])
  BY KeptText
<1> HIDE DEF data, kept
<1>3. /\ Len(data) \in Nat /\ DOMAIN data = 1..Len(data)
      /\ Len(s.buffer[r]) \in Nat /\ DOMAIN kept = 1..Len(kept)
  BY <1>1, LenProperties
<1> QED BY <1>2, <1>3 DEF data, kept

\* ... the lines first,
LEMMA KeptData ==
  ASSUME NEW s, IsDB(s), NEW r \in RunIds, NEW i \in 1..Len(Content(s.files[r].data))
  PROVE  Kept(s, r)[i] = Content(s.files[r].data)[i]
<1> DEFINE data == Content(s.files[r].data)
           kept == Kept(s, r)
<1>1. \A j \in 1..Len(data) : kept[j] = data[j]
  BY KeptText, ZenonT(40)
<1> HIDE DEF kept
<1> QED BY <1>1 DEF kept

\* ... then the results in memory.
LEMMA KeptBuffer ==
  ASSUME NEW s, IsDB(s), NEW r \in RunIds, NEW i \in 1..Len(s.buffer[r])
  PROVE  Kept(s, r)[Len(Content(s.files[r].data)) + i] = s.buffer[r][i] /\ Whole(s.buffer[r][i])
<1> DEFINE m == Len(Content(s.files[r].data))
           kept == Kept(s, r)
<1>1. \A j \in 1..Len(s.buffer[r]) : kept[m + j] = s.buffer[r][j] /\ Whole(s.buffer[r][j])
  BY KeptText, ZenonT(40)
<1> HIDE DEF kept, m
<1> QED BY <1>1 DEF kept, m

\* The whole entries of t are entries of u, d places further on.
PartOf(t, u, d) ==
    \A i \in DOMAIN t : Whole(t[i]) =>
      i + d \in DOMAIN u /\ Whole(u[i + d]) /\ u[i + d].id = t[i].id

\* Part of what is in order is in order.
LEMMA PartOrderly ==
  ASSUME NEW t \in Seq(Entry), NEW u, NEW d \in Nat, NEW n, Orderly(u, n), PartOf(t, u, d)
  PROVE  Orderly(t, n)
<1>1. DOMAIN t = 1..Len(t) /\ Len(t) \in Nat
  BY LenProperties
<1> SUFFICES ASSUME NEW i \in DOMAIN t, Whole(t[i])
             PROVE  /\ t[i].id <= n
                    /\ \A j \in DOMAIN t : i < j /\ Whole(t[j]) => t[i].id < t[j].id
  BY DEF Orderly
<1>3. i + d \in DOMAIN u /\ Whole(u[i + d]) /\ u[i + d].id = t[i].id
  BY DEF PartOf
<1>4. ASSUME NEW j \in DOMAIN t, i < j, Whole(t[j]) PROVE t[i].id < t[j].id
  <2>1. j + d \in DOMAIN u /\ Whole(u[j + d]) /\ u[j + d].id = t[j].id
    BY <1>4 DEF PartOf
  <2>2. i + d < j + d
    BY <1>1, <1>4
  <2> QED BY <1>3, <2>1, <2>2 DEF Orderly
<1> QED BY <1>3, <1>4 DEF Orderly

\* What is kept of a run may lose its first part, or its last.
LEMMA BufferOnly ==
  ASSUME NEW s, IsDB(s), NEW t, IsDB(t), NEW r \in RunIds, NEW n \in Nat,
         t.files[r].data = Absent, t.buffer[r] = s.buffer[r]
  PROVE  /\ Orderly(Kept(s, r), n) => Orderly(Kept(t, r), n)
         /\ LastOf(Kept(s, r), n) => LastOf(Kept(t, r), n)
<1> DEFINE u == Kept(s, r)
           k == Kept(t, r)
           d == Len(Content(s.files[r].data))
           m == Len(s.buffer[r])
<1>1. /\ d \in Nat /\ m \in Nat /\ Len(u) = d + m /\ DOMAIN u = 1..Len(u)
      /\ \A i \in 1..m : u[d + i] = s.buffer[r][i] /\ Whole(s.buffer[r][i])
  BY KeptText
<1>2. k = s.buffer[r] /\ k \in Seq(Entry) /\ Len(k) = m /\ DOMAIN k = 1..m
  <2>1. Content(t.files[r].data) = <<>> /\ k \in Seq(Entry)
        /\ k = Content(t.files[r].data) \o t.buffer[r] /\ t.buffer[r] \in Seq(Result)
    BY KeptText, ContentIsLines
  <2>2. k = s.buffer[r]
    BY <2>1, ConcatEmptySeq
  <2> QED BY <1>1, <2>1, <2>2, KeptText
<1> HIDE DEF u, k, d, m
<1>3. ASSUME NEW i \in 1..m
      PROVE  i + d \in DOMAIN u /\ u[i + d] = k[i] /\ Whole(k[i])
  <2>1. i + d = d + i /\ d + i \in 1..(d + m)
    BY <1>1
  <2> QED BY <1>1, <1>2, <2>1
<1>4. PartOf(k, u, d)
  BY <1>2, <1>3 DEF PartOf
<1>5. LastOf(u, n) => LastOf(k, n)
  <2> SUFFICES ASSUME LastOf(u, n), NEW i \in DOMAIN k
               PROVE  Whole(k[i]) /\ k[i].id = n - Len(k) + i
    BY DEF LastOf
  <2>1. i + d \in DOMAIN u /\ u[i + d] = k[i] /\ Whole(k[i]) /\ i \in 1..m
    BY <1>2, <1>3
  <2>2. k[i].id = n - (d + m) + (i + d)
    BY <1>1, <2>1 DEF LastOf
  <2>3. n - (d + m) + (i + d) = n - m + i
    BY <1>1, <2>1
  <2> QED BY <1>2, <2>1, <2>2, <2>3
<1> QED BY <1>1, <1>2, <1>4, <1>5, PartOrderly DEF u, k

-----------------------------------------------------------------------------
(* Soundness of one run.                                                   *)

\* A run that is left alone stays sound.
LEMMA SameSound ==
  ASSUME NEW s, NEW t, NEW r \in RunIds, SameRun(s, t, r), ~t.dirty => ~s.dirty,
         NEW results, NEW age, NEW lost,
         Sound(s, r, results, age, lost)
  PROVE  Sound(t, r, results, age, lost)
<1>1. Kept(t, r) = Kept(s, r)
  BY DEF SameRun, Kept
<1>2. Tracked(t, r) /\ Grown(t, r) /\ Orderly(Kept(t, r), Len(results))
  BY <1>1 DEF SameRun, Sound, Tracked, Grown
<1>3. age = 0 => Coded(t, r)
  BY DEF SameRun, Sound, Coded
<1>4. age = 0 /\ r \notin lost => LastOf(Kept(t, r), Len(results)) /\ Counted(t, r, results)
  BY <1>1 DEF SameRun, Sound, Counted
<1>5. ~t.dirty /\ r \notin lost => Synced(t, r)
  BY DEF SameRun, Sound, Synced
<1> QED BY <1>2, <1>3, <1>4, <1>5 DEF Sound

\* The lines of a queue stand for its results, also when only some of them were
\* written and the last one was torn.
LEMMA CopiedLines ==
  ASSUME NEW data \in Lines, NEW buffer \in Seq(Result), NEW lines \in Lines,
         Len(lines) = Len(buffer),
         \A i \in 1..Len(buffer) : lines[i] # Torn /\ lines[i].id = buffer[i].id
  PROVE  LET t == data \o lines
             u == data \o buffer
         IN /\ t \in Seq(Entry) /\ Len(t) = Len(u) /\ DOMAIN t = DOMAIN u
            /\ PartOf(t, u, 0)
            /\ \A n : LastOf(u, n) => LastOf(t, n)
            /\ \A k \in 0..(Len(lines) - 1) :
                 LET c == data \o SubSeq(lines, 1, k) \o <<Torn>>
                 IN c \in Lines /\ PartOf(c, u, 0)
<1> DEFINE t == data \o lines
           u == data \o buffer
           m == Len(data)
           n == Len(buffer)
<1>1. data \in Seq(Entry) /\ buffer \in Seq(Entry) /\ lines \in Seq(Entry)
  BY SeqMonotonic DEF Lines, Entry
<1>2. m \in Nat /\ n \in Nat
  BY LenProperties
<1>3. /\ t \in Seq(Entry) /\ Len(t) = m + n
      /\ \A i \in 1..(m + n) : t[i] = IF i <= m THEN data[i] ELSE lines[i - m]
      /\ u \in Seq(Entry) /\ Len(u) = m + n
      /\ \A i \in 1..(m + n) : u[i] = IF i <= m THEN data[i] ELSE buffer[i - m]
  BY <1>1, ConcatProperties
<1>4. DOMAIN t = 1..(m + n) /\ DOMAIN u = 1..(m + n)
  BY <1>3, LenProperties
<1>5. \A i \in 1..n : Whole(lines[i]) /\ Whole(buffer[i])
  <2>1. \A i \in 1..n : buffer[i] \in Result
    BY ElementOfSeq
  <2> QED BY <2>1, BrokerDBAssumption DEF Whole
<1> HIDE DEF t, u, m
<1>6. ASSUME NEW i \in 1..(m + n)
      PROVE  /\ Whole(t[i]) <=> Whole(u[i])
             /\ Whole(t[i]) => t[i].id = u[i].id
  <2>1. CASE i <= m
    BY <1>3, <2>1
  <2>2. CASE ~(i <= m)
    <3>1. i - m \in 1..n
      BY <1>2, <2>2
    <3>2. t[i] = lines[i - m] /\ u[i] = buffer[i - m]
      BY <1>3, <2>2
    <3> QED BY <1>5, <3>1, <3>2
  <2> QED BY <2>1, <2>2
<1>7. \A i \in 1..(m + n) : i + 0 = i
  BY <1>2
<1>8. PartOf(t, u, 0)
  BY <1>4, <1>6, <1>7 DEF PartOf
<1>9. ASSUME NEW l, LastOf(u, l) PROVE LastOf(t, l)
  BY <1>3, <1>4, <1>6, <1>9 DEF LastOf
<1>10. ASSUME NEW k \in 0..(Len(lines) - 1)
       PROVE  LET c == data \o SubSeq(lines, 1, k) \o <<Torn>>
              IN c \in Lines /\ PartOf(c, u, 0)
  <2> DEFINE a == SubSeq(lines, 1, k)
             b == data \o a
             c == b \o <<Torn>>
  <2>1. k \in Nat /\ k < n
    BY <1>2
  <2>2. a \in Lines /\ Len(a) = k /\ \A i \in 1..k : a[i] = lines[i]
    <3>1. \A i \in 1..k : lines[i] \in StoredLine \cup {Torn}
      BY <1>2, <2>1, ElementOfSeq DEF Lines
    <3>2. a \in Seq(StoredLine \cup {Torn}) /\ Len(a) = (IF 1 <= k THEN k - 1 + 1 ELSE 0)
          /\ \A i \in 1..(k - 1 + 1) : a[i] = lines[1 + i - 1]
      BY <2>1, <3>1, SubSeqProperties
    <3> HIDE DEF a
    <3>3. \A i \in 1..k : i \in 1..(k - 1 + 1) /\ 1 + i - 1 = i
      BY <2>1
    <3>4. (IF 1 <= k THEN k - 1 + 1 ELSE 0) = k
      BY <2>1
    <3> QED BY <3>2, <3>3, <3>4 DEF Lines
  <2> HIDE DEF a
  <2>3. b \in Lines /\ Len(b) = m + k
        /\ \A i \in 1..(m + k) : b[i] = IF i <= m THEN data[i] ELSE a[i - m]
    BY <2>2, ConcatProperties, ZenonT(30) DEF Lines, m
  <2>4. <<Torn>> \in Seq(StoredLine \cup {Torn}) /\ Len(<<Torn>>) = 1 /\ <<Torn>>[1] = Torn
    OBVIOUS
  <2> HIDE DEF b
  <2>5. c \in Lines /\ Len(c) = m + k + 1
        /\ \A i \in 1..(m + k + 1) : c[i] = IF i <= m + k THEN b[i] ELSE <<Torn>>[i - (m + k)]
    BY <2>3, <2>4, ConcatProperties DEF Lines
  <2>6. DOMAIN c = 1..(m + k + 1)
    BY <2>5, LenProperties DEF Lines
  <2> HIDE DEF c
  <2>7. ASSUME NEW i \in DOMAIN c, Whole(c[i])
        PROVE  i + 0 \in DOMAIN u /\ Whole(u[i + 0]) /\ u[i + 0].id = c[i].id
    <3>1. i \in 1..(m + k)
      <4> SUFFICES ASSUME i = m + k + 1 PROVE FALSE
        BY <1>2, <2>1, <2>6
      <4>1. ~(i <= m + k) /\ i - (m + k) = 1 /\ i \in 1..(m + k + 1)
        BY <1>2, <2>1
      <4>2. c[i] = Torn
        BY <2>4, <2>5, <4>1
      <4> QED BY <2>7, <4>2 DEF Whole
    <3>2. i \in 1..(m + n) /\ i + 0 = i /\ i <= m + k /\ i \in 1..(m + k + 1)
      BY <1>2, <2>1, <3>1
    <3>3. c[i] = b[i]
      BY <2>5, <3>2
    <3>4. CASE i <= m
      BY <1>3, <1>4, <2>3, <2>7, <3>1, <3>2, <3>3, <3>4
    <3>5. CASE ~(i <= m)
      <4>1. i - m \in 1..k /\ i - m \in 1..n
        BY <1>2, <2>1, <3>1, <3>5
      <4>2. c[i] = lines[i - m]
        BY <2>2, <2>3, <3>1, <3>3, <3>5, <4>1
      <4>3. c[i] = t[i]
        BY <1>3, <3>2, <3>5, <4>2
      <4> QED BY <1>4, <1>6, <2>7, <3>2, <4>3
    <3> QED BY <3>4, <3>5
  <2> QED BY <2>5, <2>7 DEF PartOf, c, b, a
<1> QED BY <1>3, <1>4, <1>8, <1>9, <1>10 DEF t, u

\* Lines that could be read can be with more headers, and new ones too.
LEMMA MoreDecode ==
  ASSUME NEW h, NEW old \in Seq(Kinds), NEW keys \in Seq(Kinds), NEW text \in Lines,
         NEW lines \in Lines,
         h = old \/ h = Absent, Decodes(h, text),
         Len(old) <= Len(keys), \A i \in 1..Len(old) : keys[i] = old[i],
         \A i \in 1..Len(lines) : lines[i].key \in DOMAIN keys /\ keys[lines[i].key] = lines[i].kind
  PROVE  Decodes(keys, text \o lines)
<1> DEFINE all == text \o lines
<1>1. Present(keys)
  BY BrokerDBAssumption DEF Present
<1>2. /\ Len(text) \in Nat /\ Len(lines) \in Nat /\ Len(all) = Len(text) + Len(lines)
      /\ DOMAIN all = 1..Len(all) /\ DOMAIN text = 1..Len(text)
      /\ \A i \in 1..Len(text) + Len(lines) : all[i] =
           IF i <= Len(text) THEN text[i] ELSE lines[i - Len(text)]
  BY ConcatProperties, LenProperties DEF Lines
<1>3. DOMAIN old = 1..Len(old) /\ DOMAIN keys = 1..Len(keys) /\ Len(old) \in Nat /\ Len(keys) \in Nat
  BY LenProperties
<1> HIDE DEF all
<1>4. ASSUME NEW i \in DOMAIN all, Whole(all[i])
      PROVE  all[i].key \in DOMAIN keys /\ keys[all[i].key] = all[i].kind
  <2>1. CASE i <= Len(text)
    <3>1. i \in DOMAIN text /\ all[i] = text[i]
      BY <1>2, <2>1
    <3>2. Present(h) /\ text[i].key \in DOMAIN h /\ h[text[i].key] = text[i].kind
      BY <1>4, <3>1 DEF Decodes
    <3>3. h = old
      BY <3>2 DEF Present
    <3>4. text[i].key \in 1..Len(old) /\ text[i].key \in DOMAIN keys
      BY <1>3, <3>2, <3>3
    <3> QED BY <3>1, <3>2, <3>3, <3>4
  <2>2. CASE ~(i <= Len(text))
    <3>1. i - Len(text) \in 1..Len(lines) /\ all[i] = lines[i - Len(text)]
      BY <1>2, <2>2
    <3> QED BY <3>1
  <2> QED BY <2>1, <2>2
<1> QED BY <1>1, <1>4 DEF Decodes, all

\* What flush writes of a run the queues hold.
LEMMA WrittenLines ==
  ASSUME NEW s, IsDB(s), NEW r \in s.known
  PROVE  LET w == Written(s, r)
             keys == DumpedHeaders(s, r)
             errors == Content(s.files[r].errors)
             text == Content(w.data)
         IN /\ text \in Lines /\ Len(text) = Len(Kept(s, r)) /\ PartOf(text, Kept(s, r), 0)
            /\ \A n : LastOf(Kept(s, r), n) => LastOf(text, n)
            /\ Len(Content(w.errors)) = Len(errors) + Len(s.errors[r])
            /\ Coded(s, r) => Decodes(keys, text) /\ Decodes(keys, Content(w.errors))
<1> DEFINE w == Written(s, r)
           keys == DumpedHeaders(s, r)
           data == Content(s.files[r].data)
           errors == Content(s.files[r].errors)
           b == LinesOf(keys, s.buffer[r])
           e == LinesOf(keys, s.errors[r])
           old == s.headers[r]
           h == s.files[r].headers
<1>0. r \in RunIds
  BY DEF IsDB
<1>1. /\ data \in Lines /\ errors \in Lines /\ s.buffer[r] \in Seq(Result) /\ s.errors[r] \in Seq(Result)
      /\ Kept(s, r) = data \o s.buffer[r] /\ Len(Kept(s, r)) = Len(data) + Len(s.buffer[r])
  BY <1>0, KeptText
<1>2. Content(w.errors) = errors \o e /\ Content(w.data) = data \o b
  BY <1>0, WrittenRun
<1>3. /\ keys \in Seq(Kinds) /\ Len(old) <= Len(keys) /\ \A i \in 1..Len(old) : keys[i] = old[i]
      /\ \A i \in 1..Len(s.errors[r]) : Contains(keys, s.errors[r][i].kind)
      /\ \A i \in 1..Len(s.buffer[r]) : Contains(keys, s.buffer[r][i].kind)
  BY <1>0, HeadersForRun
<1>4. old \in Seq(Kinds)
  BY <1>0 DEF IsDB, Keys
<1> HIDE DEF w, keys, data, errors, old, h
<1>5. /\ b \in Lines /\ Len(b) = Len(s.buffer[r])
      /\ \A i \in 1..Len(b) : b[i] # Torn /\ b[i].id = s.buffer[r][i].id
                             /\ b[i].key \in DOMAIN keys /\ keys[b[i].key] = b[i].kind
  <2>1. b \in Lines /\ Len(b) = Len(s.buffer[r])
    BY <1>1, <1>3, LinesOfQueue
  <2>2. \A i \in 1..Len(s.buffer[r]) : b[i] # Torn /\ b[i].id = s.buffer[r][i].id
          /\ b[i].key \in DOMAIN keys /\ keys[b[i].key] = b[i].kind
    BY <1>1, <1>3, LinesOfQueue
  <2> QED BY <2>1, <2>2
<1>6. /\ e \in Lines /\ Len(e) = Len(s.errors[r])
      /\ \A i \in 1..Len(e) : e[i].key \in DOMAIN keys /\ keys[e[i].key] = e[i].kind
  <2>1. e \in Lines /\ Len(e) = Len(s.errors[r])
    BY <1>1, <1>3, LinesOfQueue, ZenonT(30)
  <2>2. \A i \in 1..Len(s.errors[r]) : e[i].key \in DOMAIN keys /\ keys[e[i].key] = e[i].kind
    BY <1>1, <1>3, LinesOfQueue, ZenonT(30)
  <2> QED BY <2>1, <2>2
<1> HIDE DEF b, e
<1>7. /\ Len(data \o b) = Len(data \o s.buffer[r]) /\ PartOf(data \o b, data \o s.buffer[r], 0)
      /\ \A n : LastOf(data \o s.buffer[r], n) => LastOf(data \o b, n)
  <2>1. /\ data \in Lines /\ s.buffer[r] \in Seq(Result) /\ b \in Lines
        /\ Len(b) = Len(s.buffer[r])
        /\ \A i \in 1..Len(s.buffer[r]) : b[i] # Torn /\ b[i].id = s.buffer[r][i].id
    BY <1>1, <1>5
  <2> QED BY ONLY <2>1, CopiedLines
<1>8. data \o b \in Lines /\ Len(errors \o e) = Len(errors) + Len(e)
  <2>1. /\ data \in Seq(StoredLine \cup {Torn}) /\ b \in Seq(StoredLine \cup {Torn})
        /\ errors \in Seq(StoredLine \cup {Torn}) /\ e \in Seq(StoredLine \cup {Torn})
    BY <1>1, <1>5, <1>6 DEF Lines
  <2>2. data \o b \in Seq(StoredLine \cup {Torn})
    BY ONLY <2>1, ConcatProperties
  <2>3. Len(errors \o e) = Len(errors) + Len(e)
    BY ONLY <2>1, ConcatProperties
  <2> QED BY <2>2, <2>3 DEF Lines
<1>9. ASSUME Coded(s, r) PROVE Decodes(keys, data \o b) /\ Decodes(keys, errors \o e)
  <2>1. /\ h = old \/ h = Absent
        /\ Decodes(h, data) /\ Decodes(h, errors)
    BY <1>9 DEF Coded, h, old, data, errors
  <2> QED BY <1>1, <1>3, <1>4, <1>5, <1>6, <2>1, MoreDecode
<1> QED BY <1>1, <1>2, <1>6, <1>7, <1>8, <1>9 DEF w, keys, data, errors

\* What flush makes of one run.
LEMMA FlushedRun ==
  ASSUME NEW s, IsDB(s), NEW order, NEW r \in RunIds
  PROVE  LET t == FlushedIn(s, order)
         IN /\ t.files[r].metadata = IF s.metadata[r] = {} THEN s.files[r].metadata
                                     ELSE s.metadata[r]
            /\ r \notin s.known =>
                 /\ t.buffer[r] \in {s.buffer[r], <<>>} /\ t.errors[r] \in {s.errors[r], <<>>}
                 /\ t.headers[r] = s.headers[r]
                 /\ t.files[r].errors = s.files[r].errors /\ t.files[r].data = s.files[r].data
                 /\ t.files[r].counts = s.files[r].counts /\ t.files[r].headers = s.files[r].headers
            /\ r \in s.known =>
                 /\ t.buffer[r] = <<>> /\ t.errors[r] = <<>>
                 /\ t.headers[r] = DumpedHeaders(s, r) /\ t.files[r] = Written(s, r)
<1> DEFINE t == FlushedIn(s, order)
<1>1. /\ t.files[r].metadata = IF s.metadata[r] = {} THEN s.files[r].metadata
                               ELSE s.metadata[r]
      /\ r \notin s.known =>
           /\ t.buffer[r] \in {s.buffer[r], <<>>} /\ t.errors[r] \in {s.errors[r], <<>>}
           /\ t.headers[r] = s.headers[r]
           /\ t.files[r] = [s.files[r] EXCEPT !.metadata = t.files[r].metadata]
      /\ r \in s.known =>
           /\ t.buffer[r] = <<>> /\ t.errors[r] = <<>>
           /\ t.headers[r] = DumpedHeaders(s, r) /\ t.files[r] = Written(s, r)
  BY FlushedDB
<1>2. s.files[r] \in FileSet
  BY DEF IsDB, Disks
<1> QED BY <1>1, <1>2 DEF FileSet

\* A flush keeps a run sound ...
LEMMA FlushedSound ==
  ASSUME NEW s, IsDB(s), NEW order, NEW r \in RunIds, NEW results \in Seq(Kinds),
         NEW age, NEW lost, Sound(s, r, results, age, lost)
  PROVE  Sound(FlushedIn(s, order), r, results, age, lost)
<1> DEFINE t == FlushedIn(s, order)
           n == Len(results)
<1>1. /\ IsDB(t) /\ t.known = s.known /\ t.metadata = s.metadata /\ t.counts = s.counts
      /\ t.dirty <=> s.dirty /\ s.known = {}
  BY FlushedDB
<1>2. /\ t.files[r].metadata = IF s.metadata[r] = {} THEN s.files[r].metadata ELSE s.metadata[r]
      /\ r \notin s.known =>
           /\ t.buffer[r] \in {s.buffer[r], <<>>} /\ t.errors[r] \in {s.errors[r], <<>>}
           /\ t.headers[r] = s.headers[r]
           /\ t.files[r].errors = s.files[r].errors /\ t.files[r].data = s.files[r].data
           /\ t.files[r].counts = s.files[r].counts /\ t.files[r].headers = s.files[r].headers
      /\ r \in s.known =>
           /\ t.buffer[r] = <<>> /\ t.errors[r] = <<>>
           /\ t.headers[r] = DumpedHeaders(s, r) /\ t.files[r] = Written(s, r)
  BY FlushedRun
<1>4. s.files[r] \in FileSet /\ n \in Nat
  BY LenProperties DEF IsDB, Disks
<1> HIDE DEF t, n
<1>5. Grown(t, r)
  BY <1>1, <1>2 DEF Grown, Sound
<1>6. CASE r \notin s.known
  <2>1. t.buffer[r] = <<>> /\ t.errors[r] = <<>> /\ t.buffer[r] = s.buffer[r] /\ t.errors[r] = s.errors[r]
    BY <1>2, <1>6 DEF Sound, Tracked
  <2>2. /\ t.files[r].data = s.files[r].data /\ t.files[r].errors = s.files[r].errors
        /\ t.files[r].counts = s.files[r].counts /\ t.files[r].headers = s.files[r].headers
        /\ t.headers[r] = s.headers[r]
    BY <1>2, <1>6
  <2>3. Kept(t, r) = Kept(s, r)
    BY <2>1, <2>2 DEF Kept
  <2>4. Tracked(t, r) /\ Orderly(Kept(t, r), n)
    BY <2>1, <2>3 DEF Tracked, Sound, n
  <2>5. age = 0 => Coded(t, r)
    BY <2>2 DEF Sound, Coded
  <2>6. age = 0 /\ r \notin lost => LastOf(Kept(t, r), n) /\ Counted(t, r, results)
    BY <1>1, <2>1, <2>2, <2>3 DEF Sound, Counted, n
  <2>7. Synced(t, r)
    BY <1>1, <1>2, <1>6, <2>1 DEF Synced
  <2> QED BY <1>5, <2>4, <2>5, <2>6, <2>7 DEF Sound, n, t
<1>7. CASE r \in s.known
  <2> DEFINE text == Content(t.files[r].data)
             keys == DumpedHeaders(s, r)
  <2>1. /\ text \in Lines /\ Len(text) = Len(Kept(s, r)) /\ PartOf(text, Kept(s, r), 0)
        /\ LastOf(Kept(s, r), n) => LastOf(text, n)
        /\ Len(Content(t.files[r].errors)) = Len(Content(s.files[r].errors)) + Len(s.errors[r])
        /\ Coded(s, r) => Decodes(keys, text) /\ Decodes(keys, Content(t.files[r].errors))
    BY <1>2, <1>7, WrittenLines
  <2>2. t.files[r].headers = keys /\ t.files[r].counts = s.counts[r] /\ t.headers[r] = keys
    BY <1>2, <1>7, WrittenRun
  <2>3. Kept(t, r) = text
    BY <1>2, <1>7, <2>1, ConcatEmptySeq DEF Kept, Lines
  <2>4. text \in Seq(Entry)
    BY <2>1, SeqMonotonic DEF Lines, Entry
  <2>5. Orderly(text, n)
    BY <1>4, <2>1, <2>4, PartOrderly DEF Sound, n
  <2>6. Tracked(t, r)
    BY <1>2, <1>7 DEF Tracked
  <2>7. age = 0 => Coded(t, r)
    BY <2>1, <2>2 DEF Coded, Sound
  <2>8. age = 0 /\ r \notin lost => LastOf(text, n) /\ Counted(t, r, results)
    <3> SUFFICES ASSUME age = 0, r \notin lost PROVE LastOf(text, n) /\ Counted(t, r, results)
      OBVIOUS
    <3>1. LastOf(Kept(s, r), n) /\ Counted(s, r, results)
      BY DEF Sound, n
    <3>2. Len(t.errors[r]) = 0 /\ Len(Content(t.files[r].errors)) \in Nat
      <4>1. Content(t.files[r].errors) \in Lines
        BY <1>1, KeptText
      <4> QED BY <1>2, <1>7, <4>1, LenProperties DEF Lines
    <3>3. Len(Content(t.files[r].errors)) + Len(t.errors[r]) = Number(results, "addError")
      <4>1. Len(Content(s.files[r].errors)) + Len(s.errors[r]) = Number(results, "addError")
        BY <3>1 DEF Counted
      <4>2. Len(Content(t.files[r].errors)) = Number(results, "addError")
        BY <2>1, <4>1, Zenon
      <4> QED BY <3>2, <4>2
    <3> QED BY <1>1, <2>1, <3>1, <3>3 DEF Counted
  <2>9. Synced(t, r)
    BY <1>1, <1>2, <1>7, <2>2 DEF Synced
  <2> QED BY <1>5, <2>3, <2>5, <2>6, <2>7, <2>8, <2>9 DEF Sound, n, t
<1> QED BY <1>6, <1>7

\* ... and so do summarize_run,
LEMMA SummarizedSound ==
  ASSUME NEW s, IsDB(s), NEW q \in RunIds, NEW r \in RunIds, NEW results \in Seq(Kinds),
         NEW age, NEW lost, Sound(s, r, results, age, lost)
  PROVE  Sound(Summarized(s, q), r, results, age, lost)
<1> DEFINE t == Summarized(s, q)
<1>1. /\ IsDB(t) /\ t.dirty = s.dirty /\ t.known = s.known /\ t.buffer = s.buffer
      /\ t.errors = s.errors /\ t.counts = s.counts /\ t.headers = s.headers
      /\ t.metadata = s.metadata 
  BY SummarizedDB
<1>0. q # r => t.files[r] = s.files[r]
  BY SummarizedDB
<1>2. q = r =>
        /\ t.files[r].data = Absent /\ t.files[r].errors = s.files[r].errors
        /\ t.files[r].counts = s.files[r].counts /\ t.files[r].headers = s.files[r].headers
        /\ t.files[r].metadata = s.files[r].metadata
  BY SummarizedDB
<1>3. Len(results) \in Nat
  BY LenProperties
<1> HIDE DEF t
<1>4. CASE q # r
  <2>1. SameRun(s, t, r) /\ (~t.dirty => ~s.dirty)
    BY <1>0, <1>1, <1>4 DEF SameRun
  <2> QED BY <2>1, SameSound DEF t
<1>5. CASE q = r
  <2>1. /\ t.files[r].data = Absent /\ t.files[r].errors = s.files[r].errors
        /\ t.files[r].counts = s.files[r].counts /\ t.files[r].headers = s.files[r].headers
        /\ t.files[r].metadata = s.files[r].metadata
    BY <1>2, <1>5
  <2>2. /\ Orderly(Kept(s, r), Len(results)) => Orderly(Kept(t, r), Len(results))
        /\ LastOf(Kept(s, r), Len(results)) => LastOf(Kept(t, r), Len(results))
    BY <1>1, <1>3, <2>1, BufferOnly
  <2>3. Tracked(t, r) /\ Grown(t, r)
    BY <1>1, <2>1 DEF Sound, Tracked, Grown
  <2>4. age = 0 => Coded(t, r)
    <3>1. Decodes(t.files[r].headers, <<>>) /\ Content(Absent) = <<>>
      BY ContentIsLines DEF Decodes
    <3> QED BY <1>1, <2>1, <3>1 DEF Sound, Coded
  <2>5. age = 0 /\ r \notin lost => Counted(t, r, results)
    BY <1>1, <2>1 DEF Sound, Counted
  <2>6. ~t.dirty /\ r \notin lost => Synced(t, r)
    BY <1>1, <2>1 DEF Sound, Synced
  <2> QED BY <2>2, <2>3, <2>4, <2>5, <2>6 DEF Sound, t
<1> QED BY <1>4, <1>5

\* ... _update_headers,
LEMMA WithHeadersSound ==
  ASSUME NEW s, IsDB(s), NEW q \in RunIds, s.files[q].headers # Torn,
         NEW r \in RunIds, NEW results,
         NEW age, NEW lost, Sound(s, r, results, age, lost)
  PROVE  Sound(WithHeaders(s, q), r, results, age, lost)
<1> DEFINE t == WithHeaders(s, q)
<1>1. /\ IsDB(t) /\ t.dirty = s.dirty /\ t.known = s.known /\ t.buffer = s.buffer
      /\ t.errors = s.errors /\ t.counts = s.counts /\ t.files = s.files
      /\ t.metadata = s.metadata /\ (q # r => t.headers[r] = s.headers[r])
      /\ q = r => t.headers[r] = IF s.files[r].headers = Absent THEN s.headers[r]
                                 ELSE s.files[r].headers
  BY WithHeadersDB
<1> HIDE DEF t
<1>2. Kept(t, r) = Kept(s, r)
  BY <1>1 DEF Kept
<1>3. Tracked(t, r) /\ Grown(t, r)
  BY <1>1 DEF Sound, Tracked, Grown
<1>4. age = 0 => Coded(t, r)
  BY <1>1 DEF Sound, Coded
<1>5. age = 0 /\ r \notin lost => Counted(t, r, results)
  BY <1>1 DEF Sound, Counted
<1>6. ~t.dirty /\ r \notin lost => Synced(t, r)
  BY <1>1 DEF Sound, Synced
<1> QED BY <1>2, <1>3, <1>4, <1>5, <1>6 DEF Sound, t

\* ... update_metadata,
LEMMA UpdatedSound ==
  ASSUME NEW s, IsDB(s), NEW q \in RunIds, Loadable(s, q), NEW field \in Fields,
         NEW r \in RunIds, NEW results, NEW age, NEW lost,
         Sound(s, r, results, age, lost)
  PROVE  Sound(Updated(s, q, field), r, results, age, lost)
<1> DEFINE t == Updated(s, q, field)
<1>1. /\ t.dirty /\ t.known = s.known /\ t.buffer = s.buffer /\ t.errors = s.errors
      /\ t.counts = s.counts /\ t.headers = s.headers /\ t.files = s.files
      /\ q # r => t.metadata[r] = s.metadata[r]
      /\ q = r => /\ s.metadata[r] \subseteq t.metadata[r]
                  /\ Present(s.files[r].metadata) /\ s.metadata[r] = {}
                       => s.files[r].metadata \subseteq t.metadata[r]
  BY UpdatedDB
<1> HIDE DEF t
<1>2. Kept(t, r) = Kept(s, r)
  BY <1>1 DEF Kept
<1>3. Tracked(t, r)
  BY <1>1 DEF Sound, Tracked
<1>4. Grown(t, r)
  BY <1>1 DEF Sound, Grown
<1>5. age = 0 => Coded(t, r)
  BY <1>1 DEF Sound, Coded
<1>6. age = 0 /\ r \notin lost => Counted(t, r, results)
  BY <1>1 DEF Sound, Counted
<1> QED BY <1>1, <1>2, <1>3, <1>4, <1>5, <1>6 DEF Sound, t

\* Counting one more result.
LEMMA NumberOfAppend ==
  ASSUME NEW results \in Seq(Kinds), NEW kind \in Kinds, NEW k
  PROVE  /\ Number(results, k) \in Nat
         /\ Number(Append(results, kind), k) =
              IF k = kind THEN Number(results, k) + 1 ELSE Number(results, k)
<1> DEFINE n == Len(results)
           more == Append(results, kind)
           S == {i \in DOMAIN results : results[i] = k}
           M == {i \in DOMAIN more : more[i] = k}
<1>1. n \in Nat /\ DOMAIN results = 1..n /\ DOMAIN more = 1..(n + 1)
      /\ more[n + 1] = kind /\ \A i \in 1..n : more[i] = results[i]
  BY LenProperties
<1>2. IsFiniteSet(S) /\ Cardinality(S) \in Nat
  <2>1. IsFiniteSet(1..n)
    BY <1>1, FS_Interval
  <2> QED BY <1>1, <2>1, FS_Subset, FS_CardinalityType
<1>3. CASE k = kind
  <2>1. M = S \cup {n + 1} /\ n + 1 \notin S
    BY <1>1, <1>3
  <2> QED BY <1>2, <1>3, <2>1, FS_AddElement DEF Number
<1>4. CASE k # kind
  <2>1. M = S
    BY <1>1, <1>4
  <2> QED BY <1>2, <1>4, <2>1 DEF Number
<1> QED BY <1>3, <1>4

\* ... add,
LEMMA AddedSound ==
  ASSUME NEW s, IsDB(s), NEW q \in RunIds, Loadable(s, q),
         NEW old \in Seq(Kinds), NEW kind \in Kinds,
         NEW r \in RunIds, NEW results \in Seq(Kinds), q = r => results = old,
         NEW age, NEW lost, Sound(s, r, results, age, lost)
  PROVE  LET result == [id |-> Len(old) + 1, kind |-> kind]
         IN /\ result \in Result
            /\ Sound(Added(s, q, result), r, IF q = r THEN Append(old, kind) ELSE results, age, lost)
<1> DEFINE result == [id |-> Len(old) + 1, kind |-> kind]
           u == Updated(s, q, "has_data")
           t == Added(s, q, result)
           n == Len(old)
<1>1. n \in Nat /\ result \in Result
  BY LenProperties DEF Result
<1>2. Sound(u, r, results, age, lost)
  BY UpdatedSound DEF Fields
<1>3. /\ IsDB(t) /\ t.dirty /\ t.metadata = u.metadata /\ t.headers = s.headers /\ t.files = s.files
      /\ t.known = s.known \cup {q}
      /\ q # r => t.buffer[r] = s.buffer[r] /\ t.errors[r] = s.errors[r] /\ t.counts[r] = s.counts[r]
      /\ t.buffer[q] = Append(s.buffer[q], result)
      /\ t.errors[q] = IF IsError(result) THEN Append(s.errors[q], result) ELSE s.errors[q]
      /\ \A k \in Kinds : t.counts[q][k] = IF k = kind THEN s.counts[q][k] + 1 ELSE s.counts[q][k]
  <2>1. result.kind = kind
    OBVIOUS
  <2> HIDE DEF result
  <2> QED BY <1>1, <2>1, AddedDB
<1>4. /\ IsDB(u) /\ u.dirty /\ u.known = s.known /\ u.buffer = s.buffer /\ u.errors = s.errors
      /\ u.counts = s.counts /\ u.headers = s.headers /\ u.files = s.files
  BY UpdatedDB DEF Fields
<1>5. IsError(result) <=> kind = "addError"
  BY DEF IsError
<1>6. result.id = n + 1
  OBVIOUS
<1> HIDE DEF result, u, t, n
<1>7. CASE q # r
  <2>1. SameRun(u, t, r)
    BY <1>3, <1>4, <1>7 DEF SameRun
  <2>2. Sound(t, r, results, age, lost)
    BY <1>2, <1>3, <2>1, SameSound
  <2> QED BY <1>1, <1>7, <2>2 DEF t, result
<1>8. CASE q = r
  <2> DEFINE more == Append(old, kind)
             k == Kept(s, r)
             l == Kept(t, r)
             m == Len(k)
  <2>1. more \in Seq(Kinds) /\ Len(more) = n + 1 /\ more # <<>>
    BY DEF n
  <2>2. /\ m \in Nat /\ DOMAIN k = 1..m /\ Len(l) = m + 1 /\ DOMAIN l = 1..(m + 1)
        /\ l[m + 1] = result /\ Whole(l[m + 1]) /\ \A i \in 1..m : l[i] = k[i]
    <3> DEFINE data == Content(s.files[r].data)
               d == Len(data)
               b == Len(s.buffer[r])
    <3>0. k = data \o s.buffer[r] /\ l = data \o t.buffer[r]
      BY <1>3 DEF Kept
    <3>1. /\ d \in Nat /\ b \in Nat /\ m = d + b /\ DOMAIN k = 1..m /\ s.buffer[r] \in Seq(Result)
          /\ \A i \in 1..d : k[i] = data[i]
          /\ \A i \in 1..b : k[d + i] = s.buffer[r][i]
      <4>1. d \in Nat /\ b \in Nat /\ m = d + b /\ DOMAIN k = 1..m
        BY KeptText
      <4>2. \A i \in 1..d : k[i] = data[i]
        BY KeptData
      <4>3. \A i \in 1..b : k[d + i] = s.buffer[r][i]
        BY KeptBuffer
      <4>4. s.buffer[r] \in Seq(Result)
        BY DEF IsDB, Queues
      <4> QED BY <4>1, <4>2, <4>3, <4>4
    <3>2. Len(t.buffer[r]) = b + 1 /\ t.buffer[r][b + 1] = result
          /\ \A i \in 1..b : t.buffer[r][i] = s.buffer[r][i]
      <4>1. t.buffer[r] = Append(s.buffer[r], result)
        BY <1>3, <1>8
      <4> QED BY <1>1, <3>1, <4>1
    <3>3. /\ Len(l) = d + Len(t.buffer[r]) /\ DOMAIN l = 1..Len(l)
          /\ \A i \in 1..d : l[i] = data[i]
          /\ \A i \in 1..Len(t.buffer[r]) : l[d + i] = t.buffer[r][i] /\ Whole(t.buffer[r][i])
      <4>1. data = Content(t.files[r].data)
        BY <1>3
      <4> DEFINE new == Content(t.files[r].data)
      <4>2. Len(l) = Len(new) + Len(t.buffer[r]) /\ DOMAIN l = 1..Len(l)
        BY <1>3, KeptLen
      <4>3. \A i \in 1..Len(new) : l[i] = new[i]
        BY <1>3, KeptData
      <4>4. \A i \in 1..Len(t.buffer[r]) : l[Len(new) + i] = t.buffer[r][i] /\ Whole(t.buffer[r][i])
        BY <1>3, KeptBuffer
      <4> HIDE DEF data, new, l
      <4> QED BY <4>1, <4>2, <4>3, <4>4 DEF new
    <3> HIDE DEF k, l, m, data, d, b
    <3>4. l[m + 1] = result /\ Whole(l[m + 1])
      <4>1. m + 1 = d + (b + 1) /\ b + 1 \in 1..(b + 1)
        BY <3>1
      <4> QED BY <3>2, <3>3, <4>1
    <3>5. ASSUME NEW i \in 1..m PROVE l[i] = k[i]
      <4>1. CASE i \in 1..d
        BY <3>1, <3>3, <4>1
      <4>2. CASE i \notin 1..d
        <5>1. i - d \in 1..b /\ d + (i - d) = i
          BY <3>1, <4>2
        <5>2. k[i] = s.buffer[r][i - d]
          BY <3>1, <5>1
        <5>3. t.buffer[r][i - d] = s.buffer[r][i - d] /\ i - d \in 1..Len(t.buffer[r])
          BY <3>1, <3>2, <5>1
        <5>4. l[i] = t.buffer[r][i - d]
          BY <3>3, <5>1, <5>3
        <5> QED BY <5>2, <5>3, <5>4
      <4> QED BY <4>1, <4>2
    <3> QED BY <3>1, <3>2, <3>3, <3>4, <3>5
  <2>3. Tracked(t, r)
    BY <1>3, <1>8 DEF Tracked
  <2>4. Grown(t, r)
    BY <1>2, <1>3, <1>4 DEF Sound, Grown
  <2>5. Orderly(l, n + 1)
    <3>1. Orderly(k, n)
      BY <1>8 DEF Sound, n
    <3> HIDE DEF k, l
    <3>2. ASSUME NEW i \in 1..m, Whole(l[i])
          PROVE  /\ l[i].id <= n
                 /\ \A j \in 1..m : i < j /\ Whole(l[j]) => l[i].id < l[j].id
      BY <2>2, <3>1, <3>2 DEF Orderly
    <3>3. l[m + 1].id = n + 1
      BY <1>6, <2>2
    <3>4. ASSUME NEW i \in 1..m, Whole(l[i])
          PROVE  l[i].id <= n + 1 /\ l[i].id < l[m + 1].id
      <4>1. l[i] \in Entry
        <5>1. l \in Seq(Entry)
          BY <1>3, KeptText DEF l
        <5> QED BY <2>2, <5>1, ElementOfSeq
      <4>2. l[i].id \in Nat
        BY <3>4, <4>1 DEF Entry, StoredLine, Result, Whole
      <4> QED BY <1>1, <3>2, <3>3, <3>4, <4>2
    <3>5. \A i \in 1..(m + 1) : i \in 1..m \/ i = m + 1
      BY <2>2
    <3>6. \A j \in 1..(m + 1) : ~(m + 1 < j)
      BY <2>2
    <3> QED BY <1>1, <2>2, <3>2, <3>3, <3>4, <3>5, <3>6 DEF Orderly
  <2>6. age = 0 => Coded(t, r)
    BY <1>3 DEF Sound, Coded
  <2>7. age = 0 /\ r \notin lost => LastOf(l, n + 1) /\ Counted(t, r, more)
    <3> SUFFICES ASSUME age = 0, r \notin lost PROVE LastOf(l, n + 1) /\ Counted(t, r, more)
      OBVIOUS
    <3>1. LastOf(k, n) /\ Counted(s, r, old)
      BY <1>8 DEF Sound, n
    <3>2. ASSUME NEW i \in 1..(m + 1) PROVE Whole(l[i]) /\ l[i].id = (n + 1) - (m + 1) + i
      <4>1. CASE i \in 1..m
        <5>1. Whole(k[i]) /\ k[i].id = n - m + i /\ l[i] = k[i]
          BY <2>2, <3>1, <4>1 DEF LastOf
        <5> HIDE DEF k, l, m
        <5>2. n - m + i = (n + 1) - (m + 1) + i
          BY <1>1, <2>2
        <5> QED BY <5>1, <5>2
      <4>2. CASE i \notin 1..m
        <5> HIDE DEF k, l, m
        <5>1. i = m + 1 /\ (n + 1) - (m + 1) + i = n + 1
          BY <1>1, <2>2, <4>2
        <5> QED BY <1>6, <2>2, <5>1
      <4> QED BY <4>1, <4>2
    <3>3. LastOf(l, n + 1)
      BY <2>2, <3>2 DEF LastOf
    <3>4. \A x \in Kinds : t.counts[r][x] = Number(more, x)
      BY <1>3, <1>8, <3>1, NumberOfAppend DEF Counted
    <3>5. Len(Content(t.files[r].errors)) + Len(t.errors[r]) = Number(more, "addError")
      <4> DEFINE e == Len(Content(s.files[r].errors))
                 f == Len(s.errors[r])
                 g == Number(old, "addError")
      <4>1. e \in Nat /\ f \in Nat /\ s.errors[r] \in Seq(Result)
        BY KeptText, LenProperties DEF Lines
      <4>2. e + f = g
        BY <3>1 DEF Counted
      <4>3. Number(more, "addError") = IF kind = "addError" THEN g + 1 ELSE g
        BY NumberOfAppend
      <4>4. Len(t.errors[r]) = IF kind = "addError" THEN f + 1 ELSE f
        <5>1. t.errors[r] = IF kind = "addError" THEN Append(s.errors[r], result) ELSE s.errors[r]
          BY <1>3, <1>5, <1>8
        <5> QED BY <1>1, <4>1, <5>1
      <4>5. Len(Content(t.files[r].errors)) = e
        BY <1>3
      <4> HIDE DEF e, f, g
      <4> QED BY <4>1, <4>2, <4>3, <4>4, <4>5
    <3>6. r \in t.known
      BY <1>3, <1>8
    <3> QED BY <3>3, <3>4, <3>5, <3>6 DEF Counted
  <2> QED BY <1>1, <1>3, <1>8, <2>1, <2>3, <2>4, <2>5, <2>6, <2>7 DEF Sound, t, result
<1> QED BY <1>7, <1>8

\* ... save_metadata of a run nothing is there of,
LEMMA SavedSound ==
  ASSUME NEW s, IsDB(s), NEW q \in RunIds, Fresh(s, q),
         NEW r \in RunIds, NEW results, NEW age, NEW lost,
         Sound(s, r, results, age, lost)
  PROVE  Sound(Saved(s, q), r, results, age, lost)
<1> DEFINE t == Saved(s, q)
<1>1. /\ t.dirty /\ t.known = s.known /\ t.buffer = s.buffer /\ t.errors = s.errors
      /\ t.counts = s.counts /\ t.headers = s.headers /\ t.files = s.files
  BY SavedDB
<1>2. q # r => t.metadata[r] = s.metadata[r]
  BY SavedDB
<1> HIDE DEF t
<1>3. Kept(t, r) = Kept(s, r)
  BY <1>1 DEF Kept
<1>4. Tracked(t, r)
  BY <1>1 DEF Sound, Tracked
<1>5. Grown(t, r)
  <2>1. CASE q # r
    BY <1>1, <1>2, <2>1 DEF Sound, Grown
  <2>2. CASE q = r
    <3>1. t.files[r].metadata = Absent
      BY <1>1, <2>2 DEF Fresh, NoFiles
    <3> QED BY <3>1 DEF Grown, Present
  <2> QED BY <2>1, <2>2
<1>6. age = 0 => Coded(t, r)
  BY <1>1 DEF Sound, Coded
<1>7. age = 0 /\ r \notin lost => Counted(t, r, results)
  BY <1>1 DEF Sound, Counted
<1> QED BY <1>1, <1>3, <1>4, <1>5, <1>6, <1>7 DEF Sound, t

\* ... and delete_run, which makes it a lost one.
LEMMA DeletedSound ==
  ASSUME NEW s, IsDB(s), NEW gone \in SUBSET RunIds,
         NEW r \in RunIds, NEW results \in Seq(Kinds),
         NEW age, NEW lost, Sound(s, r, results, age, lost)
  PROVE  Sound(Deleted(s, gone), r, results, age, lost \cup gone)
<1> DEFINE t == Deleted(s, gone)
<1>1. IsDB(t) /\ t.dirty = s.dirty /\ t.known = s.known /\ t.buffer = s.buffer /\ t.errors = s.errors
  BY DeletedDB
<1>2. r \notin gone => SameRun(s, t, r)
  BY DeletedDB
<1>3. r \in gone => /\ t.files[r] = NoFiles /\ t.metadata[r] = {}
                   /\ t.counts[r] = NoCounts /\ t.headers[r] = <<>>
  BY DeletedDB
<1>4. Len(results) \in Nat
  BY LenProperties
<1> HIDE DEF t
<1>5. CASE r \notin gone
  <2>1. Sound(t, r, results, age, lost)
    BY <1>1, <1>2, <1>5, SameSound
  <2> QED BY <1>5, <2>1 DEF t, Sound
<1>6. CASE r \in gone
  <2>1. t.files[r].data = Absent /\ t.files[r].errors = Absent /\ t.files[r].headers = Absent
        /\ t.headers[r] = <<>> /\ t.metadata[r] = {}
    BY <1>3, <1>6 DEF NoFiles
  <2>2. Orderly(Kept(t, r), Len(results))
    BY <1>1, <1>4, <2>1, BufferOnly DEF Sound
  <2>3. Tracked(t, r) /\ Grown(t, r)
    BY <1>1, <2>1 DEF Sound, Tracked, Grown
  <2>4. Coded(t, r)
    BY <2>1, ContentIsLines DEF Coded, Decodes
  <2> QED BY <1>6, <2>2, <2>3, <2>4 DEF Sound, t
<1> QED BY <1>5, <1>6

\* What a broker finds when it starts.
LEMMA EmptySound ==
  ASSUME NEW s, IsDB(s), NEW files \in Disks, NEW listing,
         NEW r \in RunIds, NEW results \in Seq(Kinds), Orderly(Kept(s, r), Len(results)),
         PartOf(Content(files[r].data), Kept(s, r), 0),
         NEW age, age # 0, NEW lost
  PROVE  Sound(EmptyMemory(files, listing), r, results, age, lost)
<1> DEFINE t == EmptyMemory(files, listing)
           text == Content(files[r].data)
<1>1. t.dirty = FALSE /\ t.metadata[r] = {} /\ t.known = {} /\ t.buffer[r] = <<>> /\ t.errors[r] = <<>>
      /\ t.files = files
  BY DEF EmptyMemory
<1>2. text \in Lines /\ text \in Seq(Entry)
  <2>1. text \in Lines
    BY ContentIsLines DEF Disks, FileSet
  <2> QED BY <2>1, SeqMonotonic DEF Lines, Entry
<1> HIDE DEF t
<1>3. Kept(t, r) = text
  BY <1>1, <1>2, ConcatEmptySeq DEF Kept
<1>4. Orderly(text, Len(results))
  BY <1>2, LenProperties, PartOrderly
<1>5. Tracked(t, r) /\ Grown(t, r) /\ Synced(t, r)
  BY <1>1 DEF Tracked, Grown, Synced
<1> QED BY <1>3, <1>4, <1>5 DEF Sound, t

\* An empty memory knows nothing.
LEMMA EmptyDB ==
  ASSUME NEW files \in Disks, NEW listing
  PROVE  LET t == EmptyMemory(files, listing)
         IN /\ IsDB(t) /\ t.files = files
            /\ \A r \in RunIds : files[r] = NoFiles => Fresh(t, r)
<1> DEFINE t == EmptyMemory(files, listing)
           flags == [r \in RunIds |-> {}]
           queues == [r \in RunIds |-> <<>>]
           tallies == [r \in RunIds |-> NoCounts]
<1>1. flags \in Flags /\ queues \in Queues /\ tallies \in Tallies /\ queues \in Keys
  BY DEF Flags, Queues, Tallies, Keys, NoCounts
<1>2. t = [dirty |-> FALSE, metadata |-> flags, known |-> {}, buffer |-> queues, errors |-> queues,
           counts |-> tallies, headers |-> queues, files |-> files, listing |-> listing]
  BY DEF EmptyMemory
<1>3. \A r \in RunIds : flags[r] = {} /\ queues[r] = <<>> /\ tallies[r] = NoCounts
  OBVIOUS
<1> HIDE DEF t, flags, queues, tallies
<1>4. IsDB(t) /\ t.files = files
  BY <1>1, <1>2 DEF IsDB
<1>5. \A r \in RunIds : files[r] = NoFiles => Fresh(t, r)
  BY <1>2, <1>3 DEF Fresh
<1> QED BY <1>4, <1>5 DEF t

-----------------------------------------------------------------------------
(* An interrupted flush.                                                   *)

\* The files of an interrupted flush.
LEMMA CutFunction ==
  ASSUME NEW s, NEW c \in CutFlushes(s)
  PROVE  \E writes, p, cut : /\ c.files = CutAt(s, writes, p, cut)
                             /\ cut \in Cut(s, writes[p][2], writes[p][1])
<1>1. PICK writes, p, cut, listing :
        /\ c = [files |-> CutAt(s, writes, p, cut), listing |-> listing]
        /\ cut \in Cut(s, writes[p][2], writes[p][1])
  <2>1. PICK order, p : c \in CutFlush(s, order, p)
    <3> DEFINE orders == SetToSeqs({r \in RunIds : s.metadata[r] # {} \/ r \in s.known})
               End(order) == IF NothingToDump(s) THEN Len(order) ELSE Len(Writes(order))
               Cuts(order) == UNION {CutFlush(s, order, p) : p \in 1..End(order)}
    <3>1. c \in UNION {Cuts(order) : order \in orders}
      BY DEF CutFlushes
    <3> HIDE DEF Cuts, orders
    <3>2. PICK order \in orders : c \in Cuts(order)
      BY <3>1
    <3> QED BY <3>2 DEF Cuts
  <2> QED BY <2>1 DEF CutFlush
<1> QED BY <1>1

\* What an interrupted flush leaves of the files of a run.
LEMMA CutRun ==
  ASSUME NEW s, IsDB(s), NEW c \in CutFlushes(s)
  PROVE  \A r \in RunIds :
           LET old == s.files[r]
               new == Written(s, r)
           IN /\ c.files[r] = [metadata |-> c.files[r].metadata, errors |-> c.files[r].errors,
                               data |-> c.files[r].data, counts |-> c.files[r].counts,
                               headers |-> c.files[r].headers]
              /\ c.files[r].metadata \in {old.metadata, new.metadata} \cup Cut(s, r, "metadata")
              /\ c.files[r].errors \in {old.errors, new.errors} \cup Cut(s, r, "errors")
              /\ c.files[r].data \in {old.data, new.data} \cup Cut(s, r, "data")
              /\ c.files[r].counts \in {old.counts, new.counts} \cup Cut(s, r, "counts")
              /\ c.files[r].headers \in {old.headers, new.headers} \cup Cut(s, r, "headers")
<1>1. PICK writes, p, cut : /\ c.files = CutAt(s, writes, p, cut)
                            /\ cut \in Cut(s, writes[p][2], writes[p][1])
  BY CutFunction
<1> TAKE r \in RunIds
<1>3. \A f : writes[p] = <<f, r>> => cut \in Cut(s, r, f)
  BY <1>1
<1> DEFINE Done(f) == \E i \in 1..(p - 1) : writes[i] = <<f, r>>
           Left(f, old, new) == IF writes[p] = <<f, r>> THEN cut ELSE IF Done(f) THEN new ELSE old
           old == s.files[r]
           new == Written(s, r)
<1>4. \A f, x, y : Left(f, x, y) \in {x, y} \cup Cut(s, r, f)
  BY <1>3
<1>5. c.files[r] = [metadata |-> Left("metadata", old.metadata, new.metadata),
                    errors |-> Left("errors", old.errors, new.errors),
                    data |-> Left("data", old.data, new.data),
                    counts |-> Left("counts", old.counts, new.counts),
                    headers |-> Left("headers", old.headers, new.headers)]
  BY <1>1 DEF CutAt
<1> HIDE DEF Left, old, new
<1> QED BY <1>4, <1>5 DEF old, new

\* Torn or not, a file is a file.
LEMMA CutTypes ==
  ASSUME NEW s, IsDB(s), NEW r \in RunIds
  PROVE  /\ Cut(s, r, "metadata") \subseteq {Torn}
         /\ s.metadata[r] = {} => Cut(s, r, "metadata") = {}
         /\ Cut(s, r, "counts") \subseteq {Torn} /\ Cut(s, r, "headers") \subseteq {Torn}
         /\ r \notin s.known => Cut(s, r, "counts") = {} /\ Cut(s, r, "headers") = {}
         /\ Cut(s, r, "errors") \subseteq Lines /\ Cut(s, r, "data") \subseteq Lines
         /\ s.errors[r] = <<>> => Cut(s, r, "errors") = {}
         /\ s.buffer[r] = <<>> => Cut(s, r, "data") = {}
         /\ \A x \in Cut(s, r, "data") : PartOf(x, Kept(s, r), 0)
<1> DEFINE keys == DumpedHeaders(s, r)
           data == Content(s.files[r].data)
           errors == Content(s.files[r].errors)
           b == LinesOf(keys, s.buffer[r])
           e == LinesOf(keys, s.errors[r])
<1>1. /\ data \in Lines /\ errors \in Lines /\ s.buffer[r] \in Seq(Result) /\ s.errors[r] \in Seq(Result)
      /\ Kept(s, r) = data \o s.buffer[r]
  BY KeptText
<1>2. /\ keys \in Seq(Kinds)
      /\ \A i \in 1..Len(s.errors[r]) : Contains(keys, s.errors[r][i].kind)
      /\ \A i \in 1..Len(s.buffer[r]) : Contains(keys, s.buffer[r][i].kind)
  BY HeadersForRun
<1>3. /\ b \in Lines /\ Len(b) = Len(s.buffer[r])
      /\ \A i \in 1..Len(s.buffer[r]) : b[i] # Torn /\ b[i].id = s.buffer[r][i].id
  BY <1>1, <1>2, LinesOfQueue
<1>4. /\ e \in Lines /\ Len(e) = Len(s.errors[r])
      /\ \A i \in 1..Len(s.errors[r]) : e[i] # Torn /\ e[i].id = s.errors[r][i].id
  BY <1>1, <1>2, LinesOfQueue
<1>5. Cut(s, r, "data") = {data \o SubSeq(b, 1, k) \o <<Torn>> : k \in 0..(Len(b) - 1)}
  BY DEF Cut
<1>6. Cut(s, r, "errors") = {errors \o SubSeq(e, 1, k) \o <<Torn>> : k \in 0..(Len(e) - 1)}
  BY DEF Cut
<1>7. /\ Cut(s, r, "metadata") = IF s.metadata[r] = {} THEN {} ELSE {Torn}
      /\ Cut(s, r, "counts") = IF r \in s.known THEN {Torn} ELSE {}
      /\ Cut(s, r, "headers") = IF r \in s.known THEN {Torn} ELSE {}
  BY DEF Cut
<1> HIDE DEF keys, data, errors, b, e
<1>8. ASSUME NEW k \in 0..(Len(b) - 1)
      PROVE  LET c == data \o SubSeq(b, 1, k) \o <<Torn>>
             IN c \in Lines /\ PartOf(c, data \o s.buffer[r], 0)
  <2>1. /\ data \in Lines /\ s.buffer[r] \in Seq(Result) /\ b \in Lines
        /\ Len(b) = Len(s.buffer[r])
        /\ \A i \in 1..Len(s.buffer[r]) : b[i] # Torn /\ b[i].id = s.buffer[r][i].id
    BY <1>1, <1>3
  <2> QED BY ONLY <2>1, k \in 0..(Len(b) - 1), CopiedLines
<1>9. ASSUME NEW k \in 0..(Len(e) - 1)
      PROVE  errors \o SubSeq(e, 1, k) \o <<Torn>> \in Lines
  <2>1. /\ errors \in Lines /\ s.errors[r] \in Seq(Result) /\ e \in Lines
        /\ Len(e) = Len(s.errors[r])
        /\ \A i \in 1..Len(s.errors[r]) : e[i] # Torn /\ e[i].id = s.errors[r][i].id
    BY <1>1, <1>4
  <2> QED BY ONLY <2>1, k \in 0..(Len(e) - 1), CopiedLines
<1>10. s.errors[r] = <<>> => Cut(s, r, "errors") = {}
  BY <1>4, <1>6
<1>11. s.buffer[r] = <<>> => Cut(s, r, "data") = {}
  BY <1>3, <1>5
<1> QED BY <1>1, <1>5, <1>6, <1>7, <1>8, <1>9, <1>10, <1>11

\* What memory and file have of a run goes on, whole or cut off.
LEMMA DataPartOfKept ==
  ASSUME NEW s, IsDB(s), NEW r \in RunIds
  PROVE  PartOf(Content(s.files[r].data), Kept(s, r), 0)
<1> DEFINE data == Content(s.files[r].data)
           kept == Kept(s, r)
           m == Len(data)
           n == Len(s.buffer[r])
<1>1. /\ m \in Nat /\ DOMAIN data = 1..m /\ n \in Nat
      /\ Len(kept) = m + n /\ DOMAIN kept = 1..Len(kept)
      /\ \A i \in 1..m : kept[i] = data[i]
  BY KeptLen, KeptData
<1> HIDE DEF data, kept, m, n
<1>2. \A i \in 1..m : i + 0 = i /\ i \in 1..(m + n)
  BY <1>1
<1>3. PartOf(data, kept, 0)
  BY <1>1, <1>2 DEF PartOf
<1> QED BY <1>3 DEF data, kept

\* ... written,
LEMMA WrittenPartOfKept ==
  ASSUME NEW s, IsDB(s), NEW r \in RunIds
  PROVE  PartOf(Content(Written(s, r).data), Kept(s, r), 0)
<1>1. CASE r \in s.known
  BY <1>1, WrittenLines
<1>2. CASE r \notin s.known
  <2>1. Written(s, r).data = s.files[r].data
    BY <1>2, WrittenRun
  <2> QED BY <2>1, DataPartOfKept
<1> QED BY <1>1, <1>2

\* ... or cut off.
LEMMA CutDB ==
  ASSUME NEW s, IsDB(s), NEW c \in CutFlushes(s)
  PROVE  /\ c.files \in Disks
         /\ \A r \in RunIds :
              /\ PartOf(Content(c.files[r].data), Kept(s, r), 0)
              /\ Tracked(s, r) /\ Fresh(s, r) => c.files[r] = NoFiles
<1>1. ASSUME NEW r \in RunIds
      PROVE  /\ c.files[r] \in FileSet
             /\ PartOf(Content(c.files[r].data), Kept(s, r), 0)
             /\ Tracked(s, r) /\ Fresh(s, r) => c.files[r] = NoFiles
  <2> DEFINE f == c.files[r]
             old == s.files[r]
             new == Written(s, r)
  <2>1. f = [metadata |-> f.metadata, errors |-> f.errors, data |-> f.data,
             counts |-> f.counts, headers |-> f.headers]
    BY CutRun
  <2>2. f.metadata \in {old.metadata, new.metadata} \cup Cut(s, r, "metadata")
    BY CutRun
  <2>3. f.errors \in {old.errors, new.errors} \cup Cut(s, r, "errors")
    BY CutRun
  <2>4. f.data \in {old.data, new.data} \cup Cut(s, r, "data")
    BY CutRun
  <2>5. f.counts \in {old.counts, new.counts} \cup Cut(s, r, "counts")
    BY CutRun
  <2>6. f.headers \in {old.headers, new.headers} \cup Cut(s, r, "headers")
    BY CutRun
  <2>7. old \in FileSet /\ new \in FileSet
    BY WrittenRun DEF IsDB, Disks
  <2> HIDE DEF f, old, new
  <2>8. /\ old.metadata \in (SUBSET Fields) \cup {Absent, Torn}
        /\ new.metadata \in (SUBSET Fields) \cup {Absent, Torn}
        /\ old.errors \in Text /\ new.errors \in Text /\ old.data \in Text /\ new.data \in Text
        /\ old.counts \in [Kinds -> Nat] \cup {Absent, Torn}
        /\ new.counts \in [Kinds -> Nat] \cup {Absent, Torn}
        /\ old.headers \in Seq(Kinds) \cup {Absent, Torn}
        /\ new.headers \in Seq(Kinds) \cup {Absent, Torn}
    BY <2>7 DEF FileSet
  <2>9. f \in FileSet
    <3>1. f.metadata \in (SUBSET Fields) \cup {Absent, Torn}
      BY <2>2, <2>8, CutTypes
    <3>2. f.errors \in Text /\ f.data \in Text
      BY <2>3, <2>4, <2>8, CutTypes DEF Text, Lines
    <3>3. f.counts \in [Kinds -> Nat] \cup {Absent, Torn} /\ f.headers \in Seq(Kinds) \cup {Absent, Torn}
      BY <2>5, <2>6, <2>8, CutTypes
    <3> QED BY <2>1, <3>1, <3>2, <3>3 DEF FileSet
  <2>10. PartOf(Content(f.data), Kept(s, r), 0)
    <3>1. CASE f.data = old.data
      BY <3>1, DataPartOfKept DEF old
    <3>2. CASE f.data = new.data
      BY <3>2, WrittenPartOfKept DEF new
    <3>3. CASE f.data \in Cut(s, r, "data")
      BY <3>3, CutTypes, ContentIsLines
    <3> QED BY <2>4, <3>1, <3>2, <3>3
  <2>11. ASSUME Tracked(s, r), Fresh(s, r) PROVE f = NoFiles
    <3>1. r \notin s.known /\ s.metadata[r] = {} /\ s.buffer[r] = <<>> /\ s.errors[r] = <<>> /\ old = NoFiles
      BY <2>11 DEF Tracked, Fresh, old
    <3>2. /\ new.metadata = old.metadata /\ new.errors = old.errors /\ new.data = old.data
          /\ new.counts = old.counts /\ new.headers = old.headers
      BY <3>1, WrittenRun DEF new, old
    <3>3. Cut(s, r, "metadata") = {} /\ Cut(s, r, "errors") = {} /\ Cut(s, r, "data") = {}
          /\ Cut(s, r, "counts") = {} /\ Cut(s, r, "headers") = {}
      BY <3>1, CutTypes
    <3>4. /\ f.metadata = Absent /\ f.errors = Absent /\ f.data = Absent
          /\ f.counts = Absent /\ f.headers = Absent
      BY <2>2, <2>3, <2>4, <2>5, <2>6, <3>1, <3>2, <3>3 DEF NoFiles
    <3> QED BY <2>1, <3>4 DEF NoFiles
  <2> QED BY <2>9, <2>10, <2>11 DEF f
<1>2. c.files \in Disks
  <2>1. c.files = [r \in RunIds |-> c.files[r]]
    <3>1. PICK writes, p, cut : c.files = CutAt(s, writes, p, cut)
      BY CutFunction
    <3> QED BY <3>1 DEF CutAt
  <2> QED BY <1>1, <2>1 DEF Disks
<1> QED BY <1>1, <1>2

\* A flag in the metadata file stays there.
Persists(old, new) ==
    Present(old.metadata) /\ Present(new.metadata) => old.metadata \subseteq new.metadata

-----------------------------------------------------------------------------
(* Soundness of all runs.                                                  *)

\* Every operation keeps all runs sound, and those that were not started fresh.
LEMMA UpdatedOk ==
  ASSUME NEW s, NEW results, NEW age, NEW lost, NEW strangers \in SUBSET RunIds,
         SoundDB(s, results, age, lost, strangers),
         NEW q \in RunIds \ strangers, Loadable(s, q), NEW field \in Fields
  PROVE  /\ SoundDB(Updated(s, q, field), results, age, lost, strangers)
         /\ Updated(s, q, field).files = s.files
<1> DEFINE t == Updated(s, q, field)
<1>1. IsDB(s) /\ (\A r \in RunIds : Sound(s, r, results[r], age, lost))
      /\ \A r \in strangers : Fresh(s, r)
  BY DEF SoundDB
<1>2. /\ IsDB(t) /\ t.known = s.known /\ t.counts = s.counts /\ t.headers = s.headers
      /\ t.files = s.files /\ \A r \in RunIds \ {q} : t.metadata[r] = s.metadata[r]
  BY <1>1, UpdatedDB
<1>3. \A r \in RunIds : Sound(t, r, results[r], age, lost)
  BY <1>1, UpdatedSound
<1> HIDE DEF t
<1>4. \A r \in strangers : Fresh(t, r)
  BY <1>1, <1>2 DEF Fresh
<1> QED BY <1>2, <1>3, <1>4 DEF SoundDB, t

\* ... add:
LEMMA AddedOk ==
  ASSUME NEW s, NEW results \in [RunIds -> Seq(Kinds)], NEW age, NEW lost,
         NEW strangers \in SUBSET RunIds,
         SoundDB(s, results, age, lost, strangers),
         NEW q \in RunIds \ strangers, Loadable(s, q),
         NEW result \in Result, result.id = Len(results[q]) + 1,
         NEW more, more[q] = Append(results[q], result.kind),
         \A r \in RunIds \ {q} : more[r] = results[r],
         NEW t, t = Added(s, q, result)
  PROVE  SoundDB(t, more, age, lost, strangers)
<1> DEFINE kind == result.kind
<1>1. IsDB(s) /\ (\A r \in RunIds : Sound(s, r, results[r], age, lost))
      /\ \A r \in strangers : Fresh(s, r)
  BY DEF SoundDB
<1>2. result = [id |-> Len(results[q]) + 1, kind |-> kind] /\ kind \in Kinds
  BY DEF Result
<1>3. \A r \in RunIds : more[r] = IF q = r THEN Append(results[q], kind) ELSE results[r]
  OBVIOUS
<1>4. ASSUME NEW r \in RunIds
      PROVE  Sound(t, r, more[r], age, lost)
  <2>1. Sound(s, r, results[r], age, lost) /\ results[r] \in Seq(Kinds)
        /\ results[q] \in Seq(Kinds) /\ (q = r => results[r] = results[q])
    BY <1>1
  <2>2. Sound(t, r, IF q = r THEN Append(results[q], kind) ELSE results[r], age, lost)
    BY <1>1, <1>2, <2>1, AddedSound
  <2> QED BY <1>3, <2>2
<1>5. /\ IsDB(t) /\ t.known = s.known \cup {q} /\ t.headers = s.headers /\ t.files = s.files
      /\ \A r \in RunIds \ {q} : t.metadata[r] = s.metadata[r] /\ t.counts[r] = s.counts[r]
  BY <1>1, <1>2, AddedDB, UpdatedDB DEF Fields
<1>6. \A r \in strangers : Fresh(t, r)
  BY <1>1, <1>5 DEF Fresh
<1> QED BY <1>4, <1>5, <1>6 DEF SoundDB

\* ... save_metadata:
LEMMA SavedOk ==
  ASSUME NEW s, NEW results, NEW age, NEW lost, NEW strangers \in SUBSET RunIds,
         SoundDB(s, results, age, lost, strangers), NEW q \in strangers
  PROVE  /\ SoundDB(Saved(s, q), results, age, lost, strangers \ {q})
         /\ Saved(s, q).files = s.files
<1> DEFINE t == Saved(s, q)
<1>1. IsDB(s) /\ (\A r \in RunIds : Sound(s, r, results[r], age, lost))
      /\ \A r \in strangers : Fresh(s, r)
  BY DEF SoundDB
<1>2. /\ IsDB(t) /\ t.known = s.known /\ t.counts = s.counts /\ t.headers = s.headers
      /\ t.files = s.files /\ \A r \in RunIds \ {q} : t.metadata[r] = s.metadata[r]
  BY <1>1, SavedDB
<1>3. \A r \in RunIds : Sound(t, r, results[r], age, lost)
  BY <1>1, SavedSound
<1> HIDE DEF t
<1>4. \A r \in strangers \ {q} : Fresh(t, r)
  BY <1>1, <1>2 DEF Fresh
<1> QED BY <1>2, <1>3, <1>4 DEF SoundDB, t

\* ... delete_run:
LEMMA DeletedOk ==
  ASSUME NEW s, NEW results \in [RunIds -> Seq(Kinds)], NEW age, NEW lost,
         NEW strangers \in SUBSET RunIds,
         SoundDB(s, results, age, lost, strangers), NEW gone \in SUBSET RunIds
  PROVE  /\ SoundDB(Deleted(s, gone), results, age, lost \cup gone, strangers)
         /\ \A r \in RunIds \ gone : Deleted(s, gone).files[r] = s.files[r]
<1> DEFINE t == Deleted(s, gone)
<1>1. IsDB(s) /\ (\A r \in RunIds : Sound(s, r, results[r], age, lost))
      /\ \A r \in strangers : Fresh(s, r)
  BY DEF SoundDB
<1>2. /\ IsDB(t) /\ t.known = s.known
      /\ \A r \in RunIds \ gone : SameRun(s, t, r)
      /\ \A r \in gone : t.files[r] = NoFiles /\ t.metadata[r] = {}
                         /\ t.counts[r] = NoCounts /\ t.headers[r] = <<>>
  BY <1>1, DeletedDB
<1>3. ASSUME NEW r \in RunIds PROVE Sound(t, r, results[r], age, lost \cup gone)
  <2>1. Sound(s, r, results[r], age, lost) /\ results[r] \in Seq(Kinds)
    BY <1>1
  <2>2. Sound(t, r, results[r], age, lost \cup gone)
    BY <1>1, <2>1, DeletedSound
    <2> QED BY <2>2
<1> HIDE DEF t
<1>4. \A r \in strangers : Fresh(t, r)
  <2> TAKE r \in strangers
  <2>1. CASE r \in gone
    BY <1>1, <1>2, <2>1 DEF Fresh
  <2>2. CASE r \notin gone
    BY <1>1, <1>2, <2>2 DEF Fresh, SameRun
  <2> QED BY <2>1, <2>2
<1>5. \A r \in RunIds \ gone : t.files[r] = s.files[r]
  BY <1>2 DEF SameRun
<1> QED BY <1>2, <1>3, <1>4, <1>5 DEF SoundDB, t

\* ... summarize_run:
LEMMA SummarizedOk ==
  ASSUME NEW s, NEW results \in [RunIds -> Seq(Kinds)], NEW age, NEW lost,
         NEW strangers \in SUBSET RunIds,
         SoundDB(s, results, age, lost, strangers), NEW q \in RunIds
  PROVE  /\ SoundDB(Summarized(s, q), results, age, lost, strangers)
         /\ \A r \in RunIds : Summarized(s, q).files[r].metadata = s.files[r].metadata
<1> DEFINE t == Summarized(s, q)
<1>1. IsDB(s) /\ (\A r \in RunIds : Sound(s, r, results[r], age, lost))
      /\ \A r \in strangers : Fresh(s, r)
  BY DEF SoundDB
<1>2. /\ IsDB(t) /\ t.known = s.known /\ t.counts = s.counts /\ t.headers = s.headers
      /\ t.metadata = s.metadata /\ \A r \in RunIds \ {q} : t.files[r] = s.files[r]
      /\ t.files[q].data = Absent /\ t.files[q].errors = s.files[q].errors
      /\ t.files[q].counts = s.files[q].counts /\ t.files[q].headers = s.files[q].headers
      /\ t.files[q].metadata = s.files[q].metadata
  BY <1>1, SummarizedDB
<1>3. ASSUME NEW r \in RunIds PROVE Sound(t, r, results[r], age, lost)
  BY <1>1, SummarizedSound
<1> HIDE DEF t
<1>4. ASSUME NEW r \in strangers PROVE Fresh(t, r)
  <2>1. Fresh(s, r) /\ t.files[r] \in FileSet
    BY <1>1, <1>2 DEF IsDB, Disks
  <2>2. t.files[r] = NoFiles
    <3>1. CASE r # q
      BY <1>2, <2>1, <3>1 DEF Fresh
    <3>2. CASE r = q
      <4>1. s.files[r] = NoFiles
        BY <2>1 DEF Fresh
      <4>2. /\ t.files[r].metadata = Absent /\ t.files[r].errors = Absent
            /\ t.files[r].data = Absent /\ t.files[r].counts = Absent
            /\ t.files[r].headers = Absent
        BY <1>2, <3>2, <4>1 DEF NoFiles
      <4> QED BY <2>1, <4>2 DEF NoFiles, FileSet
    <3> QED BY <3>1, <3>2
  <2> QED BY <1>2, <2>1, <2>2 DEF Fresh
<1>5. \A r \in RunIds : t.files[r].metadata = s.files[r].metadata
  BY <1>2
<1> QED BY <1>2, <1>3, <1>4, <1>5 DEF SoundDB, t

\* ... _update_headers:
LEMMA WithHeadersOk ==
  ASSUME NEW s, NEW results, NEW age, NEW lost, NEW strangers \in SUBSET RunIds,
         SoundDB(s, results, age, lost, strangers),
         NEW q \in RunIds, s.files[q].headers # Torn
  PROVE  /\ SoundDB(WithHeaders(s, q), results, age, lost, strangers)
         /\ WithHeaders(s, q).files = s.files
<1> DEFINE t == WithHeaders(s, q)
<1>1. IsDB(s) /\ (\A r \in RunIds : Sound(s, r, results[r], age, lost))
      /\ \A r \in strangers : Fresh(s, r)
  BY DEF SoundDB
<1>2. /\ IsDB(t) /\ t.known = s.known /\ t.counts = s.counts /\ t.files = s.files
      /\ t.metadata = s.metadata /\ \A r \in RunIds \ {q} : t.headers[r] = s.headers[r]
      /\ t.headers[q] = IF s.files[q].headers = Absent THEN s.headers[q] ELSE s.files[q].headers
  BY <1>1, WithHeadersDB
<1>3. \A r \in RunIds : Sound(t, r, results[r], age, lost)
  BY <1>1, WithHeadersSound
<1> HIDE DEF t
<1>4. ASSUME NEW r \in strangers PROVE Fresh(t, r)
  <2>1. Fresh(s, r) /\ s.files[r].headers = Absent
    BY <1>1 DEF Fresh, NoFiles
  <2> QED BY <1>2, <2>1 DEF Fresh
<1> QED BY <1>2, <1>3, <1>4 DEF SoundDB, t

\* What flush writes as metadata, if it gets that far, holds what was there.
LEMMA MetadataGrows ==
  ASSUME NEW s, NEW r, Grown(s, r),
         NEW meta, meta = IF s.metadata[r] = {} THEN s.files[r].metadata ELSE s.metadata[r],
         Present(s.files[r].metadata)
  PROVE  s.files[r].metadata \subseteq meta
BY DEF Grown

\* ... flush, which also keeps the flags on disk.
LEMMA FlushesOk ==
  ASSUME NEW s, NEW results \in [RunIds -> Seq(Kinds)], NEW age, NEW lost,
         NEW strangers \in SUBSET RunIds,
         SoundDB(s, results, age, lost, strangers), NEW t \in Flushes(s)
  PROVE  /\ SoundDB(t, results, age, lost, strangers)
         /\ \A r \in RunIds : Persists(s.files[r], t.files[r])
<1>1. IsDB(s) /\ (\A r \in RunIds : Sound(s, r, results[r], age, lost))
      /\ \A r \in strangers : Fresh(s, r)
  BY DEF SoundDB
<1>2. CASE t = s
  BY <1>2 DEF Persists
<1>3. ASSUME NEW order, t = FlushedIn(s, order)
      PROVE  /\ SoundDB(t, results, age, lost, strangers)
             /\ \A r \in RunIds : Persists(s.files[r], t.files[r])
  <2>1. IsDB(t) /\ t.known = s.known /\ t.metadata = s.metadata /\ t.counts = s.counts
    BY <1>1, <1>3, FlushedDB
  <2>2. ASSUME NEW r \in RunIds PROVE Sound(t, r, results[r], age, lost)
    BY <1>1, <1>3, FlushedSound
  <2>3. ASSUME NEW r \in RunIds PROVE Persists(s.files[r], t.files[r])
    <3>1. Grown(s, r)
      BY <1>1 DEF Sound
    <3>2. t.files[r].metadata = IF s.metadata[r] = {} THEN s.files[r].metadata ELSE s.metadata[r]
      BY <1>1, <1>3, FlushedRun
    <3> QED BY <3>1, <3>2, MetadataGrows DEF Persists
  <2>4. ASSUME NEW r \in strangers PROVE Fresh(t, r)
    <3>1. Fresh(s, r) /\ r \in RunIds
      BY <1>1
    <3>2. /\ t.files[r].metadata = Absent /\ t.files[r].errors = Absent /\ t.files[r].data = Absent
          /\ t.files[r].counts = Absent /\ t.files[r].headers = Absent
          /\ t.headers[r] = s.headers[r]
      BY <1>1, <1>3, <3>1, FlushedRun DEF Fresh, NoFiles
    <3>3. t.files[r] \in FileSet
      BY <2>1 DEF IsDB, Disks
    <3>4. t.files[r] = NoFiles
      BY <3>2, <3>3 DEF NoFiles, FileSet
    <3> QED BY <2>1, <3>1, <3>2, <3>4 DEF Fresh
  <2> QED BY <2>1, <2>2, <2>3, <2>4 DEF SoundDB
<1>4. t = s \/ \E order : t = FlushedIn(s, order)
  BY DEF Flushes
<1> QED BY <1>2, <1>3, <1>4

\* The broker starts with the files it left ...
LEMMA RestartOk ==
  ASSUME NEW s, NEW results \in [RunIds -> Seq(Kinds)], NEW age, NEW lost,
         NEW strangers \in SUBSET RunIds,
         SoundDB(s, results, age, lost, strangers), NEW new, new # 0, NEW listing
  PROVE  SoundDB(EmptyMemory(s.files, listing), results, new, lost, strangers)
<1> DEFINE t == EmptyMemory(s.files, listing)
<1>1. IsDB(s) /\ (\A r \in RunIds : Sound(s, r, results[r], age, lost))
      /\ (\A r \in strangers : Fresh(s, r)) /\ s.files \in Disks
  BY DEF SoundDB, IsDB
<1>2. IsDB(t) /\ \A r \in RunIds : s.files[r] = NoFiles => Fresh(t, r)
  BY <1>1, EmptyDB
<1>3. ASSUME NEW r \in RunIds PROVE Sound(t, r, results[r], new, lost)
  <2>1. Orderly(Kept(s, r), Len(results[r])) /\ results[r] \in Seq(Kinds)
    BY <1>1 DEF Sound
  <2>2. PartOf(Content(s.files[r].data), Kept(s, r), 0)
    BY <1>1, DataPartOfKept
  <2> QED BY <1>1, <2>1, <2>2, EmptySound
<1> HIDE DEF t
<1>4. \A r \in strangers : Fresh(t, r)
  BY <1>1, <1>2 DEF Fresh
<1> QED BY <1>2, <1>3, <1>4 DEF SoundDB, t

\* ... or with those an interrupted flush left.
LEMMA CutOk ==
  ASSUME NEW s, NEW results \in [RunIds -> Seq(Kinds)], NEW age, NEW lost,
         NEW strangers \in SUBSET RunIds,
         SoundDB(s, results, age, lost, strangers), NEW new, new # 0, NEW cut \in CutFlushes(s)
  PROVE  SoundDB(EmptyMemory(cut.files, cut.listing), results, new, lost, strangers)
<1> DEFINE t == EmptyMemory(cut.files, cut.listing)
<1>1. IsDB(s) /\ (\A r \in RunIds : Sound(s, r, results[r], age, lost))
      /\ \A r \in strangers : Fresh(s, r)
  BY DEF SoundDB
<1>2. /\ cut.files \in Disks
      /\ \A r \in RunIds : /\ PartOf(Content(cut.files[r].data), Kept(s, r), 0)
                           /\ Tracked(s, r) /\ Fresh(s, r) => cut.files[r] = NoFiles
  BY <1>1, CutDB
<1>3. IsDB(t) /\ \A r \in RunIds : cut.files[r] = NoFiles => Fresh(t, r)
  BY <1>2, EmptyDB
<1>4. ASSUME NEW r \in RunIds PROVE Sound(t, r, results[r], new, lost)
  <2>1. Orderly(Kept(s, r), Len(results[r])) /\ results[r] \in Seq(Kinds)
    BY <1>1 DEF Sound
  <2> QED BY <1>1, <1>2, <2>1, EmptySound
<1> HIDE DEF t
<1>5. \A r \in strangers : Fresh(t, r)
  BY <1>1, <1>2, <1>3 DEF Sound
<1> QED BY <1>3, <1>4, <1>5 DEF SoundDB, t

\* An interrupted flush keeps the flags on disk too.
LEMMA CutPersists ==
  ASSUME NEW s, NEW results, NEW age, NEW lost, NEW strangers,
         SoundDB(s, results, age, lost, strangers), NEW cut \in CutFlushes(s), NEW r \in RunIds
  PROVE  Persists(s.files[r], cut.files[r])
<1>0. IsDB(s)
  BY DEF SoundDB
<1>1. Grown(s, r)
  BY DEF SoundDB, Sound
<1>2. cut.files[r].metadata \in {s.files[r].metadata, Written(s, r).metadata} \cup Cut(s, r, "metadata")
  BY <1>0, CutRun
<1>3. Cut(s, r, "metadata") \subseteq {Torn}
  BY <1>0, CutTypes
<1>4. Written(s, r).metadata = IF s.metadata[r] = {} THEN s.files[r].metadata ELSE s.metadata[r]
  BY <1>0, WrittenRun
<1> QED BY <1>1, <1>2, <1>3, <1>4, MetadataGrows DEF Persists, Present

\* The actions.

-----------------------------------------------------------------------------
(* The actions.                                                            *)

\* The runs that were started are no strangers.
LEMMA Known ==
  ASSUME started \in Seq(RunIds)
  PROVE  /\ \A r \in RunIds : Contains(started, r) <=> r \notin Strangers
         /\ \A r \in ToSet(started) : r \in RunIds \ Strangers
<1>1. DOMAIN started = 1..Len(started) /\ \A i \in 1..Len(started) : started[i] \in RunIds
  BY LenProperties, ElementOfSeq
<1> QED BY <1>1 DEF Strangers, Contains, ToSet

\* The empty database.
LEMMA InitDBIInv == Init => DBIInv
<1> SUFFICES ASSUME Init PROVE DBIInv
  OBVIOUS
<1> DEFINE disk == [r \in RunIds |-> NoFiles]
<1>1. disk \in Disks
  <2>1. NoFiles \in FileSet
    BY DEF NoFiles, FileSet, Text
  <2> QED BY <2>1 DEF Disks
<1>2. db = EmptyMemory(disk, <<>>) /\ log = [r \in RunIds |-> <<>>] /\ restarts = 0 /\ wiped = {}
      /\ started = <<>> /\ deferred = <<>>
  BY DEF Init
<1>3. IsDB(db) /\ \A r \in RunIds : Fresh(db, r)
  BY <1>1, <1>2, EmptyDB
<1>4. Types
  <2>1. log \in [RunIds -> Seq(Kinds)]
    BY <1>2
  <2>2. started \in Seq(RunIds) /\ deferred \in Seq(RunIds \X Kinds) /\ Len(deferred) = 0
    BY <1>2
  <2>3. restarts \in 0..MaxRestarts
    BY <1>2, BrokerDBAssumption
  <2> QED BY <1>2, <2>1, <2>2, <2>3 DEF Types
<1>5. ASSUME NEW r \in RunIds PROVE Sound(db, r, log[r], restarts, wiped)
  <2>1. /\ r \notin db.known /\ db.metadata[r] = {} /\ db.buffer[r] = <<>> /\ db.errors[r] = <<>>
        /\ db.counts[r] = NoCounts /\ db.headers[r] = <<>> /\ db.files[r] = NoFiles
    BY <1>2 DEF EmptyMemory
  <2>2. log[r] = <<>> /\ Kept(db, r) = <<>>
    <3>1. Content(db.files[r].data) = <<>>
      BY <2>1, ContentIsLines DEF NoFiles
    <3> QED BY <1>2, <2>1, <3>1 DEF Kept
  <2>3. Tracked(db, r) /\ Grown(db, r) /\ Synced(db, r)
    BY <2>1 DEF Tracked, Grown, Synced
  <2>4. Orderly(<<>>, Len(log[r])) /\ LastOf(<<>>, Len(log[r]))
    BY DEF Orderly, LastOf
  <2>5. Coded(db, r)
    BY <2>1, ContentIsLines DEF Coded, Decodes, NoFiles
  <2>6. Counted(db, r, log[r])
    <3>1. \A kind : Number(<<>>, kind) = 0
      <4>1. \A kind : {i \in DOMAIN <<>> : <<>>[i] = kind} = {}
        OBVIOUS
      <4> QED BY <4>1, FS_EmptySet DEF Number
    <3>2. \A kind \in Kinds : db.counts[r][kind] = 0
      BY <2>1 DEF NoCounts
    <3>3. Len(Content(db.files[r].errors)) = 0 /\ Len(db.errors[r]) = 0
      BY <2>1, ContentIsLines DEF NoFiles
    <3> QED BY <2>2, <3>1, <3>2, <3>3 DEF Counted
  <2> QED BY <2>2, <2>3, <2>4, <2>5, <2>6 DEF Sound
<1>6. \A r \in Strangers : r \in RunIds
  BY DEF Strangers
<1>7. SoundDB(db, log, restarts, wiped, Strangers)
  BY <1>3, <1>5, <1>6 DEF SoundDB
<1> QED BY <1>2, <1>4, <1>6, <1>7 DEF DBIInv

\* One lemma for each action.
LEMMA StartRunStep ==
  ASSUME DBIInv, NEW r \in RunIds, StartRun(r)
  PROVE  DBIInv' /\ \A q \in RunIds \ wiped' : Persists(db.files[q], db'.files[q])
<1>1. Types /\ SoundDB(db, log, restarts, wiped, Strangers) /\ (\A q \in Strangers : log[q] = <<>>)
      /\ Strangers \subseteq RunIds
  BY DEF DBIInv, Strangers
<1>2. r \in Strangers
  BY DEF StartRun, Strangers
<1>3. PICK gone \in SUBSET RunIds :
        db' \in Flushes(Saved(Deleted(db, gone), r)) /\ wiped' = wiped \cup gone
  BY DEF StartRun
<1>4. started' = Append(started, r) /\ UNCHANGED <<deferred, log, restarts>>
  BY DEF StartRun
<1>5. /\ started \in Seq(RunIds) /\ log \in [RunIds -> Seq(Kinds)] /\ wiped \subseteq RunIds
      /\ restarts \in 0..MaxRestarts
      /\ deferred \in Seq(RunIds \X Kinds)
      /\ \A i \in 1..Len(deferred) : Contains(started, deferred[i][1])
  BY <1>1 DEF Types
<1> DEFINE s == Deleted(db, gone)
           t == Saved(s, r)
<1>6. /\ SoundDB(s, log, restarts, wiped \cup gone, Strangers)
      /\ \A q \in RunIds \ gone : s.files[q] = db.files[q]
  BY <1>1, <1>5, DeletedOk
<1> HIDE DEF s
<1>7. SoundDB(t, log, restarts, wiped \cup gone, Strangers \ {r}) /\ t.files = s.files
  BY <1>1, <1>2, <1>6, SavedOk
<1> HIDE DEF t
<1>8. /\ SoundDB(db', log, restarts, wiped \cup gone, Strangers \ {r})
      /\ \A q \in RunIds : Persists(t.files[q], db'.files[q])
  <2>1. db' \in Flushes(t)
    BY <1>3 DEF t, s
  <2>2. Strangers \ {r} \in SUBSET RunIds
    BY <1>1
  <2> QED BY <1>5, <1>7, <2>1, <2>2, FlushesOk
<1>9. (\A q : Contains(started', q) <=> q = r \/ Contains(started, q)) /\ started' \in Seq(RunIds)
  <2>1. /\ Len(started) \in Nat /\ started' \in Seq(RunIds) /\ Len(started') = Len(started) + 1
        /\ started'[Len(started) + 1] = r
        /\ \A i \in 1..Len(started) : started'[i] = started[i]
    BY <1>4, <1>5
  <2> QED BY <2>1 DEF Contains
<1>10. Strangers' = Strangers \ {r}
  BY <1>9 DEF Strangers
<1>11. Types'
  BY <1>3, <1>4, <1>5, <1>9 DEF Types
<1>12. SoundDB(db', log', restarts', wiped', Strangers')
  BY <1>3, <1>4, <1>8, <1>10
<1>13. DBIInv'
  BY <1>1, <1>4, <1>10, <1>11, <1>12 DEF DBIInv
<1>14. \A q \in RunIds \ wiped' : Persists(db.files[q], db'.files[q])
  BY <1>3, <1>6, <1>7, <1>8
<1> QED BY <1>13, <1>14

\* The other actions start no run and wipe none: what remains to be shown of
\* them.
LEMMA OtherStep ==
  ASSUME DBIInv, UNCHANGED <<started, wiped>>,
         log' \in [RunIds -> Seq(Kinds)], \A r \in Strangers : log'[r] = <<>>,
         restarts' \in 0..MaxRestarts,
         deferred' \in Seq(RunIds \X Kinds),
         \A i \in 1..Len(deferred') : Contains(started, deferred'[i][1]),
         SoundDB(db', log', restarts', wiped, Strangers)
  PROVE  DBIInv'
<1>1. Strangers' = Strangers
  BY DEF Strangers
<1>2. Types'
  BY DEF DBIInv, Types
<1>3. SoundDB(db', log', restarts', wiped', Strangers')
  BY <1>1
<1> QED BY <1>1, <1>2, <1>3 DEF DBIInv

\* The invariant, opened up.
LEMMA DBIInvFacts ==
  ASSUME DBIInv
  PROVE  /\ SoundDB(db, log, restarts, wiped, Strangers) /\ \A r \in Strangers : log[r] = <<>>
         /\ Strangers \in SUBSET RunIds /\ IsDB(db)
         /\ started \in Seq(RunIds) /\ log \in [RunIds -> Seq(Kinds)] /\ restarts \in 0..MaxRestarts
         /\ deferred \in Seq(RunIds \X Kinds)
         /\ \A i \in 1..Len(deferred) : Contains(started, deferred[i][1])
         /\ \A r \in RunIds : Contains(started, r) => r \in RunIds \ Strangers
BY DEF DBIInv, Strangers, Types, SoundDB

\* add, as save_data or a callback calls it.
LEMMA AddStep ==
  ASSUME DBIInv, NEW r \in RunIds \ Strangers, NEW kind \in Kinds, Add(r, kind)
  PROVE  /\ log' \in [RunIds -> Seq(Kinds)] /\ \A q \in Strangers : log'[q] = <<>>
         /\ SoundDB(db', log', restarts, wiped, Strangers)
         /\ db'.files = db.files
<1>1. /\ SoundDB(db, log, restarts, wiped, Strangers) /\ \A q \in Strangers : log[q] = <<>>
      /\ Strangers \in SUBSET RunIds /\ log \in [RunIds -> Seq(Kinds)]
  BY DBIInvFacts
<1>2. CASE Loadable(db, r)
  <2> DEFINE result == [id |-> Len(log[r]) + 1, kind |-> kind]
             more == [log EXCEPT ![r] = Append(@, kind)]
  <2>1. db' = Added(db, r, result) /\ log' = more
    BY <1>2 DEF Add
  <2>2. SoundDB(db', more, restarts, wiped, Strangers) /\ db'.files = db.files
    <3>1. /\ result \in Result /\ result.id = Len(log[r]) + 1 /\ result.kind = kind
          /\ more[r] = Append(log[r], kind)
          /\ \A q \in RunIds \ {r} : more[q] = log[q]
      BY <1>1, LenProperties DEF Result
    <3> HIDE DEF result, more
    <3>2. /\ log \in [RunIds -> Seq(Kinds)] /\ Strangers \in SUBSET RunIds
          /\ SoundDB(db, log, restarts, wiped, Strangers) /\ r \in RunIds \ Strangers
          /\ Loadable(db, r) /\ db' = Added(db, r, result)
      BY <1>1, <1>2, <2>1
    <3>3. SoundDB(db', more, restarts, wiped, Strangers)
      BY ONLY <3>1, <3>2, AddedOk
    <3>4. db'.files = db.files
      BY ONLY <3>1, <3>2, AddedDB, DBIInvFacts, DBIInv
    <3> QED BY <3>3, <3>4
  <2>3. more \in [RunIds -> Seq(Kinds)] /\ \A q \in Strangers : more[q] = log[q]
    <3>1. Append(log[r], kind) \in Seq(Kinds)
      BY <1>1, AppendProperties
    <3> QED BY <1>1, <3>1
  <2> HIDE DEF more
  <2> QED BY <1>1, <2>1, <2>2, <2>3
<1>3. CASE ~Loadable(db, r)
  <2>1. UNCHANGED <<db, log>>
    BY <1>3 DEF Add
  <2> QED BY <1>1, <2>1
<1> QED BY <1>2, <1>3

\* save_data with one result.
LEMMA SaveOneStep ==
  ASSUME DBIInv, NEW r \in RunIds, NEW kind \in Kinds, SaveOne(r, kind)
  PROVE  DBIInv' /\ db'.files = db.files
<1>1. Contains(started, r) /\ Add(r, kind) /\ UNCHANGED <<deferred, started, wiped, restarts>>
  BY DEF SaveOne
<1>2. r \in RunIds \ Strangers
  BY <1>1, DBIInvFacts
<1>3. /\ log' \in [RunIds -> Seq(Kinds)] /\ \A q \in Strangers : log'[q] = <<>>
      /\ SoundDB(db', log', restarts, wiped, Strangers) /\ db'.files = db.files
  BY <1>1, <1>2, AddStep
<1> QED BY <1>1, <1>3, OtherStep, DBIInvFacts

\* save_data with a batch only schedules callbacks.
LEMMA SaveBatchStep ==
  ASSUME DBIInv, NEW r \in RunIds, NEW kinds \in Kinds \X Kinds, SaveBatch(r, kinds)
  PROVE  DBIInv' /\ db'.files = db.files
<1> DEFINE batch == [i \in DOMAIN kinds |-> <<r, kinds[i]>>]
<1>1. /\ Contains(started, r) /\ deferred' = deferred \o batch
      /\ UNCHANGED <<db, started, log, wiped, restarts>>
  BY DEF SaveBatch
<1>2. /\ deferred \in Seq(RunIds \X Kinds)
      /\ \A i \in 1..Len(deferred) : Contains(started, deferred[i][1])
  BY DBIInvFacts
<1>3. batch \in Seq(RunIds \X Kinds) /\ Len(batch) = 2 /\ \A i \in 1..2 : batch[i][1] = r
  <2>1. DOMAIN kinds = 1..2 /\ kinds[1] \in Kinds /\ kinds[2] \in Kinds
    OBVIOUS
  <2> QED BY <2>1
<1> HIDE DEF batch
<1>4. /\ deferred' \in Seq(RunIds \X Kinds) /\ Len(deferred') = Len(deferred) + 2 /\ Len(deferred) \in Nat
      /\ \A i \in 1..(Len(deferred) + 2) :
           deferred'[i] = IF i <= Len(deferred) THEN deferred[i] ELSE batch[i - Len(deferred)]
  <2>1. deferred \in Seq(RunIds \X Kinds) /\ batch \in Seq(RunIds \X Kinds) /\ Len(batch) = 2
    BY <1>2, <1>3
  <2>2. /\ deferred \o batch \in Seq(RunIds \X Kinds)
        /\ Len(deferred \o batch) = Len(deferred) + Len(batch)
        /\ \A i \in 1..Len(deferred) + Len(batch) :
             (deferred \o batch)[i] = IF i <= Len(deferred) THEN deferred[i]
                                      ELSE batch[i - Len(deferred)]
    BY ONLY <2>1, ConcatProperties
  <2> QED BY <1>1, <2>1, <2>2, LenProperties
<1>5. ASSUME NEW i \in 1..Len(deferred') PROVE Contains(started, deferred'[i][1])
  <2>1. CASE i <= Len(deferred)
    BY <1>2, <1>4, <2>1
  <2>2. CASE ~(i <= Len(deferred))
    <3>1. i - Len(deferred) \in 1..2
      BY <1>4, <2>2
    <3> QED BY <1>1, <1>3, <1>4, <2>2, <3>1
  <2> QED BY <2>1, <2>2
<1> QED BY <1>1, <1>4, <1>5, OtherStep, DBIInvFacts

\* A callback of a batch.
LEMMA RunCallbackStep ==
  ASSUME DBIInv, RunCallback
  PROVE  DBIInv' /\ db'.files = db.files
<1> DEFINE r == Head(deferred)[1]
           kind == Head(deferred)[2]
<1>1. /\ deferred # <<>> /\ deferred' = Tail(deferred) /\ UNCHANGED <<started, wiped, restarts>>
      /\ Add(r, kind)
  BY DEF RunCallback
<1>2. /\ deferred \in Seq(RunIds \X Kinds)
      /\ \A i \in 1..Len(deferred) : Contains(started, deferred[i][1])
  BY DBIInvFacts
<1>3. Head(deferred) \in RunIds \X Kinds /\ Head(deferred) = deferred[1] /\ 1 \in 1..Len(deferred)
  BY <1>1, <1>2
<1>4. r \in RunIds \ Strangers /\ kind \in Kinds
  BY <1>2, <1>3, DBIInvFacts
<1> HIDE DEF r, kind
<1>5. /\ log' \in [RunIds -> Seq(Kinds)] /\ \A q \in Strangers : log'[q] = <<>>
      /\ SoundDB(db', log', restarts, wiped, Strangers) /\ db'.files = db.files
  BY <1>1, <1>4, AddStep
<1>6. /\ deferred' \in Seq(RunIds \X Kinds)
      /\ \A i \in 1..Len(deferred') : i + 1 \in 1..Len(deferred) /\ deferred'[i] = deferred[i + 1]
  BY <1>1, <1>2, HeadTailProperties
<1>7. \A i \in 1..Len(deferred') : Contains(started, deferred'[i][1])
  BY <1>2, <1>6
<1> QED BY <1>1, <1>5, <1>6, <1>7, OtherStep, DBIInvFacts

\* The periodic flush.
LEMMA FlushStep ==
  ASSUME DBIInv, Flush
  PROVE  DBIInv' /\ \A q \in RunIds : Persists(db.files[q], db'.files[q])
<1>1. UNCHANGED <<deferred, started, log, wiped, restarts>> /\ db' \in Flushes(db)
  BY DEF Flush
<1>2. /\ SoundDB(db', log, restarts, wiped, Strangers)
      /\ \A q \in RunIds : Persists(db.files[q], db'.files[q])
  BY <1>1, DBIInvFacts, FlushesOk
<1> QED BY <1>1, <1>2, OtherStep, DBIInvFacts

\* get_data and get_errors.
LEMMA ReadLinesStep ==
  ASSUME DBIInv, NEW r \in RunIds, ReadLines(r)
  PROVE  DBIInv' /\ \A q \in RunIds : Persists(db.files[q], db'.files[q])
<1>1. PICK s \in Flushes(db) : s.files[r].headers # Torn /\ db' = WithHeaders(s, r)
  BY DEF ReadLines
<1>2. UNCHANGED <<deferred, started, log, wiped, restarts>>
  BY DEF ReadLines
<1>3. /\ SoundDB(s, log, restarts, wiped, Strangers)
      /\ \A q \in RunIds : Persists(db.files[q], s.files[q])
  BY DBIInvFacts, FlushesOk
<1>4. /\ SoundDB(WithHeaders(s, r), log, restarts, wiped, Strangers)
      /\ WithHeaders(s, r).files = s.files
  BY <1>1, <1>3, DBIInvFacts, WithHeadersOk
<1> QED BY <1>1, <1>2, <1>3, <1>4, OtherStep, DBIInvFacts

\* stop_run, when nobody serves the run.
LEMMA ForceFlagsStep ==
  ASSUME DBIInv, NEW r \in RunIds, ForceFlags(r)
  PROVE  DBIInv' /\ db'.files = db.files
<1>1. /\ Contains(started, r) /\ Loadable(db, r) /\ db' = Updated(db, r, "ended")
      /\ UNCHANGED <<deferred, started, log, wiped, restarts>>
  BY DEF ForceFlags
<1>2. r \in RunIds \ Strangers /\ "ended" \in Fields
  BY <1>1, DBIInvFacts DEF Fields
<1>3. /\ SoundDB(Updated(db, r, "ended"), log, restarts, wiped, Strangers)
      /\ Updated(db, r, "ended").files = db.files
  BY <1>1, <1>2, DBIInvFacts, UpdatedOk
<1> QED BY <1>1, <1>3, OtherStep, DBIInvFacts

\* test_ended.
LEMMA TestEndedStep ==
  ASSUME DBIInv, NEW r \in RunIds, TestEnded(r)
  PROVE  DBIInv' /\ \A q \in RunIds : Persists(db.files[q], db'.files[q])
<1>1. /\ Contains(started, r) /\ Loadable(db, r)
      /\ UNCHANGED <<deferred, started, log, wiped, restarts>>
  BY DEF TestEnded
<1> DEFINE u == Updated(db, r, "ended")
<1>2. PICK s \in Flushes(u) : db' \in {s, Summarized(s, r)}
  BY DEF TestEnded
<1>3. r \in RunIds \ Strangers /\ "ended" \in Fields
  BY <1>1, DBIInvFacts DEF Fields
<1>4. SoundDB(u, log, restarts, wiped, Strangers) /\ u.files = db.files
  BY <1>1, <1>3, DBIInvFacts, UpdatedOk
<1> HIDE DEF u
<1>5. /\ SoundDB(s, log, restarts, wiped, Strangers)
      /\ \A q \in RunIds : Persists(u.files[q], s.files[q])
  BY <1>4, DBIInvFacts, FlushesOk
<1>6. /\ SoundDB(Summarized(s, r), log, restarts, wiped, Strangers)
      /\ \A q \in RunIds : Summarized(s, r).files[q].metadata = s.files[q].metadata
  BY <1>5, DBIInvFacts, SummarizedOk
<1>7. SoundDB(db', log, restarts, wiped, Strangers)
  BY <1>2, <1>5, <1>6
<1>8. \A q \in RunIds : db'.files[q].metadata = s.files[q].metadata
  BY <1>2, <1>6
<1>9. \A q \in RunIds : Persists(db.files[q], db'.files[q])
  BY <1>4, <1>5, <1>8 DEF Persists
<1> QED BY <1>1, <1>7, <1>9, OtherStep, DBIInvFacts

\* The broker stops and starts.
LEMMA RestartStep ==
  ASSUME DBIInv, Restart
  PROVE  DBIInv' /\ db'.files = db.files
<1>1. /\ restarts < MaxRestarts /\ restarts' = restarts + 1 /\ deferred' = <<>>
      /\ db' = EmptyMemory(db.files, db.listing) /\ UNCHANGED <<started, log, wiped>>
  BY DEF Restart
<1>2. restarts' \in 0..MaxRestarts /\ restarts' # 0
  BY <1>1, DBIInvFacts, BrokerDBAssumption
<1>3. SoundDB(EmptyMemory(db.files, db.listing), log, restarts', wiped, Strangers)
  BY <1>2, DBIInvFacts, RestartOk
<1>4. db'.files = db.files
  BY <1>1 DEF EmptyMemory
<1>5. deferred' \in Seq(RunIds \X Kinds) /\ Len(deferred') = 0
  BY <1>1
<1> QED BY <1>1, <1>2, <1>3, <1>4, <1>5, OtherStep, DBIInvFacts

\* The broker dies while it flushes.
LEMMA DieInFlushStep ==
  ASSUME DBIInv, DieInFlush
  PROVE  DBIInv' /\ \A q \in RunIds : Persists(db.files[q], db'.files[q])
<1>1. /\ restarts < MaxRestarts /\ restarts' = restarts + 1 /\ deferred' = <<>>
      /\ UNCHANGED <<started, log, wiped>>
  BY DEF DieInFlush
<1>2. PICK s \in {db} \cup {Updated(db, r, "ended") : r \in {q \in ToSet(started) : Loadable(db, q)}} :
        \E cut \in CutFlushes(s) : db' = EmptyMemory(cut.files, cut.listing)
  BY DEF DieInFlush
<1>3. PICK cut \in CutFlushes(s) : db' = EmptyMemory(cut.files, cut.listing)
  BY <1>2
<1>4. restarts' \in 0..MaxRestarts /\ restarts' # 0
  BY <1>1, DBIInvFacts, BrokerDBAssumption
<1>5. SoundDB(s, log, restarts, wiped, Strangers) /\ s.files = db.files
  <2>1. CASE s = db
    BY <2>1, DBIInvFacts
  <2>2. CASE s # db
    <3>1. PICK r \in ToSet(started) : Loadable(db, r) /\ s = Updated(db, r, "ended")
      BY <1>2, <2>2
    <3>2. r \in RunIds \ Strangers /\ "ended" \in Fields
      BY Known, DBIInvFacts DEF Fields
    <3>3. SoundDB(db, log, restarts, wiped, Strangers) /\ Strangers \in SUBSET RunIds
      BY DBIInvFacts
    <3>4. /\ SoundDB(Updated(db, r, "ended"), log, restarts, wiped, Strangers)
          /\ Updated(db, r, "ended").files = db.files
      BY <3>1, <3>2, <3>3, UpdatedOk
    <3> QED BY <3>1, <3>4
  <2> QED BY <2>1, <2>2
<1>6. SoundDB(EmptyMemory(cut.files, cut.listing), log, restarts', wiped, Strangers)
  <2>1. log \in [RunIds -> Seq(Kinds)] /\ Strangers \in SUBSET RunIds
    BY DBIInvFacts
  <2> QED BY ONLY <1>4, <1>5, <2>1, cut \in CutFlushes(s), CutOk
<1>7. db'.files = cut.files
  BY <1>3 DEF EmptyMemory
<1>8. deferred' \in Seq(RunIds \X Kinds) /\ Len(deferred') = 0
  BY <1>1
<1>9. \A q \in RunIds : Persists(db.files[q], db'.files[q])
  BY <1>5, <1>7, CutPersists
<1> QED BY <1>1, <1>3, <1>4, <1>6, <1>8, <1>9, OtherStep, DBIInvFacts

\* The invariant is inductive, and no step takes a flag from the disk.
LEMMA DBStep ==
  ASSUME DBIInv, [Next]_vars
  PROVE  DBIInv' /\ \A r \in RunIds \ wiped' : Persists(db.files[r], db'.files[r])
<1> DEFINE Goal == DBIInv' /\ \A r \in RunIds \ wiped' : Persists(db.files[r], db'.files[r])
<1>1. db'.files = db.files => \A r \in RunIds : Persists(db.files[r], db'.files[r])
  BY DEF Persists
<1>2. CASE UNCHANGED vars
  <2>1. DBIInv' = DBIInv
    BY <1>2 DEF vars, DBIInv, Types, Strangers
  <2> QED BY <1>1, <1>2, <2>1 DEF vars
<1>3. ASSUME NEW r \in RunIds, StartRun(r) PROVE Goal
  BY <1>3, StartRunStep
<1>4. ASSUME NEW r \in RunIds, ForceFlags(r) PROVE Goal
  BY <1>1, <1>4, ForceFlagsStep
<1>5. ASSUME NEW r \in RunIds, TestEnded(r) PROVE Goal
  BY <1>5, TestEndedStep
<1>6. ASSUME NEW r \in RunIds, ReadLines(r) PROVE Goal
  BY <1>6, ReadLinesStep
<1>7. ASSUME NEW r \in RunIds, NEW kind \in Kinds, SaveOne(r, kind) PROVE Goal
  BY <1>1, <1>7, SaveOneStep
<1>8. ASSUME NEW r \in RunIds, NEW kinds \in Kinds \X Kinds, SaveBatch(r, kinds) PROVE Goal
  BY <1>1, <1>8, SaveBatchStep
<1>9. ASSUME RunCallback PROVE Goal
  BY <1>1, <1>9, RunCallbackStep
<1>10. ASSUME Flush PROVE Goal
  BY <1>10, FlushStep
<1>11. ASSUME Restart PROVE Goal
  BY <1>1, <1>11, RestartStep
<1>12. ASSUME DieInFlush PROVE Goal
  BY <1>12, DieInFlushStep
<1>13. Next \/ UNCHANGED vars
  OBVIOUS
<1>14. ASSUME Next PROVE Goal
  <2> HIDE DEF Goal
  <2>1. \/ \E r \in RunIds : StartRun(r) \/ ForceFlags(r) \/ TestEnded(r) \/ ReadLines(r)
        \/ \E r \in RunIds, kind \in Kinds : SaveOne(r, kind)
        \/ \E r \in RunIds, kinds \in Kinds \X Kinds : SaveBatch(r, kinds)
        \/ RunCallback \/ Flush \/ Restart \/ DieInFlush
    BY <1>14 DEF Next
  <2>2. (\E r \in RunIds : StartRun(r) \/ ForceFlags(r) \/ TestEnded(r) \/ ReadLines(r)) => Goal
    BY <1>3, <1>4, <1>5, <1>6
  <2>3. (\E r \in RunIds, kind \in Kinds : SaveOne(r, kind)) => Goal
    BY <1>7
  <2>4. (\E r \in RunIds, kinds \in Kinds \X Kinds : SaveBatch(r, kinds)) => Goal
    BY <1>8
  <2> QED BY <1>9, <1>10, <1>11, <1>12, <2>1, <2>2, <2>3, <2>4
<1> QED BY <1>2, <1>13, <1>14

-----------------------------------------------------------------------------
(* The theorems.                                                           *)

\* The inductive invariant: what is sound of every run, its type included.
THEOREM DBInductive == Spec => []DBIInv
<1>1. Init => DBIInv
  BY InitDBIInv
<1>2. DBIInv /\ [Next]_vars => DBIInv'
  BY DBStep
<1> QED BY <1>1, <1>2, PTL DEF Spec

\* add, flush, _dump_queue, summarize_run, delete_run and whatever the broker
\* dies of: no result is stored twice or out of order, and unless the broker
\* died what is kept of a run is the end of its log.
THEOREM ResultsStayInOrder == Spec => []DBInv
<1>1. ASSUME DBIInv PROVE TypeOK
  <2>1. /\ IsDB(db) /\ started \in Seq(RunIds) /\ wiped \subseteq RunIds
        /\ log \in [RunIds -> Seq(Kinds)] /\ restarts \in 0..MaxRestarts
    BY <1>1 DEF DBIInv, Types, SoundDB
  <2>2. ToSet(started) \subseteq RunIds
    BY <2>1, LenProperties, ElementOfSeq DEF ToSet
  <2>3. /\ db.dirty \in BOOLEAN /\ db.known \subseteq RunIds
        /\ db.counts \in [RunIds -> [Kinds -> Nat]] /\ db.headers \in [RunIds -> Seq(Kinds)]
    BY <2>1 DEF IsDB, Tallies, Keys
  <2> QED BY <2>1, <2>2, <2>3 DEF TypeOK
<1>2. ASSUME DBIInv PROVE KeptInOrder
  <2>1. \A r \in RunIds : Sound(db, r, log[r], restarts, wiped)
    BY <1>2 DEF DBIInv, SoundDB
  <2>2. ASSUME NEW r \in RunIds
        PROVE  LET kept == Kept(db, r)
               IN /\ \A i, j \in DOMAIN kept :
                       i < j /\ Whole(kept[i]) /\ Whole(kept[j]) => kept[i].id < kept[j].id
                  /\ restarts = 0 /\ r \notin wiped =>
                       \A i \in DOMAIN kept :
                         Whole(kept[i]) /\ kept[i].id = Len(log[r]) - Len(kept) + i
    BY <2>1 DEF Sound, Orderly, LastOf
  <2> QED BY <2>2 DEF KeptInOrder
<1>3. DBIInv => DBInv
  BY <1>1, <1>2 DEF DBInv
<1> QED BY <1>3, DBInductive, PTL

\* flush returns at once while _dirty is down and get_metadata, get_counts and
\* get_urls answer from memory: then the files hold what memory does.
THEOREM CleanMeansSynced == Spec => []CleanIsSynced
<1>1. ASSUME DBIInv PROVE CleanIsSynced
  <2>1. \A r \in RunIds : Sound(db, r, log[r], restarts, wiped)
    BY <1>1 DEF DBIInv, SoundDB
  <2> QED BY <2>1 DEF Sound, Synced, CleanIsSynced
<1> QED BY <1>1, DBInductive, PTL

\* add and _dump_queue: in sync and not restarted, the counts on disk are those
\* of all results of the run and its errors are all there, whatever
\* summarize_run threw away.
THEOREM TotalsStayComplete == Spec => []TotalsAreComplete
<1>1. ASSUME DBIInv PROVE TotalsAreComplete
  <2> SUFFICES ASSUME restarts = 0, ~db.dirty, NEW r \in ToSet(started) \ wiped, log[r] # <<>>
               PROVE  /\ \A k \in Kinds : db.files[r].counts[k] = Number(log[r], k)
                      /\ Len(Content(db.files[r].errors)) = Number(log[r], "addError")
    BY DEF TotalsAreComplete
  <2>1. IsDB(db) /\ r \in RunIds /\ log[r] \in Seq(Kinds)
    BY <1>1, Known, DBIInvFacts
  <2>2. Counted(db, r, log[r]) /\ Synced(db, r)
    BY <1>1, <2>1 DEF DBIInv, SoundDB, Sound
  <2>3. r \in db.known /\ db.files[r].counts = db.counts[r] /\ Len(db.errors[r]) = 0
    BY <2>2 DEF Counted, Synced
  <2>4. Len(Content(db.files[r].errors)) \in Nat
    BY <2>1, KeptText, LenProperties DEF Lines
  <2> QED BY <2>2, <2>3, <2>4 DEF Counted
<1> QED BY <1>1, DBInductive, PTL

\* _compress_headers, _dump_queue and get_data: until the broker restarts every
\* line on disk can be read back with the headers on disk.
THEOREM LinesStayReadable == Spec => []ReadableUntilRestart
<1>1. ASSUME DBIInv PROVE ReadableUntilRestart
  <2>1. \A r \in RunIds : Sound(db, r, log[r], restarts, wiped)
    BY <1>1 DEF DBIInv, SoundDB
  <2> QED BY <2>1 DEF Sound, Coded, Readable, ReadableUntilRestart
<1> QED BY <1>1, DBInductive, PTL

\* update_metadata, save_metadata and flush: a flag of a run that is on disk
\* stays there, through restarts and interrupted flushes, until the run is
\* wiped or its file is torn.
THEOREM FlagsStayOnDisk == Spec => MetadataSurvives
<1>1. DBIInv /\ [Next]_vars =>
        [\A r \in RunIds \ wiped' :
           Present(db.files[r].metadata) /\ Present(db'.files[r].metadata)
             => db.files[r].metadata \subseteq db'.files[r].metadata]_vars
  BY DBStep DEF Persists
<1> QED BY <1>1, DBInductive, PTL DEF Spec, MetadataSurvives
=============================================================================
