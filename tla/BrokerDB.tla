------------------------------ MODULE BrokerDB ------------------------------
(***************************************************************************)
(* The file database of the broker (src/loads/db/_python.py): results and  *)
(* metadata are kept in memory and written to the files of their run when  *)
(* flush is called, every two seconds and before a query.  The broker may  *)
(* stop or die at any moment, also between two files of a flush, and comes *)
(* back with an empty memory.                                              *)
(*                                                                         *)
(* A result is a record of the run's log; its kind stands for its type and *)
(* for the header keys it needs.  The counts stand for the urls as well:   *)
(* both are tallies, kept and written side by side.                        *)
(***************************************************************************)
EXTENDS Naturals, SequencesExt

CONSTANTS
    RunIds,
    Absent, Torn,   \* a file that does not exist, one that was cut off
    HasMaxSize,     \* whether prepare_run may wipe runs
    Interrupted,    \* whether the broker may die in the middle of a flush
    MaxResults,     \* bound on the results of all runs
    MaxRestarts     \* bound on the restarts of the broker

Kinds == {"add_hit", "addError"}

\* A result in memory, and as a line of a file.
Result == [id : Nat \ {0}, kind : Kinds]
StoredLine == [id : Nat \ {0}, kind : Kinds, key : Nat \ {0}]

\* No file with something in it passes for one that is missing or cut off.
ASSUME BrokerDBAssumption ==
    /\ HasMaxSize \in BOOLEAN /\ Interrupted \in BOOLEAN
    /\ MaxResults \in Nat /\ MaxRestarts \in Nat
    /\ Torn \notin Result \cup StoredLine
    /\ \A mark \in {Absent, Torn} :
         mark \notin Seq(Kinds) /\ mark \notin Seq(StoredLine \cup {Torn})

VARIABLES
    db,         \* the memory of BrokerDB and its files
    deferred,   \* results of batches, as callbacks on the loop
    started,    \* the runs in the order they were started
    log,        \* all results the database was given, by run
    wiped,      \* runs prepare_run deleted
    restarts    \* restarts of the broker so far

vars == <<db, deferred, started, log, wiped, restarts>>

NoCounts == [k \in Kinds |-> 0]
NoFiles == [metadata |-> Absent, errors |-> Absent, data |-> Absent,
            counts |-> Absent, headers |-> Absent]

\* What _initialize leaves in memory; it reads no file.
EmptyMemory(files, listing) ==
    [dirty |-> FALSE,
     metadata |-> [r \in RunIds |-> {}],
     known |-> {},                           \* the keys of _buffer
     buffer |-> [r \in RunIds |-> <<>>],
     errors |-> [r \in RunIds |-> <<>>],
     counts |-> [r \in RunIds |-> NoCounts],
     headers |-> [r \in RunIds |-> <<>>],    \* the kind each key stands for
     files |-> files,
     listing |-> listing]    \* metadata files, the oldest change first

Init ==
    /\ db = EmptyMemory([r \in RunIds |-> NoFiles], <<>>)
    /\ deferred = <<>> /\ started = <<>> /\ wiped = {} /\ restarts = 0
    /\ log = [r \in RunIds |-> <<>>]

-----------------------------------------------------------------------------
(* Memory. *)

Mut_Reloaded(s, r) == {}

\* update_metadata reads the file when it has nothing in memory ...
Reloaded(s, r) == IF s.files[r].metadata = Absent THEN {} ELSE s.files[r].metadata

\* ... which raises when the file was cut off.
Loadable(s, r) == s.metadata[r] # {} \/ s.files[r].metadata # Torn

Updated(s, r, field) ==
    LET existing == IF s.metadata[r] = {} THEN Reloaded(s, r) ELSE s.metadata[r]
    IN [s EXCEPT !.metadata[r] = existing \cup {field}, !.dirty = TRUE]

Mut_Saved(s, r) == [s EXCEPT !.metadata[r] = {"args"}]

Saved(s, r) == [s EXCEPT !.metadata[r] = {"args"}, !.dirty = TRUE]

IsError(result) == result.kind = "addError"

Added(s, r, result) ==
    [Updated(s, r, "has_data") EXCEPT
        !.known = @ \cup {r},
        !.counts[r][result.kind] = @ + 1,
        !.buffer[r] = Append(@, result),
        !.errors[r] = IF IsError(result) THEN Append(@, result) ELSE @]

-----------------------------------------------------------------------------
(* Files. *)

Mut_WithKey(keys, kind) == IF Contains(keys, kind) THEN keys ELSE <<kind>> \o keys

\* A kind without a key gets the next one.
WithKey(keys, kind) == IF Contains(keys, kind) THEN keys ELSE Append(keys, kind)

\* The keys once the results of a queue have been compressed one by one.
WithKeysFor(queue, keys) ==
    LET after[i \in 0..Len(queue)] ==
          IF i = 0 THEN keys ELSE WithKey(after[i - 1], queue[i].kind)
    IN after[Len(queue)]

\* The headers once the queues of a run are dumped, the errors first.
DumpedHeaders(s, r) == WithKeysFor(s.errors[r] \o s.buffer[r], s.headers[r])

\* A line names the keys of its result by their position in the headers.
Line(keys, result) ==
    [id |-> result.id, kind |-> result.kind,
     key |-> CHOOSE i \in DOMAIN keys : keys[i] = result.kind]

LinesOf(keys, queue) == [i \in DOMAIN queue |-> Line(keys, queue[i])]

Content(file) == IF file = Absent THEN <<>> ELSE file

\* _dump_queue opens the file only when there is something to append.
Dumped(file, lines) == IF lines = <<>> THEN file ELSE Content(file) \o lines

\* The files of a run after a flush.
Written(s, r) ==
    LET old == s.files[r]
        meta == IF s.metadata[r] = {} THEN old.metadata ELSE s.metadata[r]
        keys == DumpedHeaders(s, r)
    IN IF r \in s.known
       THEN [metadata |-> meta,
             errors |-> Dumped(old.errors, LinesOf(keys, s.errors[r])),
             data |-> Dumped(old.data, LinesOf(keys, s.buffer[r])),
             counts |-> s.counts[r],
             headers |-> keys]
       ELSE [old EXCEPT !.metadata = meta]

Mut_NothingToDump(s) == Cardinality(s.known) <= 1

\* flush returns early, with _dirty still up, before any result was added.
NothingToDump(s) == s.known = {}

Mut_Emptied(queues) == queues

\* The queues are drained as they are dumped.
Emptied(queues) == [r \in RunIds |-> <<>>]

\* The runs whose metadata file flush rewrites, in the order of a dict.
Orders(s) == SetToSeqs({r \in RunIds : s.metadata[r] # {}})

Without(listing, runs) == SelectSeq(listing, LAMBDA r : r \notin runs)

Listed(s, order) == Without(s.listing, ToSet(order)) \o order

FlushedIn(s, order) ==
    LET listed == [s EXCEPT !.listing = Listed(s, order)]
    IN IF NothingToDump(s)
       THEN [listed EXCEPT
               !.files = [r \in RunIds |->
                            [s.files[r] EXCEPT !.metadata = Written(s, r).metadata]]]
       ELSE [listed EXCEPT
               !.files = [r \in RunIds |-> Written(s, r)],
               !.headers = [r \in RunIds |-> IF r \in s.known THEN DumpedHeaders(s, r)
                                             ELSE s.headers[r]],
               !.buffer = Emptied(s.buffer),
               !.errors = Emptied(s.errors),
               !.dirty = FALSE]

\* The outcomes of flush.
Flushes(s) == IF s.dirty THEN {FlushedIn(s, order) : order \in Orders(s)} ELSE {s}

Mut_Summarized(s, r) == [s EXCEPT !.files[r].data = Absent, !.counts[r] = NoCounts]

\* summarize_run removes the file with the details.
Summarized(s, r) == [s EXCEPT !.files[r].data = Absent]

\* delete_run removes the files of a run and forgets it, except for what is
\* in _buffer and _errors.
Deleted(s, gone) ==
    [s EXCEPT !.files = [r \in RunIds |-> IF r \in gone THEN NoFiles ELSE s.files[r]],
              !.metadata = [r \in RunIds |-> IF r \in gone THEN {} ELSE s.metadata[r]],
              !.counts = [r \in RunIds |-> IF r \in gone THEN NoCounts ELSE s.counts[r]],
              !.headers = [r \in RunIds |-> IF r \in gone THEN <<>> ELSE s.headers[r]],
              !.listing = Without(s.listing, gone)]

\* _update_headers.
WithHeaders(s, r) ==
    [s EXCEPT !.headers[r] = IF s.files[r].headers = Absent THEN @ ELSE s.files[r].headers]
-----------------------------------------------------------------------------
(* A flush that is cut off: the files before the one being written are     *)
(* complete, that one is torn and the ones after it are untouched.         *)

\* The order in which flush writes files.
Writes(order) ==
    LET n == Len(order)
        last == <<"data", "counts", "headers">>
    IN [i \in 1..n |-> <<"metadata", order[i]>>]
       \o [i \in 1..n |-> <<"errors", order[i]>>]
       \o [i \in 1..(3 * n) |-> <<last[1 + ((i - 1) % 3)], order[1 + ((i - 1) \div 3)]>>]

\* What can be left of a file that was being written.
Cut(s, r, f) ==
    LET old == s.files[r][f]
        AppendedTo(queue) ==
            LET lines == LinesOf(DumpedHeaders(s, r), queue)
            IN {Content(old) \o SubSeq(lines, 1, k) \o <<Torn>> : k \in 0..(Len(lines) - 1)}
    IN CASE f = "metadata" -> IF s.metadata[r] = {} THEN {} ELSE {Torn}
         [] f = "errors"   -> AppendedTo(s.errors[r])
         [] f = "data"     -> AppendedTo(s.buffer[r])
         [] OTHER          -> IF r \in s.known THEN {Torn} ELSE {}

\* The files after a flush that was cut off at the p-th one, of which cut is
\* left.
CutAt(s, writes, p, cut) ==
    LET Done(f, r) == \E i \in 1..(p - 1) : writes[i] = <<f, r>>
        Left(f, r, old, new) ==
            IF writes[p] = <<f, r>> THEN cut ELSE IF Done(f, r) THEN new ELSE old
    IN [r \in RunIds |->
          LET old == s.files[r]
              new == Written(s, r)
          IN [metadata |-> Left("metadata", r, old.metadata, new.metadata),
              errors |-> Left("errors", r, old.errors, new.errors),
              data |-> Left("data", r, old.data, new.data),
              counts |-> Left("counts", r, old.counts, new.counts),
              headers |-> Left("headers", r, old.headers, new.headers)]]

\* The runs whose metadata file was opened by then.
Opened(s, order, p) ==
    LET first == SubSeq(order, 1, IF p < Len(order) THEN p ELSE Len(order))
    IN SelectSeq(first, LAMBDA r : s.metadata[r] # {})

CutFlush(s, order, p) ==
    LET writes == Writes(order)
    IN {[files |-> CutAt(s, writes, p, cut), listing |-> Listed(s, Opened(s, order, p))] :
          cut \in Cut(s, writes[p][2], writes[p][1])}

CutFlushes(s) ==
    LET End(order) == IF NothingToDump(s) THEN Len(order) ELSE Len(Writes(order))
    IN UNION {UNION {CutFlush(s, order, p) : p \in 1..End(order)} :
                order \in SetToSeqs({r \in RunIds : s.metadata[r] # {} \/ r \in s.known})}

-----------------------------------------------------------------------------
(* The broker. *)

Results == FoldLeft(LAMBDA n, r : n + Len(log[r]), 0, started) + Len(deferred)

\* run: make room by wiping the runs get_runs lists first, save the metadata
\* of the new run and flush.
StartRun(r) ==
    /\ ~Contains(started, r)
    /\ \E n \in 0..(IF HasMaxSize THEN Len(db.listing) ELSE 0) :
         LET gone == {q \in RunIds : \E i \in 1..n : db.listing[i] = q}
         IN /\ db' \in Flushes(Saved(Deleted(db, gone), r))
            /\ wiped' = wiped \cup gone
    /\ started' = Append(started, r)
    /\ UNCHANGED <<deferred, log, restarts>>

\* add; when the metadata cannot be loaded it raises and the result is lost.
Add(r, kind) ==
    LET result == [id |-> Len(log[r]) + 1, kind |-> kind]
    IN IF Loadable(db, r)
       THEN /\ db' = Added(db, r, result)
            /\ log' = [log EXCEPT ![r] = Append(@, kind)]
       ELSE UNCHANGED <<db, log>>

\* save_data with one result.
SaveOne(r, kind) ==
    /\ Contains(started, r) /\ Results < MaxResults
    /\ Add(r, kind)
    /\ UNCHANGED <<deferred, started, wiped, restarts>>

\* save_data with a batch: one callback on the loop for each result of it.
SaveBatch(r, kinds) ==
    /\ Contains(started, r) /\ Results + Len(kinds) <= MaxResults
    /\ deferred' = deferred \o [i \in DOMAIN kinds |-> <<r, kinds[i]>>]
    /\ UNCHANGED <<db, started, log, wiped, restarts>>

RunCallback ==
    /\ deferred # <<>>
    /\ deferred' = Tail(deferred)
    /\ UNCHANGED <<started, wiped, restarts>>
    /\ Add(Head(deferred)[1], Head(deferred)[2])

\* The periodic flush, and that of get_metadata, get_counts and get_urls.
Flush ==
    /\ UNCHANGED <<deferred, started, log, wiped, restarts>>
    /\ db' \in Flushes(db)

\* get_data and get_errors flush and read the headers before the lines.
ReadLines(r) ==
    /\ \E s \in Flushes(db) :
         /\ s.files[r].data # Absent \/ s.files[r].errors # Absent
         /\ s.files[r].headers # Torn
         /\ db' = WithHeaders(s, r)
    /\ UNCHANGED <<deferred, started, log, wiped, restarts>>

\* stop_run, when nobody serves the run, only sets the flags.
ForceFlags(r) ==
    /\ Contains(started, r) /\ Loadable(db, r)
    /\ db' = Updated(db, r, "ended")
    /\ UNCHANGED <<deferred, started, log, wiped, restarts>>

\* test_ended sets the flags, flushes and throws the details away, the last
\* only when its observers are found.
TestEnded(r) ==
    /\ Contains(started, r) /\ Loadable(db, r)
    /\ \E s \in Flushes(Updated(db, r, "ended")) : db' \in {s, Summarized(s, r)}
    /\ UNCHANGED <<deferred, started, log, wiped, restarts>>

\* The broker stops, with or without its consent, and starts again: neither
\* Broker.stop nor BrokerDB.close flushes.
Restart ==
    /\ restarts < MaxRestarts
    /\ restarts' = restarts + 1
    /\ db' = EmptyMemory(db.files, db.listing)
    /\ deferred' = <<>>
    /\ UNCHANGED <<started, log, wiped>>

\* The broker dies while it flushes, on its own account or in test_ended.
DieInFlush ==
    /\ Interrupted /\ restarts < MaxRestarts
    /\ \E s \in {db} \cup {Updated(db, r, "ended") : r \in {q \in ToSet(started) : Loadable(db, q)}} :
         /\ s.dirty
         /\ \E cut \in CutFlushes(s) : db' = EmptyMemory(cut.files, cut.listing)
    /\ restarts' = restarts + 1
    /\ deferred' = <<>>
    /\ UNCHANGED <<started, log, wiped>>

Next ==
    \/ \E r \in RunIds : StartRun(r) \/ ForceFlags(r) \/ TestEnded(r) \/ ReadLines(r)
    \/ \E r \in RunIds, kind \in Kinds : SaveOne(r, kind)
    \/ \E r \in RunIds, kinds \in Kinds \X Kinds : SaveBatch(r, kinds)
    \/ RunCallback \/ Flush \/ Restart \/ DieInFlush

Spec == Init /\ [][Next]_vars

\* The loop runs its callbacks, the periodic flush among them.
FairSpec == Spec /\ WF_vars(Flush) /\ WF_vars(RunCallback)
-----------------------------------------------------------------------------
TypeOK ==
    /\ ToSet(started) \subseteq RunIds /\ wiped \subseteq RunIds
    /\ log \in [RunIds -> Seq(Kinds)]
    /\ restarts \in 0..MaxRestarts
    /\ db.dirty \in BOOLEAN /\ db.known \subseteq RunIds
    /\ db.counts \in [RunIds -> [Kinds -> Nat]]
    /\ db.headers \in [RunIds -> Seq(Kinds)]

Whole(file) == file # Torn
Present(file) == file # Absent /\ file # Torn

\* The results of a run that are on disk or wait to be, oldest first, with
\* what an interrupted flush has torn.
Kept(s, r) == Content(s.files[r].data) \o s.buffer[r]

\* No result is stored twice or out of order, whatever the broker dies of; and
\* unless it died, what is kept of a run is the end of its log: only
\* summarize_run and prepare_run throw results away (add, _dump_queue).
KeptInOrder ==
    \A r \in RunIds :
      LET kept == Kept(db, r)
      IN /\ \A i, j \in DOMAIN kept :
              i < j /\ Whole(kept[i]) /\ Whole(kept[j]) => kept[i].id < kept[j].id
         /\ restarts = 0 /\ r \notin wiped =>
              \A i \in DOMAIN kept :
                Whole(kept[i]) /\ kept[i].id = Len(log[r]) - Len(kept) + i

\* While _dirty is down the files hold everything memory does, so that flush
\* may return at once and a query may read the files.
CleanIsSynced ==
    ~db.dirty =>
      \A r \in RunIds \ wiped :
        /\ db.buffer[r] = <<>> /\ db.errors[r] = <<>>
        /\ db.metadata[r] # {} => db.files[r].metadata = db.metadata[r]
        /\ r \in db.known => /\ db.files[r].counts = db.counts[r]
                             /\ db.files[r].headers = db.headers[r]

DBInv == TypeOK /\ KeptInOrder

Number(results, kind) == Cardinality({i \in DOMAIN results : results[i] = kind})

\* Without a restart the counts of a run and its errors are complete whenever
\* the files are in sync, also after its details were thrown away and for
\* results that came later still.
TotalsAreComplete ==
    restarts = 0 /\ ~db.dirty =>
      \A r \in ToSet(started) \ wiped :
        log[r] # <<>> =>
          /\ \A k \in Kinds : db.files[r].counts[k] = Number(log[r], k)
          /\ Len(Content(db.files[r].errors)) = Number(log[r], "addError")

\* Every line on disk can be read back with the headers on disk.
Decodes(headers, lines) ==
    \A i \in DOMAIN lines : Whole(lines[i]) =>
      /\ Present(headers) /\ lines[i].key \in DOMAIN headers
      /\ headers[lines[i].key] = lines[i].kind

Readable(r) ==
    LET files == db.files[r]
    IN /\ Decodes(files.headers, Content(files.data))
       /\ Decodes(files.headers, Content(files.errors))

\* ... as long as the broker does not restart.
ReadableUntilRestart == restarts = 0 => \A r \in RunIds : Readable(r)

\* The class is "synced on disc eventually": what is added does not wait for
\* ever, without any query.
SyncedEventually == \A r \in RunIds : db.buffer[r] # <<>> ~> db.buffer[r] = <<>>

\* A flag of a run that is on disk stays on disk, through restarts and
\* interrupted flushes, until the run is wiped or its file is torn
\* (test_python_db.py, test_reload).
MetadataSurvives ==
    [][\A r \in RunIds \ wiped' :
         Present(db.files[r].metadata) /\ Present(db'.files[r].metadata)
           => db.files[r].metadata \subseteq db'.files[r].metadata]_vars

\* test_reload: "make sure we don't lose existing data when the db client is
\* started and writes before reads": counts do not go down ...
CountsSurvive ==
    [][\A r \in RunIds \ wiped' :
         Present(db.files[r].counts) /\ Present(db'.files[r].counts)
           => \A k \in Kinds : db.files[r].counts[k] <= db'.files[r].counts[k]]_vars

\* ... and lines stay readable.
LinesSurvive == [][\A r \in RunIds : Readable(r) => Readable(r)']_vars

\* get_runs: "from older to newer..."; prepare_run: "we need to wipe up older
\* runs until we have enough space".
StartedBefore(q, r) ==
    \E i, j \in DOMAIN started : i < j /\ started[i] = q /\ started[j] = r
OldestWiped ==
    [][\A q \in wiped' \ wiped, r \in ToSet(db.listing) \ wiped' : StartedBefore(q, r)]_vars

\* test_max_size: "run-1 should have been wiped...": a run with nothing left
\* in memory has no file once prepare_run has wiped it and run has flushed.
WipedStaysWiped ==
    [][\A r \in wiped' \ wiped : db.buffer[r] = <<>> => db'.files[r] = NoFiles]_vars

\* "A simple DB that's synced on disc eventually": a broker that stops leaves
\* no result in memory.
StopIsSynced == [][restarts' # restarts => \A r \in RunIds : db.buffer[r] = <<>>]_vars
=============================================================================
