------------------------------ MODULE Databases ------------------------------
(***************************************************************************)
(* Queries about one run to two brokers that are given the same results    *)
(* and asked the same, one with the file database and one with redis.      *)
(***************************************************************************)
EXTENDS FileReader, RedisDB

CONSTANTS
    MaxResults,   \* bound on the results of the run
    MaxTorn       \* bound on the deaths of the broker with files

ASSUME DatabasesAssumption == MaxResults \in Nat /\ MaxTorn \in Nat

VARIABLES
    log,        \* the results of the run
    details,    \* those whole in the file since it was last summarized
    over,       \* whether the run has ended
    torn        \* records that were cut off

history == <<log, details, over, torn>>
vars == <<fileVars, redisVars, history>>

Init ==
    /\ FileInit /\ RedisInit
    /\ log = <<>> /\ details = <<>> /\ over = FALSE /\ torn = 0

Add(r) ==
    /\ Len(log) < MaxResults
    /\ FileAdd(r) /\ RedisAdd(r)
    /\ log' = Append(log, r) /\ details' = Append(details, r)
    /\ UNCHANGED <<over, torn>>

EndRun ==
    /\ FileSummarize /\ RedisSummarize
    /\ over' = TRUE /\ details' = <<>>
    /\ UNCHANGED <<log, torn>>

Tear(r) ==
    /\ torn < MaxTorn /\ Len(log) < MaxResults
    /\ FileTorn(r) /\ RedisAdd(r)
    /\ log' = Append(log, r) /\ torn' = torn + 1
    /\ UNCHANGED <<details, over>>

Ask(q) == FileAsk(q) /\ RedisAsk(q) /\ UNCHANGED history

Read == ReadChunk /\ UNCHANGED <<redisVars, history>>

\* Each answer is sent before the broker reads anything else.
Send == FileSends /\ RedisSends /\ UNCHANGED history

Next ==
    \/ \E r \in Results : Add(r) \/ Tear(r)
    \/ EndRun
    \/ \E q \in AllQueries : Ask(q)
    \/ Read \/ Send

Spec == Init /\ [][Next]_vars

\* A query is one call: the broker does nothing else until it is answered.
FairSpec == Spec /\ WF_vars(Read)
-----------------------------------------------------------------------------
TypeOK ==
    /\ log \in Seq(Results) /\ Len(log) <= MaxResults
    /\ details \in Seq(Results)
    /\ torn \in 0..MaxTorn /\ (torn = 0 => IsSuffix(details, log))
    /\ over \in BOOLEAN
    /\ reader.status \in {"idle", "reading", "ended", "failed", "refused"}
    /\ reply.status \in {"none", "answered", "failed"}

AllEncoded(s) == FlattenSeq([i \in DOMAIN s |-> Encoded(s[i])])

\* Wherever the chunks end, and if a mark lies across two of them: what was
\* yielded and what remains is what was read, so that no record is lost, read
\* twice or cut.
ReaderSound ==
    Reading /\ torn = 0 =>
      SubSeq(dbFile, 1, reader.at) =
        AllEncoded(SubSeq(details, 1, reader.current)) \o reader.remaining

\* The end mark stands within a record.
HoldsMark(r) ==
    \E i \in DOMAIN Compressed(r) : SubSeq(Encoded(r), i, i + 1) = ZLIB_END

\* Only a record that was cut off makes a query fail, or one that holds the
\* end mark.
FailsForCause ==
    reader.status = "failed" => torn > 0 \/ \E i \in DOMAIN details : HoldsMark(details[i])

\* Only a record that was cut off makes a query fail.
FailsWhenTorn == reader.status = "failed" => torn > 0

\* A query to the whole run that ends has found every record that is whole in
\* the file.
WholeFound ==
    reader.status = "ended" /\ IsWhole(reader.query) /\ reader.query.what = "data"
      /\ ~reader.query.groupby =>
        ToBag(Selected(details, reader.query)) \sqsubseteq ToBag(reader.found)

FileAnswer ==
    IF reader.status = "ended"
    THEN [status |-> "answered", query |-> reader.query, found |-> reader.found]
    ELSE IF reader.status = "refused" THEN [status |-> "refused"]
    ELSE [status |-> "none"]
RedisAnswer == IF reply.status = "answered" THEN reply ELSE NoReply

\* Both databases keep the promise of BaseDB; the one with files has lost
\* something once a record was cut off.
FileStore == INSTANCE ResultStore WITH answer <- FileAnswer, lossy <- torn > 0
RedisStore == INSTANCE ResultStore WITH answer <- RedisAnswer, lossy <- FALSE
FileKeepsPromise == FileStore!Spec
RedisKeepsPromise == RedisStore!Spec

\* A page of the file database begins with what its window holds, the oldest
\* first; without a type it is that, so that pages partition the results, also
\* when more arrive between two of them.
PagesAreWindows ==
    reader.status = "ended" /\ torn = 0 /\ reader.query.what = "data" /\ ~reader.query.groupby =>
      LET q == reader.query
          n == WindowOf(q, Len(details))
          window == SubSeq(details, First(q) + 1, First(q) + n)
      IN /\ IsPrefix(Selected(window, q), reader.found)
         /\ q.type = None => reader.found = window

\* Every query to whole files ends: the broker has one thread.
QueriesEnd == Reading /\ torn = 0 ~> ~Reading

SumOf(s) == FoldLeft(LAMBDA n, x : n + x, 0, s)
SizesOf(t, s) == SumOf([i \in DOMAIN OfTypes(s, {t}) |-> OfTypes(s, {t})[i].size])
GroupsOf(t, found) ==
    SumOf([i \in DOMAIN found |-> IF found[i].result.type = t THEN found[i].count ELSE 0])

\* remote.py: "we're asking the broker about the latest counts" and adds up the
\* groups of a run: they are its counts.
AgreeWithCounts(found) == \A t \in AllTypes : GroupsOf(t, found) = SizesOf(t, log)

IsSync(q) == q.groupby /\ q.type = None /\ IsWhole(q)

\* ... with redis, where a count has a counter when it is not 0,
RedisSyncs ==
    /\ \A t \in AllTypes :
         /\ redis.count[t] = SizesOf(t, log)
         /\ t \in redis.counters <=> redis.count[t] > 0
    /\ reply.status = "answered" /\ IsSync(reply.query) => AgreeWithCounts(reply.found)

\* ... and with files.
FileSyncs ==
    reader.status = "ended" /\ IsSync(reader.query) /\ ~over /\ torn = 0 =>
      AgreeWithCounts(reader.found)

\* What holds between any two steps.
QueriesInv == TypeOK /\ ReaderSound /\ FailsForCause /\ RedisSyncs

\* Every query ends, also after a death.
AllQueriesEnd == Reading ~> ~Reading
=============================================================================
