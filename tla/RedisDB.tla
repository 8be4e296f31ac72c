------------------------------- MODULE RedisDB -------------------------------
(***************************************************************************)
(* The redis database of the broker (src/loads/db/_redis.py): the keys of  *)
(* one run in redis and the answer to the query just asked.  An add reads  *)
(* which members are new and then executes one pipeline; the broker is the *)
(* only client and waits for it.                                           *)
(***************************************************************************)
EXTENDS Queries

VARIABLES
    redis,    \* the keys of the run
    reply     \* the answer to the query just asked

redisVars == <<redis, reply>>

NoReply == [status |-> "none"]

RedisInit ==
    /\ redis = [metadata |-> {}, counters |-> {}, count |-> [t \in AllTypes |-> 0],
                data |-> <<>>, errors |-> <<>>,
                bcounters |-> {}, bcount |-> [r \in Results |-> 0]]
    /\ reply = NoReply

Mut_Increment(r) == 1

\* Counts of a type and of a group grow by the size.
Increment(r) == r.size

IsRedisError(r) == r.type = "addError"

\* add; the md5 of a result is known by the result.
RedisAdd(r) ==
    /\ redis' = [redis EXCEPT
         !.counters = @ \cup {r.type},
         !.count[r.type] = @ + Increment(r),
         !.data = <<r>> \o @,
         !.errors = IF IsRedisError(r) THEN <<r>> \o @ ELSE @,
         !.bcounters = @ \cup {r},
         !.bcount[r] = @ + r.size]
    /\ UNCHANGED reply

\* update_metadata of test_ended; summarize_run keeps everything.
RedisSummarize ==
    /\ redis' = [redis EXCEPT !.metadata = @ \cup {"ended"}]
    /\ UNCHANGED reply

Mut_RedisPage(q, list) == SubSeq(list, First(q) + 1, Len(list))

\* The indexes from start on, the newest result first; then they are filtered.
RedisPage(q, list) == SubSeq(list, First(q) + 1, First(q) + WindowOf(q, Len(list)))

RedisGroups(q) ==
    LET groups == SetToSeq({r \in redis.bcounters : IsOfType(q, r)})
    IN [i \in DOMAIN groups |-> [result |-> groups[i], count |-> redis.bcount[groups[i]]]]

\* get_data and get_errors; groups cannot be paged, which raises if there is
\* any data.
RedisAsk(q) ==
    /\ reply' =
         IF q.groupby /\ ~IsWhole(q) /\ redis.data # <<>> THEN [status |-> "failed"]
         ELSE [status |-> "answered", query |-> q, found |->
                 IF q.what = "errors" THEN RedisPage(q, redis.errors)
                 ELSE IF q.groupby THEN RedisGroups(q)
                 ELSE Selected(RedisPage(q, redis.data), q)]
    /\ UNCHANGED redis

RedisSends == reply' = NoReply /\ UNCHANGED redis
=============================================================================
