----------------------------- MODULE ResultStore -----------------------------
(***************************************************************************)
(* What a database promises about the results of one run: it answers a     *)
(* query with results that it was given, each no more often than that.  As *)
(* long as it has lost nothing it finds all of them until the run has      *)
(* ended, and a page of a query without a type is as long as it can be;    *)
(* which results are on it is left to the database.                        *)
(***************************************************************************)
EXTENDS Queries

VARIABLES
    log,      \* the results of the run, the oldest first
    over,     \* whether the run has ended
    lossy,    \* whether it may have lost something
    answer    \* the answer to the query just asked, if any

vars == <<log, over, lossy, answer>>

NoAnswer == [status |-> "none"]
Refusal == [status |-> "refused"]
AnswerTo(q, found) == [status |-> "answered", query |-> q, found |-> found]

Init == log = <<>> /\ over = FALSE /\ lossy = FALSE /\ answer = NoAnswer

\* Everything that it was given is there to be found.
Complete == ~over /\ ~lossy

\* The least and the most a query may find: failures may be kept as errors.
Least(q) ==
    IF q.what = "errors" THEN OfTypes(log, {"addError"})
    ELSE Selected(log, q)
Most(q) == IF q.what = "errors" THEN OfTypes(log, {"addError", "addFailure"}) ELSE Least(q)

HonestList(q, found) ==
    /\ ToBag(found) \sqsubseteq ToBag(Most(q))
    /\ q.size # None => Len(found) <= q.size
    /\ Complete /\ IsWhole(q) => ToBag(Least(q)) \sqsubseteq ToBag(found)
    /\ Complete /\ q.type = None =>
         Len(found) \in WindowOf(q, Len(Least(q)))..WindowOf(q, Len(Most(q)))

\* Groups count the results that are the same, or add up their sizes.
HonestGroups(q, found) ==
    /\ \A i, j \in DOMAIN found : found[i].result = found[j].result => i = j
    /\ \A i \in DOMAIN found :
         LET n == Times(found[i].result, Most(q))
         IN /\ found[i].count \in 1..(n * found[i].result.size)
            /\ Complete /\ IsWhole(q) => found[i].count \in {n, n * found[i].result.size}
    /\ Complete /\ IsWhole(q) => ToSet(Least(q)) = {found[i].result : i \in DOMAIN found}

\* A database that dies in the middle has lost something from then on.
Add(r) ==
    /\ log' = Append(log, r)
    /\ lossy' \in {lossy, TRUE}
    /\ answer' = NoAnswer
    /\ UNCHANGED over

End ==
    /\ over' = TRUE /\ answer' = NoAnswer
    /\ UNCHANGED <<log, lossy>>

Answer(q) ==
    /\ \/ /\ answer'.status = "answered" /\ answer'.query = q
          /\ IF q.groupby THEN HonestGroups(q, answer'.found) ELSE HonestList(q, answer'.found)
       \/ /\ answer' = Refusal
          /\ over \/ log = <<>>
    /\ UNCHANGED <<log, over, lossy>>

Forget == answer' = NoAnswer /\ UNCHANGED <<log, over, lossy>>

Next == (\E r \in Results : Add(r)) \/ (\E q \in AllQueries : Answer(q)) \/ End \/ Forget

Spec == Init /\ [][Next]_vars
=============================================================================
