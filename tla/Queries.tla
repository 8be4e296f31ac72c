------------------------------- MODULE Queries -------------------------------
(* What both databases of the broker are given and asked about a run.       *)
EXTENDS Naturals, SequencesExt, Bags

CONSTANTS
    Results,     \* results: their type, their size and the bytes zlib makes of
                 \* one, without the two it always begins with
    None,        \* an argument that is not given
    Types,       \* the arguments of queries: data_type,
    Starts,      \* start
    Sizes        \* and size

ASSUME QueriesAssumption ==
    /\ {r.size : r \in Results} \subseteq Nat \ {0}
    /\ Starts \ {None} \subseteq Nat /\ Sizes \ {None} \subseteq Nat \ {0}

AllTypes == {r.type : r \in Results}

\* get_data and get_errors.
DataQueries == [what : {"data"}, type : Types, groupby : BOOLEAN, start : Starts, size : Sizes]
ErrorQueries == [what : {"errors"}, type : {None}, groupby : {FALSE}, start : Starts, size : Sizes]
AllQueries == DataQueries \cup ErrorQueries

IsWhole(q) == q.start = None /\ q.size = None

\* A size without a start counts from the first result.
First(q) == IF q.start = None THEN 0 ELSE q.start

\* What of a sequence is in a set, in its order.
Kept(s, set) ==
    LET kept[n \in 0..Len(s)] ==
          IF n = 0 THEN <<>>
          ELSE IF s[n] \in set THEN Append(kept[n - 1], s[n]) ELSE kept[n - 1]
    IN kept[Len(s)]

IsOfType(q, r) == q.type \in {None, r.type}
Selected(s, q) == Kept(s, {r \in Results : IsOfType(q, r)})

OfTypes(s, types) == Kept(s, {r \in Results : r.type \in types})

\* How many of n results lie in the window of a query.
WindowOf(q, n) ==
    LET left == IF First(q) < n THEN n - First(q) ELSE 0
    IN IF q.size = None \/ left < q.size THEN left ELSE q.size

Times(r, s) == Cardinality({i \in DOMAIN s : s[i] = r})
=============================================================================
