---------------------------- MODULE MCLocalRunner ----------------------------
(* Instances of LocalRunner for TLC. *)
EXTENDS LocalRunner, TLC

Counted(users, hits, n) ==
    [users |-> users, hits |-> hits, duration |-> FALSE, sockets |-> n]
Timed(users, n) ==
    [users |-> users, hits |-> <<>>, duration |-> TRUE, sockets |-> n]

\* Two users at once, cycles of users and of hits, web sockets.
RunArgs ==
    {Counted(<<2>>, <<2>>, 0), Counted(<<2, 1>>, <<1>>, 0), Counted(<<1>>, <<1, 2>>, 0),
     Counted(<<1>>, <<1>>, 2), Counted(<<2>>, <<1>>, 1), Timed(<<2>>, 0), Timed(<<1>>, 1)}
TwoCycles == {Timed(<<1, 1>>, 0)}
SameCycles == {Counted(<<1, 1>>, <<1>>, 0)}
=============================================================================
