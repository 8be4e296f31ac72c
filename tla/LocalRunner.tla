----------------------------- MODULE LocalRunner -----------------------------
(***************************************************************************)
(* The local runner as agents start it (src/loads/runners/local.py): one   *)
(* greenlet per user runs the tests of a cycle, ZMQSummarizedTestResult    *)
(* (results/zmqrelay.py) queues what they report and sends it in batches,  *)
(* and websockets.py closes the sockets a greenlet leaves behind.          *)
(*                                                                         *)
(* Greenlets share one thread: an action is what one of them does from one *)
(* switch to the next.  While main closes the relay and while a batch does *)
(* not fit into the socket nothing else runs.                              *)
(***************************************************************************)
EXTENDS Naturals, SequencesExt

CONSTANTS
    Arguments,    \* users and hits as given, is there a duration, and how often
                  \* at most does a user try to open a web socket?
    HighWater,    \* batches the PUSH socket takes before it is full
    MaxTests      \* bound on the tests of one user in a run with a duration

ASSUME LocalAssumption ==
    /\ \A a \in Arguments :
         /\ a.duration \in BOOLEAN
         /\ {a.users, a.hits} \subseteq Seq(Nat \ {0})
         /\ a.users # <<>> /\ a.sockets \in Nat
    /\ HighWater \in Nat \ {0} /\ MaxTests \in Nat

\* A greenlet is known by the cycle it belongs to and its number in it.
Greenlets ==
    UNION {UNION {{<<c, n>> : n \in 0..(a.users[c] - 1)} : c \in DOMAIN a.users} :
           a \in Arguments}

VARIABLES
    args,
    main,         \* where the main greenlet is
    cycle,        \* the index in users it is at
    spawned,      \* users of this cycle it has spawned
    interrupted,  \* main got a KeyboardInterrupt
    user,         \* the greenlet of a user: "none", "running", "ended", with its
                  \* links not called yet, or "done"
    test,         \* the greenlet that calls the test: "none", "idle" or "testing"
    tests,        \* tests it has begun, loads_status[2] in a run with a duration
    sockets,      \* the web sockets its tests opened: of a class of their own?
                  \* "open", "closed" by this end or "dropped" by the other
    links,        \* links to cleanup, one for each create_ws without a class
    pending,      \* _data, reports that wait for a batch
    spinning,     \* a batch does not fit and is tried again and again
    pipe,         \* batches in the PUSH socket
    received      \* what the broker got

vars == <<args, main, cycle, spawned, interrupted, user, test, tests, sockets, links,
          pending, spinning, pipe, received>>
relay == <<pending, spinning, pipe, received>>
greenlets == <<user, test, tests, sockets, links>>
place == <<main, cycle, spawned, interrupted>>

Init ==
    /\ args \in Arguments
    /\ main = "new" /\ cycle = 1 /\ spawned = 0 /\ interrupted = FALSE
    /\ user = [g \in Greenlets |-> "none"]
    /\ test = [g \in Greenlets |-> "none"]
    /\ tests = [g \in Greenlets |-> 0]
    /\ sockets = [g \in Greenlets |-> <<>>]
    /\ links = [g \in Greenlets |-> 0]
    /\ pending = {} /\ spinning = FALSE /\ pipe = <<>> /\ received = {}

Users(c) == {g \in Greenlets : g[1] = c /\ g[2] < args.users[c]}

\* Main waits in a switch, so that other greenlets may run.
Waits == main \in {"new", "spawning", "joined"}

Mut_Switchable == ~spinning

Switchable == ~spinning /\ Waits

-----------------------------------------------------------------------------
(* Reports: the n-th of its type about a greenlet.  A batch is a dict by      *)
(* type, which keeps no order between types.                                *)

Report(type, g, n) == [type |-> type, by |-> g, n |-> n]
OfMain(type) == Report(type, <<>>, 0)
Reports(type, g, numbers) == {Report(type, g, n) : n \in numbers}

Push(reports) == pending' = pending \cup reports

\* The tests of a user in a run with hits: for each hit, so many.
Plan ==
    FlattenSeq([h \in DOMAIN args.hits |->
                  [k \in 1..args.hits[h] |-> <<args.hits[h], k>>]])

\* loads_status: hits, users, current hit and current user.
Status(g, n) ==
    LET users == args.users[g[1]]
    IN IF args.duration THEN <<0, users, n, g[2]>>
       ELSE <<Plan[n][1], users, Plan[n][2], g[2]>>

Mut_Shares == TRUE

\* Tests of a run with hits get a copy of loads_status, those of a run with a
\* duration all get the one list of their greenlet.
Shares == args.duration

OfTest == {"startTest", "stopTest"}

\* A batch is encoded when it is sent: a shared list has its last value.
Encoded(report) ==
    [type |-> report.type, by |-> report.by, n |-> report.n,
     status |-> IF report.type \notin OfTest THEN <<>>
                ELSE Status(report.by, IF Shares THEN tests[report.by] ELSE report.n)]

Batch == {Encoded(report) : report \in pending}

HasRoom == Len(pipe) < HighWater

Sends ==
    /\ pipe' = Append(pipe, Batch)
    /\ pending' = {}

\* _dump_data, every second.
Dump ==
    /\ Switchable /\ pending # {}
    /\ IF HasRoom THEN Sends /\ UNCHANGED spinning
       ELSE spinning' = TRUE /\ UNCHANGED <<pending, pipe>>
    /\ UNCHANGED <<args, place, greenlets, received>>

\* The loop around send: it ends when there is room and does not switch before.
Retry ==
    /\ spinning /\ HasRoom
    /\ Sends
    /\ spinning' = FALSE
    /\ UNCHANGED <<args, place, greenlets, received>>

\* The broker reads a batch.
Receive ==
    /\ pipe # <<>>
    /\ received' = received \cup Head(pipe)
    /\ pipe' = Tail(pipe)
    /\ UNCHANGED <<args, place, greenlets, pending, spinning>>

-----------------------------------------------------------------------------
(* Main. *)

Start ==
    /\ main = "new" /\ Switchable
    /\ main' = "spawning"
    /\ Push({OfMain("startTestRun")})
    /\ UNCHANGED <<args, cycle, spawned, interrupted, greenlets, spinning, pipe, received>>

\* The name of the test does not resolve: execute reports the error, and then
\* closes the relay.
ResolveFails ==
    /\ main = "new" /\ Switchable
    /\ main' = "aborting"
    /\ Push({OfMain("addError")})
    /\ UNCHANGED <<args, cycle, spawned, interrupted, greenlets, spinning, pipe, received>>

\* The test is not a method of a class: the relay is closed before execute
\* reports the error to it, and closing it again raises in its turn.
NoTestClass ==
    /\ main = "new" /\ Switchable
    /\ main' = "failed"
    /\ Push({OfMain("addError")})
    /\ UNCHANGED <<args, cycle, spawned, interrupted, greenlets, spinning, pipe, received>>

\* spawn, and a switch.
SpawnUser ==
    /\ main = "spawning" /\ Switchable
    /\ spawned < args.users[cycle]
    /\ user' = [user EXCEPT ![<<cycle, spawned>>] = "running"]
    /\ test' = [test EXCEPT ![<<cycle, spawned>>] = "idle"]
    /\ spawned' = spawned + 1
    /\ UNCHANGED <<args, main, cycle, interrupted, tests, sockets, links, relay>>

Mut_Joined == \E g \in Users(cycle) : user[g] \in {"ended", "done"}

Joined == \A g \in Users(cycle) : user[g] \in {"ended", "done"}

\* joinall returns; after the last cycle main switches once more.
JoinAll ==
    /\ main = "spawning" /\ Switchable
    /\ spawned = args.users[cycle] /\ Joined
    /\ IF cycle < Len(args.users)
       THEN cycle' = cycle + 1 /\ spawned' = 0 /\ UNCHANGED main
       ELSE main' = "joined" /\ UNCHANGED <<cycle, spawned>>
    /\ UNCHANGED <<args, interrupted, greenlets, relay>>

Mut_OthersRan == TRUE

\* That switch lets the links of ended greenlets be called.
OthersRan == \A g \in Greenlets : user[g] # "ended"

\* stopTestRun, and on to closing the relay without a switch.
StopTestRun ==
    /\ main = "joined" /\ Switchable /\ OthersRan
    /\ main' = "closing"
    /\ Push({OfMain("stopTestRun")})
    /\ UNCHANGED <<args, cycle, spawned, interrupted, greenlets, spinning, pipe, received>>

\* A KeyboardInterrupt while main waits: the relay is closed all the same.
Interrupt ==
    /\ main \in {"spawning", "joined"} /\ Switchable
    /\ main' = "closing" /\ interrupted' = TRUE
    /\ UNCHANGED <<args, cycle, spawned, greenlets, relay>>

\* close sends what is left, and context.destroy waits until it is gone.
CloseDumps ==
    /\ main \in {"closing", "aborting"} /\ pending # {} /\ HasRoom
    /\ Sends
    /\ UNCHANGED <<args, place, greenlets, spinning, received>>

Exit ==
    /\ main \in {"closing", "aborting"} /\ pending = {} /\ pipe = <<>>
    /\ main' = IF main = "closing" THEN "exited" ELSE "failed"
    /\ UNCHANGED <<args, cycle, spawned, interrupted, greenlets, relay>>

-----------------------------------------------------------------------------
(* Users and tests. *)

TestsLeft(g) == tests[g] < (IF args.duration THEN MaxTests ELSE Len(Plan))

StartTest(g) ==
    /\ Switchable /\ test[g] = "idle" /\ TestsLeft(g)
    /\ test' = [test EXCEPT ![g] = "testing"]
    /\ tests' = [tests EXCEPT ![g] = @ + 1]
    /\ Push({Report("startTest", g, tests[g] + 1)})
    /\ UNCHANGED <<args, place, user, sockets, links, spinning, pipe, received>>

\* Results, hits and counters of the test are reported like its stopTest.
FinishTest(g) ==
    /\ Switchable /\ test[g] = "testing"
    /\ test' = [test EXCEPT ![g] = "idle"]
    /\ Push({Report("stopTest", g, tests[g])})
    /\ UNCHANGED <<args, place, user, tests, sockets, links, spinning, pipe, received>>

SocketType == [custom : BOOLEAN, state : {"open", "closed", "dropped"}]

\* Bound: how often the tests of a user call create_ws.
Attempts(g) == links[g] + Cardinality({i \in DOMAIN sockets[g] : sockets[g][i].custom})
MayOpen(g) == Switchable /\ test[g] = "testing" /\ Attempts(g) < args.sockets

Mut_LinkedOnce(g, custom) == IF custom THEN links ELSE [links EXCEPT ![g] = 1]

\* Each call links the greenlet once more.
Linked(g, custom) == IF custom THEN links ELSE [links EXCEPT ![g] = @ + 1]

\* create_ws in a test: the greenlet that called it is linked to cleanup.  A
\* class of the test's own gets no link, and the test connects it.
OpenSocket(g, custom) ==
    /\ MayOpen(g)
    /\ sockets' = [sockets EXCEPT ![g] = Append(@, [custom |-> custom, state |-> "open"])]
    /\ links' = Linked(g, custom)
    /\ Push({Report("socket_open", g, Len(sockets[g]) + 1)})
    /\ UNCHANGED <<args, place, user, test, tests, spinning, pipe, received>>

\* The link is there before connect raises; create_ws then tries again.
ConnectFails(g) ==
    /\ MayOpen(g)
    /\ links' = Linked(g, FALSE)
    /\ UNCHANGED <<args, place, user, test, tests, sockets, relay>>

Becomes(s, S, state) ==
    [i \in DOMAIN s |-> IF i \in S THEN [custom |-> s[i].custom, state |-> state] ELSE s[i]]

\* close, called by a test, or when the other end closes.  Once this end is
\* terminated it has no effect.
CloseSocket(g, i) ==
    /\ Switchable /\ sockets[g][i].state = "open"
    /\ sockets' = [sockets EXCEPT ![g] = Becomes(@, {i}, "closed")]
    /\ Push({Report("socket_close", g, i)})
    /\ UNCHANGED <<args, place, user, test, tests, links, spinning, pipe, received>>

\* The connection breaks: both ends are terminated, and close is not called.
DropSocket(g, i) ==
    /\ Switchable /\ sockets[g][i].state = "open"
    /\ sockets' = [sockets EXCEPT ![g] = Becomes(@, {i}, "dropped")]
    /\ UNCHANGED <<args, place, user, test, tests, links, relay>>

\* A user of a run with hits returns after its last test.
EndUser(g) ==
    /\ Switchable /\ user[g] = "running" /\ ~args.duration
    /\ test[g] = "idle" /\ ~TestsLeft(g)
    /\ user' = [user EXCEPT ![g] = IF links[g] = 0 THEN "done" ELSE "ended"]
    /\ test' = [test EXCEPT ![g] = "none"]
    /\ UNCHANGED <<args, place, tests, sockets, links, relay>>

Mut_JoinEnds(g) == test[g] = "none"

\* gevent.Timeout raises in the greenlet of the user, which waits in join
\* without a timeout; the greenlet it spawned goes on, and has the links.
JoinEnds(g) == user[g] = "running"

DurationOver(g) ==
    /\ Switchable /\ user[g] = "running" /\ args.duration /\ JoinEnds(g)
    /\ user' = [user EXCEPT ![g] = "done"]
    /\ UNCHANGED <<args, place, test, tests, sockets, links, relay>>

\* The sockets cleanup knows that are still open.
Unclosed(g) ==
    {i \in DOMAIN sockets[g] : sockets[g][i].state = "open" /\ ~sockets[g][i].custom}

\* The sockets one call of cleanup closes, the last of them with an exception
\* after it was reported and terminated, or none with one.
Shut(g, last) == {i \in Unclosed(g) : i <= last}

\* A link of a greenlet that ended is called.  An exception ends this call only:
\* the hub goes on with the next link.
Cleanup(g) ==
    /\ Switchable /\ user[g] = "ended"
    /\ links' = [links EXCEPT ![g] = @ - 1]
    /\ user' = [user EXCEPT ![g] = IF links[g] = 1 THEN "done" ELSE "ended"]
    /\ \E last \in DOMAIN sockets[g] \cup {0} :
         /\ last \in Unclosed(g) \/ Unclosed(g) = {}
         /\ sockets' = [sockets EXCEPT ![g] = Becomes(@, Shut(g, last), "closed")]
         /\ Push(Reports("socket_close", g, Shut(g, last)))
    /\ UNCHANGED <<args, place, test, tests, spinning, pipe, received>>

MainStep ==
    \/ Start \/ ResolveFails \/ NoTestClass \/ SpawnUser \/ JoinAll
    \/ StopTestRun \/ Interrupt \/ CloseDumps \/ Exit

UserStep(g) ==
    \/ StartTest(g) \/ FinishTest(g)
    \/ \E custom \in BOOLEAN : OpenSocket(g, custom)
    \/ ConnectFails(g)
    \/ \E i \in DOMAIN sockets[g] : CloseSocket(g, i) \/ DropSocket(g, i)
    \/ EndUser(g) \/ DurationOver(g) \/ Cleanup(g)

Next == Dump \/ Retry \/ Receive \/ MainStep \/ \E g \in Greenlets : UserStep(g)

Spec == Init /\ [][Next]_vars

\* The hub runs every greenlet that is ready and every timer that is due, and
\* the broker reads.  A test ends some day in a run with hits only: nothing
\* else would end it.
FairSpec ==
    /\ Spec
    /\ WF_vars(Start) /\ WF_vars(SpawnUser) /\ WF_vars(JoinAll) /\ WF_vars(StopTestRun)
    /\ WF_vars(CloseDumps) /\ WF_vars(Exit)
    /\ WF_vars(Dump) /\ WF_vars(Retry) /\ WF_vars(Receive)
    /\ \A g \in Greenlets :
         /\ WF_vars(StartTest(g) \/ EndUser(g))
         /\ WF_vars(~args.duration /\ FinishTest(g))
         /\ WF_vars(DurationOver(g)) /\ WF_vars(Cleanup(g))
-----------------------------------------------------------------------------
Types == {"startTestRun", "stopTestRun", "addError", "startTest", "stopTest",
          "socket_open", "socket_close"}

TypeOK ==
    /\ args \in Arguments
    /\ main \in {"new", "aborting", "failed", "spawning", "joined", "closing", "exited"}
    /\ cycle \in DOMAIN args.users /\ spawned \in 0..args.users[cycle]
    /\ {interrupted, spinning} \subseteq BOOLEAN
    /\ user \in [Greenlets -> {"none", "running", "ended", "done"}]
    /\ test \in [Greenlets -> {"none", "idle", "testing"}]
    /\ {tests, links} \subseteq [Greenlets -> Nat]
    /\ \A g \in Greenlets : Range(sockets[g]) \subseteq SocketType
    /\ {report.type : report \in pending \cup received} \subseteq Types
    /\ Len(pipe) <= HighWater

\* "Loads will spawn 10, then 20 then 30 users": the tests under way are those
\* of the current cycle, no more than it has users.
UsersOfCycle ==
    Waits => \A g \in Greenlets : test[g] # "none" => g \in Users(cycle)

\* After stopTestRun the relay sends nothing more: the runner of the client
\* counts an agent as stopped when it sees it (distributed.py).
StopIsLast ==
    \A report \in received : report.type = "stopTestRun" => pipe = <<>> /\ pending = {}

LocalInv == TypeOK /\ StopIsLast

Ended == main = "exited" /\ ~interrupted

Received(type) == {report \in received : report.type = type}

\* Every test of the plan is reported under its own loads_status, and as many as
\* _compute_arguments announced.
Sum(s) == FoldLeft(LAMBDA x, y : x + y, 0, s)
Total == Sum([u \in DOMAIN args.users |->
               Sum([h \in DOMAIN args.hits |-> args.hits[h] * args.users[u]])])
TestsReported ==
    \A type \in OfTest :
      /\ {<<report.by, report.status>> : report \in Received(type)} =
           UNION {{<<g, Status(g, n)>> : n \in 1..Len(Plan)} :
                    g \in UNION {Users(c) : c \in DOMAIN args.users}}
      /\ Cardinality(Received(type)) = Total

\* A socket is left open only if the test brought a class of its own, and each
\* that was closed is reported closed, and no other: not one that broke down.
Told(type) == {<<report.by, report.n>> : report \in Received(type)}
SocketsOf(states) ==
    UNION {{<<g, i>> : i \in {k \in DOMAIN sockets[g] : sockets[g][k].state \in states}} :
             g \in Greenlets}
SocketsClosed ==
    /\ \A g \in Greenlets : Unclosed(g) = {}
    /\ Told("socket_open") = SocketsOf({"open", "closed", "dropped"})
    /\ Told("socket_close") = SocketsOf({"closed"})

\* The report of a run with hits is complete when the runner has exited.
AllReported == Ended /\ ~args.duration => TestsReported /\ SocketsClosed

\* The runner exits: after its tests, or after the duration whatever they do.
RunnerEnds == <>(main \in {"exited", "failed"})

\* "current_hit: the current hit we're running": no two tests of a user are
\* reported under one number.
OwnNumber ==
    \A a, b \in Received("startTest") : a # b => a.status # b.status

\* An error of the runner is reported: refuted for a test without a class.
FailureReported == main = "failed" ~> Received("addError") # {}
=============================================================================
