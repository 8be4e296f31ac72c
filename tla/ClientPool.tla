----------------------------- MODULE ClientPool -----------------------------
(***************************************************************************)
(* Clients of the broker (src/loads/transport/client.py) and the pool of   *)
(* them.  A Client owns a REQ socket, which must receive after every send, *)
(* and a lock that execute holds while it sends and polls but not while it *)
(* receives.  Threads of Direct share one client; the other threads take   *)
(* theirs from a Pool, which replaces a client whose call raised.          *)
(*                                                                         *)
(* A job is named by its thread and its number; the answer to a job is the *)
(* job.  The order of the connectors in the queue of the pool is left out. *)
(***************************************************************************)
EXTENDS Naturals, FiniteSets

CONSTANTS
    Threads,
    Direct,     \* the threads that use the client Shared
    Pooled,     \* the connectors of the pool
    Shared,
    None,       \* nobody, nothing
    MaxCalls    \* bound on the calls of a thread

Clients == Pooled \cup {Shared}
Jobs == Threads \X (1..MaxCalls)

ASSUME PoolAssumption ==
    /\ Direct \subseteq Threads
    /\ Shared \notin Pooled
    /\ None \notin Threads /\ None \notin Clients /\ None \notin Jobs
    /\ MaxCalls \in Nat

VARIABLES
    socket,   \* the state of the REQ socket of a client
    asked,    \* the job a client sent that the broker has not answered
    reply,    \* the answer in the socket of a client
    lock,     \* the thread that holds the lock of a client
    free,     \* the connectors in the queue of the pool
    pc,       \* where a thread is in execute
    using,    \* the client a thread uses
    calls     \* the calls a thread has made

vars == <<socket, asked, reply, lock, free, pc, using, calls>>
clientVars == <<socket, asked, reply, lock>>

Job(t) == <<t, calls[t]>>

Init ==
    /\ socket = [c \in Clients |-> "ready"]
    /\ asked = [c \in Clients |-> None]
    /\ reply = [c \in Clients |-> None]
    /\ lock = [c \in Clients |-> None]
    /\ free = Pooled
    /\ pc = [t \in Threads |-> "idle"]
    /\ using = [t \in Threads |-> None]
    /\ calls = [t \in Threads |-> 0]

-----------------------------------------------------------------------------
Goto(t, label) == pc' = [pc EXCEPT ![t] = label]

\* _create_client: a client with a socket of its own.
Replaced(c) ==
    /\ socket' = [socket EXCEPT ![c] = "ready"]
    /\ asked' = [asked EXCEPT ![c] = None]
    /\ reply' = [reply EXCEPT ![c] = None]

\* The thread leaves execute, and gives its connector back to the pool.
Leave(t) ==
    /\ Goto(t, "idle")
    /\ using' = [using EXCEPT ![t] = None]
    /\ free' = free \cup ({using[t]} \cap Pooled)

Mut_FailKeepsClient(t) ==
    /\ lock' = [lock EXCEPT ![using[t]] = IF @ = t THEN None ELSE @]
    /\ UNCHANGED <<socket, asked, reply>>
    /\ Leave(t)
    /\ UNCHANGED calls

\* execute raises, and with it the lock is released; the pool replaces the
\* connector, but nobody replaces a client that is used directly.
Fail(t) ==
    /\ lock' = [lock EXCEPT ![using[t]] = IF @ = t THEN None ELSE @]
    /\ IF using[t] \in Pooled THEN Replaced(using[t])
       ELSE UNCHANGED <<socket, asked, reply>>
    /\ Leave(t)
    /\ UNCHANGED calls

-----------------------------------------------------------------------------
Call(t) ==
    /\ pc[t] = "idle" /\ calls[t] < MaxCalls
    /\ calls' = [calls EXCEPT ![t] = @ + 1]
    /\ IF t \in Direct
       THEN Goto(t, "locking") /\ using' = [using EXCEPT ![t] = Shared]
       ELSE Goto(t, "connector") /\ UNCHANGED using
    /\ UNCHANGED <<clientVars, free>>

GetConnector(t) ==
    /\ pc[t] = "connector"
    /\ \E c \in free :
         /\ using' = [using EXCEPT ![t] = c]
         /\ free' = free \ {c}
    /\ Goto(t, "locking")
    /\ UNCHANGED <<clientVars, calls>>

\* The queue stays empty until the timeout: Queue.Empty is raised.
NoConnector(t) ==
    /\ pc[t] = "connector" /\ free = {}
    /\ Goto(t, "idle")
    /\ UNCHANGED <<clientVars, free, using, calls>>

Acquire(t) ==
    /\ pc[t] = "locking" /\ lock[using[t]] = None
    /\ lock' = [lock EXCEPT ![using[t]] = t]
    /\ Goto(t, "sending")
    /\ UNCHANGED <<socket, asked, reply, free, using, calls>>

SendJob(t) ==
    /\ pc[t] = "sending" /\ socket[using[t]] = "ready"
    /\ socket' = [socket EXCEPT ![using[t]] = "waiting"]
    /\ asked' = [asked EXCEPT ![using[t]] = Job(t)]
    /\ Goto(t, "polling")
    /\ UNCHANGED <<reply, lock, free, using, calls>>

Mut_SendGivesUp(t) ==
    /\ pc[t] = "sending"
    /\ Goto(t, "polling")
    /\ UNCHANGED <<clientVars, free, using, calls>>

\* send gives up: the socket still has to receive (EFSM), there is no broker
\* to send to (EAGAIN), or the socket was closed.
SendFails(t) == pc[t] = "sending" /\ Fail(t)

\* The poll ends, and the with statement releases the lock.
PollAnswered(t) ==
    /\ pc[t] = "polling" /\ reply[using[t]] # None
    /\ lock' = [lock EXCEPT ![using[t]] = None]
    /\ Goto(t, "receiving")
    /\ UNCHANGED <<socket, asked, reply, free, using, calls>>

Mut_PollForever(t) == FALSE

PollTimesOut(t) == pc[t] = "polling" /\ reply[using[t]] = None /\ Fail(t)

\* recv, without the lock; it gives up when there is nothing to receive.
Recv(t) ==
    /\ pc[t] = "receiving"
    /\ IF socket[using[t]] = "waiting" /\ reply[using[t]] # None
       THEN /\ reply' = [reply EXCEPT ![using[t]] = None]
            /\ socket' = [socket EXCEPT ![using[t]] = "ready"]
            /\ Goto(t, "answered")
            /\ UNCHANGED <<asked, lock, free, using, calls>>
       ELSE Fail(t)

\* execute returns the result ...
Return(t) ==
    /\ pc[t] = "answered"
    /\ Leave(t)
    /\ UNCHANGED <<clientVars, calls>>

\* ... or raises when the broker answered with an error.
RaiseError(t) == pc[t] = "answered" /\ Fail(t)

\* Pool.close is taken for a method of a client: one connector is closed and
\* put back; closing it again raises, and then it is replaced.
ClosePool(t) ==
    /\ pc[t] = "idle" /\ t \notin Direct
    /\ \E c \in free :
         IF socket[c] = "closed" THEN Replaced(c)
         ELSE /\ socket' = [socket EXCEPT ![c] = "closed"]
              /\ UNCHANGED <<asked, reply>>
    /\ UNCHANGED <<lock, free, pc, using, calls>>

\* The broker answers a job, maybe long after its thread gave up on it.
BrokerAnswers(c) ==
    /\ asked[c] # None
    /\ reply' = [reply EXCEPT ![c] = asked[c]]
    /\ asked' = [asked EXCEPT ![c] = None]
    /\ UNCHANGED <<socket, lock, free, pc, using, calls>>

Execute(t) ==
    \/ GetConnector(t) \/ NoConnector(t) \/ Acquire(t) \/ SendJob(t)
    \/ SendFails(t) \/ PollAnswered(t) \/ PollTimesOut(t) \/ Recv(t)
    \/ Return(t) \/ RaiseError(t)

Next ==
    \/ \E t \in Threads : Call(t) \/ ClosePool(t) \/ Execute(t)
    \/ \E c \in Clients : BrokerAnswers(c)

Spec == Init /\ [][Next]_vars

\* Threads run and timeouts go off; the broker need not answer.
FairSpec == Spec /\ \A t \in Threads : WF_vars(Execute(t))

-----------------------------------------------------------------------------
InExecute == {"locking", "sending", "polling", "receiving", "answered"}

TypeOK ==
    /\ socket \in [Clients -> {"ready", "waiting", "closed"}]
    /\ asked \in [Clients -> Jobs \cup {None}]
    /\ reply \in [Clients -> Jobs \cup {None}]
    /\ lock \in [Clients -> Threads \cup {None}]
    /\ free \subseteq Pooled
    /\ pc \in [Threads -> InExecute \cup {"idle", "connector"}]
    /\ using \in [Threads -> Clients \cup {None}]
    /\ calls \in [Threads -> 0..MaxCalls]

\* Every connector is in the queue of the pool or used by exactly one thread,
\* whatever calls raise: the pool neither drains nor lends a connector twice.
PoolConserved ==
    /\ \A c \in Pooled : c \notin free <=> \E t \in Threads : using[t] = c
    /\ \A t, u \in Threads : using[t] \in Pooled /\ using[u] = using[t] => t = u

\* No connector in the queue waits for an answer or holds an old one, so that
\* its next user can send.
PoolIsClean ==
    \A c \in free : socket[c] # "waiting" /\ asked[c] = None /\ reply[c] = None

\* The lock of a client is held by the one thread that sends or polls on it.
LockSound ==
    \A c \in Clients, t \in Threads :
      lock[c] = t <=> using[t] = c /\ pc[t] \in {"sending", "polling"}

PoolInv == TypeOK /\ PoolConserved /\ PoolIsClean /\ LockSound

\* PoolInv strengthened to be inductive: a socket that waits is one a single
\* thread polls or receives on, or a shared one that thread gave up on, and
\* there is one job under way on it, the job of that thread.
AwaitsAnswer(t, c) == using[t] = c /\ pc[t] \in {"polling", "receiving"}
SocketsSound ==
    /\ \A c \in Clients :
         /\ asked[c] = None \/ reply[c] = None
         /\ socket[c] # "waiting" => asked[c] = None /\ reply[c] = None
    /\ \A c \in Clients, t, u \in Threads :
         AwaitsAnswer(t, c) /\ AwaitsAnswer(u, c) => t = u
    /\ \A c \in Clients, t \in Threads : AwaitsAnswer(t, c) =>
         socket[c] = "waiting" /\ asked[c] \in {Job(t), None} /\ reply[c] \in {Job(t), None}
    /\ \A c \in Pooled, t \in Threads :
         using[t] = c /\ ~AwaitsAnswer(t, c) => socket[c] # "waiting"
CallsSound ==
    \A t \in Threads :
      /\ pc[t] \in InExecute <=> using[t] # None
      /\ pc[t] # "idle" => calls[t] \in 1..MaxCalls
PoolIInv == PoolInv /\ SocketsSound /\ CallsSound

\* What a thread receives is the answer to its own job, also after time-outs
\* and although another thread may take the lock before it receives.
AnswersMatch ==
    [][\A t \in Threads :
         pc[t] = "receiving" /\ pc'[t] = "answered" => reply[using[t]] = Job(t)]_vars

\* Every call returns or raises, also when the broker never answers and while
\* others hold the lock or all the connectors; MaxCalls keeps them from taking
\* the lock again for ever, which threading.Lock does not.
CallsReturn == \A t \in Threads : pc[t] # "idle" ~> pc[t] = "idle"

\* execute: "logged, connector replaced": a call that raised leaves a client
\* the next call can send on.
ReplacedAfterFailure ==
    [][\A t \in Threads :
         pc[t] \in {"sending", "polling"} /\ pc'[t] = "idle" =>
           socket'[using[t]] # "waiting"]_vars
=============================================================================
