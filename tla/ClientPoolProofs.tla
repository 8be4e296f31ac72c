-------------------------- MODULE ClientPoolProofs --------------------------
(* Proofs about ClientPool, for any threads, connectors and calls. *)
EXTENDS ClientPool, TLAPS

\* Sets that are always expanded.
USE DEF Clients, Jobs, InExecute

\* A connector in use is no connector of the queue, and one thread uses it.
LEMMA UsedByOne ==
  ASSUME PoolConserved, NEW t \in Threads, using[t] \in Pooled
  PROVE  /\ using[t] \notin free
         /\ \A u \in Threads : using[u] = using[t] => u = t
  BY DEF PoolConserved

\* The job of a thread that is in a call is a job.
LEMMA JobType ==
  ASSUME TypeOK, CallsSound, NEW t \in Threads, pc[t] # "idle"
  PROVE  Job(t) \in Jobs
  BY DEF TypeOK, CallsSound, Job

LEMMA InitInv == Init => PoolIInv
  BY PoolAssumption
  DEF Init, PoolIInv, PoolInv, TypeOK, PoolConserved, PoolIsClean, LockSound,
      SocketsSound, AwaitsAnswer, CallsSound

\* A thread that raises hands on a client that is sound: the pool replaces
\* its own, and the shared one keeps waiting with nobody to receive.
LEMMA FailInv ==
  ASSUME PoolIInv, NEW t \in Threads, pc[t] \in InExecute, Fail(t)
  PROVE  PoolIInv'
<1> USE PoolAssumption DEF PoolIInv, PoolInv
<1>1. using[t] \in Clients
  BY DEF CallsSound, TypeOK
<1>2. TypeOK'
  BY <1>1 DEF Fail, Leave, Goto, Replaced, TypeOK
<1>3. PoolConserved'
  BY <1>1 DEF Fail, Leave, Goto, TypeOK, PoolConserved
<1>4. PoolIsClean'
  BY <1>1 DEF Fail, Leave, Goto, Replaced, TypeOK, PoolIsClean, PoolConserved
<1>5. LockSound'
  BY <1>1 DEF Fail, Leave, Goto, TypeOK, LockSound
<1>6. SocketsSound'
  <2>1. CASE using[t] \in Pooled
    BY <1>1, <2>1, UsedByOne
    DEF Fail, Leave, Goto, Replaced, TypeOK, SocketsSound, AwaitsAnswer, Job
  <2>2. CASE using[t] \notin Pooled
    BY <1>1, <2>2
    DEF Fail, Leave, Goto, TypeOK, SocketsSound, AwaitsAnswer, Job
  <2> QED BY <2>1, <2>2
<1>7. CallsSound'
  BY DEF Fail, Leave, Goto, TypeOK, CallsSound
<1> QED BY <1>2, <1>3, <1>4, <1>5, <1>6, <1>7

LEMMA NextInv == PoolIInv /\ [Next]_vars => PoolIInv'
<1> SUFFICES ASSUME PoolIInv, [Next]_vars PROVE PoolIInv'
  OBVIOUS
<1> USE PoolAssumption DEF PoolIInv, PoolInv
<1>1. ASSUME NEW t \in Threads, Call(t) PROVE PoolIInv'
  <2>1. TypeOK' /\ CallsSound'
    BY <1>1 DEF Call, Goto, clientVars, TypeOK, CallsSound
  <2>2. PoolConserved' /\ PoolIsClean' /\ LockSound'
    BY <1>1 DEF Call, Goto, clientVars, TypeOK, CallsSound, PoolConserved,
                PoolIsClean, LockSound
  <2>3. SocketsSound'
    BY <1>1 DEF Call, Goto, clientVars, TypeOK, CallsSound, SocketsSound,
                AwaitsAnswer, Job
  <2> QED BY <2>1, <2>2, <2>3
<1>2. ASSUME NEW t \in Threads, ClosePool(t) PROVE PoolIInv'
  <2>1. PICK c \in free :
          IF socket[c] = "closed" THEN Replaced(c)
          ELSE socket' = [socket EXCEPT ![c] = "closed"] /\ UNCHANGED <<asked, reply>>
    BY <1>2 DEF ClosePool
  <2>2. UNCHANGED <<lock, free, pc, using, calls>>
    BY <1>2 DEF ClosePool
  <2>3. c \in Pooled /\ \A u \in Threads : using[u] # c
    BY DEF TypeOK, PoolConserved
  <2>4. TypeOK' /\ CallsSound' /\ PoolConserved' /\ LockSound'
    BY <2>1, <2>2, <2>3
    DEF Replaced, TypeOK, CallsSound, PoolConserved, LockSound
  <2>5. PoolIsClean' /\ SocketsSound'
    BY <2>1, <2>2, <2>3
    DEF Replaced, TypeOK, PoolIsClean, SocketsSound, AwaitsAnswer, Job
  <2> QED BY <2>4, <2>5
<1>3. ASSUME NEW t \in Threads, GetConnector(t) PROVE PoolIInv'
  <2>1. PICK c \in free : using' = [using EXCEPT ![t] = c] /\ free' = free \ {c}
    BY <1>3 DEF GetConnector
  <2>2. using[t] = None /\ c \in Pooled /\ \A u \in Threads : using[u] # c
    BY <1>3 DEF GetConnector, TypeOK, CallsSound, PoolConserved
  <2>3. TypeOK' /\ CallsSound'
    BY <1>3, <2>1, <2>2 DEF GetConnector, Goto, clientVars, TypeOK, CallsSound
  <2>4. PoolConserved' /\ PoolIsClean'
    BY <1>3, <2>1, <2>2
    DEF GetConnector, Goto, clientVars, TypeOK, PoolConserved, PoolIsClean
  <2>5. LockSound'
    BY <1>3, <2>1, <2>2 DEF GetConnector, Goto, clientVars, TypeOK, LockSound
  <2>6. SocketsSound'
    BY <1>3, <2>1, <2>2
    DEF GetConnector, Goto, clientVars, TypeOK, PoolIsClean, SocketsSound,
        AwaitsAnswer, Job
  <2> QED BY <2>3, <2>4, <2>5, <2>6
<1>4. ASSUME NEW t \in Threads, NoConnector(t) PROVE PoolIInv'
  BY <1>4
  DEF NoConnector, Goto, clientVars, TypeOK, CallsSound, PoolConserved,
      PoolIsClean, LockSound, SocketsSound, AwaitsAnswer, Job
<1>5. ASSUME NEW t \in Threads, Acquire(t) PROVE PoolIInv'
  <2>1. using[t] \in Clients
    BY <1>5 DEF Acquire, CallsSound, TypeOK
  <2>2. TypeOK' /\ CallsSound' /\ PoolConserved' /\ PoolIsClean'
    BY <1>5, <2>1
    DEF Acquire, Goto, TypeOK, CallsSound, PoolConserved, PoolIsClean
  <2>3. LockSound'
    BY <1>5, <2>1 DEF Acquire, Goto, TypeOK, LockSound
  <2>4. SocketsSound'
    BY <1>5, <2>1 DEF Acquire, Goto, TypeOK, SocketsSound, AwaitsAnswer, Job
  <2> QED BY <2>2, <2>3, <2>4
<1>6. ASSUME NEW t \in Threads, SendJob(t) PROVE PoolIInv'
  <2>1. using[t] \in Clients /\ Job(t) \in Jobs
    BY <1>6, JobType DEF SendJob, CallsSound, TypeOK
  <2>2. TypeOK' /\ CallsSound' /\ PoolConserved'
    BY <1>6, <2>1 DEF SendJob, Goto, TypeOK, CallsSound, PoolConserved
  <2>3. PoolIsClean'
    BY <1>6, <2>1, UsedByOne DEF SendJob, Goto, TypeOK, PoolIsClean
  <2>4. LockSound'
    BY <1>6, <2>1 DEF SendJob, Goto, TypeOK, LockSound
  <2>5. \A u \in Threads : ~AwaitsAnswer(u, using[t])
    BY <1>6, <2>1 DEF SendJob, SocketsSound
  <2>6. SocketsSound'
    BY <1>6, <2>1, <2>5
    DEF SendJob, Goto, TypeOK, PoolConserved, SocketsSound, AwaitsAnswer, Job
  <2> QED BY <2>2, <2>3, <2>4, <2>6
<1>7. ASSUME NEW t \in Threads, SendFails(t) \/ PollTimesOut(t) \/ RaiseError(t)
      PROVE  PoolIInv'
  BY <1>7, FailInv DEF SendFails, PollTimesOut, RaiseError
<1>8. ASSUME NEW t \in Threads, PollAnswered(t) PROVE PoolIInv'
  <2>1. using[t] \in Clients
    BY <1>8 DEF PollAnswered, CallsSound, TypeOK
  <2>2. TypeOK' /\ CallsSound' /\ PoolConserved' /\ PoolIsClean'
    BY <1>8, <2>1
    DEF PollAnswered, Goto, TypeOK, CallsSound, PoolConserved, PoolIsClean
  <2>3. LockSound'
    BY <1>8, <2>1 DEF PollAnswered, Goto, TypeOK, LockSound
  <2>4. SocketsSound'
    BY <1>8, <2>1 DEF PollAnswered, Goto, TypeOK, SocketsSound, AwaitsAnswer, Job
  <2> QED BY <2>2, <2>3, <2>4
<1>9. ASSUME NEW t \in Threads, Recv(t) PROVE PoolIInv'
  <2>1. using[t] \in Clients /\ AwaitsAnswer(t, using[t])
    BY <1>9 DEF Recv, CallsSound, TypeOK, AwaitsAnswer
  <2>2. CASE Fail(t)
    BY <1>9, <2>2, FailInv DEF Recv
  <2>3. CASE ~Fail(t)
    <3>1. /\ reply[using[t]] # None
          /\ reply' = [reply EXCEPT ![using[t]] = None]
          /\ socket' = [socket EXCEPT ![using[t]] = "ready"]
          /\ Goto(t, "answered")
          /\ UNCHANGED <<asked, lock, free, using, calls>>
      BY <1>9, <2>3 DEF Recv
    <3>2. TypeOK' /\ CallsSound' /\ PoolConserved' /\ PoolIsClean'
      BY <1>9, <2>1, <3>1
      DEF Recv, Goto, TypeOK, CallsSound, PoolConserved, PoolIsClean
    <3>3. LockSound'
      BY <1>9, <2>1, <3>1 DEF Recv, Goto, TypeOK, LockSound
    <3>4. asked[using[t]] = None
      BY <2>1, <3>1 DEF SocketsSound
    <3>5. SocketsSound'
      BY <1>9, <2>1, <3>1, <3>4
      DEF Recv, Goto, TypeOK, SocketsSound, AwaitsAnswer, Job
    <3> QED BY <3>2, <3>3, <3>5
  <2> QED BY <2>2, <2>3
<1>10. ASSUME NEW t \in Threads, Return(t) PROVE PoolIInv'
  <2>1. using[t] \in Clients
    BY <1>10 DEF Return, CallsSound, TypeOK
  <2>2. TypeOK' /\ CallsSound' /\ PoolConserved'
    BY <1>10, <2>1
    DEF Return, Leave, Goto, clientVars, TypeOK, CallsSound, PoolConserved
  <2>3. PoolIsClean' /\ LockSound' /\ SocketsSound'
    BY <1>10, <2>1
    DEF Return, Leave, Goto, clientVars, TypeOK, PoolIsClean, LockSound,
        SocketsSound, AwaitsAnswer, Job
  <2> QED BY <2>2, <2>3
<1>11. ASSUME NEW c \in Clients, BrokerAnswers(c) PROVE PoolIInv'
  <2>1. TypeOK' /\ CallsSound' /\ PoolConserved' /\ LockSound'
    BY <1>11 DEF BrokerAnswers, TypeOK, CallsSound, PoolConserved, LockSound
  <2>2. PoolIsClean' /\ SocketsSound'
    BY <1>11
    DEF BrokerAnswers, TypeOK, PoolIsClean, SocketsSound, AwaitsAnswer, Job
  <2> QED BY <2>1, <2>2
<1>12. CASE UNCHANGED vars
  BY <1>12
  DEF vars, clientVars, TypeOK, CallsSound, PoolConserved, PoolIsClean, LockSound,
      SocketsSound, AwaitsAnswer, Job
<1> QED
  BY <1>1, <1>2, <1>3, <1>4, <1>5, <1>6, <1>7, <1>8, <1>9, <1>10, <1>11, <1>12
  DEF Next, Execute

\* The pool is conserved, its queue is clean and the locks are held by those
\* who send or poll, whatever calls raise (Pool._connector, Client._execute).
THEOREM PoolInvariant == Spec => []PoolInv
<1>1. PoolIInv => PoolInv
  BY DEF PoolIInv
<1> QED BY <1>1, InitInv, NextInv, PTL DEF Spec

\* What a thread receives is the answer to its own job (Client._execute).
THEOREM AnswersAlwaysMatch == Spec => AnswersMatch
<1>1. ASSUME PoolIInv, [Next]_vars,
             NEW t \in Threads, pc[t] = "receiving", pc'[t] = "answered"
      PROVE  reply[using[t]] = Job(t)
  <2>1. PICK u \in Threads : Recv(u)
    BY <1>1
    DEF Next, Execute, PoolIInv, PoolInv, TypeOK, vars, Call, ClosePool,
        GetConnector, NoConnector, Acquire, SendJob, SendFails, PollAnswered,
        PollTimesOut, Return, RaiseError, BrokerAnswers, Fail, Leave, Goto
  <2>2. reply[using[t]] # None
    BY <1>1, <2>1 DEF Recv, Fail, Leave, Goto, PoolIInv, PoolInv, TypeOK
  <2> QED
    BY <1>1, <2>2
    DEF PoolIInv, PoolInv, TypeOK, CallsSound, SocketsSound, AwaitsAnswer
<1>2. PoolIInv /\ [Next]_vars =>
        [\A t \in Threads :
           pc[t] = "receiving" /\ pc'[t] = "answered" => reply[using[t]] = Job(t)]_vars
  BY <1>1
<1> QED BY <1>2, InitInv, NextInv, PTL DEF Spec, AnswersMatch
=============================================================================
