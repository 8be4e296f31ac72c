---------------------------- MODULE ClusterProofs ----------------------------
(***************************************************************************)
(* Theorems about BrokerCtrl and Cluster for every set of agents and runs: *)
(* the tables of the controller and the refinement of its board first,     *)
(* then the cluster: fed by real agents the broker takes only steps of     *)
(* BrokerCtrl, agents listen when idle, and without failures a single run  *)
(* is tracked until it is done.                                            *)
(***************************************************************************)
EXTENDS Cluster, SequenceTheorems, TLAPS
-----------------------------------------------------------------------------
(* The controller, whatever its agents answer. *)

\* A handler that sends and publishes nothing has well-formed output.
LEMMA SilenceType == Silence \in [sent : SUBSET Message, published : SUBSET RunIds]
  BY DEF Silence

\* The messages of one handler are well formed.
LEMMA SendType ==
  ASSUME NEW S \in SUBSET Agents, NEW command \in AgentCommands,
         NEW r \in RunIds \cup {NoRun}
  PROVE  Send(S, command, r) \in SUBSET Message
  BY DEF Send, Message

\* Agents that may fail are among those written to.
LEMMA FailingSubset ==
  ASSUME NEW S, NEW failed \in Failing(S)
  PROVE  failed \subseteq S
  BY DEF Failing

\* Dropping entries keeps the types of the two tables.
LEMMA DropType ==
  ASSUME TypeOK, NEW S
  PROVE  /\ DropTimes(S) \in [Agents -> Timers]
         /\ DropRuns(S) \in [Agents -> RunIds \cup {NoRun}]
  BY DEF TypeOK, DropTimes, DropRuns, Timers

\* CtrlInv holds initially.
LEMMA InitInv == Init => CtrlInv
  BY RosterAssumption, CtrlAssumption, SilenceType
  DEF Init, CtrlInv, TypeOK, RunsSound, Timers, Flags

\* Every handler keeps CtrlInv.
LEMMA NextInv == CtrlInv /\ [Next]_ctrlVars => CtrlInv'
<1> SUFFICES ASSUME CtrlInv, [Next]_ctrlVars PROVE CtrlInv'
  OBVIOUS
<1> USE RosterAssumption, CtrlAssumption DEF CtrlInv
<1>1. ASSUME NEW a \in Agents, Register(a) PROVE CtrlInv'
  BY <1>1, SilenceType DEF Register, TypeOK, RunsSound
<1>2. ASSUME NEW a \in Agents, Unregister(a) PROVE CtrlInv'
  BY <1>2, SilenceType, DropType
  DEF Unregister, RemoveAgents, DropRuns, TypeOK, RunsSound
<1>3. ASSUME NEW a \in Agents, Lapse(a) PROVE CtrlInv'
  BY <1>3, SilenceType DEF Lapse, TypeOK, RunsSound, Timers
<1>4. CASE Deregister
  BY <1>4, SilenceType, DropType
  DEF Deregister, RemoveAgents, DropRuns, TypeOK, RunsSound
<1>5. ASSUME NEW num, NotEnoughWorkers(num) \/ ReserveForever(num) PROVE CtrlInv'
  BY <1>5, SilenceType DEF NotEnoughWorkers, ReserveForever, TypeOK, RunsSound
<1>6. ASSUME NEW r \in RunIds, NEW crew \in SUBSET Agents, CtrlRun(r, crew)
      PROVE  CtrlInv'
  <2>1. PICK failed \in Failing(crew) :
          /\ agents' = agents \ failed
          /\ agentTimes' = DropTimes(failed)
          /\ runs' = [a \in Agents |-> IF a \in crew \ failed THEN r ELSE runs[a]]
          /\ out' = [Silence EXCEPT !.sent = Send(crew \ failed, "RUN", r)]
    BY <1>6 DEF CtrlRun
  <2>2. crew \subseteq agents /\ \A a \in crew : runs[a] = NoRun
    BY <1>6 DEF CtrlRun, Fit, Available
  <2>3. failed \subseteq crew
    BY FailingSubset
  <2>4. TypeOK'
    <3>1. Send(crew \ failed, "RUN", r) \in SUBSET Message
      BY SendType DEF AgentCommands
    <3>2. out' \in [sent : SUBSET Message, published : SUBSET RunIds]
      BY <2>1, <3>1, SilenceType DEF Silence
    <3> QED
      BY <1>6, <2>1, <3>2, DropType DEF CtrlRun, TypeOK, Flags
  <2>5. RunsSound'
    \* No agent that serves a run is in failed.
    BY <1>6, <2>1, <2>2, <2>3 DEF CtrlRun, RunsSound, TypeOK
  <2> QED BY <2>4, <2>5
<1>7. ASSUME NEW r \in RunIds, StopRun(r) PROVE CtrlInv'
  <2>1. CASE Serving(r) = {}
    BY <1>7, <2>1, SilenceType
    DEF StopRun, TestEnded, TypeOK, RunsSound, Flags
  <2>2. CASE Serving(r) # {}
    <3>1. PICK failed \in Failing(Serving(r)) :
            /\ RemoveAgents(failed)
            /\ out' = [Silence EXCEPT
                         !.sent = Send(Serving(r) \ failed, "STOP", NoRun)]
      BY <1>7, <2>2 DEF StopRun
    <3>2. Send(Serving(r) \ failed, "STOP", NoRun) \in SUBSET Message
      BY SendType DEF AgentCommands, Serving
    <3>3. out' \in [sent : SUBSET Message, published : SUBSET RunIds]
      BY <3>1, <3>2, SilenceType DEF Silence
    <3> QED
      BY <1>7, <2>2, <3>1, <3>3, DropType
      DEF StopRun, RemoveAgents, DropRuns, TypeOK, RunsSound
  <2> QED BY <2>1, <2>2
<1>8. ASSUME NEW a \in Agents, NEW command \in {"_STATUS", "STOP", "QUIT"},
             AgentCommand(a, command)
      PROVE  CtrlInv'
  <2>1. PICK failed \in Failing({a}) :
          /\ RemoveAgents(failed)
          /\ out' = [Silence EXCEPT !.sent = Send({a} \ failed, command, NoRun)]
    BY <1>8 DEF AgentCommand
  <2>2. Send({a} \ failed, command, NoRun) \in SUBSET Message
    BY SendType DEF AgentCommands
  <2>3. out' \in [sent : SUBSET Message, published : SUBSET RunIds]
    BY <2>1, <2>2, SilenceType DEF Silence
  <2> QED
    BY <1>8, <2>1, <2>3, DropType
    DEF AgentCommand, RemoveAgents, DropRuns, TypeOK, RunsSound
<1>9. ASSUME NEW a \in Agents, NEW running \in BOOLEAN, UpdateStatus(a, running)
      PROVE  CtrlInv'
  <2>1. CASE running
    BY <1>9, <2>1, SilenceType DEF UpdateStatus, TypeOK, RunsSound, Timers
  <2>2. CASE ~running
    <3>1. TerminateRun(a) /\ agents' = agents /\ spinning' = spinning
      BY <1>9, <2>2 DEF UpdateStatus
    <3>2. out' \in [sent : SUBSET Message, published : SUBSET RunIds]
      BY <3>1, SilenceType DEF TerminateRun, Silence, RunFinished, OverWithout
    <3> QED
      BY <3>1, <3>2, DropType
      DEF TerminateRun, TestEnded, OverWithout, DropRuns, TypeOK, RunsSound, Flags
  <2> QED BY <2>1, <2>2
<1>10. ASSUME NEW a \in Agents, NEW r \in RunIds, SaveData(a, r) PROVE CtrlInv'
  BY <1>10, SilenceType DEF SaveData, TypeOK, RunsSound
<1>11. ASSUME NEW seen \in SUBSET Busy, NEW failed \in Failing(seen),
              NEW over \in SUBSET RunIds, Clean(seen, failed, over)
       PROVE  CtrlInv'
  <2> DEFINE stale == {a \in seen : agentTimes[a] = "stale"}
             gone == stale \cup failed
             sent == Send(stale \ failed, "QUIT", NoRun) \cup
                       UNION {Send({a}, "_STATUS", runs[a]) : a \in seen \ gone}
  <2>1. /\ agents' = agents \ failed
        /\ agentTimes' = [a \in Agents |->
             IF a \in gone THEN "none" ELSE InitTimers(seen)[a]]
        /\ runs' = DropRuns(gone)
        /\ TestEnded(over)
        /\ out' = [sent |-> sent, published |-> RunFinished(over)]
        /\ spinning' = spinning
    BY <1>11 DEF Clean
  <2>2. seen \subseteq Agents
    BY DEF Busy
  <2>3. sent \in SUBSET Message
    <3>1. Send(stale \ failed, "QUIT", NoRun) \in SUBSET Message
      BY <2>2, SendType DEF AgentCommands
    <3>2. \A a \in seen \ gone : Send({a}, "_STATUS", runs[a]) \in SUBSET Message
      BY <2>2, SendType DEF AgentCommands, TypeOK
    <3> QED BY <3>1, <3>2
  <2>4. InitTimers(seen) \in [Agents -> Timers]
    BY DEF InitTimers, TypeOK, Timers
  <2>5. TypeOK'
    <3>1. out' \in [sent : SUBSET Message, published : SUBSET RunIds]
      BY <2>1, <2>3 DEF RunFinished
    <3>2. DropRuns(gone) \in [Agents -> RunIds \cup {NoRun}]
      BY DropType
    <3>3. agentTimes' \in [Agents -> Timers]
      BY <2>1, <2>4 DEF Timers
    <3>4. meta' \in [RunIds -> Flags]
      BY <2>1 DEF TestEnded, TypeOK, Flags
    <3> QED BY <2>1, <3>1, <3>2, <3>3, <3>4 DEF TypeOK
  <2>6. RunsSound'
    BY <2>1 DEF TestEnded, DropRuns, TypeOK, RunsSound
  <2> QED BY <2>5, <2>6
<1>12. CASE UNCHANGED ctrlVars
  BY <1>12 DEF ctrlVars, TypeOK, RunsSound
<1>13. CASE Spin
  BY <1>12, <1>13 DEF Spin
<1> QED
  BY <1>1, <1>2, <1>3, <1>4, <1>5, <1>6, <1>7, <1>8, <1>9, <1>10, <1>11, <1>12,
     <1>13 DEF Next, CleanStep

\* Types are kept, and an agent in _runs is registered and serves a run of the
\* database, whatever handlers run in whatever order.
THEOREM CtrlInvariant == Spec => []CtrlInv
  BY InitInv, NextInv, PTL DEF Spec
-----------------------------------------------------------------------------
\* Every handler is a step of the board of runs, or a stutter.
LEMMA NextBoard == CtrlInv /\ [Next]_ctrlVars => [Board!Next]_(Board!vars)
<1> SUFFICES ASSUME CtrlInv, [Next]_ctrlVars PROVE [Board!Next]_(Board!vars)
  OBVIOUS
<1> USE RosterAssumption, CtrlAssumption DEF CtrlInv
<1>1. ASSUME NEW a \in Agents, Register(a) PROVE Board!Next
  <2>1. Board!Join(a)
    BY <1>1 DEF Register, Silence, Board!Join
  <2> QED BY <2>1 DEF Board!Next
\* Whoever is removed from the registry is lost, and nobody else leaves.
<1>2. ASSUME NEW S \in SUBSET Agents, RemoveAgents(S), meta' = meta,
             out'.published = {}
      PROVE  Board!Next
  <2>1. Board!Leave(S, S, {})
    BY <1>2 DEF RemoveAgents, DropRuns, TypeOK, Board!Leave, Board!Crew
  <2> QED BY <2>1 DEF Board!Next
<1>3. ASSUME NEW a \in Agents, Unregister(a) PROVE Board!Next
  BY <1>2, <1>3 DEF Unregister, Silence
<1>4. CASE Deregister
  BY <1>2, <1>4 DEF Deregister, Silence, TypeOK
\* Handlers that touch neither table nor flags are quiet steps.
<1>5. ASSUME agents' = agents, runs' = runs, meta' = meta, out' = Silence
      PROVE  Board!Next
  <2>1. Board!Quiet
    BY <1>5 DEF Silence, Board!Quiet
  <2> QED BY <2>1 DEF Board!Next
<1>6. ASSUME NEW a \in Agents, Lapse(a) PROVE Board!Next
  BY <1>5, <1>6 DEF Lapse
<1>7. ASSUME NEW num, NotEnoughWorkers(num) \/ ReserveForever(num)
      PROVE  Board!Next
  BY <1>5, <1>7 DEF NotEnoughWorkers, ReserveForever
<1>8. ASSUME NEW r \in RunIds, NEW crew \in SUBSET Agents, CtrlRun(r, crew)
      PROVE  Board!Next
  <2>1. PICK failed \in Failing(crew) :
          /\ agents' = agents \ failed
          /\ runs' = [a \in Agents |-> IF a \in crew \ failed THEN r ELSE runs[a]]
          /\ out' = [Silence EXCEPT !.sent = Send(crew \ failed, "RUN", r)]
    BY <1>8 DEF CtrlRun
  <2>2. failed \subseteq crew
    BY FailingSubset
  <2>3. crew \subseteq Board!Idle
    BY <1>8 DEF CtrlRun, Fit, Available, Board!Idle
  <2>4. out'.published = {}
    BY <2>1 DEF Silence
  <2>5. Board!Start(r, crew, failed)
    BY <1>8, <2>1, <2>2, <2>3, <2>4 DEF CtrlRun, Board!Start
  <2> QED BY <2>2, <2>5 DEF Board!Next
<1>9. ASSUME NEW r \in RunIds, StopRun(r) PROVE Board!Next
  <2>1. CASE Serving(r) = {}
    <3>1. Board!ForceEnd(r)
      BY <1>9, <2>1
      DEF StopRun, TestEnded, Silence, TypeOK, Serving, Board!ForceEnd, Board!Crew
    <3> QED BY <3>1 DEF Board!Next
  <2>2. CASE Serving(r) # {}
    <3>1. PICK failed \in Failing(Serving(r)) :
            /\ RemoveAgents(failed)
            /\ out' = [Silence EXCEPT
                         !.sent = Send(Serving(r) \ failed, "STOP", NoRun)]
      BY <1>9, <2>2 DEF StopRun
    <3>2. failed \in SUBSET Agents
      BY FailingSubset DEF Serving
    <3>3. out'.published = {} /\ meta' = meta
      BY <1>9, <2>2, <3>1 DEF StopRun, Silence
    <3> QED BY <1>2, <3>1, <3>2, <3>3
  <2> QED BY <2>1, <2>2
<1>10. ASSUME NEW a \in Agents, NEW command, AgentCommand(a, command)
       PROVE  Board!Next
  <2>1. PICK failed \in Failing({a}) :
          /\ RemoveAgents(failed)
          /\ out' = [Silence EXCEPT !.sent = Send({a} \ failed, command, NoRun)]
    BY <1>10 DEF AgentCommand
  <2>2. failed \in SUBSET Agents
    BY FailingSubset
  <2>3. out'.published = {} /\ meta' = meta
    BY <1>10, <2>1 DEF AgentCommand, Silence
  <2> QED BY <1>2, <2>1, <2>2, <2>3
<1>11. ASSUME NEW a \in Agents, NEW running \in BOOLEAN, UpdateStatus(a, running)
       PROVE  Board!Next
  <2>1. CASE running
    BY <1>5, <1>11, <2>1 DEF UpdateStatus
  <2>2. CASE ~running
    <3>1. TerminateRun(a) /\ agents' = agents
      BY <1>11, <2>2 DEF UpdateStatus
    <3>2. Board!Leave({a}, {}, OverWithout(a))
      BY <3>1
      DEF TerminateRun, TestEnded, RunFinished, OverWithout, DropRuns, Silence,
          Serving, TypeOK, Board!Leave, Board!Crew
    <3>3. {a} \in SUBSET Agents /\ OverWithout(a) \in SUBSET RunIds
      BY DEF OverWithout
    <3> QED BY <3>2, <3>3 DEF Board!Next
  <2> QED BY <2>1, <2>2
\* Data of an agent in _runs changes nothing on the board but a registration.
<1>12. ASSUME NEW a \in Agents, NEW r \in RunIds, SaveData(a, r) PROVE Board!Next
  <2>1. CASE runs[a] = NoRun
    <3>1. Board!Adopt(a, r)
      BY <1>12, <2>1 DEF SaveData, Silence, Board!Adopt
    <3> QED BY <3>1 DEF Board!Next
  <2>2. CASE runs[a] # NoRun
    <3>1. Board!Join(a)
      BY <1>12, <2>2 DEF SaveData, Silence, Board!Join
    <3> QED BY <3>1 DEF Board!Next
  <2> QED BY <2>1, <2>2
<1>13. ASSUME NEW seen \in SUBSET Busy, NEW failed \in Failing(seen),
              NEW over \in SUBSET RunIds, Clean(seen, failed, over)
       PROVE  Board!Next
  <2> DEFINE stale == {a \in seen : agentTimes[a] = "stale"}
             gone == stale \cup failed
             emptied == {r \in RunIds : Serving(r) # {} /\ Serving(r) \subseteq gone}
  <2>1. /\ agents' = agents \ failed
        /\ runs' = DropRuns(gone)
        /\ TestEnded(over)
        /\ out'.published = RunFinished(over)
        /\ over \subseteq {r \in emptied : ~(Serving(r) \subseteq failed)}
        /\ {r \in emptied : Serving(r) \cap failed = {}} \subseteq over
    BY <1>13 DEF Clean
  <2>2. failed \subseteq seen /\ seen \subseteq Agents
    BY FailingSubset DEF Busy
  <2>3. gone \in SUBSET Agents /\ failed \in SUBSET gone
    BY <2>2
  <2>4. \A r \in RunIds :
          LET empty == Board!Crew(r) # {} /\ Board!Crew(r) \subseteq gone
          IN /\ r \in over => empty /\ ~(Board!Crew(r) \subseteq failed)
             /\ empty /\ Board!Crew(r) \cap failed = {} => r \in over
    BY <2>1 DEF Serving, Board!Crew
  <2>5. Board!Leave(gone, failed, over)
    BY <2>1, <2>3, <2>4 DEF TestEnded, DropRuns, RunFinished, Board!Leave
  <2> QED BY <2>3, <2>5 DEF Board!Next
<1>14. CASE UNCHANGED ctrlVars
  BY <1>14 DEF ctrlVars, Board!vars
<1>15. CASE Spin
  BY <1>14, <1>15 DEF Spin
<1> QED
  BY <1>1, <1>3, <1>4, <1>6, <1>7, <1>8, <1>9, <1>10, <1>11, <1>12, <1>13,
     <1>14, <1>15 DEF Next, CleanStep

\* The controller implements the board of runs: agents are taken when idle
\* only, and a run ends exactly when the last of its crew leaves it unlost.
THEOREM CtrlImplementsBoard == Spec => BoardSpec
<1>1. Init => Board!Init
  BY DEF Init, Silence, Board!Init
<1> QED BY <1>1, NextBoard, CtrlInvariant, PTL DEF Spec, BoardSpec, Board!Spec

-----------------------------------------------------------------------------
\* What a step of the board announces is over, and nobody serves it.
LEMMA BoardAnnounced ==
  CtrlInv /\ AnnouncedIsOver /\ [Board!Next]_(Board!vars) => AnnouncedIsOver'
<1> SUFFICES ASSUME CtrlInv, AnnouncedIsOver, [Board!Next]_(Board!vars)
             PROVE  AnnouncedIsOver'
  OBVIOUS
<1> USE RosterAssumption, CtrlAssumption DEF CtrlInv
<1>1. CASE UNCHANGED Board!vars
  BY <1>1 DEF Board!vars, AnnouncedIsOver, Serving
<1>2. ASSUME NEW gone \in SUBSET Agents, NEW lost \in SUBSET gone,
             NEW over \in SUBSET RunIds, Board!Leave(gone, lost, over)
      PROVE  AnnouncedIsOver'
  <2> SUFFICES ASSUME NEW r \in out'.published
               PROVE  meta'[r] = "ended" /\ Serving(r)' = {}
    BY DEF AnnouncedIsOver
  <2>1. r \in over
    BY <1>2 DEF Board!Leave
  <2>2. Board!Crew(r) \subseteq gone
    BY <1>2, <2>1 DEF Board!Leave
  <2>3. meta'[r] = "ended"
    BY <1>2, <2>1 DEF Board!Leave
  <2>4. Serving(r)' = {}
    BY <1>2, <2>1, <2>2 DEF Board!Leave, Board!Crew, Serving
  <2> QED BY <2>3, <2>4
<1>3. ASSUME out'.published = {} PROVE AnnouncedIsOver'
  BY <1>3 DEF AnnouncedIsOver
<1> QED
  BY <1>1, <1>2, <1>3
  DEF Board!Next, Board!Join, Board!Start, Board!Adopt, Board!ForceEnd, Board!Quiet

\* run-finished is never published for a run an agent still serves.
THEOREM AnnouncedRunsAreOver == Spec => []AnnouncedIsOver
<1>1. Init => AnnouncedIsOver
  BY DEF Init, Silence, AnnouncedIsOver
<1> QED BY <1>1, BoardAnnounced, NextBoard, CtrlInvariant, PTL DEF Spec

\* No step moves an agent from one run to another.
LEMMA BoardNoHandover ==
  CtrlInv /\ [Board!Next]_(Board!vars) =>
    \A a \in Agents : runs[a] # NoRun /\ runs'[a] # NoRun => runs'[a] = runs[a]
  BY DEF CtrlInv, TypeOK, Board!vars, Board!Next, Board!Join, Board!Start,
         Board!Idle, Board!Adopt, Board!Leave, Board!ForceEnd, Board!Quiet

\* An agent leaves its run before it serves another.
THEOREM NeverHandedOver == Spec => NoHandover
  BY BoardNoHandover, NextBoard, CtrlInvariant, PTL DEF Spec, NoHandover
-----------------------------------------------------------------------------
(* The cluster: what its agents hold. *)

Answers == {"running", "done"}

\* ClusterTypeOK with queues as sequences.
AgentTypes ==
    /\ up \in [Agents -> {"on", "leaving", "gone"}]
    /\ worker \in [Agents -> [RunIds -> {"none", "running", "exited", "orphan"}]]
    /\ listening \in [Agents -> BOOLEAN] /\ syncDue \in [Agents -> BOOLEAN]
    /\ inbox \in [Agents -> Seq(Commands)]
    /\ replies \in [Agents -> Seq(Answers)]
    /\ reg \in [Agents -> Seq({"REGISTER", "UNREGISTER"})]
    /\ data \in [Agents -> SUBSET RunIds]
    /\ \A a \in Agents : Len(inbox[a]) <= QueueBound /\ Len(replies[a]) <= QueueBound

ClusterIInv == CtrlInv /\ AgentTypes /\ ListensWhenIdle
-----------------------------------------------------------------------------
(* The broker. *)

\* Every step of the cluster is a handler of the broker or leaves it alone.
LEMMA ClusterStepIsCtrlStep == [ClusterNext]_vars => [Next]_ctrlVars
<1> SUFFICES ASSUME ClusterNext PROVE [Next]_ctrlVars
  BY DEF vars, ctrlVars
<1>1. ASSUME NEW a \in Agents, ReceiveReg(a) PROVE Next
  BY <1>1 DEF ReceiveReg, Next
<1>2. ASSUME NEW a \in Agents, ReceiveStatus(a) PROVE Next
  BY <1>2 DEF ReceiveStatus, Next
<1>3. ASSUME NEW a \in Agents, TimeOut(a) PROVE Next
  BY <1>3 DEF TimeOut, Next
<1>4. ASSUME NEW a \in Agents, NEW r \in RunIds, ReceiveData(a, r) PROVE Next
  BY <1>4 DEF ReceiveData, Next
<1>5. ASSUME NEW r \in RunIds, NEW crew \in SUBSET Agents, StartRun(r, crew) PROVE Next
  BY <1>5 DEF StartRun, Sends, Next
<1>6. ASSUME NEW r \in RunIds, StopOneRun(r) PROVE Next
  BY <1>6 DEF StopOneRun, Sends, Next
<1>7. ASSUME NEW a \in Agents, NEW command \in {"_STATUS", "STOP"},
             ClientCommand(a, command)
      PROVE  Next
  BY <1>7 DEF ClientCommand, Sends, Next
<1>8. ASSUME NEW num \in 1..Cardinality(Agents), Refusal(num) PROVE Next
  BY <1>8 DEF Refusal, Next
<1>9. CASE Cleaner
  BY <1>9 DEF Cleaner, Sends, Next
<1>10. CASE BeatDeregisters
  BY <1>10 DEF BeatDeregisters, Sends, Next
<1>11. CASE Spinning
  BY <1>11 DEF Spinning, Next
<1>12. ASSUME NEW a \in Agents, AgentActs(a) PROVE UNCHANGED ctrlVars
  BY <1>12 DEF AgentActs
<1> QED
  BY <1>1, <1>2, <1>3, <1>4, <1>5, <1>6, <1>7, <1>8, <1>9, <1>10, <1>11, <1>12
  DEF ClusterNext

\* What agents send, in whatever order it arrives, is among the inputs that
\* BrokerCtrl chooses freely.
LEMMA ClusterRunsCtrl == ClusterSpec => Spec
  BY ClusterStepIsCtrlStep, PTL DEF ClusterSpec, ClusterInit, Spec

\* What is proved of the controller is true of the broker with its agents: its
\* tables agree, only runs that are over are announced, no agent is handed
\* over, and it keeps the promises of the board of runs.
THEOREM ClusterKeepsBoard ==
  ClusterSpec => []CtrlInv /\ []AnnouncedIsOver /\ NoHandover /\ BoardSpec
  BY ClusterRunsCtrl, CtrlInvariant, AnnouncedRunsAreOver, NeverHandedOver,
     CtrlImplementsBoard, PTL
-----------------------------------------------------------------------------
(* The agents. *)

\* A queue that is read keeps its type, and gets shorter.
LEMMA TailOfQueue ==
  ASSUME NEW S, NEW q \in [Agents -> Seq(S)], NEW a \in Agents, q[a] # <<>>
  PROVE  /\ Head(q[a]) \in S
         /\ Len(q[a]) > 0
         /\ [q EXCEPT ![a] = Tail(@)] \in [Agents -> Seq(S)]
         /\ Len(Tail(q[a])) = Len(q[a]) - 1
  BY HeadTailProperties

\* A queue that is written to keeps its type, and gets longer.
LEMMA AppendToQueue ==
  ASSUME NEW S, NEW q \in [Agents -> Seq(S)], NEW a \in Agents, NEW e \in S
  PROVE  /\ [q EXCEPT ![a] = Append(@, e)] \in [Agents -> Seq(S)]
         /\ Len(Append(q[a], e)) = Len(q[a]) + 1
  BY AppendProperties

\* An agent that takes a command or replies keeps within its queues.
LEMMA TakesType ==
  ASSUME AgentTypes, NEW a \in Agents, NEW command, Takes(a, command)
  PROVE  /\ Head(inbox[a]) \in Commands
         /\ inbox' \in [Agents -> Seq(Commands)]
         /\ \A b \in Agents : Len(inbox'[b]) <= QueueBound
  BY AgentAssumption, TailOfQueue DEF Takes, AgentTypes

LEMMA ReplyType ==
  ASSUME AgentTypes, NEW a \in Agents, NEW running \in BOOLEAN, Reply(a, running)
  PROVE  /\ replies' \in [Agents -> Seq(Answers)]
         /\ \A b \in Agents : Len(replies'[b]) <= QueueBound
<1>1. (IF running THEN "running" ELSE "done") \in Answers
  BY DEF Answers
<1> QED BY <1>1, AgentAssumption, AppendToQueue DEF Reply, AgentTypes

\* An agent that is gone keeps no queue of commands.
LEMMA DieType ==
  ASSUME AgentTypes, ListensWhenIdle, NEW a \in Agents, Die(a),
         UNCHANGED <<replies, reg, data>>
  PROVE  AgentTypes' /\ ListensWhenIdle'
<1>1. inbox' \in [Agents -> Seq(Commands)] /\ \A b \in Agents : Len(inbox'[b]) <= QueueBound
  BY AgentAssumption DEF Die, AgentTypes
<1>2. worker' \in [Agents -> [RunIds -> {"none", "running", "exited", "orphan"}]]
  BY DEF Die, AgentTypes
<1>3. AgentTypes'
  BY <1>1, <1>2 DEF Die, AgentTypes
<1>4. ListensWhenIdle'
  BY DEF Die, AgentTypes, ListensWhenIdle, Alive
<1> QED BY <1>3, <1>4

\* No step of an agent breaks its types, or leaves it deaf while it is idle.
LEMMA AgentKeepsSound ==
  ASSUME AgentTypes, ListensWhenIdle, NEW a \in Agents, AgentStep(a)
  PROVE  AgentTypes' /\ ListensWhenIdle'
<1> USE AgentAssumption
<1>1. CASE HandleRun(a)
  <2>1. Takes(a, "RUN")
    BY <1>1 DEF HandleRun
  <2>2. Head(inbox[a]) \in Commands
    BY <2>1, TakesType
  <2>3. worker' \in [Agents -> [RunIds -> {"none", "running", "exited", "orphan"}]]
    BY <1>1, <2>2 DEF HandleRun, AgentTypes
  <2>4. AgentTypes'
    BY <1>1, <2>1, <2>3, TakesType DEF HandleRun, SyncHeartbeat, AgentTypes
  <2>5. ListensWhenIdle'
    BY <1>1 DEF HandleRun, SyncHeartbeat, AgentTypes, ListensWhenIdle, Alive
  <2> QED BY <2>4, <2>5
<1>2. CASE HandleRunFails(a)
  BY <1>2, TakesType DEF HandleRunFails, AgentTypes, ListensWhenIdle, Alive
<1>3. CASE HandleStatus(a)
  BY <1>3, TakesType, ReplyType
  DEF HandleStatus, StatusRunning, AgentTypes, ListensWhenIdle, Alive
<1>4. CASE HandleStop(a)
  <2>1. worker' \in [Agents -> [RunIds -> {"none", "running", "exited", "orphan"}]]
    BY <1>4 DEF HandleStop, AgentTypes
  <2>2. AgentTypes'
    BY <1>4, <2>1, TakesType, ReplyType DEF HandleStop, AgentTypes
  <2>3. ListensWhenIdle'
    BY <1>4 DEF HandleStop, AgentTypes, ListensWhenIdle, Alive
  <2> QED BY <2>2, <2>3
<1>5. CASE RefuseQuit(a)
  BY <1>5, TakesType, ReplyType
  DEF RefuseQuit, StatusRunning, AgentTypes, ListensWhenIdle, Alive
<1>6. CASE Quit(a) \/ Lost(a) \/ StopTimer(a) \/ Crash(a)
  BY <1>6, DieType DEF Quit, Lost, StopTimer, Crash
<1>7. CASE SyncCallback(a)
  BY <1>7 DEF SyncCallback, SyncHeartbeat, AgentTypes, ListensWhenIdle, Alive
<1>8. CASE CheckProc(a)
  <2>1. worker' \in [Agents -> [RunIds -> {"none", "running", "exited", "orphan"}]]
    BY <1>8 DEF CheckProc, AgentTypes
  <2>2. AgentTypes'
    BY <1>8, <2>1 DEF CheckProc, SyncHeartbeat, AgentTypes
  <2>3. ListensWhenIdle'
    BY <1>8 DEF CheckProc, SyncHeartbeat, AgentTypes, ListensWhenIdle, Alive
  <2> QED BY <2>2, <2>3
<1>9. CASE Beat(a)
  BY <1>9, AppendToQueue DEF Beat, AgentTypes, ListensWhenIdle, Alive
<1>10. CASE Stop(a)
  BY <1>10, AppendToQueue DEF Stop, AgentTypes, ListensWhenIdle, Alive
\* A process that ends makes no agent busy or idle: it stays in _workers if it
\* was there.
<1>11. ASSUME NEW r \in RunIds, NEW state \in {"none", "exited"},
              worker[a][r] \in {"running", "orphan"},
              state = "exited" <=> worker[a][r] = "running",
              worker' = [worker EXCEPT ![a][r] = state],
              UNCHANGED <<up, listening, syncDue, inbox, replies, reg, data>>
       PROVE  AgentTypes' /\ ListensWhenIdle'
  <2>1. worker' \in [Agents -> [RunIds -> {"none", "running", "exited", "orphan"}]]
    BY <1>11 DEF AgentTypes
  <2>2. AgentTypes'
    BY <1>11, <2>1 DEF AgentTypes
  <2>3. \A b \in Agents, s \in RunIds : InWorkers(worker'[b], s) <=> InWorkers(worker[b], s)
    BY <1>11 DEF AgentTypes, InWorkers
  <2>4. ListensWhenIdle'
    BY <1>11, <2>3 DEF ListensWhenIdle, BusyAgent, Alive
  <2> QED BY <2>2, <2>4
<1>13. ASSUME NEW r \in RunIds, KillWorker(a, r) PROVE AgentTypes' /\ ListensWhenIdle'
  BY <1>11, <1>13 DEF KillWorker
<1>14. ASSUME NEW r \in RunIds, WorkerExit(a, r) PROVE AgentTypes' /\ ListensWhenIdle'
  BY <1>11, <1>14 DEF WorkerExit
<1>12. ASSUME NEW r \in RunIds, WorkerPush(a, r) PROVE AgentTypes' /\ ListensWhenIdle'
  BY <1>12 DEF WorkerPush, AgentTypes, ListensWhenIdle, Alive
<1> QED
  BY <1>1, <1>2, <1>3, <1>4, <1>5, <1>6, <1>7, <1>8, <1>9, <1>10, <1>12, <1>13,
     <1>14
  DEF AgentStep, Handle

\* What the broker sends finds room in the queues of the agents.
LEMMA DeliverType ==
  ASSUME AgentTypes, out' \in [sent : SUBSET Message, published : SUBSET RunIds],
         \A m \in out'.sent : Len(inbox[m.to]) < QueueBound, Deliver
  PROVE  /\ inbox' \in [Agents -> Seq(Commands)]
         /\ \A a \in Agents : Len(inbox'[a]) <= QueueBound
<1> SUFFICES ASSUME NEW a \in Agents
             PROVE  inbox'[a] \in Seq(Commands) /\ Len(inbox'[a]) <= QueueBound
  BY DEF Deliver
<1> DEFINE new == {m \in out'.sent : m.to = a}
<1>1. inbox[a] \in Seq(Commands) /\ Len(inbox[a]) <= QueueBound
  BY DEF AgentTypes
<1>2. CASE new = {} \/ ~Alive(a)
  BY <1>1, <1>2 DEF Deliver
<1>3. CASE ~(new = {} \/ ~Alive(a))
  <2> DEFINE m == CHOOSE m \in new : TRUE
             c == [command |-> m.command, run |-> m.run]
  <2>1. m \in new
    BY <1>3
  <2>2. m \in Message /\ Len(inbox[a]) < QueueBound
    BY <2>1
  <2>3. c \in Commands
    BY <2>2 DEF Message, Commands, AgentCommands
  <2>4. inbox'[a] = Append(inbox[a], c)
    BY <1>3 DEF Deliver
  <2>5. Append(inbox[a], c) \in Seq(Commands) /\ Len(Append(inbox[a], c)) = Len(inbox[a]) + 1
    BY <1>1, <2>3, AppendProperties
  <2>6. Len(inbox[a]) \in Nat
    BY <1>1, LenProperties
  <2> HIDE DEF c
  <2> QED BY <2>2, <2>4, <2>5, <2>6, AgentAssumption
<1> QED BY <1>2, <1>3

\* clean writes only to agents that serve a run.
LEMMA CleanWritesToBusy ==
  ASSUME CleanStep
  PROVE  \A m \in out'.sent : m.to \in Busy
<1> SUFFICES ASSUME NEW m \in out'.sent PROVE m.to \in Busy
  OBVIOUS
<1>1. PICK seen \in SUBSET Busy :
        \E failed \in Failing(seen), over \in SUBSET RunIds : Clean(seen, failed, over)
  BY DEF CleanStep
<1>5. PICK failed \in Failing(seen), over \in SUBSET RunIds : Clean(seen, failed, over)
  BY <1>1
<1> DEFINE stale == {a \in seen : agentTimes[a] = "stale"}
           gone == stale \cup failed
<1>2. out'.sent = Send(stale \ failed, "QUIT", NoRun) \cup
                    UNION {Send({a}, "_STATUS", runs[a]) : a \in seen \ gone}
  BY <1>5 DEF Clean
<1>3. CASE m \in Send(stale \ failed, "QUIT", NoRun)
  BY <1>3 DEF Send
<1>4. ASSUME NEW a \in seen \ gone, m \in Send({a}, "_STATUS", runs[a])
      PROVE  m.to \in Busy
  BY <1>4 DEF Send
<1> QED BY <1>2, <1>3, <1>4

\* A handler that writes to the agents leaves them sound.
LEMMA SendsKeepsSound ==
  ASSUME AgentTypes, ListensWhenIdle, CtrlInv', Deliver,
         UNCHANGED <<up, worker, listening, syncDue, replies, reg, data>>,
         \A m \in out'.sent : Len(inbox[m.to]) < QueueBound
  PROVE  AgentTypes' /\ ListensWhenIdle'
<1>1. out' \in [sent : SUBSET Message, published : SUBSET RunIds]
  BY DEF CtrlInv, TypeOK
<1>2. /\ inbox' \in [Agents -> Seq(Commands)]
      /\ \A a \in Agents : Len(inbox'[a]) <= QueueBound
  BY <1>1, DeliverType
<1> QED BY <1>2 DEF AgentTypes, ListensWhenIdle, Alive

\* Initially agents are up, idle and about to register.
LEMMA ClusterInitSound == ClusterInit => ClusterIInv
<1> SUFFICES ASSUME ClusterInit PROVE ClusterIInv
  OBVIOUS
<1>1. CtrlInv
  BY InitInv DEF ClusterInit
<1>2. AgentTypes
  <2>1. <<"REGISTER">> \in Seq({"REGISTER", "UNREGISTER"})
    OBVIOUS
  <2>2. /\ [a \in Agents |-> <<>>] \in [Agents -> Seq(Commands)]
        /\ [a \in Agents |-> <<>>] \in [Agents -> Seq(Answers)]
        /\ Len(<<>>) = 0
    OBVIOUS
  <2> QED
    BY <2>1, <2>2, AgentAssumption DEF ClusterInit, AgentInit, AgentTypes
<1>3. ListensWhenIdle
  BY DEF ClusterInit, AgentInit, ListensWhenIdle, BusyAgent, InWorkers
<1> QED BY <1>1, <1>2, <1>3 DEF ClusterIInv

\* Every step keeps the invariant.
LEMMA ClusterNextSound == ClusterIInv /\ [ClusterNext]_vars => ClusterIInv'
<1> SUFFICES ASSUME ClusterIInv, [ClusterNext]_vars PROVE ClusterIInv'
  OBVIOUS
<1> USE AgentAssumption
<1>1. CtrlInv /\ AgentTypes /\ ListensWhenIdle
  BY DEF ClusterIInv
<1>2. CtrlInv'
  BY <1>1, ClusterStepIsCtrlStep, NextInv
<1>3. out' \in [sent : SUBSET Message, published : SUBSET RunIds]
  BY <1>2 DEF CtrlInv, TypeOK
<1> SUFFICES AgentTypes' /\ ListensWhenIdle'
  BY <1>2 DEF ClusterIInv
\* Room, for all the agents a handler may write to.
<1>4. ASSUME Room, Deliver, UNCHANGED <<up, worker, listening, syncDue, replies, reg, data>>
      PROVE  AgentTypes' /\ ListensWhenIdle'
  <2>1. \A m \in out'.sent : Len(inbox[m.to]) < QueueBound
    BY <1>3, <1>4 DEF Room, Message
  <2> QED BY <1>1, <1>2, <1>4, <2>1, SendsKeepsSound
<1>5. ASSUME NEW a \in Agents, ReceiveReg(a) PROVE AgentTypes' /\ ListensWhenIdle'
  BY <1>1, <1>5, TailOfQueue DEF ReceiveReg, AgentTypes, ListensWhenIdle, Alive
<1>6. ASSUME NEW a \in Agents, ReceiveStatus(a) PROVE AgentTypes' /\ ListensWhenIdle'
  BY <1>1, <1>6, TailOfQueue DEF ReceiveStatus, AgentTypes, ListensWhenIdle, Alive
<1>7. ASSUME NEW a \in Agents, NEW r \in RunIds, ReceiveData(a, r)
      PROVE  AgentTypes' /\ ListensWhenIdle'
  BY <1>1, <1>7 DEF ReceiveData, AgentTypes, ListensWhenIdle, Alive
<1>8. ASSUME NEW r \in RunIds, NEW crew \in SUBSET Agents, StartRun(r, crew)
      PROVE  AgentTypes' /\ ListensWhenIdle'
  BY <1>4, <1>8 DEF StartRun, Sends
<1>9. ASSUME NEW r \in RunIds, StopOneRun(r) PROVE AgentTypes' /\ ListensWhenIdle'
  BY <1>4, <1>9 DEF StopOneRun, Sends
<1>10. ASSUME NEW a \in Agents, NEW command, ClientCommand(a, command)
       PROVE  AgentTypes' /\ ListensWhenIdle'
  BY <1>4, <1>10 DEF ClientCommand, Sends
<1>11. CASE Cleaner
  <2>1. /\ PollRoom /\ CleanStep /\ Deliver
        /\ UNCHANGED <<up, worker, listening, syncDue, replies, reg, data>>
    BY <1>11 DEF Cleaner, Sends
  <2>2. \A m \in out'.sent : Len(inbox[m.to]) < QueueBound
    <3> SUFFICES ASSUME NEW m \in out'.sent PROVE Len(inbox[m.to]) < QueueBound
      OBVIOUS
    <3>1. m.to \in Busy /\ m.to \in Agents
      BY <2>1, CleanWritesToBusy DEF Busy
    <3>2. Len(inbox[m.to]) \in Nat
      BY <1>1, <3>1, LenProperties DEF AgentTypes
    <3> QED BY <2>1, <3>1, <3>2 DEF PollRoom
  <2> QED BY <1>1, <1>2, <2>1, <2>2, SendsKeepsSound
<1>12. CASE BeatDeregisters
  <2>1. /\ Deliver /\ out'.sent = {}
        /\ UNCHANGED <<up, worker, listening, syncDue, replies, reg, data>>
    BY <1>12 DEF BeatDeregisters, Sends, Deregister, Silence
  <2> QED BY <1>1, <1>2, <2>1, SendsKeepsSound
<1>13. CASE UNCHANGED agentVars
  BY <1>1, <1>13 DEF agentVars, AgentTypes, ListensWhenIdle, Alive
<1>14. ASSUME NEW a \in Agents, AgentActs(a) PROVE AgentTypes' /\ ListensWhenIdle'
  BY <1>1, <1>14, AgentKeepsSound DEF AgentActs
<1> QED
  BY <1>5, <1>6, <1>7, <1>8, <1>9, <1>10, <1>11, <1>12, <1>13, <1>14
  DEF ClusterNext, TimeOut, Refusal, Spinning, vars

\* Agents are well formed, their queues keep to the bound, and an idle agent
\* listens to the heartbeat, so that it is able to register again.
THEOREM AgentsStaySound == ClusterSpec => []AgentsSound
<1>1. ClusterIInv => AgentsSound
  <2> SUFFICES ASSUME ClusterIInv PROVE ClusterTypeOK
    BY DEF AgentsSound, ClusterIInv
  <2> SUFFICES ASSUME NEW a \in Agents
               PROVE  /\ \A i \in 1..Len(inbox[a]) : inbox[a][i] \in Commands
                      /\ \A i \in 1..Len(replies[a]) : replies[a][i] \in {"running", "done"}
                      /\ \A i \in 1..Len(reg[a]) : reg[a][i] \in {"REGISTER", "UNREGISTER"}
                      /\ data[a] \subseteq RunIds
    BY DEF ClusterIInv, AgentTypes, ClusterTypeOK
  <2> QED BY ElementOfSeq DEF ClusterIInv, AgentTypes, Answers
<1> QED BY <1>1, ClusterInitSound, ClusterNextSound, PTL DEF ClusterSpec
-----------------------------------------------------------------------------
(* One run that nothing disturbs but crashes: no heartbeat that deregisters,  *)
(* no retirement, no live agent that is silent for too long, no send that     *)
(* fails and no command but CTRL_STOP_RUN.  Each of them breaks what follows. *)
Calm ==
    /\ ~Heartbeat /\ ~HasMaxAge /\ ~SlowAgents /\ ~SendFailures
    /\ ClientCommands = {}
    /\ \A r, s \in RunIds : r = s

\* A run that was not started has sent nothing.
QuietBefore ==
    \A r \in RunIds, a \in Agents :
      meta[r] = "absent" => inbox[a] = <<>> /\ replies[a] = <<>>

\* Nobody is told to quit, unregisters, or times out but the dead.
NobodyLeaves ==
    \A a \in Agents :
      /\ ~listening[a]
      /\ ~Alive(a) => inbox[a] = <<>>
      /\ agentTimes[a] = "stale" => ~Alive(a)
      /\ \A i \in 1..Len(reg[a]) : reg[a][i] = "REGISTER"
      /\ \A i \in 1..Len(inbox[a]) : inbox[a][i].command # "QUIT"

\* RUN is the first command an agent gets, and it has not answered any before.
RunIsFirst ==
    \A a \in Agents : \A i \in 1..Len(inbox[a]) :
      inbox[a][i].command = "RUN" => i = 1 /\ replies[a] = <<>>

\* An agent with work is counted on, and has not said that it is done.
WorkIsNotDenied ==
    \A a \in Agents, r \in RunIds :
      Alive(a) /\ Launched(a, r) =>
        /\ runs[a] = r
        /\ \A i \in 1..Len(replies[a]) : replies[a][i] = "running"

CalmInv == QuietBefore /\ NobodyLeaves /\ RunIsFirst /\ WorkIsNotDenied
CalmIInv == ClusterIInv /\ CalmInv

\* Taking a command leaves the others, and no RUN.
LEMMA CalmTakes ==
  ASSUME CalmIInv, NEW a \in Agents, NEW command, Takes(a, command)
  PROVE  /\ Alive(a)
         /\ \A b \in Agents \ {a} : inbox'[b] = inbox[b]
         /\ \A i \in 1..Len(inbox'[a]) :
              inbox'[a][i].command \notin {"RUN", "QUIT"}
         /\ inbox[a] # <<>> /\ inbox[a][1].command = command /\ 1 \in 1..Len(inbox[a])
         /\ Head(inbox[a]) = inbox[a][1] /\ inbox[a][1] \in Commands
<1> DEFINE q == inbox[a]
<1>1. q \in Seq(Commands) /\ q # <<>> /\ Head(q).command = command /\ Alive(a)
      /\ inbox' = [inbox EXCEPT ![a] = Tail(q)]
  BY DEF Takes, CalmIInv, ClusterIInv, AgentTypes
<1>2. inbox'[a] = Tail(q) /\ \A b \in Agents \ {a} : inbox'[b] = inbox[b]
  BY <1>1 DEF CalmIInv, ClusterIInv, AgentTypes
<1>3. /\ Len(Tail(q)) = Len(q) - 1 /\ Len(q) \in Nat
      /\ \A i \in 1..Len(Tail(q)) : Tail(q)[i] = q[i+1]
      /\ Head(q) = q[1] /\ 1 \in 1..Len(q) /\ q[1] \in Commands
  BY <1>1, HeadTailProperties
<1>4. ASSUME NEW i \in 1..Len(Tail(q)) PROVE Tail(q)[i].command \notin {"RUN", "QUIT"}
  <2>1. i + 1 \in 1..Len(q) /\ i + 1 # 1
    BY <1>3
  <2>2. q[i+1].command # "RUN" /\ q[i+1].command # "QUIT"
    BY <2>1 DEF CalmIInv, CalmInv, RunIsFirst, NobodyLeaves
  <2> QED BY <1>3, <2>2
<1> QED BY <1>1, <1>2, <1>3, <1>4

\* An answer is "done" only when no worker runs.
LEMMA CalmReply ==
  ASSUME CalmIInv, NEW a \in Agents, NEW running \in BOOLEAN, Reply(a, running)
  PROVE  /\ \A b \in Agents \ {a} : replies'[b] = replies[b]
         /\ running => \A i \in 1..Len(replies'[a]) :
              (i \in 1..Len(replies[a]) /\ replies'[a][i] = replies[a][i])
                \/ replies'[a][i] = "running"
<1>1. /\ replies[a] \in Seq(Answers)
      /\ replies' = [replies EXCEPT ![a] = Append(@, IF running THEN "running" ELSE "done")]
  BY DEF Reply, CalmIInv, ClusterIInv, AgentTypes
<1>2. \A b \in Agents \ {a} : replies'[b] = replies[b]
  BY <1>1 DEF CalmIInv, ClusterIInv, AgentTypes
<1>3. ASSUME running, NEW i \in 1..Len(replies'[a])
      PROVE  (i \in 1..Len(replies[a]) /\ replies'[a][i] = replies[a][i])
               \/ replies'[a][i] = "running"
  <2>1. replies'[a] = Append(replies[a], "running")
    BY <1>1, <1>3 DEF CalmIInv, ClusterIInv, AgentTypes
  <2>2. /\ Len(Append(replies[a], "running")) = Len(replies[a]) + 1
        /\ \A j \in 1..Len(replies[a]) : Append(replies[a], "running")[j] = replies[a][j]
        /\ Append(replies[a], "running")[Len(replies[a]) + 1] = "running"
        /\ Len(replies[a]) \in Nat
    BY <1>1, AppendProperties, LenProperties DEF Answers
  <2> QED BY <2>1, <2>2
<1> QED BY <1>2, <1>3

\* What an agent and its workers do denies no work.
LEMMA CalmAgentStep ==
  ASSUME Calm, CalmIInv, NEW a \in Agents, AgentStep(a), UNCHANGED ctrlVars
  PROVE  CalmInv'
<1> USE DEF CalmIInv, CalmInv
<1>0. AgentTypes /\ CtrlInv
  BY DEF ClusterIInv
<1>1. UNCHANGED <<agents, agentTimes, runs, meta>>
  BY DEF ctrlVars
\* An agent that takes a command is alive, and the command is not QUIT.
<1>2. ~(Quit(a) \/ RefuseQuit(a) \/ Beat(a) \/ Lost(a) \/ Stop(a))
  <2>1. ~(Beat(a) \/ Lost(a) \/ Stop(a))
    BY DEF Calm, Beat, Lost, Stop, NobodyLeaves
  <2>2. ~RefuseQuit(a)
    BY CalmTakes DEF RefuseQuit, NobodyLeaves
  <2>3. ~Quit(a)
    <3> SUFFICES ASSUME Quit(a) PROVE FALSE
      OBVIOUS
    <3>1. inbox[a] \in Seq(Commands) /\ inbox[a] # <<>> /\ Head(inbox[a]).command = "QUIT"
      BY <1>0 DEF Quit, AgentTypes
    <3>2. 1 \in 1..Len(inbox[a]) /\ Head(inbox[a]) = inbox[a][1]
      BY <3>1
    <3> QED BY <3>1, <3>2 DEF NobodyLeaves
  <2> QED BY <2>1, <2>2, <2>3
<1>3. CASE HandleRun(a)
  <2>1. Takes(a, "RUN") /\ UNCHANGED <<up, syncDue, replies, reg, data>>
    BY <1>3 DEF HandleRun
  <2>2. replies[a] = <<>>
    BY <2>1, CalmTakes DEF RunIsFirst
  <2>3. /\ ~listening'[a] /\ \A b \in Agents \ {a} : listening'[b] = listening[b]
        /\ \A b \in Agents \ {a} : worker'[b] = worker[b]
    BY <1>0, <1>3 DEF HandleRun, SyncHeartbeat, AgentTypes, Calm
  <2>4. QuietBefore'
    BY <1>1, <2>1, CalmTakes DEF QuietBefore
  <2>5. NobodyLeaves'
    BY <1>1, <2>1, <2>3, CalmTakes DEF NobodyLeaves, Alive
  <2>6. RunIsFirst'
    BY <2>1, CalmTakes DEF RunIsFirst
  <2>7. WorkIsNotDenied'
    <3> SUFFICES ASSUME NEW b \in Agents, NEW r \in RunIds, Alive(b)', Launched(b, r)'
                 PROVE  /\ runs[b] = r
                        /\ \A i \in 1..Len(replies[b]) : replies[b][i] = "running"
      BY <1>1, <2>1 DEF WorkIsNotDenied
    <3>1. CASE b # a
      BY <2>1, <2>3, <3>1, CalmTakes DEF WorkIsNotDenied, Launched, Alive
    <3>2. CASE b = a
      \* The command taken is the RUN of the only run.
      <4>1. inbox[a][1] \in Commands /\ inbox[a][1].command = "RUN" /\ 1 \in 1..Len(inbox[a])
        BY <2>1, CalmTakes
      <4>2. inbox[a][1] = [command |-> "RUN", run |-> inbox[a][1].run]
        BY <4>1 DEF Commands
      <4>3. inbox[a][1].run \in RunIds \cup {NoRun}
        BY <4>1 DEF Commands
      <4>4. CASE inbox[a][1].run \in RunIds
        <5>1. inbox[a][1].run = r
          BY <4>4 DEF Calm
        <5>2. inbox[a][1] = [command |-> "RUN", run |-> r]
          BY <4>2, <5>1
        <5>3. Launched(a, r)
          BY <4>1, <5>2 DEF Launched
        <5> QED BY <2>1, <3>2, <5>3 DEF WorkIsNotDenied, Alive
      <4>5. CASE inbox[a][1].run = NoRun
        <5>1. Working(worker'[a], r)
          BY <2>1, <3>2, CalmTakes DEF Launched
        <5>2. worker'[a][r] = worker[a][r]
          BY <1>0, <1>3, <2>1, <4>5, CalmTakes, RosterAssumption DEF HandleRun, AgentTypes
        <5>3. Launched(a, r)
          BY <5>1, <5>2 DEF Launched, Working
        <5> QED BY <2>1, <3>2, <5>3 DEF WorkIsNotDenied, Alive
      <4> QED BY <4>3, <4>4, <4>5
    <3> QED BY <3>1, <3>2
  <2> QED BY <2>4, <2>5, <2>6, <2>7
<1>4. CASE HandleRunFails(a)
  <2>1. Takes(a, "RUN") /\ UNCHANGED <<up, worker, listening, syncDue, replies, reg, data>>
    BY <1>4 DEF HandleRunFails
  <2>2. QuietBefore' /\ NobodyLeaves' /\ RunIsFirst'
    <3>1. QuietBefore'
      BY <1>1, <2>1, CalmTakes DEF QuietBefore
    <3>2. NobodyLeaves'
      BY <1>1, <2>1, CalmTakes DEF NobodyLeaves, Alive
    <3>3. RunIsFirst'
      BY <1>1, <2>1, CalmTakes DEF RunIsFirst
    <3> QED BY <3>1, <3>2, <3>3
  <2>3. WorkIsNotDenied'
    BY <1>1, <2>1, CalmTakes DEF WorkIsNotDenied, Launched, Alive
  <2> QED BY <2>2, <2>3
<1>5. CASE HandleStatus(a)
  <2> DEFINE query == Head(inbox[a]).run
  <2>1. /\ Takes(a, "_STATUS") /\ Reply(a, StatusRunning(a, query))
        /\ UNCHANGED <<up, worker, listening, syncDue, reg, data>>
    BY <1>5 DEF HandleStatus
  <2>2. StatusRunning(a, query) \in BOOLEAN
    BY DEF StatusRunning
  <2>3. query \in RunIds \cup {NoRun}
    BY <2>1, CalmTakes DEF Commands
  <2>4. \A i \in 1..Len(inbox[a]) : inbox[a][i].command # "RUN"
    BY <2>1, CalmTakes DEF RunIsFirst
  <2>5. \A b \in Agents \ {a} : replies'[b] = replies[b]
    BY <2>1, <2>2, CalmReply
  <2>6. QuietBefore'
    BY <1>1, <2>1, <2>5, CalmTakes DEF QuietBefore
  <2>7. NobodyLeaves'
    BY <1>1, <2>1, CalmTakes DEF NobodyLeaves, Alive
  <2>8. RunIsFirst'
    BY <2>1, <2>5, CalmTakes DEF RunIsFirst
  <2>9. WorkIsNotDenied'
    <3> SUFFICES ASSUME NEW b \in Agents, NEW r \in RunIds, Alive(b)', Launched(b, r)'
                 PROVE  /\ runs[b] = r
                        /\ \A i \in 1..Len(replies'[b]) : replies'[b][i] = "running"
      BY <1>1 DEF WorkIsNotDenied
    <3>1. CASE b # a
      BY <2>1, <2>5, <3>1, CalmTakes DEF WorkIsNotDenied, Launched, Alive
    <3>2. CASE b = a
      <4>1. Working(worker[a], r)
        BY <2>1, <3>2, CalmTakes DEF Launched
      <4>2. StatusRunning(a, query)
        BY <2>3, <4>1 DEF StatusRunning, Calm
      <4>3. Launched(a, r) /\ Alive(a)
        BY <2>1, <4>1, CalmTakes DEF Launched
      <4> QED BY <2>1, <2>2, <3>2, <4>2, <4>3, CalmReply DEF WorkIsNotDenied
    <3> QED BY <3>1, <3>2
  <2> QED BY <2>6, <2>7, <2>8, <2>9
<1>6. CASE HandleStop(a)
  <2>1. /\ Takes(a, "STOP") /\ Reply(a, FALSE)
        /\ UNCHANGED <<up, listening, reg, data>>
    BY <1>6 DEF HandleStop
  <2>2. \A b \in Agents \ {a} : worker'[b] = worker[b] /\ replies'[b] = replies[b]
    BY <1>0, <1>6, <2>1, CalmReply DEF HandleStop, AgentTypes
  <2>3. \A r \in RunIds : ~Working(worker'[a], r)
    BY <1>0, <1>6 DEF HandleStop, AgentTypes, Working
  <2>4. QuietBefore'
    BY <1>1, <2>1, <2>2, CalmTakes DEF QuietBefore
  <2>5. NobodyLeaves'
    BY <1>1, <2>1, CalmTakes DEF NobodyLeaves, Alive
  <2>6. RunIsFirst'
    BY <2>1, <2>2, CalmTakes DEF RunIsFirst
  <2>7. WorkIsNotDenied'
    <3> SUFFICES ASSUME NEW b \in Agents, NEW r \in RunIds, Alive(b)', Launched(b, r)'
                 PROVE  /\ runs[b] = r
                        /\ \A i \in 1..Len(replies'[b]) : replies'[b][i] = "running"
      BY <1>1 DEF WorkIsNotDenied
    <3>1. b # a
      BY <2>1, <2>3, CalmTakes DEF Launched
    <3> QED BY <2>1, <2>2, <3>1, CalmTakes DEF WorkIsNotDenied, Launched, Alive
  <2> QED BY <2>4, <2>5, <2>6, <2>7
<1>7. CASE StopTimer(a) \/ Crash(a)
  <2>1. Die(a) /\ UNCHANGED <<replies, reg, data>>
    BY <1>7 DEF StopTimer, Crash
  <2>2. /\ up'[a] = "gone" /\ inbox'[a] = <<>> /\ ~listening'[a]
        /\ \A b \in Agents \ {a} :
             up'[b] = up[b] /\ inbox'[b] = inbox[b] /\ listening'[b] = listening[b]
             /\ worker'[b] = worker[b]
    BY <1>0, <2>1 DEF Die, AgentTypes
  <2>3. QuietBefore' /\ RunIsFirst'
    BY <1>1, <2>1, <2>2 DEF QuietBefore, RunIsFirst
  <2>4. NobodyLeaves'
    BY <1>1, <2>1, <2>2 DEF NobodyLeaves, Alive
  <2>5. WorkIsNotDenied'
    BY <1>1, <2>1, <2>2 DEF WorkIsNotDenied, Launched, Alive
  <2> QED BY <2>3, <2>4, <2>5
\* Workers that leave _workers, or end, are no work.
<1>8. ASSUME UNCHANGED <<up, inbox, replies, reg>>,
             \A b \in Agents : ~listening'[b],
             \A b \in Agents, r \in RunIds : Working(worker'[b], r) => Working(worker[b], r)
      PROVE  CalmInv'
  <2>1. QuietBefore' /\ RunIsFirst' /\ NobodyLeaves'
    BY <1>1, <1>8 DEF QuietBefore, RunIsFirst, NobodyLeaves, Alive
  <2>2. WorkIsNotDenied'
    BY <1>1, <1>8 DEF WorkIsNotDenied, Launched, Alive
  <2> QED BY <2>1, <2>2
<1>9. CASE SyncCallback(a)
  <2>1. \A b \in Agents : ~listening'[b]
    BY <1>0, <1>9 DEF SyncCallback, SyncHeartbeat, AgentTypes, NobodyLeaves, Calm
  <2> QED BY <1>8, <1>9, <2>1 DEF SyncCallback
<1>10. CASE CheckProc(a)
  <2>1. \A b \in Agents : ~listening'[b]
    BY <1>0, <1>10 DEF CheckProc, SyncHeartbeat, AgentTypes, NobodyLeaves, Calm
  <2>2. \A b \in Agents, r \in RunIds : Working(worker'[b], r) => Working(worker[b], r)
    BY <1>0, <1>10 DEF CheckProc, AgentTypes, Working
  <2> QED BY <1>8, <1>10, <2>1, <2>2 DEF CheckProc
<1>11. ASSUME NEW r \in RunIds, KillWorker(a, r) PROVE CalmInv'
  <2>1. \A b \in Agents, t \in RunIds : Working(worker'[b], t) => Working(worker[b], t)
    BY <1>0, <1>11 DEF KillWorker, AgentTypes, Working
  <2> QED BY <1>8, <1>11, <2>1 DEF KillWorker, NobodyLeaves
<1>12. ASSUME NEW r \in RunIds, WorkerExit(a, r) PROVE CalmInv'
  <2>1. PICK state \in {"none", "exited"} : worker' = [worker EXCEPT ![a][r] = state]
    BY <1>12 DEF WorkerExit
  <2>2. \A b \in Agents, t \in RunIds : Working(worker'[b], t) => Working(worker[b], t)
    BY <1>0, <2>1 DEF AgentTypes, Working
  <2> QED BY <1>8, <1>12, <2>2 DEF WorkerExit, NobodyLeaves
<1>13. ASSUME NEW r \in RunIds, WorkerPush(a, r) PROVE CalmInv'
  BY <1>8, <1>13 DEF WorkerPush, NobodyLeaves
<1> QED
  BY <1>2, <1>3, <1>4, <1>5, <1>6, <1>7, <1>9, <1>10, <1>11, <1>12, <1>13
  DEF AgentStep, Handle

\* Deliver adds to a queue at its end, and only what was sent to a live agent.
LEMMA DeliverAppends ==
  ASSUME AgentTypes, out' \in [sent : SUBSET Message, published : SUBSET RunIds],
         Deliver, NEW a \in Agents
  PROVE  /\ ~Alive(a) => inbox'[a] = inbox[a]
         /\ \A i \in 1..Len(inbox'[a]) :
              \/ i \in 1..Len(inbox[a]) /\ inbox'[a][i] = inbox[a][i]
              \/ /\ i = Len(inbox[a]) + 1
                 /\ \E m \in out'.sent :
                      m.to = a /\ inbox'[a][i] = [command |-> m.command, run |-> m.run]
<1> DEFINE new == {m \in out'.sent : m.to = a}
<1>1. CASE new = {} \/ ~Alive(a)
  BY <1>1 DEF Deliver
<1>2. CASE ~(new = {} \/ ~Alive(a))
  <2> DEFINE m == CHOOSE m \in new : TRUE
             c == [command |-> m.command, run |-> m.run]
  <2>1. m \in new
    BY <1>2
  <2>2. c \in Commands
    BY <2>1 DEF Message, Commands, AgentCommands
  <2>3. inbox'[a] = Append(inbox[a], c)
    BY <1>2 DEF Deliver
  <2>4. m \in out'.sent /\ m.to = a /\ c = [command |-> m.command, run |-> m.run]
    BY <2>1
  <2> HIDE DEF c, m
  <2>5. /\ Len(Append(inbox[a], c)) = Len(inbox[a]) + 1 /\ Len(inbox[a]) \in Nat
        /\ \A i \in 1..Len(inbox[a]) : Append(inbox[a], c)[i] = inbox[a][i]
        /\ Append(inbox[a], c)[Len(inbox[a]) + 1] = c
    BY <2>2, AppendProperties, LenProperties DEF AgentTypes
  <2> QED BY <1>2, <2>3, <2>4, <2>5
<1> QED BY <1>1, <1>2

\* Nothing fails to be sent.
LEMMA CalmSend ==
  ASSUME Calm, NEW S, NEW failed \in Failing(S)
  PROVE  failed = {}
  BY DEF Calm, Failing

\* Nobody is removed, then.
LEMMA CalmKeepsTables ==
  ASSUME CtrlInv
  PROVE  DropTimes({}) = agentTimes /\ DropRuns({}) = runs
  BY DEF CtrlInv, TypeOK, DropTimes, DropRuns

\* What clean does to live agents: they keep their run and are asked for their
\* status.
LEMMA CalmClean ==
  ASSUME Calm, CalmIInv, CleanStep
  PROVE  /\ \A a \in Agents : Alive(a) => runs'[a] = runs[a]
         /\ \A a \in Agents : agentTimes'[a] = "stale" => agentTimes[a] = "stale"
         /\ \A m \in out'.sent : Alive(m.to) => m.command = "_STATUS" /\ m.run # NoRun
         /\ \A m \in out'.sent : m.to \in Busy /\ m.command # "RUN"
         /\ \A r \in RunIds : meta'[r] # meta[r] => \A a \in Serving(r) : ~Alive(a)
         /\ \A r \in RunIds : meta'[r] = "absent" => meta[r] = "absent"
<1>1. PICK seen \in SUBSET Busy :
        \E failed \in Failing(seen), over \in SUBSET RunIds : Clean(seen, failed, over)
  BY DEF CleanStep
<1>2. PICK failed \in Failing(seen), over \in SUBSET RunIds : Clean(seen, failed, over)
  BY <1>1
<1>3. failed = {}
  BY CalmSend
<1> DEFINE stale == {a \in seen : agentTimes[a] = "stale"}
<1>4. /\ agentTimes' = [a \in Agents |->
             IF a \in stale THEN "none" ELSE InitTimers(seen)[a]]
      /\ runs' = DropRuns(stale)
      /\ TestEnded(over)
      /\ out'.sent = Send(stale, "QUIT", NoRun) \cup
           UNION {Send({a}, "_STATUS", runs[a]) : a \in seen \ stale}
      /\ \A r \in over : Serving(r) \subseteq stale
  BY <1>2, <1>3 DEF Clean
<1>5. seen \subseteq Busy /\ Busy \subseteq Agents
  BY DEF Busy
<1>6. \A a \in stale : ~Alive(a)
  BY <1>5 DEF CalmIInv, CalmInv, NobodyLeaves
<1>7. \A a \in Agents : Alive(a) => runs'[a] = runs[a]
  BY <1>4, <1>6 DEF DropRuns
<1>8. \A a \in Agents : agentTimes'[a] = "stale" => agentTimes[a] = "stale"
  BY <1>4 DEF InitTimers
<1>9. \A m \in out'.sent : Alive(m.to) => m.command = "_STATUS" /\ m.run # NoRun
  <2> SUFFICES ASSUME NEW m \in out'.sent, Alive(m.to)
               PROVE  m.command = "_STATUS" /\ m.run # NoRun
    OBVIOUS
  <2>1. m \notin Send(stale, "QUIT", NoRun)
    BY <1>6 DEF Send
  <2>2. PICK a \in seen \ stale : m \in Send({a}, "_STATUS", runs[a])
    BY <1>4, <2>1
  <2> QED BY <1>5, <2>2 DEF Send, Busy
<1>10. \A r \in RunIds : meta'[r] # meta[r] => \A a \in Serving(r) : ~Alive(a)
  BY <1>4, <1>6 DEF TestEnded
<1>11. \A r \in RunIds : meta'[r] = "absent" => meta[r] = "absent"
  BY <1>4 DEF TestEnded
<1>12. \A m \in out'.sent : m.command # "RUN"
  BY <1>4 DEF Send
<1> QED BY <1>7, <1>8, <1>9, <1>10, <1>11, <1>12, CleanWritesToBusy

\* What the broker sends denies no work, as long as live agents stay on their
\* run, RUN goes to agents with empty queues and nobody alive is told to quit.
LEMMA CalmDeliver ==
  ASSUME Calm, CalmIInv, out' \in [sent : SUBSET Message, published : SUBSET RunIds],
         Deliver, UNCHANGED <<up, worker, listening, syncDue, replies, reg, data>>,
         \A a \in Agents : agentTimes'[a] = "stale" => agentTimes[a] = "stale",
         \A a \in Agents, r \in RunIds : Alive(a) /\ runs[a] = r => runs'[a] = r,
         \A m \in out'.sent : Alive(m.to) => m.command # "QUIT",
         \A m \in out'.sent : m.command = "RUN" =>
           inbox[m.to] = <<>> /\ replies[m.to] = <<>> /\ runs'[m.to] = m.run,
         \A r \in RunIds : meta'[r] = "absent" => meta[r] = "absent" /\ out'.sent = {}
  PROVE  CalmInv'
<1> USE DEF CalmIInv, CalmInv
<1>0. AgentTypes
  BY DEF ClusterIInv
<1>1. \A a \in Agents : Alive(a)' <=> Alive(a)
  BY DEF Alive
<1>2. QuietBefore'
  <2>1. out'.sent = {} => inbox' = inbox
    BY <1>0 DEF Deliver, AgentTypes
  <2> QED BY <2>1 DEF QuietBefore
\* A command that is new is one that was sent.
<1>3. \A a \in Agents : \A i \in 1..Len(inbox'[a]) :
        \/ i \in 1..Len(inbox[a]) /\ inbox'[a][i] = inbox[a][i]
        \/ /\ i = Len(inbox[a]) + 1 /\ Alive(a)
           /\ \E m \in out'.sent :
                m.to = a /\ inbox'[a][i] = [command |-> m.command, run |-> m.run]
  BY <1>0, DeliverAppends
<1>4. NobodyLeaves'
  <2> SUFFICES ASSUME NEW a \in Agents
               PROVE  /\ ~listening'[a]
                      /\ ~Alive(a) => inbox'[a] = <<>>
                      /\ agentTimes'[a] = "stale" => ~Alive(a)
                      /\ \A i \in 1..Len(reg'[a]) : reg'[a][i] = "REGISTER"
                      /\ \A i \in 1..Len(inbox'[a]) : inbox'[a][i].command # "QUIT"
    BY <1>1 DEF NobodyLeaves
  <2>1. ~Alive(a) => inbox'[a] = <<>>
    BY <1>0, DeliverAppends DEF NobodyLeaves
  <2>2. ASSUME NEW i \in 1..Len(inbox'[a]) PROVE inbox'[a][i].command # "QUIT"
    <3>1. CASE i \in 1..Len(inbox[a]) /\ inbox'[a][i] = inbox[a][i]
      BY <3>1 DEF NobodyLeaves
    <3>2. CASE ~(i \in 1..Len(inbox[a]) /\ inbox'[a][i] = inbox[a][i])
      <4>1. Alive(a)
        BY <1>3, <3>2
      <4>2. PICK m \in out'.sent :
              m.to = a /\ inbox'[a][i] = [command |-> m.command, run |-> m.run]
        BY <1>3, <3>2
      <4>3. m.command # "QUIT"
        BY <4>1, <4>2
      <4> QED BY <4>2, <4>3
    <3> QED BY <3>1, <3>2
  <2>3. ~listening'[a] /\ \A i \in 1..Len(reg'[a]) : reg'[a][i] = "REGISTER"
    BY DEF NobodyLeaves
  <2>4. agentTimes'[a] = "stale" => ~Alive(a)
    BY DEF NobodyLeaves
  <2> QED BY <2>1, <2>2, <2>3, <2>4
<1>5. RunIsFirst'
  <2> SUFFICES ASSUME NEW a \in Agents, NEW i \in 1..Len(inbox'[a]),
                      inbox'[a][i].command = "RUN"
               PROVE  i = 1 /\ replies[a] = <<>>
    BY DEF RunIsFirst
  <2>1. CASE i \in 1..Len(inbox[a]) /\ inbox'[a][i] = inbox[a][i]
    BY <2>1 DEF RunIsFirst
  <2>2. CASE ~(i \in 1..Len(inbox[a]) /\ inbox'[a][i] = inbox[a][i])
    <3>1. i = Len(inbox[a]) + 1
      BY <1>3, <2>2
    <3>2. PICK m \in out'.sent :
            m.to = a /\ inbox'[a][i] = [command |-> m.command, run |-> m.run]
      BY <1>3, <2>2
    <3>3. m.command = "RUN"
      BY <3>2
    <3>4. inbox[a] = <<>> /\ replies[a] = <<>>
      BY <3>2, <3>3
    <3> QED BY <3>1, <3>4
  <2> QED BY <2>1, <2>2
<1>6. WorkIsNotDenied'
  <2> SUFFICES ASSUME NEW a \in Agents, NEW r \in RunIds, Alive(a), Launched(a, r)'
               PROVE  /\ runs'[a] = r
                      /\ \A i \in 1..Len(replies[a]) : replies[a][i] = "running"
    BY <1>1 DEF WorkIsNotDenied
  <2>1. CASE Launched(a, r)
    BY <2>1 DEF WorkIsNotDenied
  <2>2. CASE ~Launched(a, r)
    <3>1. PICK i \in 1..Len(inbox'[a]) : inbox'[a][i] = [command |-> "RUN", run |-> r]
      BY <2>2 DEF Launched
    <3>2. ~(i \in 1..Len(inbox[a]) /\ inbox'[a][i] = inbox[a][i])
      BY <2>2, <3>1 DEF Launched
    <3>3. PICK m \in out'.sent :
            m.to = a /\ inbox'[a][i] = [command |-> m.command, run |-> m.run]
      BY <1>3, <3>2
    <3>4. m.command = "RUN" /\ m.run = r
      <4>1. [command |-> m.command, run |-> m.run] = [command |-> "RUN", run |-> r]
        BY <3>1, <3>3
      <4> QED BY <4>1
    <3> QED BY <3>3, <3>4
  <2> QED BY <2>1, <2>2
<1> QED BY <1>2, <1>4, <1>5, <1>6

\* What the broker reads denies no work.
LEMMA CalmReceive ==
  ASSUME Calm, CalmIInv, NEW a \in Agents,
         ReceiveReg(a) \/ ReceiveStatus(a) \/ (\E r \in RunIds : ReceiveData(a, r))
  PROVE  CalmInv'
<1> USE DEF CalmIInv, CalmInv
<1>0. AgentTypes /\ CtrlInv
  BY DEF ClusterIInv
<1>1. CASE ReceiveReg(a)
  <2>1. /\ \A i \in 1..Len(Tail(reg[a])) : Tail(reg[a])[i] = reg[a][i+1]
        /\ Len(Tail(reg[a])) = Len(reg[a]) - 1 /\ Len(reg[a]) \in Nat \ {0}
        /\ Head(reg[a]) = reg[a][1]
    BY <1>0, <1>1, HeadTailProperties DEF ReceiveReg, AgentTypes
  <2>2. Register(a)
    BY <1>1, <2>1 DEF ReceiveReg, NobodyLeaves
  <2>3. \A b \in Agents : \A i \in 1..Len(reg'[b]) : reg'[b][i] = "REGISTER"
    BY <1>0, <1>1, <2>1 DEF ReceiveReg, NobodyLeaves, AgentTypes
  <2>4. UNCHANGED <<agentTimes, runs, meta, up, worker, listening, inbox, replies>>
    BY <1>1, <2>2 DEF ReceiveReg, Register
  <2>5. NobodyLeaves'
    BY <2>3, <2>4 DEF NobodyLeaves, Alive
  <2>6. QuietBefore' /\ RunIsFirst' /\ WorkIsNotDenied'
    BY <2>4 DEF QuietBefore, RunIsFirst, WorkIsNotDenied, Launched, Alive
  <2> QED BY <2>5, <2>6
<1>2. CASE ReceiveStatus(a)
  <2>1. /\ UpdateStatus(a, Head(replies[a]) = "running")
        /\ replies' = [replies EXCEPT ![a] = Tail(@)] /\ replies[a] # <<>>
        /\ UNCHANGED <<up, worker, listening, inbox, reg>>
    BY <1>2 DEF ReceiveStatus
  <2>2. /\ \A i \in 1..Len(Tail(replies[a])) : Tail(replies[a])[i] = replies[a][i+1]
        /\ Len(Tail(replies[a])) = Len(replies[a]) - 1 /\ Len(replies[a]) \in Nat \ {0}
        /\ Head(replies[a]) = replies[a][1]
    BY <1>0, <2>1, HeadTailProperties DEF AgentTypes
  <2>3. /\ replies'[a] = Tail(replies[a])
        /\ \A b \in Agents \ {a} : replies'[b] = replies[b]
    BY <1>0, <2>1 DEF AgentTypes
  <2>4. /\ \A b \in Agents \ {a} : runs'[b] = runs[b]
        /\ Head(replies[a]) = "running" => runs' = runs
        /\ \A b \in Agents : agentTimes'[b] = "stale" => agentTimes[b] = "stale"
        /\ \A r \in RunIds : meta'[r] = "absent" => meta[r] = "absent"
    BY <1>0, <2>1
    DEF UpdateStatus, TerminateRun, DropRuns, DropTimes, TestEnded, CtrlInv, TypeOK
  <2>5. QuietBefore'
    BY <2>1, <2>2, <2>3, <2>4 DEF QuietBefore
  <2>6. NobodyLeaves'
    BY <2>1, <2>4 DEF NobodyLeaves, Alive
  <2>7. RunIsFirst'
    BY <2>1, <2>3 DEF RunIsFirst
  <2>8. WorkIsNotDenied'
    <3> SUFFICES ASSUME NEW b \in Agents, NEW r \in RunIds, Alive(b), Launched(b, r)
                 PROVE  /\ runs'[b] = r
                        /\ \A i \in 1..Len(replies'[b]) : replies'[b][i] = "running"
      BY <2>1 DEF WorkIsNotDenied, Alive, Launched
    <3>1. runs[b] = r /\ \A i \in 1..Len(replies[b]) : replies[b][i] = "running"
      BY DEF WorkIsNotDenied
    <3>2. CASE b # a
      BY <2>3, <2>4, <3>1, <3>2
    <3>3. CASE b = a
      <4>1. Head(replies[a]) = "running"
        BY <2>2, <3>1, <3>3
      <4>2. ASSUME NEW i \in 1..Len(Tail(replies[a])) PROVE Tail(replies[a])[i] = "running"
        <5>1. i + 1 \in 1..Len(replies[a])
          BY <2>2
        <5> QED BY <2>2, <3>1, <3>3, <5>1
      <4> QED BY <2>3, <2>4, <3>1, <3>3, <4>1, <4>2
    <3> QED BY <3>2, <3>3
  <2> QED BY <2>5, <2>6, <2>7, <2>8
\* A result puts its agent on the run it works for.
<1>3. ASSUME NEW r \in RunIds, ReceiveData(a, r) PROVE CalmInv'
  <2>1. /\ UNCHANGED <<agentTimes, meta, up, worker, listening, inbox, replies, reg>>
        /\ \A b \in Agents : runs[b] # NoRun => runs'[b] = runs[b]
    BY <1>0, <1>3 DEF ReceiveData, SaveData, CtrlInv, TypeOK
  <2>2. NobodyLeaves'
    BY <2>1 DEF NobodyLeaves, Alive
  <2>3. QuietBefore' /\ RunIsFirst'
    BY <2>1 DEF QuietBefore, RunIsFirst
  <2>4. WorkIsNotDenied'
    BY <2>1, RosterAssumption DEF WorkIsNotDenied, Launched, Alive
  <2> QED BY <2>2, <2>3, <2>4
<1> QED BY <1>1, <1>2, <1>3

\* No step denies work.
LEMMA CalmNext == Calm /\ CalmIInv /\ [ClusterNext]_vars => CalmInv'
<1> SUFFICES ASSUME Calm, CalmIInv, [ClusterNext]_vars PROVE CalmInv'
  OBVIOUS
<1>0. AgentTypes /\ CtrlInv /\ CalmInv
  BY DEF CalmIInv, ClusterIInv
<1>1. out' \in [sent : SUBSET Message, published : SUBSET RunIds]
  BY ClusterNextSound DEF CalmIInv, ClusterIInv, CtrlInv, TypeOK
<1>2. ASSUME NEW a \in Agents, TimeOut(a) PROVE CalmInv'
  <2>1. ~Alive(a) /\ Lapse(a) /\ UNCHANGED agentVars
    BY <1>2 DEF TimeOut, Calm
  <2>2. UNCHANGED <<runs, meta, up, worker, listening, inbox, replies, reg>>
    BY <2>1 DEF Lapse, agentVars
  <2>3. \A b \in Agents \ {a} : agentTimes'[b] = agentTimes[b]
    BY <1>0, <2>1 DEF Lapse, CtrlInv, TypeOK
  <2>4. NobodyLeaves'
    BY <1>0, <2>1, <2>2, <2>3 DEF CalmInv, NobodyLeaves, Alive
  <2>5. QuietBefore' /\ RunIsFirst' /\ WorkIsNotDenied'
    BY <1>0, <2>2 DEF CalmInv, QuietBefore, RunIsFirst, WorkIsNotDenied, Launched, Alive
  <2> QED BY <2>4, <2>5 DEF CalmInv
<1>3. ASSUME NEW r \in RunIds, NEW crew \in SUBSET Agents, StartRun(r, crew) PROVE CalmInv'
  <2>1. /\ CtrlRun(r, crew) /\ Deliver
        /\ UNCHANGED <<up, worker, listening, syncDue, replies, reg, data>>
    BY <1>3 DEF StartRun, Sends
  <2>2. /\ agentTimes' = agentTimes
        /\ runs' = [a \in Agents |-> IF a \in crew THEN r ELSE runs[a]]
        /\ out'.sent = Send(crew, "RUN", r)
        /\ meta[r] = "absent" /\ meta' = [meta EXCEPT ![r] = "active"]
    BY <1>0, <2>1, CalmSend, CalmKeepsTables DEF CtrlRun, Silence
  <2>3. \A m \in out'.sent : m.command = "RUN" /\ m.run = r /\ m.to \in crew
    BY <2>2 DEF Send
  <2>4. \A m \in out'.sent :
          inbox[m.to] = <<>> /\ replies[m.to] = <<>> /\ runs'[m.to] = m.run
    BY <1>0, <2>2, <2>3 DEF CalmInv, QuietBefore
  <2>5. \A a \in Agents, s \in RunIds : Alive(a) /\ runs[a] = s => runs'[a] = s
    BY <2>2 DEF Calm
  <2>6. \A s \in RunIds : meta'[s] # "absent"
    BY <1>0, <2>2 DEF Calm, CtrlInv, TypeOK
  <2> QED BY <1>1, <2>1, <2>2, <2>3, <2>4, <2>5, <2>6, CalmDeliver
<1>4. ASSUME NEW r \in RunIds, StopOneRun(r) PROVE CalmInv'
  <2>1. /\ StopRun(r) /\ Deliver
        /\ UNCHANGED <<up, worker, listening, syncDue, replies, reg, data>>
    BY <1>4 DEF StopOneRun, Sends
  <2>2. /\ agentTimes' = agentTimes /\ runs' = runs
        /\ out'.sent = {} \/ out'.sent = Send(Serving(r), "STOP", NoRun)
        /\ meta[r] # "absent" /\ meta'[r] # "absent"
    <3>1. CASE Serving(r) = {}
      BY <2>1, <3>1 DEF StopRun, TestEnded, Silence
    <3>2. CASE Serving(r) # {}
      BY <1>0, <2>1, <3>2, CalmSend, CalmKeepsTables DEF StopRun, RemoveAgents, Silence
    <3> QED BY <3>1, <3>2
  <2>3. \A m \in out'.sent : m.command = "STOP"
    BY <2>2 DEF Send
  <2>4. \A s \in RunIds : meta'[s] # "absent"
    BY <2>2 DEF Calm
  <2> QED BY <1>1, <2>1, <2>2, <2>3, <2>4, CalmDeliver
<1>5. CASE Cleaner
  <2>1. /\ CleanStep /\ Deliver
        /\ UNCHANGED <<up, worker, listening, syncDue, replies, reg, data>>
    BY <1>5 DEF Cleaner, Sends
  <2>2. ASSUME NEW r \in RunIds, meta'[r] = "absent" PROVE meta[r] = "absent" /\ out'.sent = {}
    <3>1. meta[r] = "absent"
      BY <2>1, <2>2, CalmClean
    <3>2. Busy = {}
      BY <1>0, <3>1 DEF Busy, CtrlInv, TypeOK, RunsSound, Calm
    <3> QED BY <2>1, <3>1, <3>2, CalmClean
  <2>3. \A a \in Agents, r \in RunIds : Alive(a) /\ runs[a] = r => runs'[a] = r
    BY <2>1, CalmClean
  <2>4. \A m \in out'.sent : Alive(m.to) => m.command # "QUIT"
    BY <2>1, CalmClean
  <2>6. \A m \in out'.sent : m.command # "RUN"
    BY <2>1, CalmClean
  <2>7. \A a \in Agents : agentTimes'[a] = "stale" => agentTimes[a] = "stale"
    BY <2>1, CalmClean
  <2> QED BY <1>1, <2>1, <2>2, <2>3, <2>4, <2>6, <2>7, CalmDeliver
\* What is no part of a calm cluster.
<1>6. ~BeatDeregisters /\ \A a \in Agents, command \in {"_STATUS", "STOP"} : ~ClientCommand(a, command)
  BY DEF BeatDeregisters, ClientCommand, Calm
<1>7. CASE UNCHANGED <<agentTimes, runs, meta, agentVars>>
  <2>1. QuietBefore' /\ NobodyLeaves'
    BY <1>0, <1>7 DEF CalmInv, QuietBefore, NobodyLeaves, Alive, agentVars
  <2>2. RunIsFirst' /\ WorkIsNotDenied'
    BY <1>0, <1>7 DEF CalmInv, RunIsFirst, WorkIsNotDenied, Launched, Alive, agentVars
  <2> QED BY <2>1, <2>2 DEF CalmInv
<1>8. ASSUME NEW num, Refusal(num) PROVE CalmInv'
  BY <1>7, <1>8 DEF Refusal, NotEnoughWorkers, ReserveForever
<1>9. CASE Spinning
  BY <1>7, <1>9 DEF Spinning, Spin, ctrlVars
<1>10. ASSUME NEW a \in Agents, AgentActs(a) PROVE CalmInv'
  BY <1>10, CalmAgentStep DEF AgentActs
<1>11. CASE UNCHANGED vars
  BY <1>7, <1>11 DEF vars, ctrlVars
<1> QED
  BY <1>2, <1>3, <1>4, <1>5, <1>6, <1>8, <1>9, <1>10, <1>11, CalmReceive DEF ClusterNext

\* The flags of a run go down only when no agent has work for it.
LEMMA CalmEnds ==
  ASSUME Calm, CalmIInv, [ClusterNext]_vars, NEW r \in RunIds,
         meta[r] = "active", meta'[r] = "ended", NEW b \in Agents, Alive(b)
  PROVE  ~Launched(b, r)
<1> SUFFICES ASSUME Launched(b, r) PROVE FALSE
  OBVIOUS
<1>0. AgentTypes /\ CtrlInv /\ CalmInv
  BY DEF CalmIInv, ClusterIInv
<1>1. /\ runs[b] = r /\ b \in Serving(r)
      /\ \A i \in 1..Len(replies[b]) : replies[b][i] = "running"
  BY <1>0 DEF CalmInv, WorkIsNotDenied, Serving
<1>2. CASE meta' = meta
  BY <1>2
<1>3. ASSUME NEW a \in Agents, ReceiveReg(a) PROVE FALSE
  BY <1>2, <1>3 DEF ReceiveReg, Register, Unregister
<1>4. ASSUME NEW a \in Agents, ReceiveStatus(a) PROVE FALSE
  <2>1. UpdateStatus(a, Head(replies[a]) = "running") /\ replies[a] # <<>>
    BY <1>4 DEF ReceiveStatus
  <2>2. Head(replies[a]) # "running"
    BY <1>2, <2>1 DEF UpdateStatus
  <2>3. Serving(r) = {a}
    BY <2>1, <2>2 DEF UpdateStatus, TerminateRun, TestEnded, OverWithout
  <2>4. a = b
    BY <1>1, <2>3
  <2>5. 1 \in 1..Len(replies[b]) /\ Head(replies[b]) = replies[b][1]
    BY <1>0, <2>1, <2>4 DEF AgentTypes
  <2> QED BY <1>1, <2>2, <2>4, <2>5
<1>5. ASSUME NEW a \in Agents, NEW s \in RunIds, ReceiveData(a, s) PROVE FALSE
  BY <1>2, <1>5 DEF ReceiveData, SaveData
<1>6. ASSUME NEW s \in RunIds, NEW crew, StartRun(s, crew) PROVE FALSE
  BY <1>0, <1>6 DEF StartRun, Sends, CtrlRun, CtrlInv, TypeOK
<1>7. ASSUME NEW s \in RunIds, StopOneRun(s) PROVE FALSE
  <2>1. StopRun(s)
    BY <1>7 DEF StopOneRun, Sends
  <2>2. Serving(s) = {} /\ s = r
    BY <1>2, <2>1 DEF StopRun, Calm
  <2> QED BY <1>1, <2>2
<1>8. CASE Cleaner
  <2>1. CleanStep
    BY <1>8 DEF Cleaner, Sends
  <2> QED BY <1>1, <2>1, CalmClean
<1>9. CASE UNCHANGED ctrlVars
  BY <1>2, <1>9 DEF ctrlVars
<1>10. ASSUME NEW a \in Agents, TimeOut(a) PROVE FALSE
  BY <1>2, <1>10 DEF TimeOut, Lapse
<1>11. ASSUME NEW num, Refusal(num) PROVE FALSE
  BY <1>2, <1>11 DEF Refusal, NotEnoughWorkers, ReserveForever
<1>12. ~BeatDeregisters /\ \A a \in Agents, command \in {"_STATUS", "STOP"} : ~ClientCommand(a, command)
  BY DEF BeatDeregisters, ClientCommand, Calm
<1> QED
  BY <1>3, <1>4, <1>5, <1>6, <1>7, <1>8, <1>9, <1>10, <1>11, <1>12
  DEF ClusterNext, Spinning, Spin, AgentActs, vars

\* Before the first run nothing has been sent but registrations.
LEMMA CalmInit == Calm /\ ClusterInit => CalmIInv
<1> SUFFICES ASSUME Calm, ClusterInit PROVE CalmIInv
  OBVIOUS
<1>1. ClusterIInv
  BY ClusterInitSound
<1>2. QuietBefore /\ RunIsFirst
  BY DEF ClusterInit, AgentInit, QuietBefore, RunIsFirst
<1>3. NobodyLeaves
  <2> SUFFICES ASSUME NEW a \in Agents
               PROVE  /\ ~listening[a]
                      /\ ~Alive(a) => inbox[a] = <<>>
                      /\ agentTimes[a] = "stale" => ~Alive(a)
                      /\ \A i \in 1..Len(reg[a]) : reg[a][i] = "REGISTER"
                      /\ \A i \in 1..Len(inbox[a]) : inbox[a][i].command # "QUIT"
    BY DEF NobodyLeaves
  <2>1. /\ up[a] = "on" /\ listening[a] = Heartbeat /\ agentTimes[a] = "none"
        /\ inbox[a] = <<>> /\ reg[a] = <<"REGISTER">>
    BY DEF ClusterInit, Init, AgentInit
  <2>2. \A i \in 1..Len(reg[a]) : reg[a][i] = "REGISTER"
    <3>1. Len(<<"REGISTER">>) = 1 /\ <<"REGISTER">>[1] = "REGISTER"
      OBVIOUS
    <3>2. 1..1 = {1}
      OBVIOUS
    <3> QED BY <2>1, <3>1, <3>2
  <2>3. 1..Len(inbox[a]) = {}
    BY <2>1
  <2> QED BY <2>1, <2>2, <2>3 DEF Calm, Alive
<1>4. WorkIsNotDenied
  BY DEF ClusterInit, AgentInit, WorkIsNotDenied, Launched, Working
<1> QED BY <1>1, <1>2, <1>3, <1>4 DEF CalmIInv, CalmInv

LEMMA CalmInvariant == ASSUME Calm PROVE ClusterSpec => []CalmIInv
<1>1. ClusterInit => CalmIInv
  BY CalmInit
<1>2. CalmIInv /\ [ClusterNext]_vars => CalmIInv'
  BY CalmNext, ClusterNextSound DEF CalmIInv
<1> QED BY <1>1, <1>2, PTL DEF ClusterSpec

\* The broker counts on every live agent that has work for a run that nothing
\* disturbs, or is about to get it.
THEOREM WorkIsAlwaysTracked == ASSUME Calm PROVE ClusterSpec => []WorkIsTracked
<1>1. CalmIInv => WorkIsTracked
  BY DEF CalmIInv, CalmInv, WorkIsNotDenied, WorkIsTracked
<1> QED BY <1>1, CalmInvariant, PTL

\* Such a run is not ended before its processes are done.
THEOREM RunsEndWhenDone == ASSUME Calm PROVE ClusterSpec => EndedMeansDone
<1>1. CalmIInv /\ [ClusterNext]_vars =>
        [\A r \in RunIds : meta[r] = "active" /\ meta'[r] = "ended" =>
           \A a \in Agents : Alive(a) => ~Launched(a, r)]_vars
  BY CalmEnds
<1> QED BY <1>1, CalmInvariant, PTL DEF ClusterSpec, EndedMeansDone
=============================================================================
