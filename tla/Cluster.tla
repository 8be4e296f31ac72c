------------------------------ MODULE Cluster -------------------------------
(***************************************************************************)
(* The broker with its agents: the handlers of BrokerCtrl fed by the       *)
(* sockets the agents of Agent write to, and the commands of clients.      *)
(* Commands to an agent, its answers, its registrations and the results of *)
(* its workers travel on separate sockets, so that only messages of one    *)
(* socket keep their order.                                                *)
(***************************************************************************)
EXTENDS BrokerCtrl, Agent

CONSTANTS
    SlowAgents,       \* can a live agent be silent for agent_timeout?
    ClientStops,      \* do clients call CTRL_STOP_RUN?
    ClientCommands    \* the CTRL_AGENT_ commands clients use

ASSUME ClusterAssumption ==
    /\ SlowAgents \in BOOLEAN /\ ClientStops \in BOOLEAN
    /\ ClientCommands \subseteq {"_STATUS", "STOP"}

vars == <<ctrlVars, agentVars>>

ClusterInit == Init /\ AgentInit

\* What a handler of the broker sends reaches the queue of the agent; nothing
\* is kept for an agent that is gone.
Deliver ==
    inbox' = [a \in Agents |->
        LET new == {m \in out'.sent : m.to = a}
        IN IF new = {} \/ ~Alive(a) THEN inbox[a]
           ELSE LET m == CHOOSE m \in new : TRUE
                IN Append(inbox[a], [command |-> m.command, run |-> m.run])]

\* Bound: the broker writes only when the agents it may write to keep up.
Room == \A a \in Agents : Len(inbox[a]) < QueueBound
PollRoom == \A a \in Busy : Len(inbox[a]) + 1 < QueueBound

\* The broker handles a message of one of its sockets.
ReceiveReg(a) ==
    /\ reg[a] # <<>>
    /\ IF Head(reg[a]) = "REGISTER" THEN Register(a) ELSE Unregister(a)
    /\ reg' = [reg EXCEPT ![a] = Tail(@)]
    /\ UNCHANGED <<up, worker, listening, syncDue, inbox, replies, data>>

ReceiveStatus(a) ==
    /\ replies[a] # <<>>
    /\ UpdateStatus(a, Head(replies[a]) = "running")
    /\ replies' = [replies EXCEPT ![a] = Tail(@)]
    /\ UNCHANGED <<up, worker, listening, syncDue, inbox, reg, data>>

ReceiveData(a, r) ==
    /\ r \in data[a]
    /\ SaveData(a, r)
    /\ data' = [data EXCEPT ![a] = @ \ {r}]
    /\ UNCHANGED <<up, worker, listening, syncDue, inbox, replies, reg>>

\* The broker acts on a client command, its cleaner or its heartbeat.
Sends(action) ==
    /\ action
    /\ Deliver
    /\ UNCHANGED <<up, worker, listening, syncDue, replies, reg, data>>

StartRun(r, crew) == Room /\ Sends(CtrlRun(r, crew))
StopOneRun(r) == ClientStops /\ Room /\ Sends(StopRun(r))
ClientCommand(a, command) ==
    command \in ClientCommands /\ Room /\ Sends(AgentCommand(a, command))
Cleaner == PollRoom /\ Sends(CleanStep)
BeatDeregisters == Heartbeat /\ Sends(Deregister)

\* An agent that answers its polls in time does not lapse.
TimeOut(a) == (SlowAgents \/ ~Alive(a)) /\ Lapse(a) /\ UNCHANGED agentVars

Refusal(num) == (NotEnoughWorkers(num) \/ ReserveForever(num)) /\ UNCHANGED agentVars
Spinning == Spin /\ UNCHANGED agentVars

AgentActs(a) == AgentStep(a) /\ UNCHANGED ctrlVars

ClusterNext ==
    \/ \E a \in Agents : ReceiveReg(a) \/ ReceiveStatus(a) \/ TimeOut(a)
    \/ \E a \in Agents, r \in RunIds : ReceiveData(a, r)
    \/ \E r \in RunIds : \E crew \in SUBSET Agents : StartRun(r, crew)
    \/ \E r \in RunIds : StopOneRun(r)
    \/ \E a \in Agents, command \in {"_STATUS", "STOP"} : ClientCommand(a, command)
    \/ \E num \in 1..Cardinality(Agents) : Refusal(num)
    \/ Cleaner
    \/ BeatDeregisters
    \/ Spinning
    \/ \E a \in Agents : AgentActs(a)

ClusterSpec == ClusterInit /\ [][ClusterNext]_vars

\* The ioloops of the broker and the agents run every callback and read every
\* socket, and the periodic callbacks of both go off again and again; a test
\* ends some day; time passes.
Fairness ==
    /\ WF_vars(Cleaner)
    /\ \A a \in Agents :
         /\ WF_vars(ReceiveReg(a)) /\ WF_vars(ReceiveStatus(a))
         /\ WF_vars(~Alive(a) /\ TimeOut(a))
         /\ WF_vars(Handle(a) /\ UNCHANGED ctrlVars)
         /\ WF_vars(SyncCallback(a) /\ UNCHANGED ctrlVars)
         /\ WF_vars(CheckProc(a) /\ UNCHANGED ctrlVars)
         /\ WF_vars(StopTimer(a) /\ UNCHANGED ctrlVars)
         /\ \A r \in RunIds :
              /\ WF_vars(ReceiveData(a, r))
              /\ WF_vars(KillWorker(a, r) /\ UNCHANGED ctrlVars)

TestsEnd ==
    \A a \in Agents, r \in RunIds : WF_vars(WorkerExit(a, r) /\ UNCHANGED ctrlVars)

\* The heartbeat reaches an agent that listens again and again.
BeatsArrive == \A a \in Agents : WF_vars(Beat(a) /\ UNCHANGED ctrlVars)

FairSpec == ClusterSpec /\ Fairness /\ TestsEnd
RoughSpec == FairSpec /\ BeatsArrive
NoTestEndsSpec == ClusterSpec /\ Fairness

-----------------------------------------------------------------------------
ClusterTypeOK ==
    /\ up \in [Agents -> {"on", "leaving", "gone"}]
    /\ worker \in [Agents -> [RunIds -> {"none", "running", "exited", "orphan"}]]
    /\ listening \in [Agents -> BOOLEAN] /\ syncDue \in [Agents -> BOOLEAN]
    /\ \A a \in Agents :
         /\ \A i \in 1..Len(inbox[a]) : inbox[a][i] \in Commands
         /\ \A i \in 1..Len(replies[a]) : replies[a][i] \in {"running", "done"}
         /\ \A i \in 1..Len(reg[a]) : reg[a][i] \in {"REGISTER", "UNREGISTER"}
         /\ Len(inbox[a]) <= QueueBound /\ Len(replies[a]) <= QueueBound
         /\ data[a] \subseteq RunIds

\* A RUN is on its way to the agent, or its worker runs under the agent.
Launched(a, r) ==
    \/ Working(worker[a], r)
    \/ \E i \in 1..Len(inbox[a]) : inbox[a][i] = [command |-> "RUN", run |-> r]

\* update_status: "If all the processes are done, call self.test_ended()".
\* The flags of a run go down only when it has no process left to wait for.
EndedMeansDone ==
    [][\A r \in RunIds : meta[r] = "active" /\ meta'[r] = "ended" =>
         \A a \in Agents : Alive(a) => ~Launched(a, r)]_vars

\* The broker counts on every agent that works for a run: _runs has an entry
\* for each live agent with a worker, or with a RUN still under way.
WorkIsTracked ==
    \A a \in Agents, r \in RunIds :
      Alive(a) /\ Launched(a, r) => runs[a] = r

\* An agent hears the heartbeat exactly when it has no entry in _workers, so
\* that an idle agent is always able to register again.
ListensWhenIdle ==
    \A a \in Agents : Heartbeat /\ Alive(a) /\ ~syncDue[a] =>
      (listening[a] <=> ~BusyAgent(worker[a]))

\* The invariant of the agents.
AgentsSound == ClusterTypeOK /\ ListensWhenIdle

\* reserve_agents: a CTRL_RUN gets agents or 'Not enough agents'; the broker
\* never draws for ever.
NeverSpins == ~spinning

\* _check_agent: "The broker will removing idling agents just before sending a
\* hearbeat".  An agent leaves the registry unasked only when it serves no run.
BeatSparesBusy ==
    [][\A a \in Agents :
         a \in agents /\ a \notin agents' /\ reg'[a] = reg[a] => runs[a] = NoRun]_vars

\* stop_run: "we don't have any agents running that test, let's force the
\* flags in the DB".  The flags are forced only when no live agent runs it.
ForcedMeansIdle ==
    [][\A r \in RunIds :
         Serving(r) = {} /\ meta[r] = "active" /\ meta'[r] = "ended" =>
           \A a \in Agents : Alive(a) => ~Launched(a, r)]_vars

\* clean: "detect agents that have not responded for a while and discard them
\* from the run and from the agents list".
QuitIsDiscarded ==
    [][\A m \in out'.sent : m.command = "QUIT" => m.to \notin agents']_vars

\* No agent serves a run for ever: a crash, a lost answer or a test that ends
\* is always noticed, unless the broker spins.
RunsDrain ==
    \A a \in Agents : runs[a] # NoRun ~> (runs[a] = NoRun \/ spinning)

\* An agent that lives is in the registry again some day, whatever took it off:
\* the heartbeat, a failed send or its own timeout, idle or busy.
AgentsReturn ==
    \A a \in Agents : Alive(a) ~> (a \in agents \/ ~Alive(a) \/ spinning)

\* A run that was started is flagged as ended some day.
EveryRunEnds ==
    \A r \in RunIds : meta[r] = "active" ~> (meta[r] = "ended" \/ spinning)

\* A STOP under way to a live agent ends every worker the agent has, even one
\* whose RUN is still before it in the queue and whose test would never end.
StopIsEffective ==
    \A a \in Agents, r \in RunIds :
      (Launched(a, r) /\ \E i \in 1..Len(inbox[a]) : inbox[a][i].command = "STOP")
        ~> (worker[a][r] = "none" \/ ~Alive(a))
=============================================================================
