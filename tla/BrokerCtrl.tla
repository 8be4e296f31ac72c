----------------------------- MODULE BrokerCtrl -----------------------------
(***************************************************************************)
(* The broker's controller (src/loads/transport/brokerctrl.py) and the     *)
(* socket handlers of the broker that call it (broker.py).  All of them    *)
(* run on one ioloop thread, so one handler is one action.  What arrives   *)
(* on the sockets is chosen freely here; Cluster connects real agents.     *)
(***************************************************************************)
EXTENDS Roster, Naturals, FiniteSets

CONSTANTS
    BadObserver,  \* runs submitted with an observer that does not resolve
    SendFailures  \* may send_multipart on the backend socket raise?

ASSUME CtrlAssumption ==
    /\ BadObserver \subseteq RunIds
    /\ SendFailures \in BOOLEAN

VARIABLES
    agents,       \* self._agents: the registered agents
    agentTimes,   \* self._agent_times: "none" when absent, else fresh or stale
    runs,         \* self._runs: the run of an agent, NoRun when absent
    meta,         \* the active/ended flags of a run in the database
    spinning,     \* reserve_agents never leaves its while loop
    out           \* what the last step sent to agents and published

ctrlVars == <<agents, agentTimes, runs, meta, spinning, out>>

Timers == {"none", "fresh", "stale"}
Flags == {"absent", "active", "ended"}
AgentCommands == {"RUN", "_STATUS", "STOP", "QUIT"}
Message == [to : Agents, command : AgentCommands, run : RunIds \cup {NoRun}]

Silence == [sent |-> {}, published |-> {}]
Send(S, command, r) == {[to |-> a, command |-> command, run |-> r] : a \in S}

Serving(r) == {a \in Agents : runs[a] = r}
Busy == {a \in Agents : runs[a] # NoRun}

\* Sets of agents for which send_to_agent may raise in one handler.
Failing(S) == IF SendFailures THEN SUBSET S ELSE {{}}

\* The entries of the agents in S are deleted from a table.
DropTimes(S) == [a \in Agents |-> IF a \in S THEN "none" ELSE agentTimes[a]]
DropRuns(S) == [a \in Agents |-> IF a \in S THEN NoRun ELSE runs[a]]

Mut_RemoveKeepsRun(S) ==
    /\ agents' = agents \ S
    /\ agentTimes' = DropTimes(S)
    /\ runs' = runs

RemoveAgents(S) ==
    /\ agents' = agents \ S
    /\ agentTimes' = DropTimes(S)
    /\ runs' = DropRuns(S)

\* test_ended marks the runs in R; observers only read.
TestEnded(R) == meta' = [r \in RunIds |-> IF r \in R THEN "ended" ELSE meta[r]]

\* test_ended raises after marking a run whose observers do not resolve, and
\* the caller then does not publish run-finished.
RunFinished(R) == R \ BadObserver

-----------------------------------------------------------------------------
Init ==
    /\ agents = {}
    /\ agentTimes = [a \in Agents |-> "none"]
    /\ runs = [a \in Agents |-> NoRun]
    /\ meta = [r \in RunIds |-> "absent"]
    /\ spinning = FALSE
    /\ out = Silence

Register(a) ==
    /\ ~spinning
    /\ agents' = agents \cup {a}
    /\ out' = Silence
    /\ UNCHANGED <<agentTimes, runs, meta, spinning>>

Unregister(a) ==
    /\ ~spinning
    /\ RemoveAgents({a} \cap agents)
    /\ out' = Silence
    /\ UNCHANGED <<meta, spinning>>

\* The heartbeat calls _deregister before every REGISTER beat.
Deregister ==
    /\ ~spinning
    /\ RemoveAgents(agents)
    /\ out' = Silence
    /\ UNCHANGED <<meta, spinning>>

Mut_AvailableBusy == agents

\* reserve_agents looks for agents here, and draws among those whose last
\* contact is not too old.
Available == {a \in agents : runs[a] = NoRun}
CheckAgent(a) == agentTimes[a] # "stale"
Fit == {a \in Available : CheckAgent(a)}

NotEnoughWorkers(num) ==
    /\ ~spinning
    /\ num > Cardinality(Available)
    /\ out' = Silence
    /\ UNCHANGED <<agents, agentTimes, runs, meta, spinning>>

\* Fewer fit agents than asked for: the while loop draws for ever.
ReserveForever(num) ==
    /\ ~spinning
    /\ num <= Cardinality(Available) /\ num > Cardinality(Fit)
    /\ spinning' = TRUE
    /\ out' = Silence
    /\ UNCHANGED <<agents, agentTimes, runs, meta>>

Spin ==
    /\ spinning
    /\ UNCHANGED ctrlVars

CtrlRun(r, crew) ==
    /\ ~spinning
    /\ meta[r] = "absent"
    /\ crew # {} /\ crew \subseteq Fit
    /\ meta' = [meta EXCEPT ![r] = "active"]
    /\ \E failed \in Failing(crew) :
         /\ agents' = agents \ failed
         /\ agentTimes' = DropTimes(failed)
         /\ runs' = [a \in Agents |-> IF a \in crew \ failed THEN r ELSE runs[a]]
         /\ out' = [Silence EXCEPT !.sent = Send(crew \ failed, "RUN", r)]
    /\ UNCHANGED spinning

StopRun(r) ==
    /\ ~spinning
    /\ meta[r] # "absent"
    /\ IF Serving(r) = {}
       THEN /\ TestEnded({r})
            /\ out' = Silence
            /\ UNCHANGED <<agents, agentTimes, runs>>
       ELSE /\ \E failed \in Failing(Serving(r)) :
                 /\ RemoveAgents(failed)
                 /\ out' = [Silence EXCEPT
                              !.sent = Send(Serving(r) \ failed, "STOP", NoRun)]
            /\ UNCHANGED meta
    /\ UNCHANGED spinning

\* CTRL_AGENT_<command>: forwarded to the agent, registered or not.
AgentCommand(a, command) ==
    /\ ~spinning
    /\ \E failed \in Failing({a}) :
         /\ RemoveAgents(failed)
         /\ out' = [Silence EXCEPT !.sent = Send({a} \ failed, command, NoRun)]
    /\ UNCHANGED <<meta, spinning>>

Mut_OverAtFirst(a) == {r \in RunIds : runs[a] = r}

Mut_OverNever(a) == {r \in RunIds : runs[a] = r /\ Serving(r) = {}}

\* The run that is over when agent a leaves it.
OverWithout(a) == {r \in RunIds : Serving(r) = {a}}

TerminateRun(a) ==
    /\ agentTimes' = DropTimes({a})
    /\ runs' = DropRuns({a})
    /\ TestEnded(OverWithout(a))
    /\ out' = [Silence EXCEPT !.published = RunFinished(OverWithout(a))]

\* A reply of agent a to _STATUS, STOP or QUIT; running says whether one of
\* the statuses in it is 'running'.
UpdateStatus(a, running) ==
    /\ ~spinning
    /\ IF running
       THEN /\ agentTimes' = [agentTimes EXCEPT ![a] = "fresh"]
            /\ out' = Silence
            /\ UNCHANGED <<runs, meta>>
       ELSE TerminateRun(a)
    /\ UNCHANGED <<agents, spinning>>

\* A result of run r pushed by a worker of agent a.  r was drawn by CTRL_RUN.
SaveData(a, r) ==
    /\ ~spinning
    /\ meta[r] # "absent"
    /\ agents' = agents \cup {a}
    /\ runs' = IF runs[a] = NoRun THEN [runs EXCEPT ![a] = r] ELSE runs
    /\ out' = Silence
    /\ UNCHANGED <<agentTimes, meta, spinning>>

Mut_InitTimersNever(S) == agentTimes

\* The agents of S get the timer clean gives an agent that has none.
InitTimers(S) == [a \in Agents |->
    IF a \in S /\ agentTimes[a] = "none" THEN "fresh" ELSE agentTimes[a]]

\* clean visits the agents that serve a run in no particular order: the stale
\* ones are told to QUIT and leave their run, the others are asked for their
\* status.  A send that fails removes the agent, and its run then does not end
\* with it.  test_ended raising for a bad observer aborts the visit: only the
\* agents in seen were visited.
Clean(seen, failed, over) ==
    /\ ~spinning
    /\ seen \subseteq Busy /\ failed \subseteq seen
    /\ LET stale == {a \in seen : agentTimes[a] = "stale"}
           gone == stale \cup failed
           emptied == {r \in RunIds : Serving(r) # {} /\ Serving(r) \subseteq gone}
       IN /\ over \subseteq {r \in emptied : ~(Serving(r) \subseteq failed)}
          /\ {r \in emptied : Serving(r) \cap failed = {}} \subseteq over
          /\ seen = Busy \/ over \cap BadObserver # {}
          /\ \A r, s \in over \cap BadObserver : r = s
          /\ agents' = agents \ failed
          /\ agentTimes' = [a \in Agents |->
               IF a \in gone THEN "none" ELSE InitTimers(seen)[a]]
          /\ runs' = DropRuns(gone)
          /\ TestEnded(over)
          /\ out' = [sent |-> Send(stale \ failed, "QUIT", NoRun) \cup
                       UNION {Send({a}, "_STATUS", runs[a]) : a \in seen \ gone},
                     published |-> RunFinished(over)]
    /\ UNCHANGED spinning

\* Time passes: now - last_contact exceeds agent_timeout.
Lapse(a) ==
    /\ agentTimes[a] = "fresh"
    /\ agentTimes' = [agentTimes EXCEPT ![a] = "stale"]
    /\ out' = Silence
    /\ UNCHANGED <<agents, runs, meta, spinning>>

CleanStep ==
    \E seen \in SUBSET Busy : \E failed \in Failing(seen) :
      \E over \in SUBSET RunIds : Clean(seen, failed, over)

Next ==
    \/ \E a \in Agents : Register(a) \/ Unregister(a) \/ Lapse(a)
    \/ Deregister
    \/ \E num \in 1..Cardinality(Agents) : NotEnoughWorkers(num) \/ ReserveForever(num)
    \/ Spin
    \/ \E r \in RunIds : \E crew \in SUBSET Agents : CtrlRun(r, crew)
    \/ \E r \in RunIds : StopRun(r)
    \/ \E a \in Agents, command \in {"_STATUS", "STOP", "QUIT"} : AgentCommand(a, command)
    \/ \E a \in Agents, running \in BOOLEAN : UpdateStatus(a, running)
    \/ \E a \in Agents, r \in RunIds : SaveData(a, r)
    \/ CleanStep

Spec == Init /\ [][Next]_ctrlVars

-----------------------------------------------------------------------------
TypeOK ==
    /\ agents \subseteq Agents
    /\ agentTimes \in [Agents -> Timers]
    /\ runs \in [Agents -> RunIds \cup {NoRun}]
    /\ meta \in [RunIds -> Flags]
    /\ spinning \in BOOLEAN
    /\ out \in [sent : SUBSET Message, published : SUBSET RunIds]

\* Whatever order registrations, deregistrations, failed sends and late data
\* come in, an agent in _runs is registered and serves a run in the database.
RunsSound ==
    \A a \in Agents : runs[a] # NoRun => a \in agents /\ meta[runs[a]] # "absent"

\* The inductive invariant of the controller.
CtrlInv == TypeOK /\ RunsSound

\* A run announced as finished has its flags down and no agent of its own.
AnnouncedIsOver ==
    \A r \in out.published : meta[r] = "ended" /\ Serving(r) = {}

\* An agent leaves its run before it serves another: reserve_agents never
\* takes it from a run and save_data never moves it to the run of its data.
NoHandover ==
    [][\A a \in Agents :
         runs[a] # NoRun /\ runs'[a] # NoRun => runs'[a] = runs[a]]_ctrlVars

\* The controller keeps the promises of the board of runs: see RunBoard.
Board == INSTANCE RunBoard WITH registered <- agents, serves <- runs,
                                state <- meta, announced <- out.published
BoardSpec == Board!Spec
=============================================================================
