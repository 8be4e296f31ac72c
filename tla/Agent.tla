------------------------------- MODULE Agent --------------------------------
(***************************************************************************)
(* The agents (src/loads/transport/agent.py): each takes commands from its *)
(* backend socket, runs one worker process per RUN, answers _STATUS, STOP  *)
(* and QUIT, registers on heartbeats and listens to them only when idle.   *)
(* An agent has one ioloop, so one handler is one action; its workers are  *)
(* processes of their own.  Cluster connects the agents to the broker.      *)
(***************************************************************************)
EXTENDS Roster, Naturals, Sequences

CONSTANTS
    Heartbeat,   \* does the broker publish heartbeats?
    MayCrash,    \* can an agent be killed at any moment?
    HasMaxAge,   \* do agents retire after max_age?
    QueueBound   \* bound on the messages under way in one direction

ASSUME AgentAssumption ==
    /\ {Heartbeat, MayCrash, HasMaxAge} \subseteq BOOLEAN
    /\ QueueBound \in Nat \ {0}

VARIABLES
    up,          \* "on", "leaving" (graceful period of stop) or "gone"
    worker,      \* the process of run r on agent a and its entry in _workers:
                 \* "none", "running", "exited" (dead, still in _workers) or
                 \* "orphan" (alive, no longer in _workers)
    listening,   \* self.ping.running
    syncDue,     \* a _sync_hb callback is on the loop
    inbox,       \* commands under way to the agent
    replies,     \* answers to _STATUS, STOP and QUIT under way to the broker
    reg,         \* REGISTER and UNREGISTER messages under way
    data         \* runs with a result under way from a worker of the agent

agentVars == <<up, worker, listening, syncDue, inbox, replies, reg, data>>

Commands == [command : {"RUN", "_STATUS", "STOP", "QUIT"}, run : RunIds \cup {NoRun}]
Alive(a) == up[a] # "gone"

\* len(self._workers) > 0, and a process alive in it.
InWorkers(w, r) == w[r] \in {"running", "exited"}
BusyAgent(w) == \E r \in RunIds : InWorkers(w, r)
Working(w, r) == w[r] = "running"

AgentInit ==
    /\ up = [a \in Agents |-> "on"]
    /\ worker = [a \in Agents |-> [r \in RunIds |-> "none"]]
    /\ listening = [a \in Agents |-> Heartbeat]
    /\ syncDue = [a \in Agents |-> FALSE]
    /\ inbox = [a \in Agents |-> <<>>]
    /\ replies = [a \in Agents |-> <<>>]
    /\ reg = [a \in Agents |-> <<"REGISTER">>]
    /\ data = [a \in Agents |-> {}]

Mut_SyncOnlyStops(a, w) ==
    listening' = [listening EXCEPT ![a] = @ /\ ~BusyAgent(w)]

\* The agent's workers become w, and _sync_hb stops or starts the stethoscope.
SyncHeartbeat(a, w) ==
    listening' = [listening EXCEPT ![a] = Heartbeat /\ ~BusyAgent(w)]

\* The agent takes the next command, which must be the named one.
Takes(a, command) ==
    /\ Alive(a)
    /\ inbox[a] # <<>> /\ Head(inbox[a]).command = command
    /\ inbox' = [inbox EXCEPT ![a] = Tail(@)]

Reply(a, running) ==
    /\ Len(replies[a]) < QueueBound
    /\ replies' = [replies EXCEPT ![a] = Append(@, IF running THEN "running" ELSE "done")]

Mut_StatusOfOthers(a, r) == \E s \in RunIds : Working(worker[a], s) /\ r # s

\* The status of the workers of run r, or of all of them: is one running?
StatusRunning(a, r) ==
    \E s \in RunIds : Working(worker[a], s) /\ r \in {s, NoRun}

\* The process exits at once: worker processes live on, and nobody reaps or
\* kills them any more.
Die(a) ==
    /\ up' = [up EXCEPT ![a] = "gone"]
    /\ worker' = [worker EXCEPT ![a] = [r \in RunIds |->
         CASE worker[a][r] = "running" -> "orphan"
           [] worker[a][r] = "exited" -> "none"
           [] OTHER -> worker[a][r]]]
    /\ listening' = [listening EXCEPT ![a] = FALSE]
    /\ syncDue' = [syncDue EXCEPT ![a] = FALSE]
    /\ inbox' = [inbox EXCEPT ![a] = <<>>]

-----------------------------------------------------------------------------
\* The command of the run is launched; its reply is not one the broker reads.
HandleRun(a) ==
    /\ Takes(a, "RUN")
    /\ LET w == [worker[a] EXCEPT ![Head(inbox[a]).run] = "running"]
       IN worker' = [worker EXCEPT ![a] = w] /\ SyncHeartbeat(a, w)
    /\ UNCHANGED <<up, syncDue, replies, reg, data>>

\* Popen, or unpacking the files, raises: an error nobody reads is sent back.
HandleRunFails(a) ==
    /\ Takes(a, "RUN")
    /\ UNCHANGED <<up, worker, listening, syncDue, replies, reg, data>>

HandleStatus(a) ==
    /\ Takes(a, "_STATUS")
    /\ Reply(a, StatusRunning(a, Head(inbox[a]).run))
    /\ UNCHANGED <<up, worker, listening, syncDue, reg, data>>

\* _stop_runs: live processes get a SIGTERM, a kill timer, and leave _workers;
\* those already dead stay in it.  All are reported as terminated.
HandleStop(a) ==
    /\ Takes(a, "STOP")
    /\ Reply(a, FALSE)
    /\ worker' = [worker EXCEPT ![a] = [r \in RunIds |->
         IF Working(@, r) THEN "orphan" ELSE @[r]]]
    /\ syncDue' = [syncDue EXCEPT ![a] = TRUE]
    /\ UNCHANGED <<up, listening, reg, data>>

\* A busy agent refuses and answers with the status of all its workers.
RefuseQuit(a) ==
    /\ Takes(a, "QUIT")
    /\ BusyAgent(worker[a])
    /\ Reply(a, StatusRunning(a, NoRun))
    /\ UNCHANGED <<up, worker, listening, syncDue, reg, data>>

\* os._exit in the finally clause: the answer is never sent.
Quit(a) ==
    /\ Alive(a) /\ inbox[a] # <<>> /\ Head(inbox[a]).command = "QUIT"
    /\ ~BusyAgent(worker[a])
    /\ Die(a)
    /\ UNCHANGED <<replies, reg, data>>

\* The callback _stop_runs leaves on the loop.
SyncCallback(a) ==
    /\ Alive(a) /\ syncDue[a]
    /\ syncDue' = [syncDue EXCEPT ![a] = FALSE]
    /\ SyncHeartbeat(a, worker[a])
    /\ UNCHANGED <<up, worker, inbox, replies, reg, data>>

\* _check_proc, every ping_delay: dead processes leave _workers.
CheckProc(a) ==
    /\ Alive(a)
    /\ LET w == [r \in RunIds |->
                  IF worker[a][r] = "exited" THEN "none" ELSE worker[a][r]]
       IN worker' = [worker EXCEPT ![a] = w] /\ SyncHeartbeat(a, w)
    /\ UNCHANGED <<up, syncDue, inbox, replies, reg, data>>

Mut_KillOnlyDead(a, r) ==
    /\ Alive(a) /\ worker[a][r] = "exited"
    /\ worker' = [worker EXCEPT ![a][r] = "none"]
    /\ UNCHANGED <<up, listening, syncDue, inbox, replies, reg, data>>

\* The kill timer of a stopped worker goes off.
KillWorker(a, r) ==
    /\ Alive(a) /\ worker[a][r] = "orphan"
    /\ worker' = [worker EXCEPT ![a][r] = "none"]
    /\ UNCHANGED <<up, listening, syncDue, inbox, replies, reg, data>>

\* A beat arrives: with no onbeat every beat makes the agent register.
Beat(a) ==
    /\ Alive(a) /\ listening[a]
    /\ Len(reg[a]) < QueueBound
    /\ reg' = [reg EXCEPT ![a] = Append(@, "REGISTER")]
    /\ UNCHANGED <<up, worker, listening, syncDue, inbox, replies, data>>

\* No beat for too long: lost() refuses when busy, else the agent exits.
Lost(a) ==
    /\ Alive(a) /\ listening[a]
    /\ ~BusyAgent(worker[a])
    /\ Die(a)
    /\ UNCHANGED <<replies, reg, data>>

\* stop(), called at max_age: busy or not, unregister and exit a little later.
Stop(a) ==
    /\ HasMaxAge /\ up[a] = "on"
    /\ Len(reg[a]) < QueueBound
    /\ up' = [up EXCEPT ![a] = "leaving"]
    /\ reg' = [reg EXCEPT ![a] = Append(@, "UNREGISTER")]
    /\ UNCHANGED <<worker, listening, syncDue, inbox, replies, data>>

StopTimer(a) ==
    /\ up[a] = "leaving"
    /\ Die(a)
    /\ UNCHANGED <<replies, reg, data>>

Crash(a) ==
    /\ MayCrash /\ Alive(a)
    /\ Die(a)
    /\ UNCHANGED <<replies, reg, data>>

-----------------------------------------------------------------------------
(* The worker processes: external, run by the tests they load. *)

WorkerExit(a, r) ==
    /\ worker[a][r] \in {"running", "orphan"}
    /\ worker' = [worker EXCEPT ![a][r] =
         IF worker[a][r] = "running" THEN "exited" ELSE "none"]
    /\ UNCHANGED <<up, listening, syncDue, inbox, replies, reg, data>>

\* One result under way per worker at a time.
WorkerPush(a, r) ==
    /\ worker[a][r] \in {"running", "orphan"} /\ r \notin data[a]
    /\ data' = [data EXCEPT ![a] = @ \cup {r}]
    /\ UNCHANGED <<up, worker, listening, syncDue, inbox, replies, reg>>

Handle(a) ==
    \/ HandleRun(a) \/ HandleRunFails(a) \/ HandleStatus(a)
    \/ HandleStop(a) \/ RefuseQuit(a) \/ Quit(a)

AgentStep(a) ==
    \/ Handle(a) \/ SyncCallback(a) \/ CheckProc(a) \/ Beat(a)
    \/ Lost(a) \/ Stop(a) \/ StopTimer(a) \/ Crash(a)
    \/ \E r \in RunIds : KillWorker(a, r) \/ WorkerExit(a, r) \/ WorkerPush(a, r)

=============================================================================
