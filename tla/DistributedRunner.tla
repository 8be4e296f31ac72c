------------------------- MODULE DistributedRunner -------------------------
(***************************************************************************)
(* The distributed runner (src/loads/runners/distributed.py): a client     *)
(* that asks the broker for a run, or attaches to one, and follows what    *)
(* the broker publishes until the run is over.  The workers push their     *)
(* results through a relay (results/zmqrelay.py); the broker publishes     *)
(* those of every run, in the order they arrive, and announces that a run  *)
(* is over at any time or never: it may take an agent that is late for     *)
(* dead, and forget one that works (BrokerCtrl).                           *)
(*                                                                         *)
(* A hit stands for every kind of result but stopTestRun.                  *)
(***************************************************************************)
EXTENDS Naturals, Sequences, FiniteSets

CONSTANTS
    Crew,      \* the agents of the run
    Others,    \* the agents of another run of the same broker
    Modes,     \* "run", "run --detach" and "--attach", as far as considered
    MaxHits    \* bound on the hits of an agent

ASSUME RunnerAssumption ==
    /\ Crew \cap Others = {} /\ IsFiniteSet(Crew) /\ Crew # {}
    /\ Modes \subseteq {"run", "detach", "attach"}
    /\ MaxHits \in Nat

Agents == Crew \cup Others
Runs == {"own", "other"}
Team(r) == IF r = "own" THEN Crew ELSE Others

VARIABLES
    mode,      \* how the runner was called
    phase,     \* how far it is
    cause,     \* why its loop ended
    stops,     \* the agents whose stopTestRun it counted in _stopped_agents
    counted,   \* the hits of each agent in its test result
    remote,    \* the counts of RemoteTestResult: "given", "lost" or "latest"
    feed,      \* what was published for the runner to process
    run,       \* the runs of the broker
    toldStop,  \* the runs the broker has a stopTestRun of
    worker,    \* the worker process of each agent
    queue,     \* what the relay of the worker has not pushed
    channel,   \* what was pushed and has not reached the broker
    made       \* the hits of each worker

runnerVars == <<mode, phase, cause, stops, counted, remote>>
workerVars == <<worker, queue, channel, made>>
vars == <<runnerVars, feed, run, toldStop, workerVars>>

NoResults == [hits |-> 0, stop |-> FALSE]
Results(a, batch) == [kind |-> "results", agent |-> a, hits |-> batch.hits, stop |-> batch.stop]
Finished(r) == [kind |-> "run-finished", run |-> r]

Init ==
    /\ mode \in Modes
    /\ phase = "new" /\ cause = "none" /\ remote = "given"
    /\ stops = {} /\ feed = <<>>
    /\ run = [r \in Runs |-> "absent"] /\ toldStop = {}
    /\ worker = [a \in Agents |-> "none"]
    /\ queue = [a \in Agents |-> NoResults]
    /\ channel = [a \in Agents |-> <<>>]
    /\ made = [a \in Agents |-> 0] /\ counted = [a \in Agents |-> 0]

-----------------------------------------------------------------------------
(* The runner. *)

\* Connected to the publisher, and not yet destroyed with its context.
Subscribed == phase \in {"subscribed", "looping"}
Publish(message) == feed' = IF Subscribed THEN Append(feed, message) ELSE feed

Enter(p) == phase' = p /\ UNCHANGED <<mode, cause, stops, counted, remote>>

\* _attach_publisher, before the run is asked for.
AttachPublisher ==
    /\ phase = "new" /\ mode # "attach"
    /\ Enter("subscribed")
    /\ UNCHANGED <<feed, run, toldStop, workerVars>>

Launched(r) ==
    /\ run' = [run EXCEPT ![r] = "active"]
    /\ worker' = [a \in Agents |-> IF a \in Team(r) THEN "running" ELSE worker[a]]

\* client.run; a detached runner does not wait.
Execute ==
    /\ phase = "subscribed"
    /\ Launched("own")
    /\ Enter(IF mode = "detach" THEN "done" ELSE "looping")
    /\ UNCHANGED <<feed, toldStop, queue, channel, made>>

\* 'Not enough agents running on that broker.'
ExecutionError ==
    /\ phase = "subscribed"
    /\ Enter("done")
    /\ UNCHANGED <<feed, run, toldStop, workerVars>>

\* --attach: there must be one run to attach to ...
ListRuns ==
    /\ phase = "new" /\ mode = "attach"
    /\ Enter(IF {r \in Runs : run[r] = "active"} = {"own"} THEN "listed" ELSE "done")
    /\ UNCHANGED <<feed, run, toldStop, workerVars>>

\* ... none of whose agents has stopped yet ...
GetCounts ==
    /\ phase = "listed"
    /\ Enter(IF "own" \in toldStop THEN "done" ELSE "attaching")
    /\ UNCHANGED <<feed, run, toldStop, workerVars>>

\* ... and only then the runner subscribes.
Attach ==
    /\ phase = "attaching"
    /\ Enter("looping")
    /\ UNCHANGED <<feed, run, toldStop, workerVars>>

Mut_AllStopped(after) == Cardinality(after) + 1 = Cardinality(Crew)

\* _stopped_agents reaches _nb_agents, which --attach does not know.
AllStopped(after) == mode # "attach" /\ Cardinality(after) = Cardinality(Crew)

\* sync: RemoteTestResult forgets its counts and asks for the data of the run,
\* which raises once the broker has thrown the details away.
Sync ==
    remote' = IF mode # "attach" THEN remote
              ELSE IF run["own"] = "over" THEN "lost" ELSE "latest"

\* The loop stops, when sync raises as well; the context goes with it, and
\* what was still to be processed.
StopLoop(why) == phase' = "done" /\ cause' = why /\ Sync

Continue == UNCHANGED <<phase, cause, remote>>

ProcessResults(message) ==
    LET after == stops \cup {message.agent}
    IN /\ counted' = [counted EXCEPT ![message.agent] = @ + message.hits]
       /\ stops' = IF message.stop THEN after ELSE stops
       /\ IF message.stop /\ AllStopped(after) THEN StopLoop("count") ELSE Continue

Mut_ProcessFinished(message) == UNCHANGED <<stops, counted>> /\ Continue

ProcessFinished(message) ==
    /\ UNCHANGED <<stops, counted>>
    /\ IF message.run = "own" THEN StopLoop("run-finished") ELSE Continue

ProcessResult ==
    /\ phase = "looping" /\ feed # <<>>
    /\ LET message == Head(feed)
       IN IF message.kind = "results" THEN ProcessResults(message)
          ELSE ProcessFinished(message)
    /\ feed' = IF phase' = "done" THEN <<>> ELSE Tail(feed)
    /\ UNCHANGED <<mode, run, toldStop, workerVars>>

\* Ctrl-C: the user stops the run, whose agents then kill its workers, or
\* detaches.
Interrupt ==
    /\ phase = "looping"
    /\ phase' = "done" /\ cause' = "interrupt" /\ feed' = <<>>
    /\ \/ UNCHANGED <<worker, queue>>
       \/ /\ worker' = [a \in Agents |->
               IF a \in Crew /\ worker[a] # "none" THEN "gone" ELSE worker[a]]
          /\ queue' = [a \in Agents |-> IF a \in Crew THEN NoResults ELSE queue[a]]
    /\ UNCHANGED <<mode, stops, counted, remote, run, toldStop, channel, made>>

-----------------------------------------------------------------------------
(* The workers, and the relays of their results. *)

\* Hits of the other run change none of what is modelled, and are left out.
Hit(a) ==
    /\ a \in Crew /\ worker[a] = "running" /\ made[a] < MaxHits
    /\ made' = [made EXCEPT ![a] = @ + 1]
    /\ queue' = [queue EXCEPT ![a].hits = @ + 1]
    /\ UNCHANGED <<runnerVars, feed, run, toldStop, worker, channel>>

\* The last thing a worker records is stopTestRun; then it closes its relay.
Finish(a) ==
    /\ worker[a] = "running"
    /\ worker' = [worker EXCEPT ![a] = "closing"]
    /\ queue' = [queue EXCEPT ![a].stop = TRUE]
    /\ UNCHANGED <<runnerVars, feed, run, toldStop, channel, made>>

Mut_Dump(a) ==
    /\ queue[a].stop
    /\ channel' = [channel EXCEPT ![a] = Append(@, [NoResults EXCEPT !.stop = TRUE])]
    /\ queue' = [queue EXCEPT ![a].stop = FALSE]
    /\ UNCHANGED <<runnerVars, feed, run, toldStop, worker, made>>

\* _dump_data sends all there is as one batch; without batches push sends a
\* result at once, which is one of the times a batch may be sent.
Dump(a) ==
    /\ queue[a] # NoResults
    /\ channel' = [channel EXCEPT ![a] = Append(@, queue[a])]
    /\ queue' = [queue EXCEPT ![a] = NoResults]
    /\ UNCHANGED <<runnerVars, feed, run, toldStop, worker, made>>

\* close returns when the queue is empty.
Exit(a) ==
    /\ worker[a] = "closing" /\ queue[a] = NoResults
    /\ worker' = [worker EXCEPT ![a] = "gone"]
    /\ UNCHANGED <<runnerVars, feed, run, toldStop, queue, channel, made>>

\* A worker is killed, or dies of an error of its test.
Die(a) ==
    /\ worker[a] \in {"running", "closing"}
    /\ worker' = [worker EXCEPT ![a] = "gone"]
    /\ queue' = [queue EXCEPT ![a] = NoResults]
    /\ UNCHANGED <<runnerVars, feed, run, toldStop, channel, made>>

-----------------------------------------------------------------------------
(* The broker and its other clients. *)

RunOf(a) == IF a \in Crew THEN "own" ELSE "other"

\* _handle_recv publishes a message and saves it.
HandleRecv(a) ==
    /\ channel[a] # <<>>
    /\ Publish(Results(a, Head(channel[a])))
    /\ channel' = [channel EXCEPT ![a] = Tail(@)]
    /\ toldStop' = IF Head(channel[a]).stop THEN toldStop \cup {RunOf(a)} ELSE toldStop
    /\ UNCHANGED <<runnerVars, run, worker, queue, made>>

\* The last agent of the run leaves it for the broker: it answered that it is
\* done, or was silent for too long and may still work.  A run may be announced
\* once more later, which finds no runner of it.
RunFinished(r) ==
    /\ run[r] = "active"
    /\ run' = [run EXCEPT ![r] = "over"]
    /\ Publish(Finished(r))
    /\ UNCHANGED <<runnerVars, toldStop, workerVars>>

\* Another client starts a run, the one to attach to among them.
RunElsewhere(r) ==
    /\ run[r] = "absent" /\ Team(r) # {}
    /\ r = "own" => mode = "attach"
    /\ Launched(r)
    /\ UNCHANGED <<runnerVars, feed, toldStop, queue, channel, made>>

Next ==
    \/ AttachPublisher \/ Execute \/ ExecutionError
    \/ ListRuns \/ GetCounts \/ Attach
    \/ ProcessResult \/ Interrupt
    \/ \E a \in Agents : Hit(a) \/ Finish(a) \/ Dump(a) \/ Exit(a) \/ Die(a) \/ HandleRecv(a)
    \/ \E r \in Runs : RunFinished(r) \/ RunElsewhere(r)

Spec == Init /\ [][Next]_vars

\* The loops of the runner and the broker run, and the tests of its workers end
\* some day and their relays dump their queues.  Nothing sees to it that a run is announced: the broker
\* forgets agents without ending their run (broker.py:126, agent.py:325), and
\* an observer that does not resolve comes before it (brokerctrl.py:33).
FairSpec ==
    /\ Spec
    /\ WF_vars(ProcessResult)
    /\ \A a \in Crew : WF_vars(Finish(a)) /\ WF_vars(Dump(a)) /\ WF_vars(HandleRecv(a))

-----------------------------------------------------------------------------
TypeOK ==
    /\ mode \in Modes
    /\ phase \in {"new", "subscribed", "listed", "attaching", "looping", "done"}
    /\ cause \in {"none", "count", "run-finished", "interrupt"}
    /\ stops \subseteq Agents /\ toldStop \subseteq Runs
    /\ run \in [Runs -> {"absent", "active", "over"}]
    /\ worker \in [Agents -> {"none", "running", "closing", "gone"}]
    /\ made \in [Agents -> 0..MaxHits] /\ counted \in [Agents -> 0..MaxHits]

\* An agent is counted as stopped after its last hit: batches keep the order,
\* are emptied before the relay closes, and are published as they arrive.
StopIsLast ==
    mode = "run" => \A a \in stops \cap Crew : counted[a] = made[a]

RunnerInv == TypeOK /\ StopIsLast

\* As long as the broker serves no other run, a runner whose loop ended with
\* its last agent has every hit of the run in its report.
AloneIsComplete ==
    cause = "count" /\ run["other"] = "absent" =>
      \A a \in Crew : worker[a] \in {"closing", "gone"} /\ counted[a] = made[a]

\* The worker of agent a died before its stopTestRun was pushed.
Silenced(a) ==
    /\ worker[a] = "gone" /\ a \notin stops
    /\ \A i \in 1..Len(channel[a]) : ~channel[a][i].stop
    /\ \A i \in 1..Len(feed) :
         ~(feed[i].kind = "results" /\ feed[i].agent = a /\ feed[i].stop)

\* A runner that asked for a run waits for ever only if one of its workers never
\* got its stopTestRun out and the broker never announces the run, whatever other
\* runs publish: it needs one of the two, and neither is lost on the way.
RunnerReturns ==
    <>[](mode = "run" /\ phase = "looping" =>
           run["own"] = "active" /\ \E a \in Crew : Silenced(a))

\* A runner that attached returns when its run is over: refuted, since the run
\* may end after get_counts and before the runner subscribes.
AttachedReturns ==
    mode = "attach" /\ phase = "looping" /\ run["own"] = "over" ~> phase = "done"

\* _process_result: "Make sure all the agents are finished before stopping
\* the loop."
AllFinished == cause = "count" => \A a \in Crew : worker[a] \in {"closing", "gone"}

\* sync: "we're asking the broker about the latest counts".
SyncedCounts == mode = "attach" /\ cause = "run-finished" => remote = "latest"
=============================================================================
