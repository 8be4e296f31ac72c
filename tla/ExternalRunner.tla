--------------------------- MODULE ExternalRunner ---------------------------
(***************************************************************************)
(* The external runner (src/loads/runners/external.py): it spawns one      *)
(* process per user of a step, checks them every half second, forces a     *)
(* step to be over when it takes too long, and stops after the last step.  *)
(* When it is not a slave it reads the results of the processes itself.    *)
(***************************************************************************)
EXTENDS Naturals, Sequences, FiniteSets

CONSTANTS
    HitsArgs,     \* the lists of hits a user may ask for
    UsersArgs,    \* the lists of users a user may ask for
    Durations,    \* the durations a user may ask for
    NoDuration,   \* the duration is not given
    Timeout,      \* self._timeout
    MaxElapsed    \* bound on the clock of a step

ASSUME RunnerAssumption ==
    /\ HitsArgs \subseteq Seq(Nat) \ {<<>>}
    /\ UsersArgs \subseteq Seq(Nat) \ {<<>>}
    /\ Durations \subseteq Nat \cup {NoDuration} /\ NoDuration \notin Nat
    /\ Timeout \in Nat /\ MaxElapsed \in Nat

VARIABLES
    hits, users, duration,   \* the arguments of the run
    phase,       \* "new", "looping" or "stopped"
    step,        \* self._current_step: the steps started so far
    elapsed,     \* time since self._step_started_at
    alive,       \* processes that live
    spawned,     \* processes ever started
    processes,   \* self._processes
    pending,     \* self._processes_pending_cleanup
    unread,      \* processes with a result in the receiver socket
    counted      \* processes whose result reached the test result

vars == <<hits, users, duration, phase, step, elapsed, alive, spawned,
          processes, pending, unread, counted>>
args == <<hits, users, duration>>

NbSteps == IF Len(hits) > Len(users) THEN Len(hits) ELSE Len(users)

\* The value of a list for the current step: its last one when it is short.
StepValue(list) == IF Len(list) >= step + 1 THEN list[step + 1] ELSE list[Len(list)]
StepHits == StepValue(hits)
StepUsers == StepValue(users)

TimeLimit == IF duration # NoDuration THEN duration + Timeout ELSE StepHits * Timeout

Process(s, user) == [step |-> s, user |-> user]
Crew == {Process(step, user) : user \in 1..StepUsers}

Init ==
    /\ hits \in HitsArgs /\ users \in UsersArgs /\ duration \in Durations
    /\ phase = "new" /\ step = 0 /\ elapsed = 0
    /\ alive = {} /\ spawned = {} /\ processes = {} /\ pending = {}
    /\ unread = {} /\ counted = {}

Mut_StopEarly == step + 1 >= NbSteps

\* There is no step left to start.
LastStepDone == step >= NbSteps

Mut_Terminated(left) == {}

\* The processes left over from a step are terminated and waited for.
Terminated(left) == left

\* _start_next_step, with the processes of self._processes that still run and
\* those of the pending list that still do.
StartNextStep(left, waiting) ==
    /\ pending' = waiting \cup Terminated(left)
    /\ IF LastStepDone
       THEN /\ phase' = "stopped"
            /\ processes' = {}
            /\ UNCHANGED <<step, elapsed, alive, spawned>>
       ELSE /\ phase' = "looping"
            /\ processes' = Crew
            /\ alive' = alive \cup Crew
            /\ spawned' = spawned \cup Crew
            /\ step' = step + 1
            /\ elapsed' = 0
    /\ UNCHANGED <<args, unread, counted>>

Execute ==
    /\ phase = "new"
    /\ StartNextStep({}, {})

Mut_StepNeverForced == processes \cap alive = {}

\* The step is over when no process is left or when it has run for too long.
StepIsOver == processes \cap alive = {} \/ elapsed > TimeLimit

CheckProcesses ==
    /\ phase = "looping"
    /\ IF StepIsOver
       THEN StartNextStep(processes \cap alive, pending \cap alive)
       ELSE /\ processes' = processes \cap alive
            /\ pending' = pending \cap alive
            /\ UNCHANGED <<args, phase, step, elapsed, alive, spawned, unread, counted>>

\* _recv_result and the callback it leaves on the loop, which the ioloop runs
\* before it checks the processes again.
RecvResult(p) ==
    /\ phase = "looping"
    /\ p \in unread
    /\ unread' = unread \ {p}
    /\ counted' = counted \cup {p}
    /\ UNCHANGED <<args, phase, step, elapsed, alive, spawned, processes, pending>>

-----------------------------------------------------------------------------
(* The processes and the clock. *)

PushResult(p) ==
    /\ p \in alive /\ p \notin unread \cup counted
    /\ unread' = unread \cup {p}
    /\ UNCHANGED <<args, phase, step, elapsed, alive, spawned, processes, pending, counted>>

Exit(p) ==
    /\ p \in alive
    /\ alive' = alive \ {p}
    /\ UNCHANGED <<args, phase, step, elapsed, spawned, processes, pending, unread, counted>>

Tick ==
    /\ phase = "looping" /\ elapsed < MaxElapsed
    /\ elapsed' = elapsed + 1
    /\ UNCHANGED <<args, phase, step, alive, spawned, processes, pending, unread, counted>>

\* The runner has stopped and its processes are gone.
Done ==
    /\ phase = "stopped" /\ alive = {}
    /\ UNCHANGED vars

Next ==
    \/ Execute \/ CheckProcesses \/ Tick \/ Done
    \/ \E p \in spawned : RecvResult(p) \/ PushResult(p) \/ Exit(p)

Spec == Init /\ [][Next]_vars

\* The loop keeps checking and time passes; a process may live for ever.
FairSpec == Spec /\ WF_vars(Execute) /\ WF_vars(CheckProcesses) /\ WF_vars(Tick)

-----------------------------------------------------------------------------
TypeOK ==
    /\ hits \in HitsArgs /\ users \in UsersArgs /\ duration \in Durations
    /\ phase \in {"new", "looping", "stopped"}
    /\ step \in 0..NbSteps /\ elapsed \in 0..MaxElapsed
    /\ alive \subseteq spawned /\ processes \subseteq spawned
    /\ pending \subseteq spawned /\ unread \subseteq spawned /\ counted \subseteq spawned

\* Every live process is one the runner looks after: it polls it for the end
\* of its step, or it has terminated it and polls it for cleanup.
NoneForgotten == alive \subseteq processes \cup pending

\* No process is both of the current step and terminated.
RunnerInv == TypeOK /\ NoneForgotten /\ processes \cap pending = {}

\* The processes the arguments of the run ask for in step s: the shorter list
\* goes on with its last value.
Wanted(s) == {Process(s, user) :
                user \in 1..users[IF s < Len(users) THEN s + 1 ELSE Len(users)]}

\* Every user of every step gets a process before the runner stops, and no
\* other process is started.
AllStepsRun ==
    phase = "stopped" => spawned = UNION {Wanted(s) : s \in 0..(NbSteps - 1)}

\* RunnerInv and AllStepsRun strengthened to be inductive: so far exactly the
\* processes of the steps started exist, and the runner does not stop early.
RunnerIInv ==
    /\ RunnerInv
    /\ spawned = UNION {Wanted(s) : s \in 0..(step - 1)}
    /\ phase = "new" => step = 0
    /\ phase = "stopped" => step = NbSteps

\* The runner stops, even when its processes never exit.
Stops == phase = "new" ~> phase = "stopped"

\* step_hits: "How many hits to perform in the current step."  Without a
\* duration a step is cut short only after the time its own hits may take.
CutAfterOwnHits ==
    [][\A s \in 0..(NbSteps - 1) :
         /\ duration = NoDuration /\ step = s + 1
         /\ processes \cap alive # {} /\ processes \cap pending' # {}
         => elapsed > hits[IF s < Len(hits) THEN s + 1 ELSE Len(hits)] * Timeout]_vars

\* _start_next_step: "We will poll them for successful termination at next
\* proc check."  The runner stops only when nothing is pending.
PendingPolled == phase = "stopped" => pending \cap alive = {}

\* _execute: a runner that is not a slave needs "to receive the data ourself
\* and build up a TestResult".  What was pushed before it stops is counted.
ResultsCounted == [][phase' = "stopped" /\ phase # "stopped" => unread = {}]_vars
=============================================================================
