------------------------ MODULE ExternalRunnerProofs ------------------------
(***************************************************************************)
(* Theorems about ExternalRunner for every list of hits and users.         *)
(***************************************************************************)
EXTENDS ExternalRunner, TLAPS

\* The number of steps and the arguments are well typed.
LEMMA ArgsType ==
  ASSUME RunnerAssumption, TypeOK
  PROVE  /\ hits \in Seq(Nat) /\ Len(hits) \in Nat /\ Len(hits) > 0
         /\ users \in Seq(Nat) /\ Len(users) \in Nat /\ Len(users) > 0
         /\ NbSteps \in Nat /\ NbSteps > 0
  BY DEF RunnerAssumption, TypeOK, NbSteps

\* The crew _start_next_step spawns is the one the arguments ask for.
LEMMA CrewWanted ==
  ASSUME RunnerAssumption, TypeOK
  PROVE  Crew = Wanted(step)
<1>1. step \in Nat
  BY ArgsType DEF TypeOK
<1>2. StepUsers = users[IF step < Len(users) THEN step + 1 ELSE Len(users)]
  BY <1>1, ArgsType DEF StepUsers, StepValue
<1> QED BY <1>2 DEF Crew, Wanted

\* A crew is not among the processes of the steps before it.
LEMMA CrewIsNew ==
  ASSUME RunnerAssumption, RunnerIInv, NEW p \in spawned
  PROVE  p \notin Wanted(step)
<1>1. step \in Nat
  BY ArgsType DEF RunnerIInv, RunnerInv, TypeOK
<1>2. PICK s \in 0..(step - 1) : p \in Wanted(s)
  BY DEF RunnerIInv
<1>3. p.step = s
  BY <1>2 DEF Wanted, Process
<1>4. \A q \in Wanted(step) : q.step = step
  BY DEF Wanted, Process
<1> QED BY <1>1, <1>3, <1>4

\* RunnerIInv holds initially.
LEMMA InitInv == Init => RunnerIInv
<1> SUFFICES ASSUME Init PROVE RunnerIInv
  OBVIOUS
<1>1. NbSteps \in Nat
  BY RunnerAssumption DEF Init, RunnerAssumption, NbSteps
<1>2. TypeOK
  BY <1>1, RunnerAssumption DEF Init, TypeOK, RunnerAssumption
<1>3. spawned = UNION {Wanted(s) : s \in 0..(step - 1)}
  BY DEF Init
<1> QED BY <1>2, <1>3 DEF Init, RunnerIInv, RunnerInv, NoneForgotten

\* Starting the next step with every live process handed over keeps it.
LEMMA StartInv ==
  ASSUME RunnerIInv, phase \in {"new", "looping"},
         NEW left, NEW waiting,
         left \cup waiting \subseteq spawned,
         alive \subseteq left \cup waiting,
         StartNextStep(left, waiting)
  PROVE  RunnerIInv'
<1> USE RunnerAssumption
<1>1. TypeOK /\ step \in Nat /\ NbSteps \in Nat
  BY ArgsType DEF RunnerIInv, RunnerInv, TypeOK
<1>2. NbSteps' = NbSteps /\ \A s : Wanted(s)' = Wanted(s)
  BY DEF StartNextStep, args, NbSteps, Wanted, Process
<1>3. pending' = waiting \cup left
  BY DEF StartNextStep, Terminated
<1>4. CASE LastStepDone
  <2>1. /\ phase' = "stopped" /\ processes' = {}
        /\ UNCHANGED <<hits, users, duration, step, elapsed, alive, spawned, unread, counted>>
    BY <1>4 DEF StartNextStep, args
  <2>2. step = NbSteps
    BY <1>1, <1>4 DEF LastStepDone, TypeOK
  <2>3. TypeOK'
    BY <2>1, <1>1, <1>2, <1>3 DEF TypeOK
  <2>4. (spawned = UNION {Wanted(s) : s \in 0..(step - 1)})'
    BY <2>1, <1>2 DEF RunnerIInv
  <2> QED
    BY <2>1, <2>2, <2>3, <2>4, <1>2, <1>3 DEF RunnerIInv, RunnerInv, NoneForgotten
<1>5. CASE ~LastStepDone
  <2>1. /\ phase' = "looping" /\ processes' = Crew
        /\ alive' = alive \cup Crew /\ spawned' = spawned \cup Crew
        /\ step' = step + 1 /\ elapsed' = 0
        /\ UNCHANGED <<hits, users, duration, unread, counted>>
    BY <1>5 DEF StartNextStep, args
  <2>2. step + 1 \in 0..NbSteps
    BY <1>1, <1>5 DEF LastStepDone
  <2>3. TypeOK'
    BY <2>1, <2>2, <1>1, <1>2, <1>3 DEF TypeOK, RunnerAssumption
  <2>4. (spawned = UNION {Wanted(s) : s \in 0..(step - 1)})'
    <3>1. UNION {Wanted(s) : s \in 0..step}
            = (UNION {Wanted(s) : s \in 0..(step - 1)}) \cup Wanted(step)
      <4>1. 0..step = (0..(step - 1)) \cup {step}
        BY <1>1
      <4> QED BY <4>1
    <3>2. spawned \cup Crew = UNION {Wanted(s) : s \in 0..step}
      BY <3>1, <1>1, CrewWanted DEF RunnerIInv
    <3>3. 0..(step' - 1) = 0..step
      BY <2>1, <1>1
    <3> QED BY <3>2, <3>3, <2>1, <1>2
  <2>5. Crew \cap pending' = {}
    BY <1>3, <1>1, CrewIsNew, CrewWanted DEF RunnerIInv
  <2> QED
    BY <2>1, <2>3, <2>4, <2>5, <1>3 DEF RunnerIInv, RunnerInv, NoneForgotten
<1> QED BY <1>4, <1>5

\* Every step keeps RunnerIInv.
LEMMA NextInv == RunnerIInv /\ [Next]_vars => RunnerIInv'
<1> SUFFICES ASSUME RunnerIInv, [Next]_vars PROVE RunnerIInv'
  OBVIOUS
<1> USE RunnerAssumption
<1> DEFINE Untouched == UNCHANGED <<hits, users, duration, phase, step, spawned>>
<1>1. ASSUME Untouched, TypeOK', NoneForgotten', (processes \cap pending = {})'
      PROVE  RunnerIInv'
  BY <1>1 DEF RunnerIInv, RunnerInv, NbSteps, Wanted, Process
<1>2. ASSUME Untouched PROVE NbSteps' = NbSteps
  BY <1>2 DEF NbSteps
<1>3. CASE Execute
  <2>1. spawned = {}
    <3>1. 0..(step - 1) = {}
      BY <1>3 DEF Execute, RunnerIInv
    <3> QED BY <3>1 DEF RunnerIInv
  <2>2. alive = {}
    BY <2>1 DEF RunnerIInv, RunnerInv, TypeOK
  <2> QED BY <1>3, <2>2, StartInv DEF Execute
<1>4. CASE CheckProcesses
  <2>1. CASE StepIsOver
    BY <1>4, <2>1, StartInv
    DEF CheckProcesses, RunnerIInv, RunnerInv, TypeOK, NoneForgotten
  <2>2. CASE ~StepIsOver
    <3>1. Untouched /\ UNCHANGED <<elapsed, alive, unread, counted>>
          /\ processes' = processes \cap alive /\ pending' = pending \cap alive
      BY <1>4, <2>2 DEF CheckProcesses, args
    <3> QED
      BY <3>1, <1>1, <1>2 DEF RunnerIInv, RunnerInv, TypeOK, NoneForgotten
  <2> QED BY <2>1, <2>2
<1>5. CASE Tick
  <2>1. Untouched /\ elapsed' = elapsed + 1 /\ elapsed < MaxElapsed
        /\ UNCHANGED <<alive, processes, pending, unread, counted>>
    BY <1>5 DEF Tick, args
  <2>2. elapsed' \in 0..MaxElapsed
    BY <2>1 DEF RunnerIInv, RunnerInv, TypeOK, RunnerAssumption
  <2> QED
    BY <2>1, <2>2, <1>1, <1>2 DEF RunnerIInv, RunnerInv, TypeOK, NoneForgotten
<1>6. ASSUME NEW p \in spawned, RecvResult(p) PROVE RunnerIInv'
  BY <1>6, <1>1, <1>2 DEF RecvResult, args, RunnerIInv, RunnerInv, TypeOK, NoneForgotten
<1>7. ASSUME NEW p \in spawned, PushResult(p) PROVE RunnerIInv'
  BY <1>7, <1>1, <1>2 DEF PushResult, args, RunnerIInv, RunnerInv, TypeOK, NoneForgotten
<1>8. ASSUME NEW p \in spawned, Exit(p) PROVE RunnerIInv'
  BY <1>8, <1>1, <1>2 DEF Exit, args, RunnerIInv, RunnerInv, TypeOK, NoneForgotten
<1>9. CASE UNCHANGED vars
  BY <1>9, <1>1, <1>2 DEF vars, RunnerIInv, RunnerInv, TypeOK, NoneForgotten
<1> QED
  BY <1>3, <1>4, <1>5, <1>6, <1>7, <1>8, <1>9 DEF Next, Done

\* The inductive invariant holds in every reachable state.
LEMMA Inductive == Spec => []RunnerIInv
  BY InitInv, NextInv, PTL DEF Spec

\* Every live process is polled: as one of the current step or, once told to
\* terminate, for cleanup (_check_processes, _start_next_step).
THEOREM RunnerInvariant == Spec => []RunnerInv
<1>1. RunnerIInv => RunnerInv
  BY DEF RunnerIInv
<1> QED BY <1>1, Inductive, PTL

\* When the runner stops, exactly the processes of all its steps were started.
THEOREM AllStepsAreRun == Spec => []AllStepsRun
<1>1. RunnerIInv => AllStepsRun
  BY DEF RunnerIInv, AllStepsRun
<1> QED BY <1>1, Inductive, PTL
=============================================================================
