------------------------------ MODULE Heartbeat ------------------------------
(***************************************************************************)
(* The heartbeat of the broker and the stethoscopes of its agents          *)
(* (src/loads/transport/heartbeat.py), with what broker.py and agent.py    *)
(* hook into them: every Register-th beat is a REGISTER, before which the  *)
(* broker forgets all its agents; an agent listens when it has no worker,  *)
(* registers when it hears a beat and exits when it hears none.            *)
(*                                                                         *)
(* Time is discrete.  What is due is done before time passes, except that  *)
(* the broker may be MaxLate behind with a beat and that a handler of an   *)
(* agent may keep its loop for up to MaxBlock.                             *)
(***************************************************************************)
EXTENDS Integers, Sequences, FiniteSets

CONSTANTS
    Agents,
    Interval,   \* between two beats
    Register,   \* one beat out of so many is a REGISTER
    Delay,      \* between two looks at the stethoscope, ping_delay
    Retries,    \* looks without a beat before the broker counts as lost
    Warmup,     \* how long start sleeps, for the subscription to get through
    MaxLate,
    MaxBlock

ASSUME HeartbeatAssumption ==
    /\ {Interval, Register, Delay, Retries} \subseteq Nat \ {0}
    /\ {Warmup, MaxLate, MaxBlock} \subseteq Nat

VARIABLES
    heart,        \* the broker: up, time to the next beat, current_register
    agent,        \* the agents and their stethoscopes
    wire,         \* beats an agent has not read yet
    registered,   \* the agents the broker knows
    outage,       \* agents for which the broker was down since they last heard
                  \* a beat or began to listen
    silence,      \* time since the agent heard a beat or began to listen
    missing,      \* time the broker is up and does not know the agent, which listens
    stale         \* time the broker is up and knows the agent, which is gone

vars == <<heart, agent, wire, registered, outage, silence, missing, stale>>
history == <<outage, silence, missing, stale>>

Beats == {"BEAT", "REGISTER"}

NewHeart == [up |-> TRUE, due |-> Interval, current_register |-> 0]

\* state is "off" before the agent starts and "gone" once it has exited;
\* working says that _workers is not empty, blocked for how long a handler
\* still keeps the loop and warming that this handler is start.
NewAgent == [state |-> "off", running |-> FALSE, working |-> FALSE, tries |-> 0,
             due |-> Delay, blocked |-> 0, warming |-> FALSE]

Init ==
    /\ heart = NewHeart
    /\ agent = [a \in Agents |-> NewAgent]
    /\ wire = [a \in Agents |-> <<>>]
    /\ registered = {}
    /\ outage = {}
    /\ silence = [a \in Agents |-> 0]
    /\ missing = [a \in Agents |-> 0]
    /\ stale = [a \in Agents |-> 0]

Alive(a) == agent[a].state = "on"
Free(a) == Alive(a) /\ agent[a].blocked = 0
Listening(a) == Alive(a) /\ agent[a].running

\* A PeriodicCallback that ran late skips the times it has missed.
NextDue(due, period) == period - ((-due) % period)

-----------------------------------------------------------------------------
(* The broker. *)

Mut_AfterBeat(register) == IF register + 1 = Register THEN 1 ELSE register + 1

AfterBeat(register) == IF register + 1 = Register THEN 0 ELSE register + 1

\* _ping.  A subscription that is being set up may or may not get the beat.
Ping ==
    /\ heart.up /\ heart.due <= 0
    /\ LET beat == IF heart.current_register = 0 THEN "REGISTER" ELSE "BEAT"
       IN /\ registered' = IF beat = "REGISTER" THEN {} ELSE registered
          /\ \E late \in SUBSET {a \in Agents : Listening(a) /\ agent[a].warming} :
               wire' = [a \in Agents |->
                 IF Listening(a) /\ a \notin late THEN Append(wire[a], beat) ELSE wire[a]]
    /\ heart' = [heart EXCEPT !.due = NextDue(@, Interval), !.current_register = AfterBeat(@)]
    /\ UNCHANGED <<agent, history>>

\* The broker dies, and comes back knowing nobody.
HeartDies ==
    /\ heart.up
    /\ heart' = [heart EXCEPT !.up = FALSE]
    /\ registered' = {}
    /\ outage' = Agents
    /\ missing' = [a \in Agents |-> 0] /\ stale' = [a \in Agents |-> 0]
    /\ UNCHANGED <<agent, wire, silence>>

HeartRestarts ==
    /\ ~heart.up
    /\ heart' = NewHeart
    /\ UNCHANGED <<agent, wire, registered, history>>

-----------------------------------------------------------------------------
(* The agents. *)

\* From now on the agent waits for a beat (history).
Attentive(a) ==
    /\ silence' = [silence EXCEPT ![a] = 0]
    /\ outage' = IF heart.up THEN outage \ {a} ELSE outage \cup {a}

\* register; nobody reads it when the broker is down.
Registers(a) ==
    /\ registered' = IF heart.up THEN registered \cup {a} ELSE registered
    /\ missing' = [missing EXCEPT ![a] = 0]

\* Stethoscope.start: a new timer, which begins after the sleep.
Started(s) ==
    [s EXCEPT !.running = TRUE, !.blocked = Warmup, !.warming = TRUE, !.due = Warmup + Delay]

Mut_Stopped(s) == [s EXCEPT !.running = FALSE]

Stopped(s) == [s EXCEPT !.running = FALSE, !.tries = 0]

\* Stethoscope.stop flushes its stream first: beats that were not read yet are
\* handled, and make the agent register.
Stops(a, s) ==
    /\ agent' = [agent EXCEPT ![a] = Stopped(s)]
    /\ wire' = [wire EXCEPT ![a] = <<>>]
    /\ IF wire[a] # <<>> THEN Registers(a) ELSE UNCHANGED <<registered, missing>>

\* Agent.start: listen, then register.
AgentStarts(a) ==
    /\ agent[a].state = "off"
    /\ agent' = [agent EXCEPT ![a] = Started([@ EXCEPT !.state = "on"])]
    /\ Attentive(a)
    /\ Registers(a)
    /\ UNCHANGED <<heart, wire, stale>>

\* A handler that takes time.
Block(a) ==
    /\ Free(a) /\ wire[a] = <<>> /\ agent[a].due > 0
    /\ \E d \in 1..MaxBlock :
         agent' = [agent EXCEPT ![a].blocked = d, ![a].warming = FALSE]
    /\ UNCHANGED <<heart, wire, registered, history>>

\* RUN: with a worker the agent stops listening.
Run(a) ==
    /\ Free(a)
    /\ LET s == [agent[a] EXCEPT !.working = TRUE]
       IN IF s.running THEN Stops(a, s)
          ELSE agent' = [agent EXCEPT ![a] = s] /\ UNCHANGED <<wire, registered, missing>>
    /\ UNCHANGED <<heart, outage, silence, stale>>

\* Its last worker has left _workers, and _sync_hb listens again.
Finish(a) ==
    /\ Free(a) /\ agent[a].working
    /\ agent' = [agent EXCEPT ![a] =
         LET s == [@ EXCEPT !.working = FALSE] IN IF s.running THEN s ELSE Started(s)]
    /\ Attentive(a)
    /\ missing' = [missing EXCEPT ![a] = 0]
    /\ UNCHANGED <<heart, wire, registered, stale>>

Mut_Hears(beat) == beat = "REGISTER"

\* With no onbeat, a BEAT is handled by onregister as well.
Hears(beat) == beat \in Beats

\* _handle_recv.
HandleRecv(a) ==
    /\ Free(a) /\ agent[a].running /\ wire[a] # <<>>
    /\ wire' = [wire EXCEPT ![a] = Tail(@)]
    /\ agent' = [agent EXCEPT ![a].tries = 0]
    /\ Attentive(a)
    /\ IF Hears(Head(wire[a])) THEN Registers(a) ELSE UNCHANGED <<registered, missing>>
    /\ UNCHANGED <<heart, stale>>

Mut_IsLost(tries) == tries > Retries
Mut_LostEarly(tries) == tries + 1 >= Retries

IsLost(tries) == tries >= Retries

\* _delayed: once nothing came back so often, lost stops the stethoscope and
\* the agent exits, unless it has workers.
Delayed(a) ==
    /\ Free(a) /\ agent[a].running /\ agent[a].due <= 0
    /\ LET s == [agent[a] EXCEPT !.tries = @ + 1, !.due = NextDue(@, Delay)]
       IN IF IsLost(s.tries) /\ ~s.working
          THEN Stops(a, [s EXCEPT !.state = "gone"])
          ELSE agent' = [agent EXCEPT ![a] = s] /\ UNCHANGED <<wire, registered, missing>>
    /\ UNCHANGED <<heart, outage, silence, stale>>

Crash(a) ==
    /\ Alive(a)
    /\ agent' = [agent EXCEPT ![a] = Stopped([NewAgent EXCEPT !.state = "gone"])]
    /\ wire' = [wire EXCEPT ![a] = <<>>]
    /\ missing' = [missing EXCEPT ![a] = 0]
    /\ UNCHANGED <<heart, registered, outage, silence, stale>>

-----------------------------------------------------------------------------
(* Time. *)

\* Clocks stop once they have passed every bound of the properties.
Horizon == Register * Interval + Retries * Delay + Warmup + MaxLate + 2 * MaxBlock + 1
Passed(clock) == IF clock < Horizon THEN clock + 1 ELSE clock

Tick ==
    /\ heart.up => heart.due > -MaxLate
    /\ \A a \in Agents : Free(a) /\ agent[a].running => wire[a] = <<>> /\ agent[a].due > 0
    /\ heart' = IF heart.up THEN [heart EXCEPT !.due = @ - 1] ELSE heart
    /\ agent' = [a \in Agents |->
         IF ~Alive(a) THEN agent[a]
         ELSE [agent[a] EXCEPT !.due = IF agent[a].running THEN @ - 1 ELSE @,
                               !.blocked = IF @ = 0 THEN 0 ELSE @ - 1,
                               !.warming = @ /\ agent[a].blocked > 1]]
    /\ silence' = [a \in Agents |-> IF Listening(a) THEN Passed(silence[a]) ELSE 0]
    /\ missing' = [a \in Agents |->
         IF heart.up /\ Listening(a) /\ a \notin registered THEN Passed(missing[a]) ELSE 0]
    /\ stale' = [a \in Agents |->
         IF heart.up /\ ~Alive(a) /\ a \in registered THEN Passed(stale[a]) ELSE 0]
    /\ UNCHANGED <<wire, registered, outage>>

Next ==
    \/ Ping \/ HeartDies \/ HeartRestarts \/ Tick
    \/ \E a \in Agents :
         \/ AgentStarts(a) \/ Block(a) \/ Run(a) \/ Finish(a)
         \/ HandleRecv(a) \/ Delayed(a) \/ Crash(a)

Spec == Init /\ [][Next]_vars
-----------------------------------------------------------------------------
TypeOK ==
    /\ heart.up \in BOOLEAN /\ heart.current_register \in 0..(Register - 1)
    /\ heart.due \in -MaxLate..Interval
    /\ \A a \in Agents :
         /\ agent[a].state \in {"off", "on", "gone"}
         /\ {agent[a].running, agent[a].working, agent[a].warming} \subseteq BOOLEAN
         /\ {agent[a].tries, agent[a].blocked} \subseteq Nat
    /\ wire \in [Agents -> Seq(Beats)]
    /\ registered \subseteq Agents

\* An agent listens exactly when it has no worker, and a stethoscope that is
\* off has forgotten the looks it took: lost never finds a worker, and the next
\* start begins to count at 0.
ListensWhenIdle ==
    \A a \in Agents :
      /\ Alive(a) => agent[a].running = ~agent[a].working
      /\ ~agent[a].running => agent[a].tries = 0 /\ wire[a] = <<>>

HeartbeatInv == TypeOK /\ ListensWhenIdle

\* An agent gives up only a broker that went down: not because a beat was
\* late, a handler took long, or it has just begun to listen.
LiveBrokerKept ==
    [][\A a \in Agents : Delayed(a) /\ agent'[a].state = "gone" => a \in outage]_vars

\* "If no beat is found, it calls onbeatlost": an agent listens in vain no longer
\* than Retries looks take.
LostInTime == \A a \in Agents : Listening(a) => silence[a] <= Warmup + Retries * Delay + MaxBlock

\* Every agent that listens is known to the broker one beat later, whether it
\* was forgotten with a REGISTER, has been busy or meets a new broker.
KnownInTime ==
    \A a \in Agents : missing[a] <= Warmup + Interval + MaxLate + MaxBlock

\* An agent that exited or died is forgotten after one round of beats.
GoneInTime == \A a \in Agents : stale[a] <= Register * Interval + MaxLate

\* The agents the broker counts on are those that listen, but for a bounded time.
RosterInTime == KnownInTime /\ GoneInTime

\* "onregister: a callable that will be called on a register ping".
RegistersOnRegister ==
    [][\A a \in Agents : HandleRecv(a) /\ a \in registered' \ registered
         => Head(wire[a]) = "REGISTER"]_vars
=============================================================================
