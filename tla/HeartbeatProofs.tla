--------------------------- MODULE HeartbeatProofs ---------------------------
(***************************************************************************)
(* What holds of Heartbeat for every number of agents and all periods:     *)
(* when an agent gives up the broker, and when the broker learns of and    *)
(* forgets an agent.                                                       *)
(***************************************************************************)
EXTENDS Heartbeat, SequenceTheorems, TLAPS

AgentType ==
    [state : {"off", "on", "gone"}, running : BOOLEAN, working : BOOLEAN, tries : Nat,
     due : Int, blocked : Nat, warming : BOOLEAN]

\* The types of all variables.
HeartTypes ==
    /\ heart \in [up : BOOLEAN, due : -MaxLate..Interval, current_register : 0..(Register - 1)]
    /\ agent \in [Agents -> AgentType]
    /\ wire \in [Agents -> Seq(Beats)]
    /\ registered \subseteq Agents
    /\ silence \in [Agents -> Nat] /\ missing \in [Agents -> Nat] /\ stale \in [Agents -> Nat]

\* A stethoscope runs in a live agent without a worker, and is clean when it
\* does not run.
SoundState(a) ==
    /\ Alive(a) => agent[a].running = ~agent[a].working
    /\ agent[a].running => Alive(a)
    /\ agent[a].state = "off" => ~agent[a].working
    /\ ~agent[a].running => agent[a].tries = 0 /\ wire[a] = <<>>

\* A look is late by no more than its handlers take, and the first one comes
\* a delay after start has slept.
SoundTimer(a) ==
    LET s == agent[a]
    IN /\ s.blocked <= IF s.warming THEN Warmup ELSE MaxBlock
       /\ s.due <= Warmup + Delay
       /\ s.due - s.blocked >= -MaxBlock
       /\ s.running /\ s.warming => s.tries = 0 /\ s.due >= s.blocked + Delay

\* An agent that is missing waits for its sleep to end, for the next beat, or
\* for its handler to end and read that beat.
SoundMissing(a) ==
    /\ ~heart.up \/ a \in registered => missing[a] = 0
    /\ missing[a] <= Warmup + Interval + MaxLate + MaxBlock
    /\ Listening(a) =>
         IF wire[a] # <<>>
         THEN missing[a] + agent[a].blocked <= Warmup + Interval + MaxLate + MaxBlock
         ELSE IF agent[a].warming THEN missing[a] + agent[a].blocked <= Warmup
         ELSE missing[a] + heart.due <= Warmup + Interval

\* Beats until the next REGISTER, after the one that is due.
BeatsLeft == IF heart.current_register = 0 THEN 0 ELSE Register - heart.current_register

\* The broker counts on an agent that is gone until the round is over.
SoundStale(a) ==
    /\ agent[a].state = "off" => a \notin registered
    /\ ~heart.up => a \notin registered
    /\ ~heart.up \/ agent[a].state \in {"off", "on"} => stale[a] = 0
    /\ stale[a] <= Register * Interval + MaxLate
    /\ ~Alive(a) /\ a \in registered =>
         stale[a] + heart.due + BeatsLeft * Interval <= Register * Interval

\* An agent the broker was up for has not taken more looks than it had time to
\* take before the beat that comes next, or that waits to be read.
SoundTries(a) ==
    a \notin outage =>
      /\ heart.up
      /\ Listening(a) =>
           IF wire[a] = <<>>
           THEN agent[a].tries * Delay + heart.due <= Interval + MaxBlock + agent[a].due
           ELSE agent[a].tries * Delay + agent[a].blocked
                  <= Interval + MaxLate + 2 * MaxBlock + agent[a].due

\* Every look a listening agent takes is one of Retries, a delay after the last.
SoundSilence(a) ==
    Listening(a) =>
      /\ agent[a].tries < Retries
      /\ silence[a] + agent[a].due <= Warmup + (agent[a].tries + 1) * Delay

\* What holds for all periods ...
HeartIInv ==
    /\ HeartTypes
    /\ \A a \in Agents : SoundState(a) /\ SoundTimer(a) /\ SoundMissing(a) /\ SoundTries(a)

\* ... and what holds when neither the broker nor an agent is late by a period.
Punctual == MaxLate < Interval /\ MaxBlock < Delay
PunctualInv == HeartIInv /\ \A a \in Agents : SoundStale(a) /\ SoundSilence(a)
-----------------------------------------------------------------------------
LEMMA Parameters ==
  /\ Interval \in Nat \ {0} /\ Register \in Nat \ {0}
  /\ Delay \in Nat \ {0} /\ Retries \in Nat \ {0}
  /\ Warmup \in Nat /\ MaxLate \in Nat /\ MaxBlock \in Nat
BY HeartbeatAssumption

\* A timer that went off at d is due again within one period, and no earlier
\* than a period after it should have gone off.
LEMMA NextDueBounds ==
  ASSUME NEW d \in Int, NEW period \in Nat \ {0}, d <= 0
  PROVE  /\ NextDue(d, period) \in 1..period
         /\ NextDue(d, period) >= d + period
         /\ -period < d => NextDue(d, period) = d + period
BY DEF NextDue

\* One more look takes one more delay.
LEMMA OneMoreLook ==
  ASSUME NEW n \in Nat, NEW period \in Nat
  PROVE  /\ n * period \in Nat
         /\ (n + 1) * period = n * period + period
         /\ n = 0 => n * period = 0
OBVIOUS

\* As many looks take as long, and fewer take no longer.
LEMMA LooksMonotone ==
  ASSUME NEW m \in Nat, NEW n \in Nat, NEW period \in Nat, m <= n
  PROVE  m * period <= n * period
<1>1. (n - m) * period >= 0
  OBVIOUS
<1>2. n * period = m * period + (n - m) * period
  OBVIOUS
<1>3. m * period \in Int /\ n * period \in Int /\ (n - m) * period \in Int
  OBVIOUS
<1> QED BY <1>1, <1>2, <1>3

Sound(a) == SoundState(a) /\ SoundTimer(a) /\ SoundMissing(a) /\ SoundTries(a)

\* What a step does not touch stays sound.
Untouched(b) ==
    /\ agent'[b] = agent[b] /\ wire'[b] = wire[b] /\ missing'[b] = missing[b]
    /\ b \in registered' <=> b \in registered
    /\ b \in outage' <=> b \in outage

LEMMA UntouchedSound ==
  ASSUME NEW b \in Agents, Sound(b), Untouched(b), heart' = heart
  PROVE  Sound(b)'
BY DEF Untouched, Sound, SoundState, SoundTimer, SoundMissing, SoundTries, Alive, Listening

\* The fields of a stethoscope that was started, or stopped.
LEMMA StartedFields ==
  ASSUME NEW s \in AgentType
  PROVE  LET t == Started(s)
         IN /\ t \in AgentType
            /\ t.state = s.state /\ t.working = s.working /\ t.tries = s.tries
            /\ t.running /\ t.warming /\ t.blocked = Warmup /\ t.due = Warmup + Delay
<1>1. Warmup + Delay \in Int /\ Warmup \in Nat
  BY Parameters
<1>2. ASSUME NEW v \in Nat, NEW w \in Int
      PROVE  LET t == [s EXCEPT !.running = TRUE, !.blocked = v, !.warming = TRUE, !.due = w]
             IN /\ t \in AgentType
                /\ t.state = s.state /\ t.working = s.working /\ t.tries = s.tries
                /\ t.running /\ t.warming /\ t.blocked = v /\ t.due = w
  BY DEF AgentType
<1> QED BY <1>1, <1>2 DEF Started

LEMMA StoppedFields ==
  ASSUME NEW s \in AgentType
  PROVE  LET t == Stopped(s)
         IN /\ t \in AgentType
            /\ t.state = s.state /\ t.working = s.working /\ t.tries = 0
            /\ ~t.running /\ t.warming = s.warming /\ t.blocked = s.blocked /\ t.due = s.due
BY DEF Stopped, AgentType

\* The step of an agent whose record becomes s leaves the others alone.
LEMMA OthersSound ==
  ASSUME HeartIInv, NEW a \in Agents, NEW s, agent' = [agent EXCEPT ![a] = s],
         heart' = heart, NEW w, wire' = [wire EXCEPT ![a] = w],
         NEW n, missing' = [missing EXCEPT ![a] = n],
         \A b \in Agents \ {a} : b \in registered' <=> b \in registered,
         \A b \in Agents \ {a} : b \in outage' <=> b \in outage,
         Sound(a)'
  PROVE  \A b \in Agents : Sound(b)'
<1> SUFFICES ASSUME NEW b \in Agents, b # a PROVE Sound(b)'
  OBVIOUS
<1>1. Untouched(b)
  BY DEF HeartIInv, HeartTypes, Untouched
<1> QED BY <1>1, UntouchedSound DEF HeartIInv, Sound

LEMMA AgentStartsSound ==
  ASSUME HeartIInv, NEW a \in Agents, AgentStarts(a)
  PROVE  HeartIInv'
<1> USE Parameters
<1> DEFINE r == [agent[a] EXCEPT !.state = "on"]
           s == Started(r)
<1>1. HeartTypes /\ \A b \in Agents : Sound(b)
  BY DEF HeartIInv, Sound
<1>2. agent[a] \in AgentType /\ agent[a].state = "off"
  BY <1>1 DEF HeartTypes, AgentStarts
<1>3. /\ r \in AgentType
      /\ r.state = "on" /\ r.working = agent[a].working /\ r.tries = agent[a].tries
  BY <1>2 DEF AgentType
<1>4. agent' = [agent EXCEPT ![a] = s]
  BY DEF AgentStarts
<1> HIDE DEF r
<1>5. /\ s \in AgentType /\ s.state = "on" /\ s.working = agent[a].working
      /\ s.tries = agent[a].tries /\ s.running /\ s.warming
      /\ s.blocked = Warmup /\ s.due = Warmup + Delay
  BY <1>3, StartedFields
<1> HIDE DEF s
<1>6. HeartTypes'
  <2>1. missing' = [missing EXCEPT ![a] = 0] /\ silence' = [silence EXCEPT ![a] = 0]
    BY DEF AgentStarts, Attentive, Registers
  <2>2. registered' \subseteq Agents
    BY <1>1 DEF AgentStarts, Registers, HeartTypes
  <2> QED BY <1>1, <1>4, <1>5, <2>1, <2>2 DEF HeartTypes, AgentStarts
<1>7. agent'[a] = s
  BY <1>1, <1>4 DEF HeartTypes
<1>8. Sound(a)'
  <2>0. ~agent[a].running /\ ~agent[a].working /\ agent[a].tries = 0 /\ wire[a] = <<>>
    BY <1>1, <1>2 DEF Sound, SoundState, Alive
  <2>1. SoundState(a)'
    BY <1>5, <1>7, <2>0 DEF SoundState, Alive
  <2>2. SoundTimer(a)'
    BY <1>5, <1>7, <2>0 DEF SoundTimer
  <2>3. /\ missing'[a] = 0 /\ heart' = heart /\ wire' = wire
        /\ a \in outage' <=> ~heart.up
    BY <1>1 DEF HeartTypes, AgentStarts, Attentive, Registers
  <2> heart.up \in BOOLEAN /\ heart.due \in Int /\ heart.due <= Interval
    BY <1>1 DEF HeartTypes
  <2>4. SoundMissing(a)'
    BY <1>5, <1>7, <2>0, <2>3 DEF SoundMissing
  <2>5. SoundTries(a)'
    BY <1>1, <1>5, <1>7, <2>0, <2>3 DEF Sound, SoundTries
  <2> QED BY <2>1, <2>2, <2>4, <2>5 DEF Sound
<1>9. /\ heart' = heart /\ missing' = [missing EXCEPT ![a] = 0]
      /\ wire' = [wire EXCEPT ![a] = wire[a]]
      /\ \A b \in Agents \ {a} : b \in registered' <=> b \in registered
      /\ \A b \in Agents \ {a} : b \in outage' <=> b \in outage
  BY <1>1 DEF HeartTypes, AgentStarts, Attentive, Registers
<1> QED BY <1>4, <1>6, <1>8, <1>9, OthersSound DEF HeartIInv, Sound

LEMMA BlockSound ==
  ASSUME HeartIInv, NEW a \in Agents, Block(a)
  PROVE  HeartIInv'
<1> USE Parameters
<1>1. HeartTypes /\ Sound(a)
  BY DEF HeartIInv, Sound
<1>2. PICK d \in 1..MaxBlock : agent' = [agent EXCEPT ![a].blocked = d, ![a].warming = FALSE]
  BY DEF Block
<1>d. d \in Nat /\ d <= MaxBlock
  OBVIOUS
<1> DEFINE s == [agent[a] EXCEPT !.blocked = d, !.warming = FALSE]
<1>3. agent[a] \in AgentType /\ agent[a].state = "on" /\ agent[a].blocked = 0
      /\ wire[a] = <<>> /\ agent[a].due > 0
  BY <1>1 DEF HeartTypes, Block, Free, Alive
<1>4. /\ s \in AgentType /\ s.state = "on" /\ s.working = agent[a].working
      /\ s.tries = agent[a].tries /\ s.running = agent[a].running /\ ~s.warming
      /\ s.blocked = d /\ s.due = agent[a].due
  BY <1>3, <1>d DEF AgentType
<1>5. agent' = [agent EXCEPT ![a] = s] /\ agent'[a] = s
  BY <1>1, <1>2 DEF HeartTypes
<1> HIDE DEF s
<1>6. HeartTypes'
  BY <1>1, <1>4, <1>5 DEF HeartTypes, Block, history
<1>7. Sound(a)'
  <2>1. SoundState(a)'
    BY <1>1, <1>3, <1>4, <1>5 DEF Block, Sound, SoundState, Alive
  <2>2. SoundTimer(a)'
    BY <1>1, <1>d, <1>3, <1>4, <1>5 DEF AgentType, Sound, SoundTimer
  <2>3. SoundMissing(a)'
    BY <1>1, <1>d, <1>3, <1>4, <1>5
    DEF HeartTypes, AgentType, Block, history, Sound, SoundMissing, Alive, Listening
  <2>4. SoundTries(a)'
    BY <1>1, <1>3, <1>4, <1>5
    DEF Block, history, Sound, SoundTries, Alive, Listening
  <2> QED BY <2>1, <2>2, <2>3, <2>4 DEF Sound
<1>8. /\ heart' = heart /\ missing' = [missing EXCEPT ![a] = missing[a]]
      /\ wire' = [wire EXCEPT ![a] = wire[a]] /\ registered' = registered /\ outage' = outage
  BY <1>1 DEF HeartTypes, Block, history
<1> QED BY <1>5, <1>6, <1>7, <1>8, OthersSound DEF HeartIInv, Sound

\* stop makes an agent forget its beats, and register when there were some.
LEMMA StopsSound ==
  ASSUME HeartIInv, NEW a \in Agents, NEW s \in AgentType, Stops(a, s),
         Free(a), agent[a].running, s.blocked = 0, s.warming = agent[a].warming,
         s.due \in agent[a].due..(Warmup + Delay),
         s.state = "gone" \/ (s.working /\ s.state = "on"),
         UNCHANGED <<heart, outage>>, stale' = stale, silence' = silence
  PROVE  HeartIInv'
<1> USE Parameters
<1> DEFINE t == Stopped(s)
<1>1. HeartTypes /\ Sound(a)
  BY DEF HeartIInv, Sound
<1>2. /\ t \in AgentType /\ t.state = s.state /\ t.working = s.working /\ t.tries = 0
      /\ ~t.running /\ t.warming = agent[a].warming /\ t.blocked = 0 /\ t.due = s.due
  BY StoppedFields
<1> HIDE DEF t
<1>3. /\ agent' = [agent EXCEPT ![a] = t] /\ agent'[a] = t
      /\ wire' = [wire EXCEPT ![a] = <<>>] /\ wire'[a] = <<>>
  BY <1>1 DEF HeartTypes, Stops, t
<1>4. PICK n \in {0, missing[a]} : missing' = [missing EXCEPT ![a] = n]
  BY <1>1 DEF HeartTypes, Stops, Registers
<1>5. /\ \A b \in Agents \ {a} : b \in registered' <=> b \in registered
      /\ registered' \in {registered, registered \cup {a}}
  BY DEF Stops, Registers
<1>6. HeartTypes'
  BY <1>1, <1>2, <1>3, <1>4, <1>5, SMTT(30) DEF HeartTypes
<1>7. Sound(a)'
  <2>1. SoundState(a)'
    BY <1>2, <1>3 DEF AgentType, SoundState, Alive
  <2>2. SoundTimer(a)'
    BY <1>1, <1>2, <1>3, SMTT(30) DEF HeartTypes, AgentType, Sound, SoundTimer, Free
  <2>3. SoundMissing(a)'
    BY <1>1, <1>2, <1>3 DEF HeartTypes, Sound, Stops, Registers, SoundMissing, Listening
  <2>4. SoundTries(a)'
    BY <1>1, <1>2, <1>3 DEF Sound, SoundTries, Listening
  <2> QED BY <2>1, <2>2, <2>3, <2>4 DEF Sound
<1> QED BY <1>3, <1>4, <1>5, <1>6, <1>7, OthersSound DEF HeartIInv, Sound

LEMMA RunSound ==
  ASSUME HeartIInv, NEW a \in Agents, Run(a)
  PROVE  HeartIInv'
<1> USE Parameters
<1> DEFINE s == [agent[a] EXCEPT !.working = TRUE]
<1>1. HeartTypes /\ Sound(a)
  BY DEF HeartIInv, Sound
<1>2. agent[a] \in AgentType /\ agent[a].state = "on" /\ agent[a].blocked = 0
  BY <1>1 DEF HeartTypes, Run, Free, Alive
<1>3. /\ s \in AgentType /\ s.state = "on" /\ s.working /\ s.tries = agent[a].tries
      /\ s.running = agent[a].running /\ s.warming = agent[a].warming
      /\ s.blocked = 0 /\ s.due = agent[a].due
  BY <1>2 DEF AgentType
<1>4. /\ UNCHANGED <<heart, outage, silence, stale>>
      /\ IF s.running THEN Stops(a, s)
         ELSE agent' = [agent EXCEPT ![a] = s] /\ UNCHANGED <<wire, registered, missing>>
  BY DEF Run
<1> HIDE DEF s
<1>5. CASE s.running
  <2>1. s.due \in agent[a].due..(Warmup + Delay)
    BY <1>1, <1>2, <1>3 DEF AgentType, Sound, SoundTimer
  <2> QED BY <1>3, <1>4, <1>5, <2>1, StopsSound DEF Run
<1>6. CASE ~s.running
  <2>1. agent' = [agent EXCEPT ![a] = s] /\ agent'[a] = s
    BY <1>1, <1>4, <1>6 DEF HeartTypes
  <2>2. HeartTypes'
    BY <1>1, <1>3, <1>4, <1>6, <2>1 DEF HeartTypes
  <2>3. Sound(a)'
    BY <1>1, <1>2, <1>3, <1>4, <1>6, <2>1
    DEF AgentType, Sound, SoundState, SoundTimer, SoundMissing, SoundTries, Alive, Listening
  <2>4. /\ missing' = [missing EXCEPT ![a] = missing[a]]
        /\ wire' = [wire EXCEPT ![a] = wire[a]] /\ registered' = registered /\ outage' = outage
    BY <1>1, <1>4, <1>6 DEF HeartTypes
  <2> QED BY <1>4, <2>1, <2>2, <2>3, <2>4, OthersSound DEF HeartIInv, Sound
<1> QED BY <1>5, <1>6

LEMMA FinishSound ==
  ASSUME HeartIInv, NEW a \in Agents, Finish(a)
  PROVE  HeartIInv'
<1> USE Parameters
<1> DEFINE r == [agent[a] EXCEPT !.working = FALSE]
           s == Started(r)
<1>1. HeartTypes /\ Sound(a)
  BY DEF HeartIInv, Sound
<1>2. /\ agent[a] \in AgentType /\ agent[a].state = "on" /\ ~agent[a].running
      /\ agent[a].tries = 0 /\ wire[a] = <<>>
  BY <1>1 DEF HeartTypes, AgentType, Finish, Free, Alive, Sound, SoundState
<1>3. /\ r \in AgentType /\ r.state = "on" /\ ~r.working /\ r.tries = 0 /\ ~r.running
  BY <1>2 DEF AgentType
<1>4. agent' = [agent EXCEPT ![a] = s]
  BY <1>3 DEF Finish
<1> HIDE DEF r
<1>5. /\ s \in AgentType /\ s.state = "on" /\ ~s.working /\ s.tries = 0
      /\ s.running /\ s.warming /\ s.blocked = Warmup /\ s.due = Warmup + Delay
  BY <1>3, StartedFields
<1> HIDE DEF s
<1>6. agent'[a] = s
  BY <1>1, <1>4 DEF HeartTypes
<1>7. /\ missing' = [missing EXCEPT ![a] = 0] /\ silence' = [silence EXCEPT ![a] = 0]
      /\ UNCHANGED <<heart, wire, registered, stale>>
  BY DEF Finish, Attentive
<1>8. HeartTypes'
  BY <1>1, <1>4, <1>5, <1>7 DEF HeartTypes
<1>9. Sound(a)'
  <2>1. SoundState(a)'
    BY <1>2, <1>5, <1>6 DEF AgentType, SoundState, Alive
  <2>2. SoundTimer(a)'
    BY <1>5, <1>6 DEF SoundTimer
  <2>3. SoundMissing(a)'
    BY <1>1, <1>2, <1>5, <1>6, <1>7, SMTT(30) DEF HeartTypes, SoundMissing
  <2>4. SoundTries(a)'
    BY <1>1, <1>2, <1>5, <1>6, <1>7, SMTT(30) DEF HeartTypes, Finish, Attentive, SoundTries
  <2> QED BY <2>1, <2>2, <2>3, <2>4 DEF Sound
<1>10. /\ wire' = [wire EXCEPT ![a] = wire[a]]
       /\ \A b \in Agents \ {a} : b \in outage' <=> b \in outage
  BY <1>1, <1>7 DEF HeartTypes, Finish, Attentive
<1> QED BY <1>4, <1>7, <1>8, <1>9, <1>10, OthersSound DEF HeartIInv, Sound

\* Every beat makes an agent register.
LEMMA HandleRecvSound ==
  ASSUME HeartIInv, NEW a \in Agents, HandleRecv(a)
  PROVE  HeartIInv'
<1> USE Parameters
<1> DEFINE s == [agent[a] EXCEPT !.tries = 0]
<1>1. HeartTypes /\ Sound(a)
  BY DEF HeartIInv, Sound
<1>2. /\ agent[a] \in AgentType /\ agent[a].state = "on" /\ agent[a].running
      /\ agent[a].blocked = 0
  BY <1>1 DEF HeartTypes, HandleRecv, Free, Alive
<1>3. /\ wire[a] \in Seq(Beats) /\ wire[a] # <<>>
      /\ Head(wire[a]) \in Beats /\ Tail(wire[a]) \in Seq(Beats)
  BY <1>1, SMTT(30) DEF HeartTypes, HandleRecv
<1>4. /\ s \in AgentType /\ s.state = "on" /\ s.working = agent[a].working
      /\ s.tries = 0 /\ s.running /\ s.warming = agent[a].warming
      /\ s.blocked = 0 /\ s.due = agent[a].due
  BY <1>2 DEF AgentType
<1>5. agent' = [agent EXCEPT ![a] = s] /\ agent'[a] = s
  BY <1>1 DEF HeartTypes, HandleRecv
<1> HIDE DEF s
<1>6. /\ wire' = [wire EXCEPT ![a] = Tail(wire[a])] /\ Registers(a)
      /\ missing' = [missing EXCEPT ![a] = 0] /\ silence' = [silence EXCEPT ![a] = 0]
      /\ UNCHANGED <<heart, stale>>
  BY <1>3 DEF HandleRecv, Attentive, Hears, Registers
<1>7. HeartTypes'
  BY <1>1, <1>3, <1>4, <1>5, <1>6 DEF HeartTypes, Registers
<1>8. Sound(a)'
  <2>1. SoundState(a)'
    <3>1. ~agent[a].working
      BY <1>1, <1>2 DEF AgentType, Sound, SoundState, Alive
    <3> QED BY <1>4, <1>5, <3>1 DEF AgentType, SoundState, Alive
  <2>2. SoundTimer(a)'
    BY <1>1, <1>2, <1>4, <1>5 DEF AgentType, Sound, SoundTimer
  <2>3. SoundMissing(a)'
    BY <1>1, <1>4, <1>5, <1>6, SMTT(30) DEF HeartTypes, Sound, SoundTimer, SoundMissing
  <2>4. SoundTries(a)'
    <3>1. agent'[a].tries * Delay = 0
      BY <1>4, <1>5, OneMoreLook
    <3>2. a \notin outage' => heart'.up
      BY <1>6 DEF HandleRecv, Attentive
    <3>3. agent[a].due \in Int /\ agent[a].due >= -MaxBlock /\ agent[a].blocked = 0
      BY <1>1, <1>2 DEF AgentType, Sound, SoundTimer
    <3>4. heart.due \in Int /\ heart.due <= Interval
      BY <1>1 DEF HeartTypes
    <3>5. agent'[a].due = agent[a].due /\ agent'[a].blocked = 0
      BY <1>4, <1>5
    <3> QED BY <1>6, <3>1, <3>2, <3>3, <3>4, <3>5 DEF SoundTries
  <2> QED BY <2>1, <2>2, <2>3, <2>4 DEF Sound
<1>9. /\ \A b \in Agents \ {a} : b \in registered' <=> b \in registered
      /\ \A b \in Agents \ {a} : b \in outage' <=> b \in outage
  BY <1>6 DEF HandleRecv, Attentive, Registers
<1> QED BY <1>5, <1>6, <1>7, <1>8, <1>9, OthersSound DEF HeartIInv, Sound

\* What a look leaves of the stethoscope, unless the agent gives up.
Looked(a) == [agent[a] EXCEPT !.tries = @ + 1, !.due = NextDue(@, Delay)]

LEMMA LookedFields ==
  ASSUME HeartIInv, NEW a \in Agents, Delayed(a)
  PROVE  /\ agent[a] \in AgentType /\ Looked(a) \in AgentType
         /\ agent[a].state = "on" /\ agent[a].running /\ agent[a].blocked = 0
         /\ agent[a].due <= 0 /\ ~agent[a].warming
         /\ Looked(a).state = "on" /\ Looked(a).running /\ Looked(a).blocked = 0
         /\ ~Looked(a).warming /\ Looked(a).working = agent[a].working
         /\ Looked(a).tries = agent[a].tries + 1
         /\ Looked(a).due \in 1..Delay /\ Looked(a).due >= agent[a].due + Delay
         /\ -Delay < agent[a].due => Looked(a).due = agent[a].due + Delay
<1>1. /\ agent[a] \in AgentType /\ agent[a].state = "on" /\ agent[a].running
      /\ agent[a].blocked = 0 /\ agent[a].due <= 0
  BY DEF HeartIInv, HeartTypes, Delayed, Free, Alive
<1>2. ~agent[a].warming
  BY <1>1, Parameters DEF HeartIInv, SoundTimer, AgentType
<1>3. agent[a].due \in Int /\ agent[a].tries + 1 \in Nat
  BY <1>1 DEF AgentType
<1> DEFINE due == NextDue(agent[a].due, Delay)
           tries == agent[a].tries + 1
<1>4. /\ due \in 1..Delay /\ due >= agent[a].due + Delay
      /\ -Delay < agent[a].due => due = agent[a].due + Delay
  BY <1>1, <1>3, Parameters, NextDueBounds
<1>5. Looked(a) = [agent[a] EXCEPT !.tries = tries, !.due = due]
  BY <1>1 DEF Looked, AgentType
<1>6. due \in Int /\ tries \in Nat
  BY <1>3, <1>4, Parameters
<1> HIDE DEF due, tries
<1>7. LET t == Looked(a)
      IN /\ t \in AgentType /\ t.state = "on" /\ t.running /\ t.blocked = 0
         /\ t.warming = agent[a].warming /\ t.working = agent[a].working
         /\ t.tries = tries /\ t.due = due
  BY <1>1, <1>5, <1>6 DEF AgentType
<1> QED BY <1>1, <1>2, <1>4, <1>7 DEF tries

LEMMA DelayedSound ==
  ASSUME HeartIInv, NEW a \in Agents, Delayed(a)
  PROVE  HeartIInv'
<1> USE Parameters
<1> DEFINE s == Looked(a)
           old == agent[a]
<1>1. HeartTypes /\ Sound(a)
  BY DEF HeartIInv, Sound
<1>2. /\ old \in AgentType /\ s \in AgentType
      /\ old.state = "on" /\ old.running /\ old.blocked = 0 /\ old.due <= 0 /\ ~old.warming
      /\ s.state = "on" /\ s.running /\ s.blocked = 0 /\ ~s.warming /\ s.working = old.working
      /\ s.tries = old.tries + 1 /\ s.due \in 1..Delay /\ s.due >= old.due + Delay
  BY LookedFields
<1>3. /\ UNCHANGED <<heart, outage, silence, stale>> /\ Free(a)
      /\ IF IsLost(s.tries) /\ ~s.working THEN Stops(a, [s EXCEPT !.state = "gone"])
         ELSE agent' = [agent EXCEPT ![a] = s] /\ UNCHANGED <<wire, registered, missing>>
  BY DEF Delayed, Looked
<1> HIDE DEF s
<1>4. CASE IsLost(s.tries) /\ ~s.working
  <2> DEFINE t == [s EXCEPT !.state = "gone"]
  <2>1. /\ t \in AgentType /\ t.state = "gone" /\ t.blocked = 0 /\ t.due = s.due
        /\ t.warming = old.warming
    BY <1>2 DEF AgentType
  <2>2. Stops(a, t)
    BY <1>3, <1>4
  <2> HIDE DEF t
  <2>3. t.due \in old.due..(Warmup + Delay)
    BY <1>2, <2>1 DEF AgentType
  <2>4. Free(a) /\ UNCHANGED <<heart, outage>> /\ stale' = stale /\ silence' = silence
    BY <1>3
  <2>5. agent[a].running /\ t.warming = agent[a].warming
    BY <1>2, <2>1
  <2> QED BY <2>1, <2>2, <2>3, <2>4, <2>5, StopsSound
<1>5. CASE ~(IsLost(s.tries) /\ ~s.working)
  <2>1. agent' = [agent EXCEPT ![a] = s] /\ agent'[a] = s
    BY <1>1, <1>3, <1>5 DEF HeartTypes
  <2>2. UNCHANGED <<heart, wire, registered, outage, missing, silence, stale>>
    BY <1>3, <1>5
  <2>3. HeartTypes'
    BY <1>1, <1>2, <2>1, <2>2 DEF HeartTypes
  <2>4. SoundState(a)'
    <3>1. ~old.working
      BY <1>1, <1>2 DEF AgentType, Sound, SoundState, Alive
    <3> QED BY <1>2, <2>1, <2>2, <3>1 DEF AgentType, SoundState, Alive
  <2>5. SoundTimer(a)'
    BY <1>2, <2>1 DEF AgentType, SoundTimer
  <2>6. SoundMissing(a)'
    BY <1>1, <1>2, <2>1, <2>2 DEF Sound, SoundMissing, Listening, Alive
  <2>7. SoundTries(a)'
    <3>1. /\ old.tries \in Nat /\ s.tries * Delay = old.tries * Delay + Delay
          /\ old.tries * Delay \in Nat
      BY <1>2, OneMoreLook DEF AgentType
    <3>2. heart.due \in Int /\ old.due \in Int
      BY <1>1, <1>2 DEF HeartTypes, AgentType
    <3> DEFINE n == old.tries * Delay
               m == s.tries * Delay
    <3>3. m = n + Delay /\ n \in Nat
      BY <3>1
    <3> HIDE DEF n, m
    <3>4. a \notin outage /\ wire[a] = <<>> => n + heart.due <= Interval + MaxBlock + old.due
      BY <1>1, <1>2 DEF Sound, SoundTries, Listening, Alive, n
    <3>5. a \notin outage /\ wire[a] # <<>> =>
            n + old.blocked <= Interval + MaxLate + 2 * MaxBlock + old.due
      BY <1>1, <1>2 DEF Sound, SoundTries, Listening, Alive, n
    <3>6. a \notin outage /\ wire[a] = <<>> => m + heart.due <= Interval + MaxBlock + s.due
      <4>1. s.due \in Int /\ s.due >= old.due + Delay
        BY <1>2
      <4>2. \A d, e \in Int : e >= d + Delay /\ n + heart.due <= Interval + MaxBlock + d =>
              n + Delay + heart.due <= Interval + MaxBlock + e
        BY <3>2, <3>3
      <4> QED BY <3>2, <3>3, <3>4, <4>1, <4>2
    <3>7. a \notin outage /\ wire[a] # <<>> =>
            m + s.blocked <= Interval + MaxLate + 2 * MaxBlock + s.due
      BY <1>2, <3>2, <3>3, <3>5
    <3> QED BY <1>1, <2>1, <2>2, <3>6, <3>7 DEF Sound, SoundTries, m
  <2>8. Sound(a)'
    BY <2>4, <2>5, <2>6, <2>7 DEF Sound
  <2>9. /\ missing' = [missing EXCEPT ![a] = missing[a]]
        /\ wire' = [wire EXCEPT ![a] = wire[a]]
    BY <1>1, <2>2 DEF HeartTypes
  <2> QED BY <2>1, <2>2, <2>3, <2>8, <2>9, OthersSound DEF HeartIInv, Sound
<1> QED BY <1>4, <1>5

LEMMA CrashSound ==
  ASSUME HeartIInv, NEW a \in Agents, Crash(a)
  PROVE  HeartIInv'
<1> USE Parameters
<1> DEFINE r == [NewAgent EXCEPT !.state = "gone"]
           s == Stopped(r)
<1>1. HeartTypes /\ Sound(a)
  BY DEF HeartIInv, Sound
<1>2. /\ r \in AgentType /\ r.state = "gone" /\ ~r.working /\ ~r.warming /\ r.blocked = 0
      /\ r.due = Delay
  <2>1. Delay \in Int
    OBVIOUS
  <2>2. NewAgent \in AgentType /\ ~NewAgent.working /\ ~NewAgent.warming
        /\ NewAgent.blocked = 0 /\ NewAgent.due = Delay
    BY <2>1 DEF NewAgent, AgentType
  <2> QED BY <2>2 DEF AgentType
<1>3. agent' = [agent EXCEPT ![a] = s]
  BY DEF Crash
<1> HIDE DEF r
<1>4. /\ s \in AgentType /\ s.state = "gone" /\ ~s.working /\ s.tries = 0 /\ ~s.running
      /\ ~s.warming /\ s.blocked = 0 /\ s.due = Delay
  BY <1>2, StoppedFields
<1> HIDE DEF s
<1>5. agent'[a] = s
  BY <1>1, <1>3 DEF HeartTypes
<1>6. /\ wire' = [wire EXCEPT ![a] = <<>>] /\ missing' = [missing EXCEPT ![a] = 0]
      /\ UNCHANGED <<heart, registered, outage, silence, stale>>
  BY DEF Crash
<1>7. HeartTypes'
  BY <1>1, <1>3, <1>4, <1>6 DEF HeartTypes
<1>8. Sound(a)'
  BY <1>1, <1>4, <1>5, <1>6, SMTT(30)
  DEF HeartTypes, Sound, SoundState, SoundTimer, SoundMissing, SoundTries, Alive, Listening
<1> QED BY <1>3, <1>6, <1>7, <1>8, OthersSound DEF HeartIInv, Sound

\* What a beat makes of the heart.
LEMMA PingFields ==
  ASSUME HeartIInv, Ping
  PROVE  /\ heart.up /\ heart.due \in -MaxLate..0 /\ heart.current_register \in 0..(Register - 1)
         /\ heart'.up /\ heart'.due \in 1..Interval
         /\ -Interval < heart.due => heart'.due = heart.due + Interval
         /\ heart'.current_register = AfterBeat(heart.current_register)
         /\ heart'.current_register \in 0..(Register - 1)
         /\ heart' \in [up : BOOLEAN, due : -MaxLate..Interval,
                        current_register : 0..(Register - 1)]
<1> DEFINE due == NextDue(heart.due, Interval)
           next == AfterBeat(heart.current_register)
<1>1. /\ heart \in [up : BOOLEAN, due : -MaxLate..Interval, current_register : 0..(Register - 1)]
      /\ heart.up /\ heart.due <= 0
      /\ heart' = [heart EXCEPT !.due = due, !.current_register = next]
  BY DEF HeartIInv, HeartTypes, Ping
<1>2. heart.due \in -MaxLate..0 /\ heart.current_register \in 0..(Register - 1)
  BY <1>1, Parameters
<1>3. due \in 1..Interval /\ (-Interval < heart.due => due = heart.due + Interval)
  BY <1>2, Parameters, NextDueBounds
<1>4. next \in 0..(Register - 1)
  BY <1>2, Parameters DEF AfterBeat
<1>5. due \in -MaxLate..Interval
  BY <1>3, Parameters
<1> HIDE DEF due
<1>6. heart'.up /\ heart'.due = due /\ heart'.current_register = next
  BY <1>1
<1>7. heart' \in [up : BOOLEAN, due : -MaxLate..Interval, current_register : 0..(Register - 1)]
  BY <1>1, <1>4, <1>5
<1> QED BY <1>1, <1>2, <1>3, <1>4, <1>6, <1>7

LEMMA PingSound == HeartIInv /\ Ping => HeartIInv'
<1> SUFFICES ASSUME HeartIInv, Ping PROVE HeartIInv'
  OBVIOUS
<1> USE Parameters
<1>1. HeartTypes /\ \A b \in Agents : Sound(b)
  BY DEF HeartIInv, Sound
<1>2. /\ heart.up /\ heart.due \in -MaxLate..0 /\ heart'.up /\ heart'.due \in 1..Interval
      /\ heart' \in [up : BOOLEAN, due : -MaxLate..Interval, current_register : 0..(Register - 1)]
  BY PingFields
<1> DEFINE beat == IF heart.current_register = 0 THEN "REGISTER" ELSE "BEAT"
<1>3. PICK late \in SUBSET {b \in Agents : Listening(b) /\ agent[b].warming} :
        wire' = [b \in Agents |->
          IF Listening(b) /\ b \notin late THEN Append(wire[b], beat) ELSE wire[b]]
  BY DEF Ping
<1>4. registered' \in {registered, {}} /\ UNCHANGED <<agent, outage, silence, missing, stale>>
  BY DEF Ping, history
<1>5. beat \in Beats
  BY DEF Beats
<1> HIDE DEF beat
<1>6. \A b \in Agents : Append(wire[b], beat) \in Seq(Beats) /\ Append(wire[b], beat) # <<>>
  <2> SUFFICES ASSUME NEW b \in Agents
               PROVE  Append(wire[b], beat) \in Seq(Beats) /\ Append(wire[b], beat) # <<>>
    OBVIOUS
  <2>1. wire[b] \in Seq(Beats)
    BY <1>1 DEF HeartTypes
  <2> QED BY <1>5, <2>1, AppendProperties
<1>7. HeartTypes'
  BY <1>1, <1>2, <1>3, <1>4, <1>6 DEF HeartTypes
<1>8. ASSUME NEW b \in Agents PROVE Sound(b)'
  <2>1. /\ ~Listening(b) => wire'[b] = wire[b]
        /\ Listening(b) => wire'[b] # <<>> \/ (wire'[b] = wire[b] /\ agent[b].warming)
    <3>1. CASE b \in late
      BY <1>3, <3>1
    <3>2. CASE b \notin late
      BY <1>3, <1>6, <3>2
    <3> QED BY <3>1, <3>2
  <2>2. agent[b] \in AgentType /\ missing[b] \in Nat
    BY <1>1 DEF HeartTypes
  <2>3. SoundState(b)'
    BY <1>1, <1>4, <2>1 DEF Sound, SoundState, Listening, Alive
  <2>4. SoundTimer(b)'
    BY <1>1, <1>4 DEF Sound, SoundTimer
  <2>5. SoundMissing(b)'
    <3>1. ~heart'.up \/ b \in registered' => missing'[b] = 0
      BY <1>1, <1>2, <1>4 DEF Sound, SoundMissing
    <3>2. missing'[b] <= Warmup + Interval + MaxLate + MaxBlock
      BY <1>1, <1>4 DEF Sound, SoundMissing
    <3>3. agent[b].blocked \in Nat
          /\ agent[b].blocked <= IF agent[b].warming THEN Warmup ELSE MaxBlock
      BY <1>1, <2>2 DEF AgentType, Sound, SoundTimer
    <3>4. Listening(b) /\ wire[b] # <<>> =>
            missing[b] + agent[b].blocked <= Warmup + Interval + MaxLate + MaxBlock
      BY <1>1 DEF Sound, SoundMissing
    <3>5. Listening(b) /\ wire[b] = <<>> /\ agent[b].warming =>
            missing[b] + agent[b].blocked <= Warmup
      BY <1>1 DEF Sound, SoundMissing
    <3>6. Listening(b) /\ wire[b] = <<>> /\ ~agent[b].warming =>
            missing[b] + heart.due <= Warmup + Interval
      BY <1>1 DEF Sound, SoundMissing
    <3>7. Listening(b) =>
            missing[b] + agent[b].blocked <= Warmup + Interval + MaxLate + MaxBlock
      <4>1. heart.due \in Int /\ heart.due >= -MaxLate
        BY <1>2
      <4> QED BY <2>2, <3>3, <3>4, <3>5, <3>6, <4>1, SMTT(30)
    <3>8. Listening(b)' = Listening(b)
      BY <1>4 DEF Listening, Alive
    <3>9. CASE Listening(b) /\ wire'[b] # <<>>
      BY <1>4, <3>1, <3>2, <3>7, <3>9 DEF SoundMissing
    <3>10. CASE Listening(b) /\ wire'[b] = <<>>
      BY <1>4, <2>1, <3>1, <3>2, <3>5, <3>10 DEF SoundMissing
    <3> QED BY <3>1, <3>2, <3>8, <3>9, <3>10 DEF SoundMissing
  <2>6. SoundTries(b)'
    <3> DEFINE n == agent[b].tries * Delay
    <3>1. n \in Nat /\ (agent[b].tries = 0 => n = 0)
      BY <2>2, OneMoreLook DEF AgentType
    <3> HIDE DEF n
    <3>2. b \notin outage /\ Listening(b) /\ wire[b] = <<>> =>
            n + heart.due <= Interval + MaxBlock + agent[b].due
      BY <1>1 DEF Sound, SoundTries, n
    <3>3. b \notin outage /\ Listening(b) /\ wire[b] # <<>> =>
            n + agent[b].blocked <= Interval + MaxLate + 2 * MaxBlock + agent[b].due
      BY <1>1 DEF Sound, SoundTries, n
    <3>4. Listening(b) /\ agent[b].warming =>
            n = 0 /\ agent[b].due >= agent[b].blocked + Delay
      BY <1>1, <3>1 DEF Sound, SoundTimer, Listening
    <3>5. agent[b].warming \/ agent[b].blocked <= MaxBlock
      BY <1>1 DEF Sound, SoundTimer
    <3>6. b \notin outage /\ Listening(b) =>
            n + agent[b].blocked <= Interval + MaxLate + 2 * MaxBlock + agent[b].due
      <4>1. /\ heart.due \in Int /\ heart.due >= -MaxLate
            /\ agent[b].due \in Int /\ agent[b].blocked \in Nat
        BY <1>2, <2>2 DEF AgentType
      <4>2. CASE agent[b].warming
        BY <3>4, <4>1, <4>2
      <4>3. CASE ~agent[b].warming
        <5>1. CASE wire[b] = <<>>
          <6>1. b \notin outage /\ Listening(b) =>
                  n + heart.due <= Interval + MaxBlock + agent[b].due
            BY <3>2, <5>1
          <6>2. agent[b].blocked <= MaxBlock
            BY <3>5, <4>3
          <6> QED BY <3>1, <4>1, <6>1, <6>2
        <5>2. CASE wire[b] # <<>>
          BY <3>3, <5>2
        <5> QED BY <5>1, <5>2
      <4> QED BY <4>2, <4>3
    <3>7. b \notin outage /\ Listening(b) /\ agent[b].warming =>
            n + heart'.due <= Interval + MaxBlock + agent[b].due
      BY <1>2, <2>2, <3>4 DEF AgentType
    <3> QED BY <1>2, <1>4, <2>1, <3>6, <3>7 DEF SoundTries, Listening, Alive, n
  <2> QED BY <2>3, <2>4, <2>5, <2>6 DEF Sound
<1> QED BY <1>7, <1>8 DEF HeartIInv, Sound

LEMMA HeartDiesSound == HeartIInv /\ (HeartDies \/ HeartRestarts) => HeartIInv'
<1> SUFFICES ASSUME HeartIInv, HeartDies \/ HeartRestarts PROVE HeartIInv'
  OBVIOUS
<1> USE Parameters
<1>1. HeartTypes /\ \A b \in Agents : Sound(b)
  BY DEF HeartIInv, Sound
<1>2. CASE HeartDies
  <2>1. /\ heart' \in [up : BOOLEAN, due : -MaxLate..Interval,
                       current_register : 0..(Register - 1)]
        /\ ~heart'.up /\ heart'.due = heart.due
    BY <1>1, <1>2 DEF HeartTypes, HeartDies
  <2>2. /\ registered' = {} /\ outage' = Agents /\ UNCHANGED <<agent, wire, silence>>
        /\ missing' = [b \in Agents |-> 0] /\ stale' = [b \in Agents |-> 0]
    BY <1>2 DEF HeartDies
  <2>3. HeartTypes'
    BY <1>1, <2>1, <2>2 DEF HeartTypes
  <2>4. ASSUME NEW b \in Agents PROVE Sound(b)'
    <3>1. missing'[b] = 0 /\ b \in outage' /\ heart.due <= Interval
      BY <1>1, <2>2 DEF HeartTypes
    <3>2. agent[b] \in AgentType /\ heart.due \in Int
      BY <1>1 DEF HeartTypes
    <3>3. SoundState(b)' /\ SoundTimer(b)'
      BY <1>1, <2>2 DEF Sound, SoundState, SoundTimer, Alive
    <3>4. SoundMissing(b)'
      <4>1. Listening(b)' = Listening(b) /\ wire'[b] = wire[b] /\ agent'[b] = agent[b]
        BY <2>2 DEF Listening, Alive
      <4>2. missing[b] \in Nat
        BY <1>1 DEF HeartTypes
      <4>3. agent[b].blocked \in Nat
            /\ agent[b].blocked <= IF agent[b].warming THEN Warmup ELSE MaxBlock
        BY <1>1, <3>2 DEF AgentType, Sound, SoundTimer
      <4> QED BY <2>1, <3>1, <3>2, <4>1, <4>2, <4>3, SMTT(30) DEF SoundMissing
    <3>5. SoundTries(b)'
      BY <3>1 DEF SoundTries
    <3> QED BY <3>3, <3>4, <3>5 DEF Sound
  <2> QED BY <2>3, <2>4 DEF HeartIInv, Sound
<1>3. CASE HeartRestarts
  <2>1. /\ heart' \in [up : BOOLEAN, due : -MaxLate..Interval,
                       current_register : 0..(Register - 1)]
        /\ heart'.up /\ heart'.due = Interval
    BY <1>3 DEF HeartRestarts, NewHeart
  <2>2. UNCHANGED <<agent, wire, registered, outage, silence, missing, stale>> /\ ~heart.up
    BY <1>3 DEF HeartRestarts, history
  <2>3. HeartTypes'
    BY <1>1, <2>1, <2>2 DEF HeartTypes
  <2>4. ASSUME NEW b \in Agents PROVE Sound(b)'
    <3>1. missing[b] = 0 /\ b \in outage
      BY <1>1, <2>2 DEF Sound, SoundMissing, SoundTries
    <3>2. agent[b] \in AgentType
      BY <1>1 DEF HeartTypes
    <3>3. SoundState(b)' /\ SoundTimer(b)'
      BY <1>1, <2>2 DEF Sound, SoundState, SoundTimer, Alive
    <3>4. SoundMissing(b)'
      <4>1. Listening(b)' = Listening(b) /\ wire'[b] = wire[b] /\ agent'[b] = agent[b]
        BY <2>2 DEF Listening, Alive
      <4>2. agent[b].blocked \in Nat
            /\ agent[b].blocked <= IF agent[b].warming THEN Warmup ELSE MaxBlock
        BY <1>1, <3>2 DEF AgentType, Sound, SoundTimer
      <4> QED BY <2>1, <2>2, <3>1, <4>1, <4>2 DEF SoundMissing
    <3>5. SoundTries(b)'
      BY <2>2, <3>1 DEF SoundTries
    <3> QED BY <3>3, <3>4, <3>5 DEF Sound
  <2> QED BY <2>3, <2>4 DEF HeartIInv, Sound
<1> QED BY <1>2, <1>3

\* What passing time makes of the heart and of an agent.
LEMMA TickHeart ==
  ASSUME HeartIInv, Tick
  PROVE  /\ heart' \in [up : BOOLEAN, due : -MaxLate..Interval,
                        current_register : 0..(Register - 1)]
         /\ heart'.up = heart.up /\ heart'.current_register = heart.current_register
         /\ heart'.due = IF heart.up THEN heart.due - 1 ELSE heart.due
<1>1. heart \in [up : BOOLEAN, due : -MaxLate..Interval, current_register : 0..(Register - 1)]
  BY DEF HeartIInv, HeartTypes
<1>2. CASE heart.up
  <2>1. heart.due - 1 \in -MaxLate..Interval
    <3>1. heart.due \in -MaxLate..Interval
      BY <1>1
    <3>2. heart.due > -MaxLate
      BY <1>2 DEF Tick
    <3> QED BY <3>1, <3>2, Parameters
  <2>2. heart' = [heart EXCEPT !.due = heart.due - 1]
    BY <1>2 DEF Tick
  <2> QED BY <1>1, <1>2, <2>1, <2>2
<1>3. CASE ~heart.up
  BY <1>1, <1>3 DEF Tick
<1> QED BY <1>2, <1>3

LEMMA TickAgent ==
  ASSUME HeartIInv, Tick, NEW b \in Agents
  PROVE  /\ agent[b] \in AgentType /\ agent'[b] \in AgentType
         /\ agent'[b].state = agent[b].state /\ agent'[b].running = agent[b].running
         /\ agent'[b].working = agent[b].working /\ agent'[b].tries = agent[b].tries
         /\ agent'[b].due = IF Listening(b) THEN agent[b].due - 1 ELSE agent[b].due
         /\ Alive(b) =>
              /\ agent'[b].blocked = IF agent[b].blocked = 0 THEN 0 ELSE agent[b].blocked - 1
              /\ agent'[b].warming <=> agent[b].warming /\ agent[b].blocked > 1
         /\ ~Alive(b) => agent'[b] = agent[b]
<1>1. agent[b] \in AgentType
  BY DEF HeartIInv, HeartTypes
<1>2. CASE ~Alive(b)
  BY <1>1, <1>2 DEF Tick, Listening
<1>3. CASE Alive(b)
  <2> DEFINE due == IF agent[b].running THEN agent[b].due - 1 ELSE agent[b].due
             blocked == IF agent[b].blocked = 0 THEN 0 ELSE agent[b].blocked - 1
             warming == agent[b].warming /\ agent[b].blocked > 1
  <2>1. agent'[b] = [agent[b] EXCEPT !.due = due, !.blocked = blocked, !.warming = warming]
    BY <1>1, <1>3 DEF Tick, AgentType
  <2>2. due \in Int /\ blocked \in Nat /\ warming \in BOOLEAN
    BY <1>1 DEF AgentType
  <2> HIDE DEF due, blocked, warming
  <2>3. LET t == agent'[b]
        IN /\ t \in AgentType /\ t.state = agent[b].state /\ t.running = agent[b].running
           /\ t.working = agent[b].working /\ t.tries = agent[b].tries
           /\ t.due = due /\ t.blocked = blocked /\ t.warming = warming
    BY <1>1, <2>1, <2>2 DEF AgentType
  <2> QED BY <1>1, <1>3, <2>3 DEF due, blocked, warming, Listening
<1> QED BY <1>2, <1>3

LEMMA PassedBounds ==
  ASSUME NEW n \in Nat PROVE Passed(n) \in Nat /\ Passed(n) <= n + 1
BY DEF Passed

LEMMA TickTypes == HeartIInv /\ Tick => HeartTypes'
<1> SUFFICES ASSUME HeartIInv, Tick PROVE HeartTypes'
  OBVIOUS
<1>1. HeartTypes
  BY DEF HeartIInv
<1>2. agent' \in [Agents -> AgentType]
  <2>1. agent' = [b \in Agents |-> agent'[b]]
    BY DEF Tick
  <2>2. \A b \in Agents : agent'[b] \in AgentType
    BY TickAgent
  <2> QED BY <2>1, <2>2
<1>3. \A b \in Agents : /\ Passed(silence[b]) \in Nat /\ Passed(missing[b]) \in Nat
                        /\ Passed(stale[b]) \in Nat
  BY <1>1, PassedBounds DEF HeartTypes
<1>4. /\ silence' \in [Agents -> Nat] /\ missing' \in [Agents -> Nat]
      /\ stale' \in [Agents -> Nat]
  BY <1>3 DEF Tick
<1>5. UNCHANGED <<wire, registered>>
  BY DEF Tick
<1> QED BY <1>1, <1>2, <1>4, <1>5, TickHeart DEF HeartTypes

LEMMA TickSound == HeartIInv /\ Tick => HeartIInv'
<1> SUFFICES ASSUME HeartIInv, Tick PROVE HeartIInv'
  OBVIOUS
<1> USE Parameters
<1>1. HeartTypes /\ \A b \in Agents : Sound(b)
  BY DEF HeartIInv, Sound
<1>2. UNCHANGED <<wire, registered, outage>>
  BY DEF Tick
<1>3. /\ heart.due \in Int /\ heart.due <= Interval /\ heart'.up = heart.up
      /\ heart'.due = IF heart.up THEN heart.due - 1 ELSE heart.due
  BY <1>1, TickHeart DEF HeartTypes
<1>4. ASSUME NEW b \in Agents PROVE Sound(b)'
  <2> DEFINE old == agent[b]
             new == agent'[b]
  <2>1. /\ old \in AgentType /\ new \in AgentType
        /\ new.state = old.state /\ new.running = old.running
        /\ new.working = old.working /\ new.tries = old.tries
        /\ new.due = IF Listening(b) THEN old.due - 1 ELSE old.due
        /\ Alive(b) => /\ new.blocked = IF old.blocked = 0 THEN 0 ELSE old.blocked - 1
                       /\ new.warming <=> old.warming /\ old.blocked > 1
        /\ ~Alive(b) => new = old
    BY TickAgent
  <2>2. Listening(b) => old.blocked > 0 \/ (wire[b] = <<>> /\ old.due > 0)
    <3>1. Free(b) /\ old.running => wire[b] = <<>> /\ old.due > 0
      BY DEF Tick
    <3>2. old.blocked \in Nat
      BY <2>1 DEF AgentType
    <3> QED BY <3>1, <3>2 DEF Free, Listening
  <2>3. /\ old.due \in Int /\ old.blocked \in Nat /\ old.tries \in Nat /\ missing[b] \in Nat
    BY <1>1, <2>1 DEF HeartTypes, AgentType
  <2> HIDE DEF old, new
  <2>4. SoundState(b)'
    BY <1>1, <1>2, <2>1 DEF Sound, SoundState, Alive, old, new
  <2>5. SoundTimer(b)'
    <3>1. /\ old.blocked <= IF old.warming THEN Warmup ELSE MaxBlock
          /\ old.due <= Warmup + Delay /\ old.due - old.blocked >= -MaxBlock
          /\ old.running /\ old.warming => old.tries = 0 /\ old.due >= old.blocked + Delay
      BY <1>1 DEF Sound, SoundTimer, old
    <3>2. Listening(b) <=> Alive(b) /\ old.running
      BY DEF Listening, old
    <3>3. old.running => Alive(b)
      BY <1>1 DEF Sound, SoundState, old
    <3>4. /\ new.blocked <= IF new.warming THEN Warmup ELSE MaxBlock
          /\ new.due <= Warmup + Delay /\ new.due - new.blocked >= -MaxBlock
          /\ new.running /\ new.warming => new.tries = 0 /\ new.due >= new.blocked + Delay
      <4>1. CASE ~Alive(b)
        BY <2>1, <3>1, <4>1
      <4>2. CASE Alive(b) /\ old.running
        BY <2>1, <2>2, <2>3, <3>1, <3>2, <4>2, SMTT(30)
      <4>3. CASE Alive(b) /\ ~old.running
        BY <2>1, <2>3, <3>1, <3>2, <4>3
      <4> QED BY <4>1, <4>2, <4>3
    <3> QED BY <3>4 DEF SoundTimer, new
  <2>6. SoundMissing(b)'
    <3>1. /\ missing'[b] \in Nat
          /\ missing'[b] = 0
             \/ (missing'[b] <= missing[b] + 1 /\ heart.up /\ Listening(b) /\ b \notin registered)
      BY <1>1, <2>3, PassedBounds DEF Tick
    <3>2. ~heart.up \/ b \in registered => missing'[b] = 0
      BY <1>1 DEF Tick
    <3>3. Listening(b)' <=> Listening(b)
      BY <2>1 DEF Listening, Alive, old, new
    <3>4. Listening(b) =>
            IF wire[b] # <<>>
            THEN missing[b] + old.blocked <= Warmup + Interval + MaxLate + MaxBlock
            ELSE IF old.warming THEN missing[b] + old.blocked <= Warmup
            ELSE missing[b] + heart.due <= Warmup + Interval
      BY <1>1 DEF Sound, SoundMissing, old
    <3>5. Listening(b) => Alive(b)
      BY DEF Listening
    <3>6. heart.due >= -MaxLate /\ heart'.due \in Int /\ heart'.due >= -MaxLate
      BY <1>1, TickHeart DEF HeartTypes
    <3>7. new.blocked <= IF new.warming THEN Warmup ELSE MaxBlock
      BY <2>5 DEF SoundTimer, new
    <3>8. Listening(b) =>
            IF wire[b] # <<>>
            THEN missing'[b] + new.blocked <= Warmup + Interval + MaxLate + MaxBlock
            ELSE IF new.warming THEN missing'[b] + new.blocked <= Warmup
            ELSE missing'[b] + heart'.due <= Warmup + Interval
      <4> SUFFICES ASSUME Listening(b)
                   PROVE  IF wire[b] # <<>>
                          THEN missing'[b] + new.blocked <= Warmup + Interval + MaxLate + MaxBlock
                          ELSE IF new.warming THEN missing'[b] + new.blocked <= Warmup
                          ELSE missing'[b] + heart'.due <= Warmup + Interval
        OBVIOUS
      <4>1. new.blocked = IF old.blocked = 0 THEN 0 ELSE old.blocked - 1
        BY <2>1, <3>5
      <4>2. new.warming <=> old.warming /\ old.blocked > 1
        BY <2>1, <3>5
      <4>3. CASE missing'[b] = 0
        BY <1>3, <2>3, <3>7, <4>1, <4>3
      <4>4. CASE missing'[b] <= missing[b] + 1 /\ heart.up /\ wire[b] # <<>>
        BY <2>2, <2>3, <3>1, <3>4, <4>1, <4>4
      <4>5. CASE missing'[b] <= missing[b] + 1 /\ heart.up /\ wire[b] = <<>> /\ old.warming
        <5>1. missing[b] + old.blocked <= Warmup
          BY <3>4, <4>5
        <5>2. CASE new.warming
          BY <2>3, <3>1, <4>1, <4>2, <4>5, <5>1, <5>2
        <5>3. CASE ~new.warming
          <6>1. heart'.due = heart.due - 1
            BY <1>3, <4>5
          <6>2. missing'[b] <= Warmup + 1
            BY <2>3, <3>1, <4>5, <5>1
          <6>3. missing'[b] + heart'.due <= Warmup + Interval
            BY <1>3, <3>1, <6>1, <6>2
          <6> QED BY <4>5, <5>3, <6>3
        <5> QED BY <5>2, <5>3
      <4>6. CASE missing'[b] <= missing[b] + 1 /\ heart.up /\ wire[b] = <<>> /\ ~old.warming
        BY <1>3, <2>3, <3>1, <3>4, <4>2, <4>6
      <4> QED BY <3>1, <4>3, <4>4, <4>5, <4>6
    <3>9. missing'[b] <= Warmup + Interval + MaxLate + MaxBlock
      <4>1. new.blocked \in Nat
        BY <2>1 DEF AgentType
      <4>2. CASE missing'[b] = 0
        BY <4>2
      <4>3. CASE Listening(b)
        BY <3>1, <3>6, <3>8, <4>1, <4>3, SMTT(30)
      <4> QED BY <3>1, <4>2, <4>3
    <3> QED BY <1>2, <1>3, <3>2, <3>3, <3>8, <3>9 DEF SoundMissing, new
  <2>7. SoundTries(b)'
    <3> DEFINE n == old.tries * Delay
    <3>1. n \in Nat
      BY <2>3, OneMoreLook
    <3> HIDE DEF n
    <3> SUFFICES ASSUME b \notin outage, Listening(b)
                 PROVE  IF wire[b] = <<>>
                        THEN n + heart'.due <= Interval + MaxBlock + new.due
                        ELSE n + new.blocked <= Interval + MaxLate + 2 * MaxBlock + new.due
      <4>1. b \notin outage => heart.up
        BY <1>1 DEF Sound, SoundTries
      <4>2. Listening(b)' <=> Listening(b)
        BY <2>1 DEF Listening, Alive, old, new
      <4>3. n = agent'[b].tries * Delay
        BY <2>1 DEF n, new
      <4> QED BY <1>2, <1>3, <4>1, <4>2, <4>3 DEF SoundTries, new
    <3>2. heart.up /\ Alive(b)
      BY <1>1 DEF Sound, SoundTries, Listening
    <3>3. IF wire[b] = <<>>
          THEN n + heart.due <= Interval + MaxBlock + old.due
          ELSE n + old.blocked <= Interval + MaxLate + 2 * MaxBlock + old.due
      BY <1>1 DEF Sound, SoundTries, n, old
    <3>4. CASE wire[b] = <<>>
      <4>1. heart'.due = heart.due - 1 /\ new.due = old.due - 1
        BY <1>3, <2>1, <3>2
      <4> QED BY <1>3, <2>3, <3>1, <3>3, <3>4, <4>1, SMTT(30)
    <3>5. CASE wire[b] # <<>>
      <4>1. new.blocked = old.blocked - 1 /\ new.due = old.due - 1
        BY <2>1, <2>2, <2>3, <3>2, <3>5
      <4> QED BY <2>3, <3>1, <3>3, <3>5, <4>1
    <3> QED BY <3>4, <3>5
  <2> QED BY <2>4, <2>5, <2>6, <2>7 DEF Sound
<1> QED BY <1>4, TickTypes DEF HeartIInv, Sound

LEMMA InitSound == Init => HeartIInv
<1> SUFFICES ASSUME Init PROVE HeartIInv
  OBVIOUS
<1> USE Parameters
<1>1. /\ NewHeart \in [up : BOOLEAN, due : -MaxLate..Interval,
                       current_register : 0..(Register - 1)]
      /\ NewHeart.up /\ NewHeart.due = Interval
  BY DEF NewHeart
<1>2. /\ NewAgent \in AgentType /\ NewAgent.state = "off" /\ ~NewAgent.running
      /\ ~NewAgent.working /\ NewAgent.tries = 0 /\ NewAgent.due = Delay
      /\ NewAgent.blocked = 0 /\ ~NewAgent.warming
  <2>1. Delay \in Int
    OBVIOUS
  <2> QED BY <2>1 DEF NewAgent, AgentType
<1>3. /\ heart = NewHeart /\ agent = [a \in Agents |-> NewAgent]
      /\ wire = [a \in Agents |-> <<>>] /\ registered = {}
      /\ missing = [a \in Agents |-> 0] /\ silence = [a \in Agents |-> 0]
      /\ stale = [a \in Agents |-> 0]
  BY DEF Init
<1>4. HeartTypes
  BY <1>1, <1>2, <1>3 DEF HeartTypes
<1>5. ASSUME NEW a \in Agents PROVE Sound(a)
  BY <1>1, <1>2, <1>3, <1>5
  DEF Sound, SoundState, SoundTimer, SoundMissing, SoundTries, Alive, Listening
<1> QED BY <1>4, <1>5 DEF HeartIInv, Sound

LEMMA NextSound == HeartIInv /\ [Next]_vars => HeartIInv'
<1> SUFFICES ASSUME HeartIInv, [Next]_vars PROVE HeartIInv'
  OBVIOUS
<1>1. CASE Ping
  BY <1>1, PingSound
<1>2. CASE HeartDies \/ HeartRestarts
  BY <1>2, HeartDiesSound
<1>3. CASE Tick
  BY <1>3, TickSound
<1>4. ASSUME NEW a \in Agents,
             \/ AgentStarts(a) \/ Block(a) \/ Run(a) \/ Finish(a)
             \/ HandleRecv(a) \/ Delayed(a) \/ Crash(a)
      PROVE  HeartIInv'
  BY <1>4, AgentStartsSound, BlockSound, RunSound, FinishSound, HandleRecvSound,
     DelayedSound, CrashSound
<1>5. CASE UNCHANGED vars
  BY <1>5 DEF vars, HeartIInv, HeartTypes, SoundState, SoundTimer, SoundMissing, SoundTries,
     Alive, Listening
<1> QED BY <1>1, <1>2, <1>3, <1>4, <1>5 DEF Next

LEMMA HeartInvariant == Spec => []HeartIInv
BY InitSound, NextSound, PTL DEF Spec

\* Stethoscopes run exactly in the live agents without a worker, whatever
\* starts, stops, dies and comes late (Stethoscope.stop, Agent._sync_hb).
THEOREM StethoscopesSound == Spec => []HeartbeatInv
<1>1. HeartIInv => HeartbeatInv
  BY DEF HeartIInv, HeartTypes, AgentType, SoundState, HeartbeatInv, TypeOK, ListensWhenIdle
<1> QED BY <1>1, HeartInvariant, PTL

\* An agent that listens is known to the broker again once the next beat has
\* reached it, for all periods and however late the parties are.
THEOREM ListenersAreKnown == Spec => []KnownInTime
<1>1. HeartIInv => KnownInTime
  BY DEF HeartIInv, SoundMissing, KnownInTime
<1> QED BY <1>1, HeartInvariant, PTL

\* Between the first and the last of Retries looks there is time for a late
\* beat to reach an agent that is busy.
Tolerant == (Retries - 1) * Delay > Interval + MaxLate + 2 * MaxBlock

LEMMA KeptByLook ==
  ASSUME Tolerant, HeartIInv, NEW a \in Agents, Delayed(a), agent'[a].state = "gone"
  PROVE  a \in outage
<1> USE Parameters
<1>1. SUFFICES ASSUME a \notin outage PROVE FALSE
  OBVIOUS
<1> DEFINE n == agent[a].tries * Delay
<1>2. /\ agent[a] \in AgentType /\ Looked(a) \in AgentType /\ agent[a].running
      /\ agent[a].state = "on" /\ agent[a].blocked = 0 /\ agent[a].due <= 0
      /\ Looked(a).state = "on" /\ Looked(a).tries = agent[a].tries + 1
  BY LookedFields
<1>3. agent[a].tries + 1 >= Retries
  <2>1. CASE IsLost(Looked(a).tries) /\ ~Looked(a).working
    BY <1>2, <2>1 DEF IsLost
  <2>2. CASE ~(IsLost(Looked(a).tries) /\ ~Looked(a).working)
    <3>1. agent' = [agent EXCEPT ![a] = Looked(a)]
      BY <2>2 DEF Delayed, Looked
    <3>2. agent'[a] = Looked(a)
      BY <3>1 DEF HeartIInv, HeartTypes
    <3> QED BY <1>2, <3>2
  <2> QED BY <2>1, <2>2
<1>4. n \in Nat /\ (Retries - 1) * Delay <= n
  <2>1. agent[a].tries \in Nat /\ Retries - 1 \in Nat /\ Retries - 1 <= agent[a].tries
    BY <1>2, <1>3 DEF AgentType
  <2> QED BY <2>1, LooksMonotone, OneMoreLook
<1> HIDE DEF n
<1>5. n <= Interval + MaxLate + 2 * MaxBlock
  <2>1. /\ heart.due \in Int /\ heart.due >= -MaxLate
        /\ agent[a].due \in Int
    BY <1>2 DEF HeartIInv, HeartTypes, AgentType
  <2>2. Listening(a)
    BY <1>2 DEF Listening, Alive
  <2>3. IF wire[a] = <<>>
        THEN n + heart.due <= Interval + MaxBlock + agent[a].due
        ELSE n + agent[a].blocked <= Interval + MaxLate + 2 * MaxBlock + agent[a].due
    BY <1>1, <2>2 DEF HeartIInv, SoundTries, n
  <2>4. CASE wire[a] = <<>>
    BY <1>2, <1>4, <2>1, <2>3, <2>4
  <2>5. CASE wire[a] # <<>>
    BY <1>2, <1>4, <2>1, <2>3, <2>5
  <2> QED BY <2>4, <2>5
<1>6. (Retries - 1) * Delay \in Int
  OBVIOUS
<1> QED BY <1>4, <1>5, <1>6 DEF Tolerant

\* "If no beat is found, it calls onbeatlost": with the looks far enough
\* apart for the lateness of the parties, only a broker that was down is
\* given up (_delayed).  The defaults, beats and looks every 10 seconds and 3
\* looks, leave 10 seconds for being late.
THEOREM LiveBrokersAreKept == ASSUME Tolerant PROVE Spec => LiveBrokerKept
<1>1. HeartIInv /\ [Next]_vars =>
        [\A a \in Agents : Delayed(a) /\ agent'[a].state = "gone" => a \in outage]_vars
  BY KeptByLook
<1> QED BY <1>1, HeartInvariant, PTL DEF Spec, LiveBrokerKept
-----------------------------------------------------------------------------
(* When nobody is late by a whole period. *)

\* What a step of an agent makes of it and its clocks.
AgentMoves(a) ==
    \/ AgentStarts(a) \/ Block(a) \/ Run(a) \/ Finish(a)
    \/ HandleRecv(a) \/ Delayed(a) \/ Crash(a)

LEMMA MovesAlone ==
  ASSUME HeartIInv, NEW a \in Agents, AgentMoves(a)
  PROVE  /\ heart' = heart /\ stale' = stale
         /\ \A b \in Agents \ {a} :
              /\ agent'[b] = agent[b] /\ silence'[b] = silence[b]
              /\ b \in registered' <=> b \in registered
         /\ a \in registered' => heart.up \/ a \in registered
BY DEF HeartIInv, HeartTypes, AgentMoves, AgentStarts, Block, Run, Finish, HandleRecv, Delayed,
   Crash, Stops, Attentive, Registers, history

\* Nobody comes back from the dead, and nobody is off again.
LEMMA MovesForward ==
  ASSUME HeartIInv, NEW a \in Agents, AgentMoves(a)
  PROVE  \/ agent[a].state = "off" /\ agent'[a].state = "on"
         \/ agent[a].state = "on" /\ agent'[a].state \in {"on", "gone"}
<1>0. agent[a] \in AgentType /\ a \in Agents /\ agent \in [Agents -> AgentType]
  BY DEF HeartIInv, HeartTypes
<1>1. CASE AgentStarts(a)
  <2> DEFINE r == [agent[a] EXCEPT !.state = "on"]
  <2>1. r \in AgentType /\ r.state = "on"
    BY <1>0 DEF AgentType
  <2>2. agent'[a] = Started(r) /\ agent[a].state = "off"
    BY <1>0, <1>1 DEF AgentStarts
  <2> HIDE DEF r
  <2> QED BY <2>1, <2>2, StartedFields
<1>2. CASE Block(a)
  BY <1>0, <1>2 DEF Block, Free, Alive, AgentType
<1>3. CASE Run(a)
  <2> DEFINE s == [agent[a] EXCEPT !.working = TRUE]
  <2>1. s \in AgentType /\ s.state = "on" /\ agent[a].state = "on"
    BY <1>0, <1>3 DEF Run, Free, Alive, AgentType
  <2>2. agent'[a] \in {s, Stopped(s)}
    BY <1>0, <1>3 DEF Run, Stops
  <2> HIDE DEF s
  <2> QED BY <2>1, <2>2, StoppedFields
<1>4. CASE Finish(a)
  <2> DEFINE s == [agent[a] EXCEPT !.working = FALSE]
  <2>1. s \in AgentType /\ s.state = "on" /\ agent[a].state = "on"
    BY <1>0, <1>4 DEF Finish, Free, Alive, AgentType
  <2>2. agent'[a] \in {s, Started(s)}
    BY <1>0, <1>4 DEF Finish
  <2> HIDE DEF s
  <2> QED BY <2>1, <2>2, StartedFields
<1>5. CASE HandleRecv(a)
  BY <1>0, <1>5 DEF HandleRecv, Free, Alive, AgentType
<1>6. CASE Delayed(a)
  <2> DEFINE s == [Looked(a) EXCEPT !.state = "gone"]
  <2>1. Looked(a) \in AgentType /\ Looked(a).state = "on" /\ agent[a].state = "on"
    BY <1>6, LookedFields
  <2>2. s \in AgentType /\ s.state = "gone"
    BY <2>1 DEF AgentType
  <2>3. agent'[a] \in {Looked(a), Stopped(s)}
    BY <1>0, <1>6 DEF Delayed, Looked, Stops
  <2> HIDE DEF s
  <2> QED BY <2>1, <2>2, <2>3, StoppedFields
<1>7. CASE Crash(a)
  <2> DEFINE r == [NewAgent EXCEPT !.state = "gone"]
  <2>1. r \in AgentType /\ r.state = "gone"
    <3>1. Delay \in Int
      BY Parameters
    <3>2. NewAgent \in AgentType
      BY <3>1 DEF NewAgent, AgentType
    <3> QED BY <3>2 DEF AgentType
  <2>2. agent'[a] = Stopped(r) /\ agent[a].state = "on"
    BY <1>0, <1>7 DEF Crash, Alive
  <2> HIDE DEF r
  <2> QED BY <2>1, <2>2, StoppedFields
<1> QED BY <1>1, <1>2, <1>3, <1>4, <1>5, <1>6, <1>7 DEF AgentMoves

\* An agent that listens after its step has begun to, or heard a beat, or
\* goes on as before, or took a look in time.
LEMMA MovesListening ==
  ASSUME Punctual, HeartIInv, NEW a \in Agents, AgentMoves(a), Listening(a)'
  PROVE  LET old == agent[a]
             new == agent'[a]
         IN \/ new.tries = 0 /\ silence'[a] = 0 /\ new.due \in Int /\ new.due <= Warmup + Delay
            \/ /\ Listening(a) /\ silence'[a] = silence[a]
               /\ new.tries = old.tries /\ new.due = old.due
            \/ /\ Listening(a) /\ silence'[a] = silence[a]
               /\ new.tries = old.tries + 1 /\ new.tries < Retries
               /\ new.due = old.due + Delay
<1> USE Parameters
<1>0. /\ agent[a] \in AgentType /\ agent \in [Agents -> AgentType] /\ silence \in [Agents -> Nat]
      /\ HeartIInv'
  BY NextSound DEF HeartIInv, HeartTypes, AgentMoves, Next
<1>1. /\ agent'[a] \in AgentType /\ agent'[a].state = "on" /\ agent'[a].running
      /\ agent'[a].due \in Int /\ agent'[a].due <= Warmup + Delay /\ ~agent'[a].working
  <2>1. agent'[a] \in AgentType /\ SoundState(a)' /\ SoundTimer(a)'
    BY <1>0 DEF HeartIInv, HeartTypes
  <2>2. agent'[a].state = "on" /\ agent'[a].running /\ ~agent'[a].working
    BY <2>1 DEF Listening, Alive, SoundState
  <2> QED BY <2>1, <2>2 DEF AgentType, SoundTimer
<1>2. CASE AgentStarts(a)
  <2> DEFINE r == [agent[a] EXCEPT !.state = "on"]
  <2>1. r \in AgentType /\ r.tries = agent[a].tries
    BY <1>0 DEF AgentType
  <2>2. agent'[a] = Started(r) /\ silence'[a] = 0 /\ agent[a].tries = 0
    BY <1>0, <1>2 DEF AgentStarts, Attentive, HeartIInv, SoundState, Alive
  <2> HIDE DEF r
  <2> QED BY <1>1, <2>1, <2>2, StartedFields
<1>3. CASE Block(a)
  <2>1. silence' = silence
    BY <1>3 DEF Block, history
  <2>2. agent'[a].tries = agent[a].tries /\ agent'[a].due = agent[a].due
        /\ agent[a].running = agent'[a].running
    BY <1>0, <1>3 DEF Block, AgentType
  <2> QED BY <1>1, <1>3, <2>1, <2>2 DEF Block, Free, Listening
<1>4. CASE Run(a)
  <2> DEFINE s == [agent[a] EXCEPT !.working = TRUE]
  <2>1. s \in AgentType /\ s.working
    BY <1>0 DEF AgentType
  <2>2. agent'[a] \in {s, Stopped(s)}
    BY <1>0, <1>4 DEF Run, Stops
  <2> HIDE DEF s
  <2> QED BY <1>1, <2>1, <2>2, StoppedFields
<1>5. CASE Finish(a)
  <2> DEFINE s == [agent[a] EXCEPT !.working = FALSE]
  <2>1. agent[a].tries = 0 /\ ~agent[a].running
    BY <1>0, <1>5 DEF AgentType, Finish, Free, Alive, HeartIInv, SoundState
  <2>2. s \in AgentType /\ s.tries = 0 /\ ~s.running
    BY <1>0, <2>1 DEF AgentType
  <2>3. agent'[a] = Started(s) /\ silence'[a] = 0
    BY <1>0, <1>5, <2>2 DEF Finish, Attentive
  <2> HIDE DEF s
  <2> QED BY <1>1, <2>2, <2>3, StartedFields
<1>6. CASE HandleRecv(a)
  BY <1>0, <1>1, <1>6 DEF HandleRecv, Attentive, AgentType
<1>7. CASE Delayed(a)
  <2> DEFINE s == [Looked(a) EXCEPT !.state = "gone"]
  <2>1. /\ Looked(a) \in AgentType /\ Looked(a).tries = agent[a].tries + 1
        /\ Looked(a).working = agent[a].working
        /\ agent[a].state = "on" /\ agent[a].running /\ agent[a].blocked = 0
        /\ -Delay < agent[a].due => Looked(a).due = agent[a].due + Delay
    BY <1>7, LookedFields
  <2>2. ~agent[a].working
    BY <1>0, <2>1 DEF AgentType, Alive, HeartIInv, SoundState
  <2>3. agent[a].due \in Int /\ agent[a].due >= -MaxBlock /\ agent[a].tries \in Nat
    BY <1>0, <2>1 DEF AgentType, HeartIInv, SoundTimer
  <2>4. -Delay < agent[a].due
    BY <2>3 DEF Punctual
  <2>5. s \in AgentType
    BY <2>1 DEF AgentType
  <2>6. CASE IsLost(Looked(a).tries) /\ ~Looked(a).working
    <3>1. agent'[a] = Stopped(s)
      BY <1>0, <1>7, <2>6 DEF Delayed, Looked, Stops
    <3> HIDE DEF s
    <3> QED BY <1>1, <2>5, <3>1, StoppedFields
  <2>7. CASE ~(IsLost(Looked(a).tries) /\ ~Looked(a).working)
    <3>1. agent'[a] = Looked(a) /\ silence' = silence
      BY <1>0, <1>7, <2>7 DEF Delayed, Looked
    <3>2. Looked(a).tries < Retries
      BY <2>1, <2>2, <2>3, <2>7 DEF IsLost
    <3>3. Listening(a)
      BY <2>1 DEF Listening, Alive
    <3> QED BY <2>1, <2>4, <3>1, <3>2, <3>3
  <2> QED BY <2>6, <2>7
<1>8. CASE Crash(a)
  <2> DEFINE r == [NewAgent EXCEPT !.state = "gone"]
  <2>1. r \in AgentType
    <3>1. Delay \in Int
      OBVIOUS
    <3>2. NewAgent \in AgentType
      BY <3>1 DEF NewAgent, AgentType
    <3> QED BY <3>2 DEF AgentType
  <2>2. agent'[a] = Stopped(r)
    BY <1>0, <1>8 DEF Crash
  <2> HIDE DEF r
  <2> QED BY <1>1, <2>1, <2>2, StoppedFields
<1> QED BY <1>2, <1>3, <1>4, <1>5, <1>6, <1>7, <1>8 DEF AgentMoves

LEMMA SilenceSound ==
  ASSUME Punctual, HeartIInv, \A a \in Agents : SoundSilence(a), [Next]_vars
  PROVE  \A a \in Agents : SoundSilence(a)'
<1> USE Parameters
<1> TAKE b \in Agents
<1>0. /\ agent[b] \in AgentType /\ agent[b].tries \in Nat /\ agent[b].due \in Int
      /\ silence[b] \in Nat /\ SoundSilence(b)
  BY DEF HeartIInv, HeartTypes, AgentType
<1> DEFINE n == (agent[b].tries + 1) * Delay
<1>1. n \in Nat
  BY <1>0, OneMoreLook
<1>2. Listening(b) => agent[b].tries < Retries /\ silence[b] + agent[b].due <= Warmup + n
  BY <1>0 DEF SoundSilence
<1> HIDE DEF n
<1>3. ASSUME agent'[b] = agent[b], silence'[b] = silence[b] PROVE SoundSilence(b)'
  BY <1>0, <1>3 DEF SoundSilence, Listening, Alive
<1>4. CASE Tick
  <2>1. /\ agent'[b].state = agent[b].state /\ agent'[b].running = agent[b].running
        /\ agent'[b].tries = agent[b].tries
        /\ agent'[b].due = IF Listening(b) THEN agent[b].due - 1 ELSE agent[b].due
    BY <1>4, TickAgent
  <2>2. Listening(b) => silence'[b] \in Nat /\ silence'[b] <= silence[b] + 1
    BY <1>0, <1>4, PassedBounds DEF Tick
  <2>3. Listening(b) => silence'[b] + agent'[b].due <= Warmup + n
    BY <1>0, <1>1, <1>2, <2>1, <2>2
  <2> QED BY <1>2, <2>1, <2>3 DEF SoundSilence, Listening, Alive, n
<1>5. CASE Ping \/ HeartDies \/ HeartRestarts \/ UNCHANGED vars
  BY <1>3, <1>5 DEF Ping, HeartDies, HeartRestarts, history, vars
<1>6. ASSUME NEW a \in Agents, a # b, AgentMoves(a) PROVE SoundSilence(b)'
  BY <1>3, <1>6, MovesAlone
<1>7. ASSUME AgentMoves(b), Listening(b)'
      PROVE  /\ agent'[b].tries < Retries
             /\ silence'[b] + agent'[b].due <= Warmup + (agent'[b].tries + 1) * Delay
  <2> DEFINE old == agent[b]
             new == agent'[b]
  <2>1. \/ new.tries = 0 /\ silence'[b] = 0 /\ new.due \in Int /\ new.due <= Warmup + Delay
        \/ /\ Listening(b) /\ silence'[b] = silence[b]
           /\ new.tries = old.tries /\ new.due = old.due
        \/ /\ Listening(b) /\ silence'[b] = silence[b]
           /\ new.tries = old.tries + 1 /\ new.tries < Retries
           /\ new.due = old.due + Delay
    BY <1>7, MovesListening
  <2>2. CASE new.tries = 0 /\ silence'[b] = 0 /\ new.due \in Int /\ new.due <= Warmup + Delay
    <3>1. (new.tries + 1) * Delay = Delay
      BY <2>2
    <3> QED BY <2>2, <3>1
  <2>3. CASE /\ Listening(b) /\ silence'[b] = silence[b]
             /\ new.tries = old.tries /\ new.due = old.due
    BY <1>2, <2>3 DEF n
  <2>4. CASE /\ Listening(b) /\ silence'[b] = silence[b]
             /\ new.tries = old.tries + 1 /\ new.tries < Retries
             /\ new.due = old.due + Delay
    <3>1. (new.tries + 1) * Delay = n + Delay
      <4>1. old.tries + 1 \in Nat
        BY <1>0
      <4> QED BY <2>4, <4>1, OneMoreLook DEF n
    <3> HIDE DEF old, new
    <3>2. silence[b] + (agent[b].due + Delay) <= Warmup + (n + Delay)
      BY <1>0, <1>1, <1>2, <2>4
    <3> QED BY <2>4, <3>1, <3>2 DEF old, new
  <2> QED BY <2>1, <2>2, <2>3, <2>4
<1> QED BY <1>4, <1>5, <1>6, <1>7 DEF Next, AgentMoves, SoundSilence

\* A round takes no longer than all its beats.
LEMMA RoundBound ==
  ASSUME NEW c \in 0..(Register - 1)
  PROVE  LET left == IF c = 0 THEN 0 ELSE Register - c
         IN /\ left * Interval \in Nat
            /\ left * Interval + Interval <= Register * Interval
            /\ c # 0 => LET d == AfterBeat(c)
                            next == IF d = 0 THEN 0 ELSE Register - d
                        IN next * Interval + Interval = left * Interval
<1> USE Parameters
<1> DEFINE left == IF c = 0 THEN 0 ELSE Register - c
<1>1. left \in Nat /\ left + 1 \in Nat /\ left + 1 <= Register
  OBVIOUS
<1>2. left * Interval \in Nat /\ (left + 1) * Interval = left * Interval + Interval
  BY <1>1, OneMoreLook
<1>3. (left + 1) * Interval <= Register * Interval
  BY <1>1, LooksMonotone
<1>4. ASSUME c # 0
      PROVE  LET d == AfterBeat(c)
                 next == IF d = 0 THEN 0 ELSE Register - d
             IN next * Interval + Interval = left * Interval
  <2> DEFINE d == AfterBeat(c)
             next == IF d = 0 THEN 0 ELSE Register - d
  <2>1. next \in Nat /\ left = next + 1
    BY <1>4 DEF AfterBeat
  <2> HIDE DEF d, next, left
  <2>2. (next + 1) * Interval = next * Interval + Interval
    BY <2>1, OneMoreLook
  <2> QED BY <2>1, <2>2 DEF d, next, left
<1> HIDE DEF left
<1>5. left * Interval + Interval <= Register * Interval
  BY <1>2, <1>3
<1> QED BY <1>2, <1>4, <1>5 DEF left

LEMMA StaleSound ==
  ASSUME Punctual, HeartIInv, \A a \in Agents : SoundStale(a), [Next]_vars
  PROVE  \A a \in Agents : SoundStale(a)'
<1> USE Parameters
<1> TAKE b \in Agents
<1> DEFINE n == BeatsLeft * Interval
           m == Register * Interval
<1>0. /\ stale[b] \in Nat /\ SoundStale(b) /\ agent[b] \in AgentType
      /\ heart.due \in Int /\ heart.due >= -MaxLate /\ heart.due <= Interval
      /\ heart.current_register \in 0..(Register - 1)
  BY DEF HeartIInv, HeartTypes
<1>1. n \in Nat /\ m \in Nat /\ n + Interval <= m
  BY <1>0, RoundBound, OneMoreLook DEF BeatsLeft
<1> HIDE DEF n, m
<1>2. /\ agent[b].state = "off" => b \notin registered
      /\ ~heart.up => b \notin registered
      /\ ~heart.up \/ agent[b].state \in {"off", "on"} => stale[b] = 0
      /\ stale[b] <= m + MaxLate
      /\ ~Alive(b) /\ b \in registered => stale[b] + heart.due + n <= m
  BY <1>0 DEF SoundStale, n, m
<1>3. ASSUME heart' = heart, stale'[b] = stale[b], agent'[b].state = agent[b].state,
             b \in registered' <=> b \in registered
      PROVE  SoundStale(b)'
  BY <1>0, <1>3 DEF SoundStale, BeatsLeft, Alive
<1>4. CASE Tick
  <2>1. /\ agent'[b].state = agent[b].state /\ registered' = registered
        /\ heart'.up = heart.up /\ heart'.current_register = heart.current_register
        /\ heart'.due = IF heart.up THEN heart.due - 1 ELSE heart.due
        /\ heart'.due >= -MaxLate
    <3>1. heart'.due \in -MaxLate..Interval
      BY <1>4, TickHeart
    <3>2. heart'.due >= -MaxLate
      BY <3>1
    <3>3. registered' = registered
      BY <1>4 DEF Tick
    <3> QED BY <1>4, <3>2, <3>3, TickAgent, TickHeart
  <2>2. /\ stale'[b] \in Nat
        /\ IF heart.up /\ ~Alive(b) /\ b \in registered THEN stale'[b] <= stale[b] + 1
           ELSE stale'[b] = 0
    BY <1>0, <1>4, PassedBounds DEF Tick
  <2>3. ~Alive(b) /\ b \in registered => stale'[b] + heart'.due + n <= m
    BY <1>0, <1>1, <1>2, <2>1, <2>2
  <2>4. stale'[b] <= m + MaxLate
    <3>1. CASE heart.up /\ ~Alive(b) /\ b \in registered
      BY <1>0, <1>1, <2>1, <2>2, <2>3, <3>1
    <3>2. CASE ~(heart.up /\ ~Alive(b) /\ b \in registered)
      BY <1>1, <2>2, <3>2
    <3> QED BY <3>1, <3>2
  <2>5. ~heart.up \/ agent[b].state \in {"off", "on"} => stale'[b] = 0
    BY <1>2, <2>2 DEF Alive
  <2> QED BY <1>2, <2>1, <2>3, <2>4, <2>5 DEF SoundStale, BeatsLeft, Alive, n, m
<1>5. CASE Ping
  <2>1. /\ heart.up /\ heart'.up /\ heart'.due = heart.due + Interval
        /\ heart'.current_register = AfterBeat(heart.current_register)
    BY <1>0, <1>5, PingFields DEF Punctual
  <2>2. /\ agent' = agent /\ stale' = stale
        /\ registered' = IF heart.current_register = 0 THEN {} ELSE registered
    BY <1>5 DEF Ping, history
  <2>3. CASE heart.current_register = 0
    <3>1. b \notin registered'
      BY <2>2, <2>3
    <3> QED BY <1>2, <2>1, <2>2, <3>1 DEF SoundStale, Alive, m
  <2>4. CASE heart.current_register # 0
    <3> DEFINE k == (BeatsLeft * Interval)'
    <3>1. k + Interval = n /\ k \in Int
      <4>1. heart'.current_register \in 0..(Register - 1)
        BY <1>5, PingFields
      <4>2. k \in Nat
        BY <4>1, RoundBound DEF BeatsLeft
      <4> QED BY <1>0, <2>1, <2>4, <4>2, RoundBound DEF BeatsLeft, n
    <3> HIDE DEF k
    <3>2. registered' = registered
      BY <2>2, <2>4
    <3>3. ~Alive(b) /\ b \in registered => stale[b] + heart'.due + k <= m
      BY <1>0, <1>1, <1>2, <2>1, <3>1
    <3> QED BY <1>2, <2>1, <2>2, <3>2, <3>3 DEF SoundStale, Alive, k, m
  <2> QED BY <2>3, <2>4
<1>6. CASE HeartDies
  <2>1. registered' = {} /\ stale'[b] = 0 /\ agent' = agent
    BY <1>6 DEF HeartDies
  <2> QED BY <1>1, <2>1 DEF SoundStale, Alive, m
<1>7. CASE HeartRestarts
  <2>1. registered' = registered /\ stale' = stale /\ agent' = agent /\ ~heart.up
    BY <1>7 DEF HeartRestarts, history
  <2> QED BY <1>2, <2>1 DEF SoundStale, Alive, m
<1>8. ASSUME NEW a \in Agents, a # b, AgentMoves(a) PROVE SoundStale(b)'
  BY <1>3, <1>8, MovesAlone
<1>9. CASE AgentMoves(b)
  <2>1. /\ heart' = heart /\ stale' = stale
        /\ b \in registered' => heart.up \/ b \in registered
    BY <1>9, MovesAlone
  <2>2. agent[b].state \in {"off", "on"} /\ agent'[b].state \in {"on", "gone"}
    BY <1>9, MovesForward
  <2>3. stale[b] + heart.due + n <= m
    BY <1>0, <1>1, <1>2, <2>2
  <2>4. BeatsLeft' = BeatsLeft
    BY <2>1 DEF BeatsLeft
  <2> QED BY <1>2, <2>1, <2>2, <2>3, <2>4 DEF SoundStale, n, m
<1>10. CASE UNCHANGED vars
  BY <1>3, <1>10 DEF vars
<1> QED BY <1>4, <1>5, <1>6, <1>7, <1>8, <1>9, <1>10 DEF Next, AgentMoves

LEMMA PunctualInvariant == ASSUME Punctual PROVE Spec => []PunctualInv
<1>1. Init => PunctualInv
  <2> SUFFICES ASSUME Init PROVE \A a \in Agents : SoundStale(a) /\ SoundSilence(a)
    BY InitSound DEF PunctualInv
  <2> TAKE a \in Agents
  <2>1. agent[a] = NewAgent /\ heart = NewHeart /\ stale[a] = 0 /\ registered = {}
    BY DEF Init
  <2>2. NewAgent.state = "off" /\ Register * Interval + MaxLate >= 0
    BY Parameters, OneMoreLook DEF NewAgent
  <2> QED BY <2>1, <2>2 DEF SoundStale, SoundSilence, Listening, Alive
<1>2. PunctualInv /\ [Next]_vars => PunctualInv'
  BY NextSound, SilenceSound, StaleSound DEF PunctualInv
<1> QED BY <1>1, <1>2, PTL DEF Spec

\* An agent that hears nothing gives up within its Retries looks, and the
\* start and the handler before them.
THEOREM LostBrokersAreGivenUp == ASSUME Punctual PROVE Spec => []LostInTime
<1>1. PunctualInv => LostInTime
  <2> SUFFICES ASSUME PunctualInv, NEW a \in Agents, Listening(a)
               PROVE  silence[a] <= Warmup + Retries * Delay + MaxBlock
    BY DEF LostInTime
  <2> USE Parameters
  <2>1. /\ agent[a].tries \in Nat /\ agent[a].due \in Int /\ agent[a].blocked \in Nat
        /\ silence[a] \in Nat /\ agent[a].due - agent[a].blocked >= -MaxBlock
        /\ agent[a].tries < Retries
        /\ silence[a] + agent[a].due <= Warmup + (agent[a].tries + 1) * Delay
    BY DEF PunctualInv, HeartIInv, HeartTypes, AgentType, SoundTimer, SoundSilence
  <2> DEFINE n == (agent[a].tries + 1) * Delay
             m == Retries * Delay
  <2>2. n \in Nat /\ m \in Nat /\ n <= m
    <3>1. agent[a].tries + 1 \in Nat /\ agent[a].tries + 1 <= Retries
      BY <2>1
    <3> QED BY <3>1, LooksMonotone, OneMoreLook
  <2>3. silence[a] + agent[a].due <= Warmup + n
    BY <2>1
  <2> HIDE DEF n, m
  <2>4. silence[a] <= Warmup + m + MaxBlock
    BY <2>1, <2>2, <2>3
  <2> QED BY <2>4 DEF m
<1> QED BY <1>1, PunctualInvariant, PTL

\* The broker knows whoever listens, and forgets who is gone with the round.
THEOREM RosterIsInTime == ASSUME Punctual PROVE Spec => []RosterInTime
<1>1. PunctualInv => RosterInTime
  BY DEF PunctualInv, HeartIInv, SoundMissing, SoundStale, RosterInTime, KnownInTime, GoneInTime
<1> QED BY <1>1, PunctualInvariant, PTL
=============================================================================
