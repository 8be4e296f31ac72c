----------------------- MODULE DistributedRunnerProofs -----------------------
(***************************************************************************)
(* What holds of DistributedRunner for every crew, every number of hits    *)
(* and every way to call the runner: a stopTestRun is the last thing an    *)
(* agent says, on every leg of its way to the runner, so that a run that   *)
(* was counted out is complete.                                            *)
(*                                                                         *)
(* How many hits are on their way is not written as a sum but as running   *)
(* totals, one before each message and one after the last: a step appends  *)
(* a total or drops the first, and no induction over messages is needed.   *)
(***************************************************************************)
EXTENDS DistributedRunner, SequenceTheorems, FiniteSetTheorems, TLAPS

Batch == [hits : Nat, stop : BOOLEAN]
Message == [kind : {"results"}, agent : Agents, hits : Nat, stop : BOOLEAN]
             \cup [kind : {"run-finished"}, run : Runs]

RunnerTypes ==
    /\ mode \in Modes
    /\ phase \in {"new", "subscribed", "listed", "attaching", "looping", "done"}
    /\ cause \in {"none", "count", "run-finished", "interrupt"}
    /\ stops \subseteq Agents /\ toldStop \subseteq Runs
    /\ run \in [Runs -> {"absent", "active", "over"}]
    /\ worker \in [Agents -> {"none", "running", "closing", "gone"}]
    /\ made \in [Agents -> 0..MaxHits] /\ counted \in [Agents -> 0..MaxHits]
    /\ queue \in [Agents -> Batch]
    /\ channel \in [Agents -> Seq(Batch)]
    /\ feed \in Seq(Message)

\* What a message of the feed says of an agent.
StopOf(m, a) == m.kind = "results" /\ m.agent = a /\ m.stop
HitsOf(m, a) == IF m.kind = "results" /\ m.agent = a THEN m.hits ELSE 0

FeedHits(a) == [i \in 1..Len(feed) |-> HitsOf(feed[i], a)]
ChannelHits(a) == [i \in 1..Len(channel[a]) |-> channel[a][i].hits]

\* The running totals of n numbers, none of which exceeds top.
Totals(t, n, hits, top) ==
    /\ t \in [0..n -> 0..top]
    /\ \A i \in 1..n : t[i] = t[i - 1] + hits[i]

\* Numbers with one more at the end, or without the first.
Extends(longer, hits, n, h) == (\A i \in 1..n : longer[i] = hits[i]) /\ longer[n + 1] = h
Shifts(shorter, hits, n) == \A i \in 1..(n - 1) : shorter[i] = hits[i + 1]

\* The totals u of such numbers, compared with those of the numbers they came
\* from.
Grown(u, t, n, longer, top, h) ==
    /\ Totals(u, n + 1, longer, top)
    /\ \A i \in 0..n : u[i] = t[i]
    /\ u[n + 1] = t[n] + h
Shrunk(u, t, n, shorter, top, h) ==
    /\ Totals(u, n - 1, shorter, top)
    /\ \A i \in 0..(n - 1) : u[i] = t[i + 1]
    /\ u[0] = t[0] + h

\* A runner that follows its run from the start misses no message.
Following == mode = "run" /\ phase # "done"

\* p are the totals of what was published for the runner, q those of what was
\* pushed to the broker.
Accounts(a, p, q) ==
    /\ Totals(p, Len(feed), FeedHits(a), made[a])
    /\ Totals(q, Len(channel[a]), ChannelHits(a), made[a])
    /\ p[0] = counted[a]
    /\ \A i \in 0..Len(feed) : p[i] <= q[0]
    /\ Following => p[Len(feed)] = q[0]
    /\ Following => \A i \in 1..Len(feed) : StopOf(feed[i], a) => p[i] = made[a]
    /\ \A i \in 1..Len(channel[a]) : channel[a][i].stop => q[i] = made[a]
    /\ q[Len(channel[a])] + queue[a].hits <= made[a]
    /\ worker[a] # "gone" => q[Len(channel[a])] + queue[a].hits = made[a]

Accounted(a) ==
    \E p \in [0..Len(feed) -> 0..made[a]], q \in [0..Len(channel[a]) -> 0..made[a]] :
      Accounts(a, p, q)

\* The runner counted the agent as stopped, or will.
Told(a) == a \in stops \/ \E i \in 1..Len(feed) : StopOf(feed[i], a)

\* Whoever said stopTestRun has ended its test.
StopMeansEnd(a) ==
    /\ queue[a].stop => worker[a] = "closing"
    /\ Told(a) \/ (\E i \in 1..Len(channel[a]) : channel[a][i].stop)
         => worker[a] \in {"closing", "gone"}
    /\ mode = "run" /\ a \in stops => counted[a] = made[a]

\* Nothing is heard of a worker before it was started.
SilentBefore(a) ==
    /\ run[RunOf(a)] = "absent" => worker[a] = "none"
    /\ worker[a] = "none" =>
         made[a] = 0 /\ queue[a] = NoResults /\ channel[a] = <<>> /\ ~Told(a)
    /\ a \in Others => made[a] = 0

AgentFits(a) == Accounted(a) /\ StopMeansEnd(a) /\ SilentBefore(a)

\* How the runner gets where it is.
PhaseFits ==
    /\ phase \in {"new", "subscribed"} /\ mode # "attach" => run["own"] = "absent"
    /\ phase = "subscribed" => mode # "attach"
    /\ phase \in {"listed", "attaching"} => mode = "attach"
    /\ phase = "looping" => mode \in {"run", "attach"}
    /\ phase # "done" => cause = "none"
    /\ cause = "count" => mode = "run" /\ (run["other"] = "absent" => Crew \subseteq stops)

RunnerIInv ==
    /\ RunnerTypes
    /\ \A a \in Agents : AgentFits(a)
    /\ PhaseFits
-----------------------------------------------------------------------------
(* Running totals. *)

LEMMA TotalsAppend ==
  ASSUME NEW n \in Nat, NEW top \in Nat, NEW h \in Nat, NEW hits, NEW longer, NEW t,
         Totals(t, n, hits, top), t[n] + h <= top,
         Extends(longer, hits, n, h)
  PROVE  \E u : Grown(u, t, n, longer, top, h)
<1> DEFINE u == [i \in 0..(n + 1) |-> IF i <= n THEN t[i] ELSE t[n] + h]
<1>1. \A i \in 0..n : t[i] \in 0..top
  BY DEF Totals
<1>2. u \in [0..(n + 1) -> 0..top]
  BY <1>1
<1>3. (\A i \in 0..n : u[i] = t[i]) /\ u[n + 1] = t[n] + h
  OBVIOUS
<1>4. ASSUME NEW i \in 1..(n + 1) PROVE u[i] = u[i - 1] + longer[i]
  <2>1. CASE i \in 1..n
    <3>1. i \in 0..n /\ i - 1 \in 0..n
      BY <2>1
    <3> QED BY <1>3, <2>1, <3>1 DEF Totals, Extends
  <2>2. CASE i = n + 1
    <3>1. n \in 0..n /\ (n + 1) - 1 = n
      OBVIOUS
    <3> QED BY <1>3, <2>2, <3>1 DEF Extends
  <2> QED BY <2>1, <2>2
<1>5. Totals(u, n + 1, longer, top)
  BY <1>2, <1>4 DEF Totals
<1> HIDE DEF u
<1> QED BY <1>3, <1>5 DEF Grown

LEMMA TotalsRepeat ==
  ASSUME NEW n \in Nat, NEW top \in Nat, NEW hits, NEW longer, NEW t,
         Totals(t, n, hits, top), Extends(longer, hits, n, 0)
  PROVE  \E u : Grown(u, t, n, longer, top, 0)
<1>1. n \in 0..n
  OBVIOUS
<1>2. t[n] + 0 <= top /\ 0 \in Nat
  BY <1>1 DEF Totals
<1> QED BY <1>2, TotalsAppend

LEMMA TotalsTail ==
  ASSUME NEW n \in Nat \ {0}, NEW top \in Nat, NEW hits, NEW shorter, NEW t,
         Totals(t, n, hits, top),
         Shifts(shorter, hits, n)
  PROVE  \E u : Shrunk(u, t, n, shorter, top, hits[1])
<1> DEFINE u == [i \in 0..(n - 1) |-> t[i + 1]]
<1>1. \A i \in 0..(n - 1) : t[i + 1] \in 0..top
  BY DEF Totals
<1>2. u \in [0..(n - 1) -> 0..top]
  BY <1>1
<1>3. \A i \in 0..(n - 1) : u[i] = t[i + 1]
  OBVIOUS
<1>4. u[0] = t[0] + hits[1]
  <2>1. 1 \in 1..n /\ 0 \in 0..(n - 1) /\ 0 + 1 = 1 /\ 1 - 1 = 0
    OBVIOUS
  <2> QED BY <1>3, <2>1 DEF Totals
<1>5. ASSUME NEW i \in 1..(n - 1) PROVE u[i] = u[i - 1] + shorter[i]
  <2>1. i \in 0..(n - 1) /\ i - 1 \in 0..(n - 1) /\ i + 1 \in 1..n /\ (i - 1) + 1 = i
        /\ (i + 1) - 1 = i
    OBVIOUS
  <2>2. t[i + 1] = t[i] + hits[i + 1]
    BY <2>1 DEF Totals
  <2> QED BY <1>3, <2>1, <2>2 DEF Shifts
<1>6. Totals(u, n - 1, shorter, top)
  BY <1>2, <1>5 DEF Totals
<1> HIDE DEF u
<1> QED BY <1>3, <1>4, <1>6 DEF Shrunk

LEMMA TotalsRaise ==
  ASSUME NEW n \in Nat, NEW top \in Nat, NEW higher \in Nat, NEW hits, NEW t,
         Totals(t, n, hits, top), top <= higher
  PROVE  Totals(t, n, hits, higher)
<1>1. \A i \in 0..n : t[i] \in 0..higher
  BY DEF Totals
<1> QED BY <1>1 DEF Totals

-----------------------------------------------------------------------------
(* The accounts of an agent a step leaves alone, and of one whose message     *)
(* moves on.                                                                  *)

LEMMA AccountTypes ==
  ASSUME RunnerTypes, NEW a \in Agents
  PROVE  /\ made[a] \in Nat /\ made[a] <= MaxHits /\ Len(feed) \in Nat
         /\ counted[a] \in Nat
         /\ Len(channel[a]) \in Nat /\ queue[a] \in Batch /\ queue[a].hits \in Nat
         /\ \A i \in 1..Len(channel[a]) : channel[a][i] \in Batch
         /\ \A i \in 1..Len(feed) : feed[i] \in Message
<1>1. made[a] \in 0..MaxHits /\ counted[a] \in 0..MaxHits /\ MaxHits \in Nat
  BY RunnerAssumption DEF RunnerTypes
<1>2. feed \in Seq(Message) /\ channel[a] \in Seq(Batch) /\ queue[a] \in Batch
  BY DEF RunnerTypes
<1>3. Len(feed) \in Nat /\ Len(channel[a]) \in Nat
  BY <1>2, LenProperties
<1>4. /\ \A i \in 1..Len(channel[a]) : channel[a][i] \in Batch
      /\ \A i \in 1..Len(feed) : feed[i] \in Message
  BY <1>2, ElementOfSeq
<1> QED BY <1>1, <1>2, <1>3, <1>4 DEF Batch

LEMMA AccountsKept ==
  ASSUME NEW a \in Agents, Accounted(a), feed' = feed, channel'[a] = channel[a],
         queue'[a] = queue[a], made'[a] = made[a], counted'[a] = counted[a],
         Following' => Following, worker'[a] # "gone" => worker[a] # "gone"
  PROVE  Accounted(a)'
BY ZenonT(40) DEF Accounted, Accounts, FeedHits, ChannelHits

\* The worker's queue is thrown away with the worker, or has been empty.
LEMMA AccountsDropped ==
  ASSUME RunnerTypes, NEW a \in Agents, Accounted(a), feed' = feed, channel'[a] = channel[a],
         queue'[a] = NoResults, made'[a] = made[a], counted'[a] = counted[a],
         Following' => Following, worker'[a] = "gone"
  PROVE  Accounted(a)'
<1>1. PICK p \in [0..Len(feed) -> 0..made[a]], q \in [0..Len(channel[a]) -> 0..made[a]] :
        Accounts(a, p, q)
  BY DEF Accounted
<1>2. q[Len(channel[a])] \in Nat /\ q[Len(channel[a])] + 0 <= made[a]
  <2>1. Len(channel[a]) \in 0..Len(channel[a]) /\ made[a] \in Nat
    BY AccountTypes
  <2>2. q[Len(channel[a])] \in 0..made[a]
    BY <1>1, <2>1, Zenon
  <2> QED BY <2>1, <2>2
<1>3. Accounts(a, p, q)'
  BY <1>1, <1>2 DEF Accounts, FeedHits, ChannelHits, NoResults
<1> QED BY <1>3 DEF Accounted

\* A message that says nothing of an agent was published.
LEMMA AccountsOther ==
  ASSUME RunnerTypes, NEW a \in Agents, Accounted(a), NEW m \in Message,
         feed' = Append(feed, m), HitsOf(m, a) = 0, ~StopOf(m, a), channel'[a] = channel[a],
         queue'[a] = queue[a], made'[a] = made[a], counted'[a] = counted[a],
         Following' => Following, worker'[a] # "gone" => worker[a] # "gone"
  PROVE  Accounted(a)'
<1> DEFINE n == Len(feed)
<1>1. PICK p \in [0..Len(feed) -> 0..made[a]], q \in [0..Len(channel[a]) -> 0..made[a]] :
        Accounts(a, p, q)
  BY DEF Accounted
<1>2. /\ n \in Nat /\ Len(feed') = n + 1 /\ feed'[n + 1] = m
      /\ \A i \in 1..n : feed'[i] = feed[i]
  BY AppendProperties, LenProperties DEF RunnerTypes
<1>3. /\ FeedHits(a)'[n + 1] = 0
      /\ \A i \in 1..n : FeedHits(a)'[i] = FeedHits(a)[i]
  <2>1. n + 1 \in 1..(n + 1) /\ \A i \in 1..n : i \in 1..(n + 1)
    BY <1>2
  <2> QED BY <1>2, <2>1 DEF FeedHits, HitsOf
<1>4. p[n] \in 0..made[a] /\ made[a] \in Nat /\ p[n] <= made[a]
  BY <1>2, AccountTypes
<1>5. Totals(p, n, FeedHits(a), made[a])
  BY <1>1 DEF Accounts
<1> HIDE DEF n
<1>6. PICK u : /\ Totals(u, n + 1, FeedHits(a)', made[a])
               /\ \A i \in 0..n : u[i] = p[i]
               /\ u[n + 1] = p[n]
  <2> DEFINE old == FeedHits(a)
             new == FeedHits(a)'
             top == made[a]
  <2>1. n \in Nat /\ top \in Nat /\ Totals(p, n, old, top)
    BY <1>2, <1>4, <1>5
  <2>2. Extends(new, old, n, 0)
    BY <1>3 DEF Extends
  <2> HIDE DEF old, new, top
  <2>3. \E u : Grown(u, p, n, new, top, 0)
    BY <2>1, <2>2, TotalsRepeat
  <2> QED BY <1>4, <2>3 DEF Grown, new, top
<1>7. \A i \in 1..Len(feed') : StopOf(feed'[i], a) => i \in 1..n
  BY <1>2
<1>8. Accounts(a, u, q)'
  <2>1. Totals(u, Len(feed'), FeedHits(a)', made'[a])
    BY <1>2, <1>6
  <2>2. Totals(q, Len(channel'[a]), ChannelHits(a)', made'[a])
    BY <1>1 DEF Accounts, ChannelHits
  <2>3. u[0] = counted'[a] /\ u[Len(feed')] = p[n]
    BY <1>1, <1>2, <1>4, <1>6 DEF Accounts
  <2>4. Following' => \A i \in 1..Len(feed') : StopOf(feed'[i], a) => u[i] = made'[a]
    <3>1. \A i \in 1..n : i \in 0..n
      BY <1>2
    <3> QED BY <1>1, <1>2, <1>6, <1>7, <3>1 DEF Accounts, n
  <2>5. \A i \in 0..Len(feed') : u[i] <= q[0]
    <3>1. \A i \in 0..n : p[i] <= q[0]
      BY <1>1 DEF Accounts, n
    <3>2. \A i \in 0..(n + 1) : i \in 0..n \/ i = n + 1
      BY <1>2
    <3>3. n \in 0..n
      BY <1>2
    <3> QED BY <1>2, <1>6, <3>1, <3>2, <3>3
  <2> QED BY <1>1, <2>1, <2>2, <2>3, <2>4, <2>5 DEF Accounts, n
<1>9. u \in [0..Len(feed') -> 0..made'[a]]
  BY <1>2, <1>6 DEF Totals
<1> QED BY <1>8, <1>9 DEF Accounted

\* The agent's first batch reached the broker, which published it.
LEMMA AccountsPublished ==
  ASSUME RunnerTypes, NEW a \in Agents, Accounted(a), channel[a] # <<>>,
         feed' = Append(feed, Results(a, Head(channel[a]))), channel'[a] = Tail(channel[a]),
         queue'[a] = queue[a], made'[a] = made[a], counted'[a] = counted[a],
         Following' => Following, worker'[a] = worker[a]
  PROVE  Accounted(a)'
<1> DEFINE n == Len(feed)
           k == Len(channel[a])
           b == Head(channel[a])
           m == Results(a, b)
<1>1. PICK p \in [0..Len(feed) -> 0..made[a]], q \in [0..Len(channel[a]) -> 0..made[a]] :
        Accounts(a, p, q)
  BY DEF Accounted
<1>2. channel[a] \in Seq(Batch) /\ feed \in Seq(Message)
  BY DEF RunnerTypes
<1>3. /\ b \in Batch /\ b = channel[a][1] /\ k \in Nat \ {0} /\ Len(channel'[a]) = k - 1
      /\ \A i \in 1..(k - 1) : channel'[a][i] = channel[a][i + 1]
  BY <1>2, HeadTailProperties, LenProperties, EmptySeq
<1>4. m \in Message /\ HitsOf(m, a) = b.hits /\ (StopOf(m, a) <=> b.stop) /\ b.hits \in Nat
  BY <1>3 DEF Results, Message, HitsOf, StopOf, Batch
<1>5. /\ n \in Nat /\ Len(feed') = n + 1 /\ feed'[n + 1] = m
      /\ \A i \in 1..n : feed'[i] = feed[i]
  BY <1>2, <1>4, AppendProperties, LenProperties
<1>6. /\ FeedHits(a)'[n + 1] = b.hits
      /\ \A i \in 1..n : FeedHits(a)'[i] = FeedHits(a)[i]
  <2>1. n + 1 \in 1..(n + 1) /\ \A i \in 1..n : i \in 1..(n + 1)
    BY <1>5
  <2> QED BY <1>4, <1>5, <2>1 DEF FeedHits
<1>7. /\ ChannelHits(a)[1] = b.hits
      /\ \A i \in 1..(k - 1) : ChannelHits(a)'[i] = ChannelHits(a)[i + 1]
  <2>1. 1 \in 1..k /\ \A i \in 1..(k - 1) : i + 1 \in 1..k
    BY <1>3
  <2> QED BY <1>3, <2>1 DEF ChannelHits
<1>8. /\ Totals(p, n, FeedHits(a), made[a]) /\ Totals(q, k, ChannelHits(a), made[a])
      /\ (\A i \in 0..n : p[i] <= q[0]) /\ made[a] \in Nat
  BY <1>1, AccountTypes DEF Accounts
<1> HIDE DEF n, k, b
<1>9. PICK w : /\ Totals(w, k - 1, ChannelHits(a)', made[a])
               /\ \A i \in 0..(k - 1) : w[i] = q[i + 1]
               /\ w[0] = q[0] + b.hits
  <2>1. \E w : /\ Totals(w, k - 1, ChannelHits(a)', made[a])
               /\ \A i \in 0..(k - 1) : w[i] = q[i + 1]
               /\ w[0] = q[0] + ChannelHits(a)[1]
    <3> DEFINE old == ChannelHits(a)
               new == ChannelHits(a)'
               top == made[a]
    <3>1. k \in Nat \ {0} /\ top \in Nat /\ Totals(q, k, old, top)
      BY <1>3, <1>8
    <3>2. Shifts(new, old, k)
      BY <1>7 DEF Shifts
    <3> HIDE DEF old, new, top
    <3>3. \E w : Shrunk(w, q, k, new, top, old[1])
      BY <3>1, <3>2, TotalsTail
    <3> QED BY <3>3 DEF Shrunk, old, new, top
  <2> QED BY <1>7, <2>1
<1>10. p[n] \in Nat /\ q[0] \in Nat /\ w[0] \in 0..made[a] /\ p[n] <= q[0]
  <2>1. n \in 0..n /\ 0 \in 0..k /\ 0 \in 0..(k - 1)
    BY <1>3, <1>5
  <2> QED BY <1>8, <1>9, <2>1 DEF Totals
<1>11. p[n] + b.hits <= made[a]
  BY <1>4, <1>8, <1>9, <1>10
<1>12. PICK u : /\ Totals(u, n + 1, FeedHits(a)', made[a])
                /\ \A i \in 0..n : u[i] = p[i]
                /\ u[n + 1] = p[n] + b.hits
  <2> DEFINE old == FeedHits(a)
             new == FeedHits(a)'
             top == made[a]
             h == b.hits
  <2>1. /\ n \in Nat /\ top \in Nat /\ h \in Nat /\ Totals(p, n, old, top)
        /\ p[n] + h <= top
    BY <1>4, <1>5, <1>8, <1>11
  <2>2. Extends(new, old, n, h)
    BY <1>6 DEF Extends
  <2> HIDE DEF old, new, top, h
  <2>3. \E u : Grown(u, p, n, new, top, h)
    BY <2>1, <2>2, TotalsAppend
  <2> QED BY <2>3 DEF Grown, new, top, h
<1>13. Accounts(a, u, w)'
  <2>1. Totals(u, Len(feed'), FeedHits(a)', made'[a])
    BY <1>5, <1>12
  <2>2. Totals(w, Len(channel'[a]), ChannelHits(a)', made'[a])
    BY <1>3, <1>9
  <2>3. u[0] = counted'[a]
    BY <1>1, <1>5, <1>12 DEF Accounts
  <2>4. Following => u[Len(feed')] = w[0]
    BY <1>1, <1>5, <1>9, <1>12 DEF Accounts, n
  <2>5. \A i \in 0..Len(feed') : u[i] <= w[0]
    <3> SUFFICES ASSUME NEW i \in 0..(n + 1) PROVE u[i] <= w[0]
      BY <1>5
    <3>1. CASE i \in 0..n
      <4>1. u[i] = p[i] /\ p[i] <= q[0] /\ p[i] \in Nat
        BY <1>8, <1>12, <3>1 DEF Totals
      <4> QED BY <1>4, <1>9, <1>10, <4>1
    <3>2. CASE i = n + 1
      BY <1>4, <1>9, <1>10, <1>12, <3>2
    <3> QED BY <1>5, <3>1, <3>2
  <2>6. \A i \in 1..Len(channel'[a]) : channel'[a][i].stop => w[i] = made'[a]
    <3> SUFFICES ASSUME NEW i \in 1..(k - 1), channel'[a][i].stop PROVE w[i] = made[a]
      BY <1>3
    <3>1. i + 1 \in 1..k /\ i \in 0..(k - 1)
      BY <1>3
    <3> QED BY <1>1, <1>3, <1>9, <3>1 DEF Accounts, k
  <2>7. w[Len(channel'[a])] = q[k]
    <3>1. k - 1 \in 0..(k - 1) /\ (k - 1) + 1 = k
      BY <1>3
    <3> QED BY <1>3, <1>9, <3>1
  <2>8. Following => \A i \in 1..Len(feed') : StopOf(feed'[i], a) => u[i] = made[a]
    <3> SUFFICES ASSUME Following, NEW i \in 1..(n + 1), StopOf(feed'[i], a)
                 PROVE  u[i] = made[a]
      BY <1>5
    <3>1. CASE i \in 1..n
      <4>1. i \in 0..n
        BY <3>1
      <4> QED BY <1>1, <1>5, <1>12, <3>1, <4>1 DEF Accounts, n
    <3>2. CASE i = n + 1
      <4>1. b.stop
        BY <1>4, <1>5, <3>2
      <4>2. q[1] = made[a]
        <5>1. 1 \in 1..k
          BY <1>3
        <5> QED BY <1>1, <1>3, <4>1, <5>1 DEF Accounts, k
      <4>3. w[0] = q[1]
        <5>1. 0 \in 0..(k - 1)
          BY <1>3
        <5> QED BY <1>9, <5>1
      <4>4. p[n] = q[0]
        BY <1>1 DEF Accounts, n
      <4> QED BY <1>9, <1>12, <3>2, <4>2, <4>3, <4>4
    <3> QED BY <1>5, <3>1, <3>2
  <2> QED BY <1>1, <2>1, <2>2, <2>3, <2>4, <2>5, <2>6, <2>7, <2>8 DEF Accounts, k
<1>14. /\ u \in [0..Len(feed') -> 0..made'[a]]
       /\ w \in [0..Len(channel'[a]) -> 0..made'[a]]
  BY <1>3, <1>5, <1>9, <1>12 DEF Totals
<1> QED BY <1>13, <1>14 DEF Accounted

\* The agent's first batch reached the broker, and no runner was there to hear
\* of it: one that follows its run has subscribed before its agents have hits.
LEMMA AccountsUnheard ==
  ASSUME RunnerTypes, NEW a \in Agents, Accounted(a), channel[a] # <<>>,
         Following => made[a] = 0,
         feed' = feed, channel'[a] = Tail(channel[a]),
         queue'[a] = queue[a], made'[a] = made[a], counted'[a] = counted[a],
         Following' => Following, worker'[a] = worker[a]
  PROVE  Accounted(a)'
<1> DEFINE k == Len(channel[a])
           b == channel[a][1]
<1>1. PICK p \in [0..Len(feed) -> 0..made[a]], q \in [0..Len(channel[a]) -> 0..made[a]] :
        Accounts(a, p, q)
  BY DEF Accounted
<1>2. channel[a] \in Seq(Batch)
  BY DEF RunnerTypes
<1>3. /\ b \in Batch /\ k \in Nat \ {0} /\ Len(channel'[a]) = k - 1
      /\ \A i \in 1..(k - 1) : channel'[a][i] = channel[a][i + 1]
  BY <1>2, HeadTailProperties, LenProperties, EmptySeq
<1>4. /\ ChannelHits(a)[1] = b.hits /\ b.hits \in Nat
      /\ \A i \in 1..(k - 1) : ChannelHits(a)'[i] = ChannelHits(a)[i + 1]
  <2>1. 1 \in 1..k /\ \A i \in 1..(k - 1) : i + 1 \in 1..k
    BY <1>3
  <2> QED BY <1>3, <2>1 DEF ChannelHits, Batch
<1>5. Totals(q, k, ChannelHits(a), made[a]) /\ made[a] \in Nat
  BY <1>1, AccountTypes DEF Accounts
<1> HIDE DEF k, b
<1>6. PICK w : /\ Totals(w, k - 1, ChannelHits(a)', made[a])
               /\ \A i \in 0..(k - 1) : w[i] = q[i + 1]
               /\ w[0] = q[0] + b.hits
  <2>1. \E w : /\ Totals(w, k - 1, ChannelHits(a)', made[a])
               /\ \A i \in 0..(k - 1) : w[i] = q[i + 1]
               /\ w[0] = q[0] + ChannelHits(a)[1]
    <3> DEFINE old == ChannelHits(a)
               new == ChannelHits(a)'
               top == made[a]
    <3>1. k \in Nat \ {0} /\ top \in Nat /\ Totals(q, k, old, top)
      BY <1>3, <1>5
    <3>2. Shifts(new, old, k)
      BY <1>4 DEF Shifts
    <3> HIDE DEF old, new, top
    <3>3. \E w : Shrunk(w, q, k, new, top, old[1])
      BY <3>1, <3>2, TotalsTail
    <3> QED BY <3>3 DEF Shrunk, old, new, top
  <2> QED BY <1>4, <2>1
<1>7. Accounts(a, p, w)'
  <2>1. Totals(w, Len(channel'[a]), ChannelHits(a)', made'[a])
    BY <1>3, <1>6
  <2>2. Totals(p, Len(feed'), FeedHits(a)', made'[a]) /\ p[0] = counted'[a]
    BY <1>1 DEF Accounts, FeedHits
  <2>3. \A i \in 0..Len(feed') : p[i] <= w[0]
    <3> SUFFICES ASSUME NEW i \in 0..Len(feed) PROVE p[i] <= w[0]
      OBVIOUS
    <3>1. 0 \in 0..k
      BY <1>3
    <3>2. p[i] <= q[0]
      BY <1>1 DEF Accounts
    <3>3. p[i] \in 0..made[a] /\ q[0] \in 0..made[a]
      BY <1>5, <3>1 DEF Totals
    <3> QED BY <1>4, <1>5, <1>6, <3>2, <3>3
  <2>4. \A i \in 1..Len(channel'[a]) : channel'[a][i].stop => w[i] = made'[a]
    <3> SUFFICES ASSUME NEW i \in 1..(k - 1), channel'[a][i].stop PROVE w[i] = made[a]
      BY <1>3
    <3>1. i + 1 \in 1..k /\ i \in 0..(k - 1)
      BY <1>3
    <3> QED BY <1>1, <1>3, <1>6, <3>1 DEF Accounts, k
  <2>5. w[Len(channel'[a])] = q[k]
    <3>1. k - 1 \in 0..(k - 1) /\ (k - 1) + 1 = k
      BY <1>3
    <3> QED BY <1>3, <1>6, <3>1
  <2>6. Following => p[Len(feed)] = w[0]
    <3>1. Len(feed) \in 0..Len(feed) /\ 0 \in 0..(k - 1)
      BY <1>3, AccountTypes
    <3>2. p[Len(feed)] \in 0..made[a] /\ w[0] \in 0..made[a]
      BY <1>6, <3>1 DEF Totals
    <3> QED BY <3>2
  <2> QED BY <1>1, <2>1, <2>2, <2>3, <2>4, <2>5, <2>6 DEF Accounts, k
<1>8. w \in [0..Len(channel'[a]) -> 0..made'[a]]
  BY <1>3, <1>6 DEF Totals
<1> QED BY <1>7, <1>8 DEF Accounted

\* The worker records one more hit: it is running, so that none of its batches
\* has a stopTestRun.
LEMMA AccountsHit ==
  ASSUME RunnerTypes, NEW a \in Agents, Accounted(a), StopMeansEnd(a),
         worker[a] = "running", worker'[a] = "running",
         feed' = feed, channel'[a] = channel[a], made'[a] = made[a] + 1,
         queue'[a].hits = queue[a].hits + 1, counted'[a] = counted[a],
         Following' => Following
  PROVE  Accounted(a)'
<1>1. PICK p \in [0..Len(feed) -> 0..made[a]], q \in [0..Len(channel[a]) -> 0..made[a]] :
        Accounts(a, p, q)
  BY DEF Accounted
<1>2. /\ made[a] \in Nat /\ made'[a] \in Nat /\ made[a] <= made'[a]
      /\ Len(feed) \in Nat /\ Len(channel[a]) \in Nat /\ queue[a].hits \in Nat
  BY AccountTypes
<1>3. /\ Totals(p, Len(feed), FeedHits(a), made'[a])
      /\ Totals(q, Len(channel[a]), ChannelHits(a), made'[a])
  BY <1>1, <1>2, TotalsRaise DEF Accounts
<1>4. /\ \A i \in 1..Len(feed) : ~StopOf(feed[i], a)
      /\ \A i \in 1..Len(channel[a]) : ~channel[a][i].stop
  BY DEF StopMeansEnd, Told
<1>5. q[Len(channel[a])] + queue[a].hits = made[a] /\ q[Len(channel[a])] \in Nat
  <2>1. Len(channel[a]) \in 0..Len(channel[a])
    BY <1>2
  <2>2. q[Len(channel[a])] \in 0..made[a]
    BY <2>1
  <2> QED BY <1>1, <1>2, <2>2 DEF Accounts
<1>6. q[Len(channel'[a])] + queue'[a].hits = made'[a]
  <2>1. Len(channel'[a]) = Len(channel[a])
    OBVIOUS
  <2>2. \A x, y, z \in Nat : x + y = z => x + (y + 1) = z + 1
    OBVIOUS
  <2>3. q[Len(channel[a])] + (queue[a].hits + 1) = made[a] + 1
    BY <1>2, <1>5, <2>2, ZenonT(30)
  <2> QED BY <2>1, <2>3
<1>7. FeedHits(a)' = FeedHits(a) /\ ChannelHits(a)' = ChannelHits(a)
  BY DEF FeedHits, ChannelHits
<1>8. Accounts(a, p, q)'
  BY <1>1, <1>2, <1>3, <1>4, <1>6, <1>7 DEF Accounts
<1>9. p \in [0..Len(feed') -> 0..made'[a]] /\ q \in [0..Len(channel'[a]) -> 0..made'[a]]
  BY <1>3 DEF Totals
<1> QED BY <1>8, <1>9 DEF Accounted

\* The worker records its stopTestRun.
LEMMA AccountsFinish ==
  ASSUME NEW a \in Agents, Accounted(a), worker[a] # "gone",
         feed' = feed, channel'[a] = channel[a], made'[a] = made[a],
         queue'[a].hits = queue[a].hits, counted'[a] = counted[a],
         Following' => Following
  PROVE  Accounted(a)'
BY ZenonT(40) DEF Accounted, Accounts, FeedHits, ChannelHits


\* The relay pushed all its queue held as one batch.  With a stopTestRun in it
\* the worker is closing, and the batch is its last.
LEMMA AccountsDump ==
  ASSUME RunnerTypes, NEW a \in Agents, Accounted(a), StopMeansEnd(a),
         feed' = feed, channel'[a] = Append(channel[a], queue[a]), queue'[a] = NoResults,
         made'[a] = made[a], counted'[a] = counted[a], worker'[a] = worker[a],
         Following' => Following
  PROVE  Accounted(a)'
<1> DEFINE k == Len(channel[a])
           b == queue[a]
<1>1. PICK p \in [0..Len(feed) -> 0..made[a]], q \in [0..Len(channel[a]) -> 0..made[a]] :
        Accounts(a, p, q)
  BY DEF Accounted
<1>2. /\ k \in Nat /\ b \in Batch /\ b.hits \in Nat /\ made[a] \in Nat
      /\ Len(channel'[a]) = k + 1 /\ channel'[a][k + 1] = b
      /\ \A i \in 1..k : channel'[a][i] = channel[a][i]
  BY AccountTypes, AppendProperties DEF RunnerTypes
<1>3. /\ ChannelHits(a)'[k + 1] = b.hits
      /\ \A i \in 1..k : ChannelHits(a)'[i] = ChannelHits(a)[i]
  <2>1. k + 1 \in 1..(k + 1) /\ \A i \in 1..k : i \in 1..(k + 1)
    BY <1>2
  <2> QED BY <1>2, <2>1 DEF ChannelHits
<1>4. Totals(q, k, ChannelHits(a), made[a]) /\ q[k] + b.hits <= made[a]
  BY <1>1 DEF Accounts
<1>5. q[k] \in 0..made[a]
  <2>1. k \in 0..k
    BY <1>2
  <2> QED BY <2>1
<1>6. b.stop => q[k] + b.hits = made[a]
  <2>1. b.stop => worker[a] # "gone"
    BY DEF StopMeansEnd
  <2> QED BY <1>1, <2>1 DEF Accounts
<1> HIDE DEF k, b
<1>7. PICK w : /\ Totals(w, k + 1, ChannelHits(a)', made[a])
               /\ \A i \in 0..k : w[i] = q[i]
               /\ w[k + 1] = q[k] + b.hits
  <2> DEFINE old == ChannelHits(a)
             new == ChannelHits(a)'
             top == made[a]
             h == b.hits
  <2>1. /\ k \in Nat /\ top \in Nat /\ h \in Nat /\ Totals(q, k, old, top)
        /\ q[k] + h <= top
    BY <1>2, <1>4
  <2>2. Extends(new, old, k, h)
    BY <1>3 DEF Extends
  <2> HIDE DEF old, new, top, h
  <2>3. \E w : Grown(w, q, k, new, top, h)
    BY <2>1, <2>2, TotalsAppend
  <2> QED BY <2>3 DEF Grown, new, top, h
<1>8. Accounts(a, p, w)'
  <2>1. Totals(w, Len(channel'[a]), ChannelHits(a)', made'[a])
    BY <1>2, <1>7
  <2>2. Totals(p, Len(feed'), FeedHits(a)', made'[a]) /\ p[0] = counted'[a]
    BY <1>1 DEF Accounts, FeedHits
  <2>3. w[0] = q[0]
    <3>1. 0 \in 0..k
      BY <1>2
    <3> QED BY <1>7, <3>1
  <2>4. \A i \in 1..Len(channel'[a]) : channel'[a][i].stop => w[i] = made'[a]
    <3> SUFFICES ASSUME NEW i \in 1..(k + 1), channel'[a][i].stop PROVE w[i] = made[a]
      BY <1>2
    <3>1. CASE i \in 1..k
      <4>1. i \in 0..k
        BY <3>1
      <4> QED BY <1>1, <1>2, <1>7, <3>1, <4>1 DEF Accounts, k
    <3>2. CASE i = k + 1
      BY <1>2, <1>6, <1>7, <3>2
    <3> QED BY <1>2, <3>1, <3>2
  <2>5. /\ w[Len(channel'[a])] + queue'[a].hits <= made'[a]
        /\ worker'[a] # "gone" => w[Len(channel'[a])] + queue'[a].hits = made'[a]
    <3>1. w[Len(channel'[a])] = q[k] + b.hits /\ queue'[a].hits = 0
      BY <1>2, <1>7 DEF NoResults
    <3>2. \A x, y, z \in Nat : x + y <= z => (x + y) + 0 <= z
      OBVIOUS
    <3>3. \A x, y, z \in Nat : x + y = z => (x + y) + 0 = z
      OBVIOUS
    <3>4. q[k] \in Nat
      BY <1>2, <1>5
    <3>5. worker[a] # "gone" => q[k] + b.hits = made[a]
      BY <1>1 DEF Accounts, k, b
    <3> QED BY <1>2, <1>4, <3>1, <3>2, <3>3, <3>4, <3>5
  <2> QED BY <1>1, <2>1, <2>2, <2>3, <2>4, <2>5 DEF Accounts, k
<1>9. w \in [0..Len(channel'[a]) -> 0..made'[a]]
  BY <1>2, <1>7 DEF Totals
<1> QED BY <1>8, <1>9 DEF Accounted

\* The runner processed the first message of its feed, and goes on.
LEMMA AccountsProcessed ==
  ASSUME RunnerTypes, NEW a \in Agents, Accounted(a), feed # <<>>, feed' = Tail(feed),
         counted'[a] = counted[a] + HitsOf(Head(feed), a),
         channel'[a] = channel[a], queue'[a] = queue[a], made'[a] = made[a],
         worker'[a] = worker[a], Following' => Following
  PROVE  Accounted(a)'
<1> DEFINE n == Len(feed)
           h == HitsOf(Head(feed), a)
<1>1. PICK p \in [0..Len(feed) -> 0..made[a]], q \in [0..Len(channel[a]) -> 0..made[a]] :
        Accounts(a, p, q)
  BY DEF Accounted
<1>2. feed \in Seq(Message)
  BY DEF RunnerTypes
<1>3. /\ n \in Nat \ {0} /\ Head(feed) = feed[1] /\ Len(feed') = n - 1
      /\ \A i \in 1..(n - 1) : feed'[i] = feed[i + 1]
  BY <1>2, HeadTailProperties, LenProperties, EmptySeq
<1>4. /\ FeedHits(a)[1] = h
      /\ \A i \in 1..(n - 1) : FeedHits(a)'[i] = FeedHits(a)[i + 1]
  <2>1. 1 \in 1..n /\ \A i \in 1..(n - 1) : i + 1 \in 1..n
    BY <1>3
  <2> QED BY <1>3, <2>1 DEF FeedHits
<1>5. Totals(p, n, FeedHits(a), made[a]) /\ made[a] \in Nat
  BY <1>1, AccountTypes DEF Accounts
<1> HIDE DEF n, h
<1>6. PICK u : /\ Totals(u, n - 1, FeedHits(a)', made[a])
               /\ \A i \in 0..(n - 1) : u[i] = p[i + 1]
               /\ u[0] = p[0] + h
  <2>1. \E u : /\ Totals(u, n - 1, FeedHits(a)', made[a])
               /\ \A i \in 0..(n - 1) : u[i] = p[i + 1]
               /\ u[0] = p[0] + FeedHits(a)[1]
    <3> DEFINE old == FeedHits(a)
               new == FeedHits(a)'
               top == made[a]
    <3>1. n \in Nat \ {0} /\ top \in Nat /\ Totals(p, n, old, top)
      BY <1>3, <1>5
    <3>2. Shifts(new, old, n)
      BY <1>4 DEF Shifts
    <3> HIDE DEF old, new, top
    <3>3. \E u : Shrunk(u, p, n, new, top, old[1])
      BY <3>1, <3>2, TotalsTail
    <3> QED BY <3>3 DEF Shrunk, old, new, top
  <2> QED BY <1>4, <2>1
<1>7. Accounts(a, u, q)'
  <2>1. Totals(u, Len(feed'), FeedHits(a)', made'[a])
    BY <1>3, <1>6
  <2>2. Totals(q, Len(channel'[a]), ChannelHits(a)', made'[a])
    BY <1>1 DEF Accounts, ChannelHits
  <2>3. u[0] = counted'[a]
    BY <1>1, <1>6 DEF Accounts, h
  <2>4. /\ \A i \in 0..Len(feed') : u[i] = p[i + 1] /\ i + 1 \in 0..n
        /\ (n - 1) + 1 = n /\ n - 1 \in 0..(n - 1)
    BY <1>3, <1>6
  <2>5. u[Len(feed')] = p[n]
    BY <1>3, <1>6, <2>4
  <2>6. \A i \in 0..Len(feed') : u[i] <= q[0]
    BY <1>1, <2>4 DEF Accounts, n
  <2>7. Following' => \A i \in 1..Len(feed') : StopOf(feed'[i], a) => u[i] = made'[a]
    <3> SUFFICES ASSUME Following, NEW i \in 1..(n - 1), StopOf(feed'[i], a)
                 PROVE  u[i] = made[a]
      BY <1>3
    <3>1. i + 1 \in 1..n /\ i \in 0..(n - 1)
      BY <1>3
    <3> QED BY <1>1, <1>3, <1>6, <3>1 DEF Accounts, n
  <2> QED BY <1>1, <2>1, <2>2, <2>3, <2>5, <2>6, <2>7 DEF Accounts, n
<1>8. u \in [0..Len(feed') -> 0..made'[a]]
  BY <1>3, <1>6 DEF Totals
<1> QED BY <1>7, <1>8 DEF Accounted

\* The loop ended after its first message or before: what was published is not
\* processed any more, and the worker may have been killed.
LEMMA AccountsEnded ==
  ASSUME RunnerTypes, NEW a \in Agents,
         NEW p \in [0..Len(feed) -> 0..made[a]], NEW q \in [0..Len(channel[a]) -> 0..made[a]],
         Accounts(a, p, q), NEW i \in 0..Len(feed), counted'[a] = p[i],
         feed' = <<>>, ~Following', channel'[a] = channel[a], made'[a] = made[a],
         \/ queue'[a] = queue[a] /\ worker'[a] = worker[a]
         \/ queue'[a] = NoResults /\ worker'[a] = "gone"
  PROVE  Accounted(a)'
<1> DEFINE u == [j \in 0..0 |-> p[i]]
           k == Len(channel[a])
<1>1. Len(feed') = 0
  BY EmptySeq
<1>2. p[i] \in 0..made[a] /\ p[i] <= q[0] /\ made[a] \in Nat
  BY AccountTypes DEF Accounts
<1>3. u \in [0..0 -> 0..made[a]] /\ u[0] = counted'[a]
  BY <1>2
<1> HIDE DEF u
<1>4. Totals(u, Len(feed'), FeedHits(a)', made'[a])
  BY <1>1, <1>3 DEF Totals
<1>5. Totals(q, Len(channel'[a]), ChannelHits(a)', made'[a])
  BY DEF Accounts, ChannelHits
<1>6. \A j \in 0..Len(feed') : u[j] <= q[0]
  <2>1. \A j \in 0..0 : j = 0
    OBVIOUS
  <2> QED BY <1>1, <1>2, <1>3, <2>1
<1>7. /\ q[Len(channel'[a])] + queue'[a].hits <= made'[a]
      /\ worker'[a] # "gone" => q[Len(channel'[a])] + queue'[a].hits = made'[a]
  <2>1. CASE queue'[a] = queue[a] /\ worker'[a] = worker[a]
    BY <2>1 DEF Accounts
  <2>2. CASE queue'[a] = NoResults /\ worker'[a] = "gone"
    <3>1. k \in 0..k
      BY AccountTypes
    <3>2. q[k] \in 0..made[a]
      BY <3>1
    <3>3. \A x \in 0..made[a] : x + 0 <= made[a]
      BY <1>2
    <3>4. queue'[a].hits = 0
      BY <2>2 DEF NoResults
    <3> QED BY <2>2, <3>2, <3>3, <3>4
  <2> QED BY <2>1, <2>2
<1>8. \A j \in 1..Len(channel'[a]) : channel'[a][j].stop => q[j] = made'[a]
  BY DEF Accounts
<1>9. Accounts(a, u, q)'
  BY <1>3, <1>4, <1>5, <1>6, <1>7, <1>8 DEF Accounts
<1> QED BY <1>1, <1>3, <1>9 DEF Accounted

-----------------------------------------------------------------------------
(* What a step does to the agent it is about, and to the others.              *)

LEMMA Teams ==
  /\ \A a \in Agents : RunOf(a) \in Runs
  /\ \A a \in Agents, r \in Runs : a \in Team(r) <=> RunOf(a) = r
  /\ \A a \in Crew : RunOf(a) = "own"
  /\ \A a \in Others : RunOf(a) = "other"
BY RunnerAssumption DEF Agents, Runs, Team, RunOf

\* No step starts to follow a run that another has not: a mode is for good,
\* and so is the end.
LEMMA StillFollowing ==
  ASSUME [Next]_vars
  PROVE  mode' = mode /\ (phase = "done" => phase' = "done") /\ (Following' => Following)
<1> SUFFICES mode' = mode /\ (phase = "done" => phase' = "done")
  BY DEF Following
<1>1. CASE AttachPublisher
  BY <1>1 DEF AttachPublisher, Enter
<1>2. CASE Execute
  BY <1>2 DEF Execute, Enter
<1>3. CASE ExecutionError
  BY <1>3 DEF ExecutionError, Enter
<1>4. CASE ListRuns
  BY <1>4 DEF ListRuns, Enter
<1>5. CASE GetCounts
  BY <1>5 DEF GetCounts, Enter
<1>6. CASE Attach
  BY <1>6 DEF Attach, Enter
<1>7. CASE ProcessResult
  BY <1>7 DEF ProcessResult
<1>8. CASE Interrupt
  BY <1>8 DEF Interrupt
<1>9. ASSUME NEW a \in Agents,
             Hit(a) \/ Finish(a) \/ Dump(a) \/ Exit(a) \/ Die(a) \/ HandleRecv(a)
      PROVE  mode' = mode /\ phase' = phase
  BY <1>9 DEF Hit, Finish, Dump, Exit, Die, HandleRecv, runnerVars
<1>10. ASSUME NEW r \in Runs, RunFinished(r) \/ RunElsewhere(r)
       PROVE  mode' = mode /\ phase' = phase
  BY <1>10 DEF RunFinished, RunElsewhere, runnerVars
<1>11. CASE UNCHANGED vars
  BY <1>11 DEF vars, runnerVars
<1> QED BY <1>1, <1>2, <1>3, <1>4, <1>5, <1>6, <1>7, <1>8, <1>9, <1>10, <1>11 DEF Next

\* What was published last is about nobody but its agent.
LEMMA ToldAppend ==
  ASSUME RunnerTypes, NEW a \in Agents, NEW m \in Message, ~StopOf(m, a),
         feed' = Append(feed, m), stops' = stops
  PROVE  Told(a)' => Told(a)
<1>1. /\ Len(feed) \in Nat /\ Len(feed') = Len(feed) + 1 /\ feed'[Len(feed) + 1] = m
      /\ \A i \in 1..Len(feed) : feed'[i] = feed[i]
  BY AppendProperties, LenProperties DEF RunnerTypes
<1>2. \A i \in 1..Len(feed') : i \in 1..Len(feed) \/ i = Len(feed) + 1
  BY <1>1
<1> QED BY <1>1, <1>2 DEF Told

\* Nothing of a bystander changes but what is published about others.
LEMMA Bystander ==
  ASSUME RunnerTypes, NEW a \in Agents, AgentFits(a),
         mode' = mode, stops' = stops, Following' => Following,
         run'[RunOf(a)] = "absent" => run[RunOf(a)] = "absent",
         worker'[a] = worker[a], queue'[a] = queue[a], channel'[a] = channel[a],
         made'[a] = made[a], counted'[a] = counted[a],
         \/ feed' = feed
         \/ \E m \in Message : feed' = Append(feed, m) /\ HitsOf(m, a) = 0 /\ ~StopOf(m, a)
  PROVE  AgentFits(a)'
<1>1. Accounted(a)'
  BY AccountsKept, AccountsOther DEF AgentFits
<1>2. Told(a)' => Told(a)
  <2>1. CASE feed' = feed
    BY <2>1 DEF Told
  <2> QED BY <2>1, ToldAppend
<1>3. StopMeansEnd(a)'
  BY <1>2 DEF AgentFits, StopMeansEnd
<1>4. SilentBefore(a)'
  BY <1>2 DEF AgentFits, SilentBefore, RunOf
<1> QED BY <1>1, <1>3, <1>4 DEF AgentFits

\* A run was launched.
LEMMA LaunchFits ==
  ASSUME RunnerTypes, NEW r \in Runs, Launched(r), run[r] = "absent",
         NEW a \in Agents, AgentFits(a), mode' = mode, stops' = stops, Following' => Following,
         UNCHANGED <<feed, queue, channel, made, counted>>
  PROVE  AgentFits(a)'
<1>1. CASE RunOf(a) # r
  <2>1. worker'[a] = worker[a] /\ run'[RunOf(a)] = run[RunOf(a)]
    BY <1>1, Teams DEF Launched, RunnerTypes
  <2> QED BY <2>1, Bystander
<1>2. CASE RunOf(a) = r
  <2>1. worker[a] = "none" /\ ~Told(a) /\ channel[a] = <<>> /\ queue[a] = NoResults
    BY <1>2 DEF AgentFits, SilentBefore
  <2>2. worker'[a] = "running" /\ run'[RunOf(a)] = "active"
    BY <1>2, Teams DEF Launched, RunnerTypes
  <2>3. Accounted(a)'
    BY <2>1, AccountsKept DEF AgentFits
  <2>4. StopMeansEnd(a)'
    <3>1. ~Told(a)' /\ a \notin stops'
      BY <2>1 DEF Told
    <3>2. ~queue'[a].stop /\ Len(channel'[a]) = 0
      BY <2>1, EmptySeq DEF NoResults
    <3> QED BY <3>1, <3>2 DEF StopMeansEnd
  <2>5. SilentBefore(a)'
    <3>1. made'[a] = made[a]
      OBVIOUS
    <3>2. RunOf(a)' = RunOf(a)
      BY DEF RunOf
    <3> QED BY <2>2, <3>1, <3>2 DEF AgentFits, SilentBefore
  <2> QED BY <2>3, <2>4, <2>5 DEF AgentFits
<1> QED BY <1>1, <1>2

LEMMA HitFits ==
  ASSUME RunnerTypes, NEW b \in Agents, Hit(b), NEW a \in Agents, AgentFits(a),
         Following' => Following
  PROVE  AgentFits(a)'
<1>1. UNCHANGED <<mode, stops, counted, feed, run, worker, channel>>
  BY DEF Hit, runnerVars
<1>2. CASE a # b
  <2>1. made'[a] = made[a] /\ queue'[a] = queue[a]
    BY <1>2 DEF Hit, RunnerTypes
  <2> QED BY <1>1, <2>1, Bystander
<1>3. CASE a = b
  <2>1. a \in Crew /\ worker[a] = "running" /\ a \notin Others
    BY <1>3, RunnerAssumption DEF Hit
  <2>2. made'[a] = made[a] + 1
    BY <1>3 DEF Hit, RunnerTypes
  <2>3. queue'[a].hits = queue[a].hits + 1 /\ queue'[a].stop = queue[a].stop
    BY <1>3 DEF Hit, RunnerTypes, Batch
  <2>4. Accounted(a)'
    BY <1>1, <2>1, <2>2, <2>3, AccountsHit DEF AgentFits
  <2>5. StopMeansEnd(a)'
    BY <1>1, <2>1, <2>3 DEF AgentFits, StopMeansEnd, Told
  <2>6. SilentBefore(a)'
    BY <1>1, <2>1 DEF AgentFits, SilentBefore, RunOf
  <2> QED BY <2>4, <2>5, <2>6 DEF AgentFits
<1> QED BY <1>2, <1>3

LEMMA FinishFits ==
  ASSUME RunnerTypes, NEW b \in Agents, Finish(b), NEW a \in Agents, AgentFits(a),
         Following' => Following
  PROVE  AgentFits(a)'
<1>1. UNCHANGED <<mode, stops, counted, feed, run, channel, made>>
  BY DEF Finish, runnerVars
<1>2. CASE a # b
  <2>1. worker'[a] = worker[a] /\ queue'[a] = queue[a]
    BY <1>2 DEF Finish, RunnerTypes
  <2> QED BY <1>1, <2>1, Bystander
<1>3. CASE a = b
  <2>1. worker[a] = "running" /\ worker'[a] = "closing"
    BY <1>3 DEF Finish, RunnerTypes
  <2>2. queue'[a].hits = queue[a].hits
    BY <1>3 DEF Finish, RunnerTypes, Batch
  <2>3. Accounted(a)'
    BY <1>1, <2>1, <2>2, AccountsFinish DEF AgentFits
  <2>4. StopMeansEnd(a)'
    BY <1>1, <2>1 DEF AgentFits, StopMeansEnd
  <2>5. SilentBefore(a)'
    BY <1>1, <2>1 DEF AgentFits, SilentBefore, RunOf
  <2> QED BY <2>3, <2>4, <2>5 DEF AgentFits
<1> QED BY <1>2, <1>3

LEMMA DumpFits ==
  ASSUME RunnerTypes, NEW b \in Agents, Dump(b), NEW a \in Agents, AgentFits(a),
         Following' => Following
  PROVE  AgentFits(a)'
<1>1. UNCHANGED <<mode, stops, counted, feed, run, worker, made>>
  BY DEF Dump, runnerVars
<1>2. CASE a # b
  <2>1. channel'[a] = channel[a] /\ queue'[a] = queue[a]
    BY <1>2 DEF Dump, RunnerTypes
  <2> QED BY <1>1, <2>1, Bystander
<1>3. CASE a = b
  <2>1. /\ queue[a] # NoResults /\ queue'[a] = NoResults
        /\ channel'[a] = Append(channel[a], queue[a])
    BY <1>3 DEF Dump, RunnerTypes
  <2>2. Accounted(a)'
    BY <1>1, <2>1, AccountsDump DEF AgentFits
  <2>3. StopMeansEnd(a)'
    <3>1. channel[a] \in Seq(Batch) /\ queue[a] \in Batch
      BY DEF RunnerTypes
    <3>2. \A i \in 1..Len(channel'[a]) :
            (i \in 1..Len(channel[a]) /\ channel'[a][i] = channel[a][i])
              \/ channel'[a][i] = queue[a]
      BY <2>1, <3>1, AppendProperties, LenProperties
    <3>3. ~queue'[a].stop
      BY <2>1 DEF NoResults
    <3>4. Told(a)' = Told(a)
      BY <1>1 DEF Told
    <3> QED BY <1>1, <3>2, <3>3, <3>4 DEF AgentFits, StopMeansEnd
  <2>4. SilentBefore(a)'
    BY <1>1, <2>1 DEF AgentFits, SilentBefore, RunOf, Told
  <2> QED BY <2>2, <2>3, <2>4 DEF AgentFits
<1> QED BY <1>2, <1>3

\* A worker that exits has an empty queue, one that is killed loses what is in
\* it.
LEMMA GoneFits ==
  ASSUME RunnerTypes, NEW b \in Agents, Exit(b) \/ Die(b), NEW a \in Agents, AgentFits(a),
         Following' => Following
  PROVE  AgentFits(a)'
<1>1. UNCHANGED <<mode, stops, counted, feed, run, channel, made>>
  BY DEF Exit, Die, runnerVars
<1>2. CASE a # b
  <2>1. worker'[a] = worker[a] /\ queue'[a] = queue[a]
    BY <1>2 DEF Exit, Die, RunnerTypes
  <2> QED BY <1>1, <2>1, Bystander
<1>3. CASE a = b
  <2>1. /\ worker[a] \in {"running", "closing"} /\ worker'[a] = "gone"
        /\ queue'[a] = NoResults
    BY <1>3 DEF Exit, Die, RunnerTypes
  <2>2. Accounted(a)'
    BY <1>1, <2>1, AccountsDropped DEF AgentFits
  <2>3. StopMeansEnd(a)'
    BY <1>1, <2>1 DEF AgentFits, StopMeansEnd, Told, NoResults
  <2>4. SilentBefore(a)'
    BY <1>1, <2>1 DEF AgentFits, SilentBefore, RunOf
  <2> QED BY <2>2, <2>3, <2>4 DEF AgentFits
<1> QED BY <1>2, <1>3

LEMMA RecvFits ==
  ASSUME RunnerTypes, PhaseFits, NEW b \in Agents, HandleRecv(b),
         NEW a \in Agents, AgentFits(a), Following' => Following
  PROVE  AgentFits(a)'
<1> DEFINE m == Results(b, Head(channel[b]))
<1>1. UNCHANGED <<mode, stops, counted, run, worker, queue, made>>
  BY DEF HandleRecv, runnerVars
<1>2. channel[b] \in Seq(Batch) /\ channel[b] # <<>>
  BY DEF HandleRecv, RunnerTypes
<1>3. Head(channel[b]) \in Batch
  BY <1>2
<1>4. m \in Message
  BY <1>3 DEF Results, Message, Batch
<1>5. feed' = IF Subscribed THEN Append(feed, m) ELSE feed
  BY DEF HandleRecv, Publish
<1>6. CASE a # b
  <2>1. channel'[a] = channel[a]
    BY <1>6 DEF HandleRecv, RunnerTypes
  <2>2. HitsOf(m, a) = 0 /\ ~StopOf(m, a)
    BY <1>6 DEF Results, HitsOf, StopOf
  <2> HIDE DEF m
  <2>3. feed' = feed
          \/ \E mm \in Message : feed' = Append(feed, mm) /\ HitsOf(mm, a) = 0 /\ ~StopOf(mm, a)
    BY <1>4, <1>5, <2>2
  <2> QED BY <1>1, <2>1, <2>3, Bystander
<1>7. CASE a = b
  <2>1. channel'[a] = Tail(channel[a]) /\ channel[a] # <<>>
    BY <1>7 DEF HandleRecv, RunnerTypes
  <2>2. worker[a] # "none"
    BY <2>1 DEF AgentFits, SilentBefore
  <2>3. run[RunOf(a)] # "absent"
    BY <2>2 DEF AgentFits, SilentBefore
  <2>4. Accounted(a)'
    <3>1. CASE Subscribed
      BY <1>1, <1>5, <1>7, <2>1, <3>1, AccountsPublished DEF AgentFits
    <3>2. CASE ~Subscribed
      <4>1. Following => phase = "new" /\ mode = "run"
        BY <3>2 DEF Following, Subscribed, PhaseFits, RunnerTypes
      <4>2. Following => run["own"] = "absent"
        BY <4>1 DEF PhaseFits
      <4>3. Following => a \notin Crew
        BY <4>2, <2>3, Teams
      <4>4. Following => made[a] = 0
        BY <4>3 DEF AgentFits, SilentBefore, Agents
      <4> QED BY <1>1, <1>5, <2>1, <3>2, <4>4, AccountsUnheard DEF AgentFits
    <3> QED BY <3>1, <3>2
  <2>5. /\ 1 \in 1..Len(channel[a]) /\ Head(channel[a]) = channel[a][1]
        /\ \A i \in 1..Len(channel'[a]) :
             i + 1 \in 1..Len(channel[a]) /\ channel'[a][i] = channel[a][i + 1]
    <3>1. /\ Len(channel[a]) \in Nat \ {0} /\ Len(channel'[a]) = Len(channel[a]) - 1
          /\ Head(channel[a]) = channel[a][1]
          /\ \A i \in 1..(Len(channel[a]) - 1) : channel'[a][i] = channel[a][i + 1]
      BY <1>2, <1>7, <2>1, HeadTailProperties, LenProperties, EmptySeq
    <3> QED BY <3>1
  <2>6. Told(a)' => Told(a) \/ channel[a][1].stop
    <3>1. CASE feed' = feed
      BY <1>1, <3>1 DEF Told
    <3>2. CASE feed' = Append(feed, m)
      <4>1. StopOf(m, a) => channel[a][1].stop
        BY <1>7, <2>5 DEF StopOf, Results
      <4>2. CASE StopOf(m, a)
        BY <4>1, <4>2
      <4>3. CASE ~StopOf(m, a)
        BY <1>1, <1>4, <3>2, <4>3, ToldAppend
      <4> QED BY <4>2, <4>3
    <3> QED BY <1>5, <3>1, <3>2
  <2>7. StopMeansEnd(a)'
    BY <1>1, <2>5, <2>6 DEF AgentFits, StopMeansEnd
  <2>8. SilentBefore(a)'
    BY <1>1, <2>2, <2>3 DEF AgentFits, SilentBefore, RunOf
  <2> QED BY <2>4, <2>7, <2>8 DEF AgentFits
<1> QED BY <1>6, <1>7

\* What processing a message does, whether or not the loop stops after it.
LEMMA Processing ==
  ASSUME RunnerTypes, PhaseFits, ProcessResult
  PROVE  /\ feed # <<>> /\ Head(feed) \in Message
         /\ UNCHANGED <<mode, run, toldStop, workerVars>>
         /\ \A a \in Agents : counted'[a] = counted[a] + HitsOf(Head(feed), a)
         /\ counted' \in [Agents -> Nat]
         /\ stops' \subseteq Agents
         /\ \A a \in Agents : a \in stops' => a \in stops \/ StopOf(Head(feed), a)
         /\ \/ phase' = phase /\ cause' = cause /\ feed' = Tail(feed)
            \/ /\ phase' = "done" /\ feed' = <<>>
               /\ cause' \in {"count", "run-finished"}
               /\ cause' = "count" =>
                    mode = "run" /\ Cardinality(stops') = Cardinality(Crew)
<1> DEFINE m == Head(feed)
<1>1. phase = "looping" /\ feed # <<>> /\ UNCHANGED <<mode, run, toldStop, workerVars>>
  BY DEF ProcessResult
<1>2. m \in Message
  BY <1>1 DEF RunnerTypes
<1>3. feed' = IF phase' = "done" THEN <<>> ELSE Tail(feed)
  BY DEF ProcessResult
<1>4. mode \in {"run", "attach"}
  BY <1>1 DEF PhaseFits
<1>5. counted \in [Agents -> Nat] /\ stops \subseteq Agents
  BY RunnerAssumption DEF RunnerTypes
<1>6. CASE m.kind = "results"
  <2>1. m.agent \in Agents /\ m.hits \in Nat
    BY <1>2, <1>6 DEF Message
  <2>2. ProcessResults(m)
    BY <1>6 DEF ProcessResult
  <2>3. counted' = [counted EXCEPT ![m.agent] = @ + m.hits]
    BY <2>2 DEF ProcessResults
  <2>4. stops' = IF m.stop THEN stops \cup {m.agent} ELSE stops
    BY <2>2 DEF ProcessResults
  <2>5. IF m.stop /\ AllStopped(stops \cup {m.agent}) THEN StopLoop("count") ELSE Continue
    BY <2>2 DEF ProcessResults
  <2> HIDE DEF m
  <2>6. \A a \in Agents : counted'[a] = counted[a] + HitsOf(m, a)
    BY <1>5, <1>6, <2>1, <2>3 DEF HitsOf
  <2>7. counted' \in [Agents -> Nat]
    BY <1>5, <2>1, <2>3
  <2>8. stops' \subseteq Agents /\ \A a \in Agents : a \in stops' => a \in stops \/ StopOf(m, a)
    BY <1>5, <1>6, <2>1, <2>4 DEF StopOf
  <2>9. CASE m.stop /\ AllStopped(stops \cup {m.agent})
    <3>1. phase' = "done" /\ cause' = "count"
      BY <2>5, <2>9 DEF StopLoop
    <3>2. Cardinality(stops') = Cardinality(Crew) /\ mode # "attach"
      BY <2>4, <2>9 DEF AllStopped
    <3> QED BY <1>1, <1>2, <1>3, <1>4, <2>6, <2>7, <2>8, <3>1, <3>2 DEF m
  <2>10. CASE ~(m.stop /\ AllStopped(stops \cup {m.agent}))
    <3>1. phase' = phase /\ cause' = cause
      BY <2>5, <2>10 DEF Continue
    <3> QED BY <1>1, <1>2, <1>3, <2>6, <2>7, <2>8, <3>1 DEF m
  <2> QED BY <2>9, <2>10
<1>7. CASE m.kind # "results"
  <2>1. ProcessFinished(m)
    BY <1>7 DEF ProcessResult
  <2>2. stops' = stops /\ counted' = counted
    BY <2>1 DEF ProcessFinished
  <2>3. (phase' = "done" /\ cause' = "run-finished") \/ (phase' = phase /\ cause' = cause)
    BY <2>1 DEF ProcessFinished, StopLoop, Continue
  <2> HIDE DEF m
  <2>4. \A a \in Agents : counted'[a] = counted[a] + HitsOf(m, a)
    BY <1>5, <1>7, <2>2 DEF HitsOf
  <2> QED BY <1>1, <1>2, <1>3, <1>5, <2>2, <2>3, <2>4 DEF m
<1> QED BY <1>6, <1>7

\* What was counted of an agent, and what is said of it by the first message.
LEMMA FirstTotal ==
  ASSUME RunnerTypes, NEW a \in Agents, Accounted(a), feed # <<>>
  PROVE  /\ counted[a] + HitsOf(Head(feed), a) <= made[a]
         /\ Following /\ StopOf(Head(feed), a)
              => counted[a] + HitsOf(Head(feed), a) = made[a]
         /\ \E p \in [0..Len(feed) -> 0..made[a]],
               q \in [0..Len(channel[a]) -> 0..made[a]] :
              Accounts(a, p, q) /\ p[1] = counted[a] + HitsOf(Head(feed), a)
<1>1. PICK p \in [0..Len(feed) -> 0..made[a]], q \in [0..Len(channel[a]) -> 0..made[a]] :
        Accounts(a, p, q)
  BY DEF Accounted
<1>2. feed \in Seq(Message)
  BY DEF RunnerTypes
<1>3. Len(feed) \in Nat \ {0} /\ Head(feed) = feed[1] /\ 1 \in 1..Len(feed) /\ 1 \in 0..Len(feed)
  BY <1>2, HeadTailProperties, LenProperties, EmptySeq
<1>4. p[1] = p[1 - 1] + FeedHits(a)[1]
  BY <1>1, <1>3 DEF Accounts, Totals
<1>5. p[1] = counted[a] + HitsOf(Head(feed), a)
  <2>1. 1 - 1 = 0 /\ p[0] = counted[a] /\ FeedHits(a)[1] = HitsOf(Head(feed), a)
    BY <1>1, <1>3 DEF Accounts, FeedHits
  <2> QED BY <1>4, <2>1
<1>6. p[1] \in 0..made[a] /\ made[a] \in Nat
  BY <1>3, AccountTypes
<1>7. Following /\ StopOf(Head(feed), a) => p[1] = made[a]
  BY <1>1, <1>3 DEF Accounts
<1>8. p[1] <= made[a]
  BY <1>6
<1> QED BY <1>1, <1>5, <1>7, <1>8

LEMMA ProcessFits ==
  ASSUME RunnerTypes, PhaseFits, ProcessResult, NEW a \in Agents, AgentFits(a),
         Following' => Following
  PROVE  AgentFits(a)'
<1> DEFINE m == Head(feed)
<1>1. /\ feed # <<>> /\ UNCHANGED <<mode, run, worker, queue, channel, made>>
      /\ counted'[a] = counted[a] + HitsOf(m, a)
      /\ a \in stops' => a \in stops \/ StopOf(m, a)
      /\ \/ phase' = phase /\ feed' = Tail(feed)
         \/ phase' = "done" /\ feed' = <<>>
  BY Processing DEF workerVars
<1>2. Accounted(a)'
  <2>1. CASE feed' = Tail(feed)
    BY <1>1, <2>1, AccountsProcessed DEF AgentFits
  <2>2. CASE phase' = "done" /\ feed' = <<>>
    <3>1. PICK p \in [0..Len(feed) -> 0..made[a]], q \in [0..Len(channel[a]) -> 0..made[a]] :
            Accounts(a, p, q) /\ p[1] = counted[a] + HitsOf(m, a)
      BY <1>1, FirstTotal DEF AgentFits
    <3>2. 1 \in 0..Len(feed)
      BY <1>1, LenProperties, EmptySeq DEF RunnerTypes
    <3>3. ~Following'
      BY <2>2 DEF Following
    <3> HIDE DEF m
    <3> QED BY <1>1, <2>2, <3>1, <3>2, <3>3, AccountsEnded
  <2> QED BY <1>1, <2>1, <2>2
<1>3. \/ feed' = <<>>
      \/ \A i \in 1..Len(feed') : i + 1 \in 1..Len(feed) /\ feed'[i] = feed[i + 1]
  <2>1. /\ Len(feed) \in Nat \ {0} /\ Len(Tail(feed)) = Len(feed) - 1
        /\ \A i \in 1..(Len(feed) - 1) : Tail(feed)[i] = feed[i + 1]
    BY <1>1, HeadTailProperties, LenProperties, EmptySeq DEF RunnerTypes
  <2>2. \A i \in 1..(Len(feed) - 1) : i + 1 \in 1..Len(feed)
    BY <2>1
  <2> QED BY <1>1, <2>1, <2>2
<1>4. m = feed[1] /\ 1 \in 1..Len(feed)
  BY <1>1, HeadTailProperties, LenProperties, EmptySeq DEF RunnerTypes
<1>5. Told(a)' => Told(a)
  <2>1. a \in stops' => Told(a)
    BY <1>1, <1>4 DEF Told
  <2>2. (\E i \in 1..Len(feed') : StopOf(feed'[i], a)) => Told(a)
    <3>1. CASE feed' = <<>>
      BY <3>1, EmptySeq
    <3>2. CASE \A i \in 1..Len(feed') : i + 1 \in 1..Len(feed) /\ feed'[i] = feed[i + 1]
      BY <3>2 DEF Told
    <3> QED BY <1>3, <3>1, <3>2
  <2> QED BY <2>1, <2>2 DEF Told
<1>6. mode = "run" /\ a \in stops' => counted'[a] = made[a]
  <2>1. /\ counted[a] \in Nat /\ HitsOf(m, a) \in Nat /\ made[a] \in Nat
        /\ counted[a] + HitsOf(m, a) <= made[a]
    <3>1. m \in Message
      BY Processing
    <3>2. HitsOf(m, a) \in Nat
      BY <3>1 DEF HitsOf, Message
    <3> QED BY <1>1, <3>2, AccountTypes, FirstTotal DEF AgentFits
  <2>2. CASE mode = "run" /\ a \in stops
    <3>1. counted[a] = made[a]
      BY <2>2 DEF AgentFits, StopMeansEnd
    <3> HIDE DEF m
    <3> QED BY <1>1, <2>1, <3>1
  <2>3. CASE mode = "run" /\ StopOf(m, a)
    <3>1. phase # "done"
      BY DEF ProcessResult
    <3>2. Following
      BY <2>3, <3>1 DEF Following
    <3> QED BY <1>1, <2>3, <3>2, FirstTotal DEF AgentFits
  <2> QED BY <1>1, <2>2, <2>3
<1> HIDE DEF m
<1>7. StopMeansEnd(a)'
  BY <1>1, <1>5, <1>6 DEF AgentFits, StopMeansEnd
<1>8. SilentBefore(a)'
  BY <1>1, <1>5 DEF AgentFits, SilentBefore, RunOf
<1> QED BY <1>2, <1>7, <1>8 DEF AgentFits

LEMMA InterruptFits ==
  ASSUME RunnerTypes, Interrupt, NEW a \in Agents, AgentFits(a)
  PROVE  AgentFits(a)'
<1>1. /\ phase' = "done" /\ feed' = <<>>
      /\ UNCHANGED <<mode, stops, counted, run, channel, made>>
  BY DEF Interrupt
<1>2. \/ worker'[a] = worker[a] /\ queue'[a] = queue[a]
      \/ worker[a] # "none" /\ worker'[a] = "gone" /\ queue'[a] = NoResults
  <2>1. worker[a] = "none" => queue[a] = NoResults
    BY DEF AgentFits, SilentBefore
  <2> QED BY <2>1 DEF Interrupt
<1>3. Accounted(a)'
  <2>1. PICK p \in [0..Len(feed) -> 0..made[a]], q \in [0..Len(channel[a]) -> 0..made[a]] :
          Accounts(a, p, q)
    BY DEF AgentFits, Accounted
  <2>2. 0 \in 0..Len(feed) /\ counted'[a] = p[0]
    BY <1>1, <2>1, AccountTypes DEF Accounts
  <2>3. ~Following'
    BY <1>1 DEF Following
  <2> QED BY <1>1, <1>2, <2>1, <2>2, <2>3, AccountsEnded
<1>4. Told(a)' => Told(a)
  BY <1>1, EmptySeq DEF Told
<1>5. StopMeansEnd(a)'
  BY <1>1, <1>2, <1>4 DEF AgentFits, StopMeansEnd, NoResults
<1>6. SilentBefore(a)'
  BY <1>1, <1>2, <1>4 DEF AgentFits, SilentBefore, RunOf
<1> QED BY <1>3, <1>5, <1>6 DEF AgentFits

-----------------------------------------------------------------------------
(* The invariant is inductive.                                                *)

LEMMA Parameters ==
  /\ Crew \subseteq Agents /\ "own" \in Runs /\ "other" \in Runs
  /\ Runs = {"own", "other"} /\ MaxHits \in Nat /\ NoResults \in Batch
BY RunnerAssumption DEF Agents, Runs, NoResults, Batch

\* The steps of one agent's worker and relay.
AgentStep(a) == Hit(a) \/ Finish(a) \/ Dump(a) \/ Exit(a) \/ Die(a)

LEMMA AgentStepTypes ==
  ASSUME RunnerTypes, NEW a \in Agents, AgentStep(a)
  PROVE  RunnerTypes'
<1>1. UNCHANGED <<runnerVars, feed, run, toldStop>>
  BY DEF AgentStep, Hit, Finish, Dump, Exit, Die
<1>2. UNCHANGED <<mode, phase, cause, stops, counted>>
  BY <1>1 DEF runnerVars
<1>3. worker' \in [Agents -> {"none", "running", "closing", "gone"}]
  BY DEF AgentStep, Hit, Finish, Dump, Exit, Die, RunnerTypes
<1>4. made' \in [Agents -> 0..MaxHits]
  <2>1. CASE Hit(a)
    <3>1. made[a] + 1 \in 0..MaxHits
      BY <2>1, Parameters DEF Hit, RunnerTypes
    <3> QED BY <2>1, <3>1 DEF Hit, RunnerTypes
  <2>2. CASE Finish(a) \/ Dump(a) \/ Exit(a) \/ Die(a)
    BY <2>2 DEF Finish, Dump, Exit, Die, RunnerTypes
  <2> QED BY <2>1, <2>2 DEF AgentStep
<1>5. queue' \in [Agents -> Batch]
  <2>1. queue[a] \in Batch
    BY DEF RunnerTypes
  <2>2. CASE Hit(a)
    <3>1. [queue[a] EXCEPT !.hits = @ + 1] \in Batch
      BY <2>1 DEF Batch
    <3> QED BY <2>2, <3>1 DEF Hit, RunnerTypes
  <2>3. CASE Finish(a)
    <3>1. [queue[a] EXCEPT !.stop = TRUE] \in Batch
      BY <2>1 DEF Batch
    <3> QED BY <2>3, <3>1 DEF Finish, RunnerTypes
  <2>4. CASE Dump(a) \/ Exit(a) \/ Die(a)
    BY <2>4, Parameters DEF Dump, Exit, Die, RunnerTypes
  <2> QED BY <2>2, <2>3, <2>4 DEF AgentStep
<1>6. channel' \in [Agents -> Seq(Batch)]
  <2>1. CASE Dump(a)
    <3>1. Append(channel[a], queue[a]) \in Seq(Batch)
      BY DEF RunnerTypes
    <3> QED BY <2>1, <3>1 DEF Dump, RunnerTypes
  <2>2. CASE Hit(a) \/ Finish(a) \/ Exit(a) \/ Die(a)
    BY <2>2 DEF Hit, Finish, Exit, Die, RunnerTypes
  <2> QED BY <2>1, <2>2 DEF AgentStep
<1> QED BY <1>1, <1>2, <1>3, <1>4, <1>5, <1>6 DEF RunnerTypes

LEMMA PublishTypes ==
  ASSUME feed \in Seq(Message), NEW m \in Message, Publish(m)
  PROVE  feed' \in Seq(Message)
BY DEF Publish

LEMMA RecvTypes ==
  ASSUME RunnerTypes, NEW a \in Agents, HandleRecv(a)
  PROVE  RunnerTypes'
<1>1. UNCHANGED <<mode, phase, cause, stops, counted, run, worker, queue, made>>
  BY DEF HandleRecv, runnerVars
<1>2. channel[a] \in Seq(Batch) /\ channel[a] # <<>>
  BY DEF HandleRecv, RunnerTypes
<1>3. Head(channel[a]) \in Batch /\ Tail(channel[a]) \in Seq(Batch)
  BY <1>2
<1>4. Results(a, Head(channel[a])) \in Message
  BY <1>3 DEF Results, Message, Batch
<1>5. feed' \in Seq(Message)
  BY <1>4, PublishTypes DEF HandleRecv, RunnerTypes
<1>6. channel' \in [Agents -> Seq(Batch)]
  BY <1>3 DEF HandleRecv, RunnerTypes
<1>7. toldStop' \subseteq Runs
  BY Teams DEF HandleRecv, RunnerTypes
<1> QED BY <1>1, <1>5, <1>6, <1>7 DEF RunnerTypes

LEMMA ProcessTypes ==
  ASSUME RunnerTypes, PhaseFits, ProcessResult, \A a \in Agents : Accounted(a)
  PROVE  RunnerTypes'
<1>1. UNCHANGED <<mode, run, toldStop, worker, queue, channel, made>> /\ stops' \subseteq Agents
  BY Processing DEF workerVars
<1>2. feed' \in Seq(Message)
  <2>1. feed \in Seq(Message) /\ feed # <<>> /\ (feed' = Tail(feed) \/ feed' = <<>>)
    BY Processing DEF RunnerTypes
  <2>2. Tail(feed) \in Seq(Message) /\ <<>> \in Seq(Message)
    BY <2>1, HeadTailProperties
  <2> QED BY <2>1, <2>2
<1>3. phase' \in {"looping", "done"} /\ cause' \in {"none", "count", "run-finished"}
  <2>1. phase = "looping" /\ cause = "none"
    BY DEF ProcessResult, PhaseFits
  <2> QED BY <2>1, Processing
<1>4. counted' \in [Agents -> 0..MaxHits]
  <2>1. ASSUME NEW a \in Agents PROVE counted'[a] \in 0..MaxHits
    <3>1. counted'[a] = counted[a] + HitsOf(Head(feed), a) /\ counted'[a] \in Nat
      BY Processing
    <3>2. counted[a] + HitsOf(Head(feed), a) <= made[a]
      BY FirstTotal, Processing
    <3>3. made[a] \in 0..MaxHits
      BY DEF RunnerTypes
    <3> QED BY <3>1, <3>2, <3>3, Parameters
  <2>2. counted' \in [Agents -> Nat]
    BY Processing
  <2> QED BY <2>1, <2>2
<1> QED BY <1>1, <1>2, <1>3, <1>4 DEF RunnerTypes

\* The steps of the runner before its loop, and those of the broker and its
\* other clients.
RunnerStep ==
    AttachPublisher \/ Execute \/ ExecutionError \/ ListRuns \/ GetCounts \/ Attach
RunStep(r) == RunFinished(r) \/ RunElsewhere(r)

LEMMA LaunchTypes ==
  ASSUME RunnerTypes, NEW r \in Runs, Launched(r)
  PROVE  /\ run' \in [Runs -> {"absent", "active", "over"}]
         /\ worker' \in [Agents -> {"none", "running", "closing", "gone"}]
BY DEF Launched, RunnerTypes

LEMMA RunnerStepTypes ==
  ASSUME RunnerTypes, RunnerStep
  PROVE  RunnerTypes'
<1>1. UNCHANGED <<mode, cause, stops, counted, feed, toldStop, queue, channel, made>>
  BY DEF RunnerStep, AttachPublisher, Execute, ExecutionError, ListRuns, GetCounts, Attach,
         Enter, workerVars
<1>2. phase' \in {"new", "subscribed", "listed", "attaching", "looping", "done"}
  BY DEF RunnerStep, AttachPublisher, Execute, ExecutionError, ListRuns, GetCounts, Attach,
         Enter
<1>3. (run' = run /\ worker' = worker) \/ Launched("own")
  BY DEF RunnerStep, AttachPublisher, Execute, ExecutionError, ListRuns, GetCounts, Attach,
         workerVars
<1>4. /\ run' \in [Runs -> {"absent", "active", "over"}]
      /\ worker' \in [Agents -> {"none", "running", "closing", "gone"}]
  BY <1>3, LaunchTypes, Parameters DEF RunnerTypes
<1> QED BY <1>1, <1>2, <1>4 DEF RunnerTypes

LEMMA RunStepTypes ==
  ASSUME RunnerTypes, NEW r \in Runs, RunStep(r)
  PROVE  RunnerTypes'
<1>1. UNCHANGED <<mode, phase, cause, stops, counted, toldStop, queue, channel, made>>
  BY DEF RunStep, RunFinished, RunElsewhere, runnerVars, workerVars
<1>2. feed' \in Seq(Message)
  <2>1. Finished(r) \in Message
    BY DEF Finished, Message
  <2>2. feed' = feed \/ Publish(Finished(r))
    BY DEF RunStep, RunFinished, RunElsewhere
  <2> QED BY <2>1, <2>2, PublishTypes DEF RunnerTypes
<1>3. /\ run' \in [Runs -> {"absent", "active", "over"}]
      /\ worker' \in [Agents -> {"none", "running", "closing", "gone"}]
  <2>1. CASE RunFinished(r)
    BY <2>1 DEF RunFinished, RunnerTypes, workerVars
  <2>2. CASE RunElsewhere(r)
    BY <2>2, LaunchTypes DEF RunElsewhere
  <2> QED BY <2>1, <2>2 DEF RunStep
<1> QED BY <1>1, <1>2, <1>3 DEF RunnerTypes

LEMMA InterruptTypes ==
  ASSUME RunnerTypes, Interrupt
  PROVE  RunnerTypes'
<1>1. /\ phase' = "done" /\ cause' = "interrupt" /\ feed' = <<>>
      /\ UNCHANGED <<mode, stops, counted, run, toldStop, channel, made>>
  BY DEF Interrupt
<1>2. CASE UNCHANGED <<worker, queue>>
  BY <1>1, <1>2 DEF RunnerTypes
<1>3. CASE /\ worker' = [a \in Agents |->
                 IF a \in Crew /\ worker[a] # "none" THEN "gone" ELSE worker[a]]
           /\ queue' = [a \in Agents |-> IF a \in Crew THEN NoResults ELSE queue[a]]
  <2>1. worker' \in [Agents -> {"none", "running", "closing", "gone"}]
    BY <1>3 DEF RunnerTypes
  <2>2. queue' \in [Agents -> Batch]
    BY <1>3, Parameters DEF RunnerTypes
  <2> QED BY <1>1, <2>1, <2>2 DEF RunnerTypes
<1> QED BY <1>2, <1>3 DEF Interrupt

LEMMA RunnerStepFits ==
  ASSUME RunnerTypes, PhaseFits, RunnerStep, NEW a \in Agents, AgentFits(a),
         Following' => Following
  PROVE  AgentFits(a)'
<1>1. UNCHANGED <<mode, cause, stops, counted, feed, toldStop, queue, channel, made>>
  BY DEF RunnerStep, AttachPublisher, Execute, ExecutionError, ListRuns, GetCounts, Attach,
         Enter, workerVars
<1>2. CASE Execute
  <2>1. Launched("own") /\ run["own"] = "absent"
    BY <1>2 DEF Execute, PhaseFits
  <2> QED BY <1>1, <2>1, LaunchFits, Parameters
<1>3. CASE AttachPublisher \/ ExecutionError \/ ListRuns \/ GetCounts \/ Attach
  <2>1. run' = run /\ worker' = worker
    BY <1>3 DEF AttachPublisher, ExecutionError, ListRuns, GetCounts, Attach, workerVars
  <2> QED BY <1>1, <2>1, Bystander
<1> QED BY <1>2, <1>3 DEF RunnerStep

LEMMA RunStepFits ==
  ASSUME RunnerTypes, NEW r \in Runs, RunStep(r), NEW a \in Agents, AgentFits(a),
         Following' => Following
  PROVE  AgentFits(a)'
<1>1. CASE RunFinished(r)
  <2>1. UNCHANGED <<mode, stops, counted, worker, queue, channel, made>>
    BY <1>1 DEF RunFinished, runnerVars, workerVars
  <2>2. run'[RunOf(a)] = "absent" => run[RunOf(a)] = "absent"
    BY <1>1, Teams DEF RunFinished, RunnerTypes
  <2>3. /\ Finished(r) \in Message /\ HitsOf(Finished(r), a) = 0
        /\ ~StopOf(Finished(r), a)
    BY DEF Finished, Message, HitsOf, StopOf
  <2>4. feed' = feed \/ feed' = Append(feed, Finished(r))
    BY <1>1 DEF RunFinished, Publish
  <2>5. feed' = feed
          \/ \E m \in Message : feed' = Append(feed, m) /\ HitsOf(m, a) = 0 /\ ~StopOf(m, a)
    BY <2>3, <2>4
  <2> QED BY <2>1, <2>2, <2>5, Bystander
<1>2. CASE RunElsewhere(r)
  <2>1. /\ Launched(r) /\ run[r] = "absent"
        /\ UNCHANGED <<mode, stops, counted, feed, queue, channel, made>>
    BY <1>2 DEF RunElsewhere, runnerVars
  <2> QED BY <2>1, LaunchFits
<1> QED BY <1>1, <1>2 DEF RunStep

\* Every agent still fits, whichever step was taken.
LEMMA AgentsFit ==
  ASSUME RunnerIInv, [Next]_vars, NEW a \in Agents
  PROVE  AgentFits(a)'
<1>1. RunnerTypes /\ PhaseFits /\ AgentFits(a) /\ (Following' => Following)
  BY StillFollowing DEF RunnerIInv
<1>2. CASE RunnerStep
  BY <1>1, <1>2, RunnerStepFits
<1>3. CASE ProcessResult
  BY <1>1, <1>3, ProcessFits
<1>4. CASE Interrupt
  BY <1>1, <1>4, InterruptFits
<1>5. ASSUME NEW b \in Agents, AgentStep(b) PROVE AgentFits(a)'
  BY <1>1, <1>5, HitFits, FinishFits, DumpFits, GoneFits DEF AgentStep
<1>6. ASSUME NEW b \in Agents, HandleRecv(b) PROVE AgentFits(a)'
  BY <1>1, <1>6, RecvFits
<1>7. ASSUME NEW r \in Runs, RunStep(r) PROVE AgentFits(a)'
  BY <1>1, <1>7, RunStepFits
<1>8. CASE UNCHANGED vars
  <2>1. /\ UNCHANGED <<mode, stops, counted, feed, run, worker, queue, channel, made>>
    BY <1>8 DEF vars, runnerVars, workerVars
  <2> QED BY <1>1, <2>1, Bystander
<1> QED BY <1>2, <1>3, <1>4, <1>5, <1>6, <1>7, <1>8 DEF Next, RunnerStep, AgentStep, RunStep

LEMMA TypesKept ==
  ASSUME RunnerIInv, [Next]_vars
  PROVE  RunnerTypes'
<1>1. RunnerTypes /\ PhaseFits /\ \A a \in Agents : Accounted(a)
  BY DEF RunnerIInv, AgentFits
<1>2. CASE RunnerStep
  BY <1>1, <1>2, RunnerStepTypes
<1>3. CASE ProcessResult
  BY <1>1, <1>3, ProcessTypes
<1>4. CASE Interrupt
  BY <1>1, <1>4, InterruptTypes
<1>5. ASSUME NEW b \in Agents, AgentStep(b) PROVE RunnerTypes'
  BY <1>1, <1>5, AgentStepTypes
<1>6. ASSUME NEW b \in Agents, HandleRecv(b) PROVE RunnerTypes'
  BY <1>1, <1>6, RecvTypes
<1>7. ASSUME NEW r \in Runs, RunStep(r) PROVE RunnerTypes'
  BY <1>1, <1>7, RunStepTypes
<1>8. CASE UNCHANGED vars
  BY <1>1, <1>8 DEF vars, runnerVars, workerVars, RunnerTypes
<1> QED BY <1>2, <1>3, <1>4, <1>5, <1>6, <1>7, <1>8 DEF Next, RunnerStep, AgentStep, RunStep

\* As many stopped as the run has agents, and none of another run: the crew.
LEMMA CountIsCrew ==
  ASSUME NEW counts \in SUBSET Agents, \A a \in Others : a \notin counts,
         Cardinality(counts) = Cardinality(Crew)
  PROVE  Crew \subseteq counts
<1>1. counts \subseteq Crew
  BY DEF Agents
<1>2. IsFiniteSet(Crew)
  BY RunnerAssumption
<1> QED BY <1>1, <1>2, FS_Subset

LEMMA PhaseKept ==
  ASSUME RunnerIInv, [Next]_vars
  PROVE  PhaseFits'
<1>1. RunnerTypes /\ PhaseFits /\ mode' = mode
  BY StillFollowing DEF RunnerIInv
<1>2. CASE RunnerStep
  <2>1. cause' = cause /\ stops' = stops /\ cause = "none"
    BY <1>1, <1>2 DEF RunnerStep, AttachPublisher, Execute, ExecutionError, ListRuns,
       GetCounts, Attach, Enter, PhaseFits
  <2>2. CASE Execute
    <3>1. phase' = IF mode = "detach" THEN "done" ELSE "looping"
      BY <2>2 DEF Execute, Enter
    <3>2. mode # "attach" /\ mode \in {"run", "detach", "attach"}
      BY <1>1, <2>2, RunnerAssumption DEF Execute, PhaseFits, RunnerTypes
    <3> QED BY <1>1, <2>1, <3>1, <3>2 DEF PhaseFits
  <2>3. CASE AttachPublisher \/ ExecutionError \/ ListRuns \/ GetCounts \/ Attach
    <3>1. run' = run
      BY <2>3 DEF AttachPublisher, ExecutionError, ListRuns, GetCounts, Attach
    <3>2. CASE AttachPublisher
      BY <1>1, <2>1, <3>1, <3>2 DEF AttachPublisher, Enter, PhaseFits
    <3>3. CASE ExecutionError
      BY <1>1, <2>1, <3>1, <3>3 DEF ExecutionError, Enter, PhaseFits
    <3>4. CASE ListRuns
      BY <1>1, <2>1, <3>1, <3>4 DEF ListRuns, Enter, PhaseFits
    <3>5. CASE GetCounts
      BY <1>1, <2>1, <3>1, <3>5 DEF GetCounts, Enter, PhaseFits
    <3>6. CASE Attach
      BY <1>1, <2>1, <3>1, <3>6 DEF Attach, Enter, PhaseFits
    <3> QED BY <2>3, <3>2, <3>3, <3>4, <3>5, <3>6
  <2> QED BY <1>2, <2>2, <2>3 DEF RunnerStep
<1>3. CASE ProcessResult
  <2>1. phase = "looping" /\ run' = run /\ cause = "none" /\ mode \in {"run", "attach"}
    BY <1>1, <1>3 DEF ProcessResult, PhaseFits
  <2>2. cause' = "count" /\ run'["other"] = "absent" => Crew \subseteq stops'
    <3> SUFFICES ASSUME cause' = "count", run'["other"] = "absent" PROVE Crew \subseteq stops'
      OBVIOUS
    <3>1. Cardinality(stops') = Cardinality(Crew) /\ stops' \subseteq Agents
      BY <1>1, <1>3, <2>1, Processing
    <3>2. \A a \in Agents : SilentBefore(a)'
      BY AgentsFit DEF AgentFits
    <3>3. \A a \in Others : a \notin stops'
      <4> SUFFICES ASSUME NEW a \in Others PROVE a \notin stops'
        OBVIOUS
      <4>1. a \in Agents /\ RunOf(a)' = "other"
        BY Teams DEF Agents, RunOf
      <4> QED BY <3>2, <4>1 DEF SilentBefore, Told
    <3> QED BY <3>1, <3>3, CountIsCrew
  <2>3. \/ phase' = "looping" /\ cause' = "none"
        \/ phase' = "done" /\ (cause' = "count" => mode = "run")
    BY <1>1, <1>3, <2>1, Processing
  <2> QED BY <1>1, <2>1, <2>2, <2>3 DEF PhaseFits
<1>4. CASE Interrupt
  <2>1. phase' = "done" /\ cause' = "interrupt" /\ run' = run
    BY <1>4 DEF Interrupt
  <2> QED BY <1>1, <2>1 DEF PhaseFits
<1>5. ASSUME NEW b \in Agents, AgentStep(b) \/ HandleRecv(b) PROVE PhaseFits'
  <2>1. UNCHANGED <<phase, cause, stops, run>>
    BY <1>5 DEF AgentStep, Hit, Finish, Dump, Exit, Die, HandleRecv, runnerVars
  <2> QED BY <1>1, <2>1 DEF PhaseFits
<1>6. ASSUME NEW r \in Runs, RunStep(r) PROVE PhaseFits'
  <2>1. UNCHANGED <<phase, cause, stops>>
    BY <1>6 DEF RunStep, RunFinished, RunElsewhere, runnerVars
  <2>2. run'["other"] = "absent" => run["other"] = "absent"
    <3>1. \/ run' = [run EXCEPT ![r] = "over"]
          \/ run' = [run EXCEPT ![r] = "active"]
      BY <1>6 DEF RunStep, RunFinished, RunElsewhere, Launched
    <3>2. run \in [Runs -> {"absent", "active", "over"}]
      BY <1>1 DEF RunnerTypes
    <3> QED BY <3>1, <3>2, Parameters
  <2>3. mode # "attach" /\ run["own"] = "absent" => run'["own"] = "absent"
    BY <1>1, <1>6, Parameters DEF RunStep, RunFinished, RunElsewhere, Launched, RunnerTypes
  <2> QED BY <1>1, <2>1, <2>2, <2>3 DEF PhaseFits
<1>7. CASE UNCHANGED vars
  BY <1>1, <1>7 DEF vars, runnerVars, PhaseFits
<1> QED BY <1>2, <1>3, <1>4, <1>5, <1>6, <1>7 DEF Next, RunnerStep, AgentStep, RunStep

LEMMA InitFits ==
  ASSUME Init
  PROVE  RunnerIInv
<1>1. RunnerTypes
  <2>1. <<>> \in Seq(Batch) /\ <<>> \in Seq(Message) /\ 0 \in 0..MaxHits
    BY Parameters
  <2> QED BY <2>1, Parameters DEF Init, RunnerTypes
<1>2. PhaseFits
  BY Parameters DEF Init, PhaseFits
<1>3. ASSUME NEW a \in Agents PROVE AgentFits(a)
  <2>1. /\ Len(feed) = 0 /\ Len(channel[a]) = 0 /\ made[a] = 0 /\ counted[a] = 0
        /\ queue[a].hits = 0 /\ queue[a] = NoResults /\ channel[a] = <<>>
        /\ ~queue[a].stop /\ stops = {} /\ worker[a] = "none"
    BY EmptySeq DEF Init, NoResults
  <2>2. ~Told(a)
    BY <2>1 DEF Told
  <2>3. StopMeansEnd(a) /\ SilentBefore(a)
    BY <2>1, <2>2 DEF StopMeansEnd, SilentBefore
  <2>4. Accounted(a)
    <3> DEFINE z == [i \in 0..0 |-> 0]
    <3>1. z \in [0..0 -> 0..0] /\ z[0] = 0 /\ \A i \in 0..0 : z[i] = 0
      OBVIOUS
    <3> HIDE DEF z
    <3>2. Totals(z, 0, FeedHits(a), 0) /\ Totals(z, 0, ChannelHits(a), 0)
      BY <3>1 DEF Totals
    <3>3. Accounts(a, z, z)
      BY <2>1, <3>1, <3>2 DEF Accounts
    <3> QED BY <2>1, <3>1, <3>3 DEF Accounted
  <2> QED BY <2>3, <2>4 DEF AgentFits
<1> QED BY <1>1, <1>2, <1>3 DEF RunnerIInv

\* The accounts of every agent are in order, and nobody speaks before it was
\* started or after it has ended.
THEOREM AccountsAgree == Spec => []RunnerIInv
<1>1. Init => RunnerIInv
  BY InitFits
<1>2. RunnerIInv /\ [Next]_vars => RunnerIInv'
  BY AgentsFit, TypesKept, PhaseKept DEF RunnerIInv
<1> QED BY <1>1, <1>2, PTL DEF Spec

\* An agent is counted as stopped after its last hit (_process_result, and the
\* batches of the relay): no hit of it is on its way behind its stopTestRun.
THEOREM StopsAreLast == Spec => []RunnerInv
<1>1. RunnerIInv => RunnerInv
  <2> SUFFICES ASSUME RunnerIInv PROVE RunnerInv
    OBVIOUS
  <2>1. TypeOK
    BY DEF RunnerIInv, RunnerTypes, TypeOK
  <2>2. StopIsLast
    BY Parameters DEF RunnerIInv, AgentFits, StopMeansEnd, StopIsLast
  <2> QED BY <2>1, <2>2 DEF RunnerInv
<1> QED BY <1>1, AccountsAgree, PTL

\* A loop that ended with its last agent has every hit of the run in its report,
\* as long as the broker served no other run.
THEOREM CountedOutIsComplete == Spec => []AloneIsComplete
<1>1. RunnerIInv => AloneIsComplete
  <2> SUFFICES ASSUME RunnerIInv, cause = "count", run["other"] = "absent", NEW a \in Crew
               PROVE  worker[a] \in {"closing", "gone"} /\ counted[a] = made[a]
    BY DEF AloneIsComplete
  <2>1. mode = "run" /\ a \in stops /\ a \in Agents
    BY Parameters DEF RunnerIInv, PhaseFits
  <2>2. StopMeansEnd(a)
    BY <2>1 DEF RunnerIInv, AgentFits
  <2> QED BY <2>1, <2>2 DEF StopMeansEnd, Told
<1> QED BY <1>1, AccountsAgree, PTL
=============================================================================
