# Loads in TLA+

Loads is a load-testing framework: a *broker* keeps a set of *agents*, clients
ask the broker to run a test on some of them, the agents start *workers* that
hit a service and push results back, and the broker stores, counts and
publishes the results.  This directory models the parts of Loads whose
behaviour depends on the order of messages, on timers and on failures; TLC
checks the models on small instances, and TLAPS proves theorems about the
broker's controller, the cluster of broker and agents, both databases, the heartbeat,
the client pool, the local, the distributed and the external runner for every instance.

Everything is translated from the Python sources under `src/loads`, which are
the program.  The Go code under `src/loads/examples/echo_go` is a vendored
library of an example and is left out.
`PROJECT.json` maps every definition to the lines it models, and lists the
runs, the mutants that show each property can fail, the hazards and the
theorems.

1. [Inventory](#1-inventory)
2. [Plan](#2-plan)
3. [The modules and the code](#3-the-modules-and-the-code)
4. [The runs](#4-the-runs)
5. [Fairness](#5-fairness)
6. [What is proved](#6-what-is-proved)
7. [Where code and comments disagree](#7-where-code-and-comments-disagree)
8. [What is not modelled](#8-what-is-not-modelled)

## 1. Inventory

| component | source | state it keeps | operations | correct when |
|---|---|---|---|---|
| broker controller | `transport/brokerctrl.py` | `_agents`, `_agent_times`, `_runs`, `_cached_status` | register, unregister, reserve, run, stop, clean, update_status, save_data, test_ended | its tables agree; a run ends once nobody serves it, and is announced then; an agent serves one run at a time; silent agents are taken off |
| broker sockets | `transport/broker.py` | five sockets, one ioloop | one handler per socket, the cleaner (2.5 s), the heartbeat | what agents really send drives the controller only along its own steps |
| agent | `transport/agent.py` | `_workers`, its stethoscope | RUN, STATUS, STOP, QUIT, check of processes, register, lost, stop | an idle agent hears the heartbeat; a stop ends every worker |
| heartbeat | `transport/heartbeat.py` | `current_register`; `tries`, `running` | ping, delayed, receive, start, stop | a lost broker is noticed, a live one is not given up |
| client and pool | `transport/client.py`, `transport/util.py` | a REQ socket and a lock; a queue of connectors | execute, pool runner | answers match jobs, the pool never drains, calls return |
| distributed runner | `runners/distributed.py` | `_stopped_agents`, `run_id` | run, attach, result callbacks, cancel | its report is complete when it stops by itself; it misses no announcement of its run |
| local runner | `runners/local.py` | greenlets of the users and their tests, the relay's batch | run a test, users, cycles, cleanup | tests belong to their cycle, each is reported once with its own status, the sockets it knows are closed, the runner ends |
| external runner | `runners/external.py` | processes, processes pending cleanup, current step | check processes, start the next step, stop | every step runs, no process is forgotten, it stops |
| file database | `db/_python.py` | memory buffers and six files per run | add, flush, metadata, summarize, delete, queries | memory and files agree, totals are complete, lines can be read back |
| redis database | `db/_redis.py` | lists and counters in redis | add, metadata, queries | its answers are what was added, and groups add up to the counts |
| result relay | `results/zmqrelay.py` | a PUSH socket, a queue of results | push, dump, close | nothing is lost or reordered before the relay closes |
| results | `results/base.py`, `results/remote.py` | counters, hits, tests | accessors and statistics | counts match what was recorded |
| test support | `case.py`, `measure.py`, `websockets.py`, `_patch.py` | a session per test | hit counting, sockets | every request is a hit |
| command line, outputs, observers | `main.py`, `output/`, `observers/` | none that outlives a call | parsing, printing, mail, IRC | - |

**How they interact.**  The broker has one thread: every socket handler and
every periodic callback runs to its end before the next begins.  Agents and
workers are processes of their own.  Commands to agents and their answers use
one pair of ROUTER sockets, registrations a second socket, results of workers a
third, the heartbeat a fourth; messages of different sockets overtake each
other.  Clients use a REQ socket and subscribe to what the broker publishes.

**What is hard.**  An answer, a result, a heartbeat and a client command can be
handled in any order; an agent may be slow, crash, retire or lose the broker
between any two of them; the broker keeps two tables (`_runs` and
`_agent_times`) that different handlers change; files are written one after
another; processes are terminated gracefully and outlive the record of them; a
REQ socket has to receive what it asked for, also when its caller gave up; a
runner hears of all runs of its broker.  `PROJECT.json` lists these hazards at
their lines, with the properties that cover them.

## 2. Plan

| step | module | composes, implements | state |
|---|---|---|---|
| 1 | `Roster`, `BrokerCtrl` | implements `RunBoard` | done |
| 2 | `RunBoard` | the abstract board of runs | done |
| 3 | `ClusterProofs`, its first part | theorems about `BrokerCtrl`, refinement of `RunBoard` | done |
| 4 | `Agent`, `Cluster` | broker and agents; its broker takes steps of `BrokerCtrl` | done |
| 5 | `ExternalRunner`, `ExternalRunnerProofs` | the runner of external tests | done |
| 6 | `BrokerDB` | the file database with restarts | done |
| 7 | `ClientPool`, `ClientPoolProofs` | clients, threads, the pool | done |
| 8 | `DistributedRunner` | runner, relays, broker's publisher | done |
| 9 | `Heartbeat` | heart and stethoscopes, `onregister`, `lost` | done |
| 10 | `LocalRunner` | users, cycles, duration, sockets, the relay's greenlets | done |
| 11 | `Queries`, `FileReader`, `RedisDB` | the zfile reader, paging, groups; redis | done |
| 12 | `ResultStore`, `Databases` | the promise of both databases, implemented by each | done |
| 13 | `ClusterProofs`, the rest | what is proved of `BrokerCtrl` holds of `Cluster` for all agents; what agents and broker know of each other | done |
| 14 | `HeartbeatProofs` | what holds of the heartbeat for any periods, and what its tolerances have to be | done |
| 15 | `DistributedRunnerProofs` | a stopTestRun is the last message of its agent, counted without sums | done |
| 16 | `BrokerDBProofs` | every safety property of the file database, through deaths within a flush | done |
| 17 | `LocalRunnerProofs` | the order of the relay, whose tests run, the whole plan of a run with hits is reported | done |
| 18 | `DatabasesProofs` | the reader at any chunks, pages, both databases implement `ResultStore` | done |

The order puts the broker first since every other part talks to it.  Modules to
be proved about declare no RECURSIVE operator; their constants have named
assumptions that TLC evaluates in each run.

## 3. The modules and the code

Names follow the code: an action is named for its handler or method.  The
abstractions below are the ones a reader should know before reading a module.

**`Roster`** declares the agents, the run ids and `NoRun`.

**`BrokerCtrl`** is `brokerctrl.py` with the handlers of `broker.py` that call
it; what arrives is chosen freely.  `agents`, `agentTimes` and `runs` are
`_agents`, `_agent_times` and `_runs`; `meta` stands for the
`active`/`stopped`/`ended` flags in the database.  A timer is "none", "fresh" or
"stale": only the comparison with `agent_timeout` is visible to the code, and
`Lapse` is time passing.  `clean` iterates over a dict and may be cut short by
an exception of `test_ended`, so `Clean` is one action with the set of agents
it saw, the sends that failed and the runs that ended.  `spinning` is the
`while` loop of `reserve_agents` that does not end; no handler runs after it.
`out` is what the last handler sent and published.  `_cached_status` is left
out: only answers to clients are read from it.

**`RunBoard`** says what the broker promises without timers, sockets and
commands: agents join, runs start with idle agents, agents leave, and a run
ends and is announced when its last agent leaves it.  A run whose whole crew
is lost (`_remove_agent`) does not end by itself.

**`Agent`** is `agent.py`.  A worker is "running", "exited" (dead but still in
`_workers`), "orphan" (told to stop, alive, out of `_workers`) or "none".
`listening` is the stethoscope; `syncDue` the `_sync_hb` callback `_stop_runs`
leaves on the loop.  Only whether a status reply contains a running process is
kept.

**`Cluster`** joins the two: each handler of the broker takes its message from
the queue of the socket it came on.  Queues are FIFO per socket and agent, not
across sockets, like ZMQ pipes; nothing is delivered to an agent that is gone.
`cluster_calm` uses the view `NoOut`, which leaves `out` out of the fingerprint:
no guard reads `out`, and the properties of that run read it only for
the step that set it.

**`ExternalRunner`** is `external.py`.  The arguments `hits`, `users` and
`duration` are variables that are chosen initially.  `alive` are the processes
of the operating system; `processes` and `pending` the two lists of the runner.
Results are one message per process.

**`BrokerDB`** is `db/_python.py` with the calls `brokerctrl.py` makes. `db` is one
record: the memory of the object and the files. A result is a kind and a number; a kind
stands for the header keys it needs, and counts stand for the urls file too, which is
kept and written the same way. `flush` writes files in the order of a dict, thus in any
order; `DieInFlush` cuts it within one of them ("Torn"); a death between two files,
which leaves each whole, is left out. The metadata listing keeps the order of
modification times that `get_runs` sorts by.

**`ClientPool`** is `Client`, `Pool` and the `send`/`recv` helpers.  A thread has a
program counter because other threads run between taking the lock, sending,
polling, releasing the lock and receiving.  A job is named by its thread and
number, its answer is the job, so that a wrong answer is visible.  Retries of
`send` and `recv` are one step that succeeds or raises.  The queue of
connectors is a set: its order has no effect.  Creating a connector again gives
the same name to a fresh socket.  `ClosePool` models that `Pool.close` is looked
up on `Client`.

**`DistributedRunner`** is `distributed.py` with `RemoteTestResult.sync`, the part
of `main.py` that attaches, the relay of `zmqrelay.py` as `queue` and `channel`,
and `_handle_recv` of the broker.  All result types but stopTestRun are hits.
`feed` is the SUB socket with its callbacks.  A batch may be sent whenever the
queue is not empty, which includes the relay without batches.  The broker
may announce its runs at any time or never (`RunFinished`): the heartbeat deregisters
busy agents, an observer may not resolve, an agent may retire or lose the broker.
That it announces a run too early, on a stale answer, is included.  A relay
that retries a full socket is a relay that has not sent yet.  Hits are those of
runs of Python tests: the processes of an external runner push on sockets of their
own (`external.py:216`), and their hits and its stopTestRun may overtake each other.

**`Heartbeat`** is `heartbeat.py` with what `broker.py` and `agent.py` hook into it,
in discrete time.  `heart` is `Heartbeat`: `due` is the time to its next beat.
`agent` is an agent with its `Stethoscope`: `due` is the time to the next
`_delayed`, `blocked` how long a handler keeps the loop.  Timers that are due run
before time passes, except that a beat may be `MaxLate` late and a handler may
take `MaxBlock`; a PeriodicCallback skips what it missed.  `start` sleeps for
`Warmup` while the subscription is set up and may miss a beat meanwhile.  `Stops`
includes the flush of the stream, which handles waiting beats in the middle of
`stop`.  `Finish` is `_check_proc` finding the last worker dead.  `silence`,
`missing`, `stale` and `outage` are clocks and a history for the properties.

**`LocalRunner`** is `local.py` as agents start it (slave, batched), with `zmqrelay.py`
and `websockets.py`. `main` is where the main greenlet is; a user's greenlet is `user`,
and `test` the greenlet that calls the test, which is another one in a run with a
duration. Greenlets switch only where the code yields: `Switchable` is false while a
batch is retried (`spinning`) and while main closes the relay. `pending` is `_data` and
a set: reports are told apart by type, greenlet and number, and a batch keeps no order
between types. Results, hits and counters are reported like stopTest and left out.
`sockets` are the web sockets of each user and `links` the links to `cleanup` of its
greenlet, one for each call of `create_ws` without a class, also for one whose connect
fails. A socket of a class of the test's own is neither linked nor kept in `_SOCKETS`;
its `close` and its reports are taken to be those of `WebSocketClient`, which the one in
the tests extends. `CloseSocket` is `close` called by a test or because the other end
closes, `DropSocket` a connection that breaks, after which `close` returns early.
`Cleanup` is one link of an ended greenlet: a `close` that raises ends it, and the
sockets after it wait for the next link. The runner fails in two ways: a name that does
not resolve is an error that `execute` reports (`ResolveFails`); a test that is not a
method of a class raises after the relay is closed (`NoTestClass`). Interrupts are a
KeyboardInterrupt while main waits.

**`Queries`**, **`FileReader`** and **`RedisDB`** are the queries about one run. A
result has a type, a size and the bytes zlib makes of it; bytes are numbers and the
marks are two of them, so that a chunk can end within a mark. `FileReader` reads the db
file chunk by chunk (`ReadChunk` is one turn of the outer loop of `read_zfile`), feeds
`_batch` and answers; `FileTorn` leaves a prefix of a record in the db file, the errors
file is written before and in one piece. `Decompressed` is `zlib.decompress`: a line
that begins with the whole stream of a record gives that record and what follows it is
dropped, and `None` stands for the error zlib raises on any other line. That a stream
tells where it ends is assumed of zlib: of two results neither stream begins the other
(`FileReaderAssumption`). When results get to the files, and the header keys, are
`BrokerDB`'s. `RedisDB` is `_redis.py` with the keys of one run as a record; an md5 is
the result it is made of. `get_errors` is included although only tests call it. Nothing
keeps zlib from writing the end mark within a record, so records may hold it
(`HoldsMark`), in the instance too.

**`Databases`** gives both the same results and asks both the same, so that one
instance compares them; each answers for itself and nothing of one is read by
the other.  **`ResultStore`** is the promise both are checked against: an answer
holds results that were added, none more often than that, no more than `size`, all
of them when the whole run is asked for and has not ended, and a page without a
type is as long as it can be.  Errors may include failures (files) or not (redis)
and groups may count results (files) or add up sizes (redis): the two differ
there, and the promise allows both.  A store that dies while it adds a result is
`lossy` from then on: its answers hold nothing that was not added, and may lack some.

## 4. The runs

Twelve runs are registered; each explores its instance completely and passes.

| run | instance | checked | what it shows |
|---|---|---|---|
| `broker_ctrl` | 3 agents, 2 runs, failing sends, a bad observer | `CtrlInv`, `AnnouncedIsOver`, `NoHandover`, `BoardSpec` | the tables agree after every handler; only runs that are over and served by nobody are announced; an agent leaves its run before it serves another; the controller implements `RunBoard` |
| `cluster_calm` | 2 agents that may crash, 1 run, client stops | `WorkIsTracked`, `EndedMeansDone` | with no failure but crashes the broker counts on all live agents that work, and a run ends when their processes are done |
| `cluster_rough` | 1 agent, 1 run, heartbeat, retirement, crash, slowness, commands | `AgentsSound`, `AgentsReturn` | an idle agent listens; an agent that lives is in the broker's list again some day, whatever took it off |
| `cluster_crash` | 2 agents that may crash, 1 run | `RunsDrain`, `EveryRunEnds` | no agent stays on a run for ever, every run is flagged as ended |
| `cluster_stop` | 1 agent, 2 runs, tests that never end | `StopIsEffective` | a STOP under way ends every worker launched before it |
| `external` | 1-2 steps, 1-2 users | `RunnerInv`, `AllStepsRun`, `Stops` | no live process is forgotten before the last step is over, the processes of every step were started (they need not finish), the runner stops |
| `broker_db` | 2 runs, 2 results, wiping, one restart or death within a flush | `DBInv`, `CleanIsSynced`, `TotalsAreComplete`, `ReadableUntilRestart`, `SyncedEventually`, `MetadataSurvives` | nothing is stored twice or out of order, memory and files agree, totals survive the summary and late results, lines decode, flags on disk stay, results reach the disk unless the broker restarts first |
| `client` | 4 threads, a shared client, a pool of one | `PoolInv`, `AnswersMatch`, `CallsReturn` | the pool keeps clean connectors, answers match, calls return |
| `distributed` | 2 agents, another run, 3 modes | `RunnerInv`, `AloneIsComplete`, `RunnerReturns` | an agent counts as stopped after its last hit, reports are complete when nothing disturbs them, a runner that asked for its run returns unless a worker of it died before its stopTestRun was out and the run is not announced |
| `heartbeat` | 1 agent, 5 beats a round, 3 looks | `HeartbeatInv`, `LostInTime`, `RosterInTime`, `LiveBrokerKept` | an agent listens exactly when it is idle; it gives up a broker that is gone in time and no other; the broker knows who listens and forgets who is gone |
| `local` | 7 sets of arguments, a PUSH socket that is full after one batch | `LocalInv`, `UsersOfCycle`, `AllReported`, `RunnerEnds` | tests belong to the cycle, every test is reported once under its own status, only sockets of a class of the test's own stay open and exactly those that were closed are reported so, stopTestRun is the last, the runner exits |
| `queries` | 3 results of which one may be cut off, 45 queries, 2 chunk sizes | `QueriesInv`, `PagesAreWindows`, `FileKeepsPromise`, `RedisKeepsPromise`, `QueriesEnd` | no record of a whole file is lost between chunks, pages of files partition the results, groups of redis add up to the counts, both databases implement `ResultStore`, queries to whole files end |

`BrokerDBCrash.cfg` is not registered and goes deeper than `broker_db` with one run:
three results and two restarts, so that the broker dies while it repairs what a
death left; `DBInv` and `MetadataSurvives` hold there too.

**Bounds.**  Three agents and two runs are the least for which a run can lose one
agent, keep one, and a third serve the other run.  `QueueBound` (2) lets a
command wait behind another, the least for a stale answer; `PollRoom` and
`Room` keep the broker from writing to a full queue, which only delays it.
`MaxElapsed` passes every time limit of the instance.  `MaxResults` (2) lets
two results share a buffer or be parted by a flush.  `MaxRestarts` (1) lets a
broker write before and after it died.  `MaxCalls` (2) lets a
thread call again on the socket it gave up on.  `MaxHits` (1 per agent) is
enough for a hit to stay behind its stopTestRun.  The hits of the other run in
`DistributedRunner` are left out since they only add to counts nobody reads.

In `Heartbeat` one agent is enough: agents do not read each other's state, and the
broker treats them alike. The periods keep the order of the real ones (a look takes as
long as a beat, a round is longer than all looks), and the tolerances are tight: with
`MaxLate` or `MaxBlock` at 3 instead of 1 TLC finds an agent that gives up a broker that
is up. `LocalRunner` takes the least arguments with two users, two cycles of each kind
and up to two sockets per user, and one cycle in a run with a duration, since with two
`UsersOfCycle` does not hold (section 7), and `HighWater` 1 so that the second batch is
retried. In `Databases` the chunks are shorter than one record and longer than one,
records have different lengths so that chunks end at every place of one, and two bodies
begin or end with the first byte of a mark.

**Deadlock** is checked except where the bounds stop the model: `ClientPool`
(all calls made) and `DistributedRunner` (the runner returned and the workers
are gone).

**Mutants.**  Each property has a `Mut_` operator beside the definition it
replaces, written as a plausible slip in that code: an entry kept in `_runs`, a
timer never created, a batch that is sent without its hits, a connector put back
as it is.

## 5. Fairness

Fairness is stated where the scheduling of the code justifies it and nowhere
else.

- The broker's and the agents' ioloops read each socket and run each callback;
  the cleaner, the flush and the check of processes are PeriodicCallbacks: weak
  fairness of each.  Client commands, results, crashes and retirement are
  never fair.
- `TestsEnd` says that a test ends some day.  `StopIsEffective` is checked without
  it.
- A dead agent's timer goes stale: time passes.
- `ExternalRunner`: the loop and the clock are fair, the processes are not.
- `ClientPool`: threads run and polls time out; the broker need not answer.  A
  `threading.Lock` is not fair: `CallsReturn` holds because `MaxCalls` bounds how
  often the others take the lock, which is said with it.
- `LocalRunner`: the hub of gevent runs what is ready and timers that are due, and
  the broker reads.  Tests end in runs with hits only, as nothing else would end
  them; in a run with a duration they need not.
- `Databases`: a query is one call of the broker, which goes on until it is answered.
- `Heartbeat` needs none: its bounds are stated with clocks.
- `cluster_rough` adds `BeatsArrive`, used for `AgentsReturn` only: the broker beats
  again and again, and a beat reaches an agent that listens.
- `DistributedRunner`: tests end, relays dump every second and the broker forwards
  what it receives.  That it announces a run is not fair, as the code does not see to it
  (`broker.py:126`, `brokerctrl.py:33`, `agent.py:325`).
  Attaching, interrupting and dying are not fair either.

## 6. What is proved

The proofs assume what the named ASSUMEs of the modules say (the constants are
disjoint or finite where the code has them so) and nothing else.

| theorem | statement | argument |
|---|---|---|
| `CtrlInvariant` | `Spec => []CtrlInv` | `CtrlInv` (types, and every agent in `_runs` is registered and serves a run in the database) is inductive; one step per handler |
| `CtrlImplementsBoard` | `Spec => BoardSpec` | each handler is a step or stutter of `RunBoard` under `CtrlInv`: registration of a busy agent, late data and the visit of `clean` need that `_runs` and `_agents` agree |
| `AnnouncedRunsAreOver` | `Spec => []AnnouncedIsOver` | shown once of the steps of `RunBoard` and carried over by the refinement |
| `NeverHandedOver` | `Spec => NoHandover` | likewise |
| `ClusterKeepsBoard` | `ClusterSpec =>` all that is proved of `BrokerCtrl`, `BoardSpec` among it | by the lemma `ClusterRunsCtrl`: each step of the cluster is one handler of the broker, or leaves its tables alone |
| `AgentsStaySound` | `ClusterSpec => []AgentsSound` | `ClusterIInv`: the types of the queues and `ListensWhenIdle` for every agent |
| `WorkIsAlwaysTracked` | `Calm`: `ClusterSpec => []WorkIsTracked` | `CalmInv`: a RUN is the first command in its queue, no answer on its way denies work that is there, nobody is timed out but the dead |
| `RunsEndWhenDone` | `Calm`: `ClusterSpec => EndedMeansDone` | from `CalmInv` and `WorkIsTracked` |
| `StethoscopesSound` | `Spec => []HeartbeatInv` | `HeartIInv`, for any periods, lateness and blocking |
| `ListenersAreKnown` | `Spec => []KnownInTime` | `SoundMissing` of `HeartIInv`: how long a listener has been missing and the time to the next beat, or to reading the one that waits, add up to the bound |
| `LiveBrokersAreKept` | `Tolerant`: `Spec => LiveBrokerKept` | `SoundTries` of `HeartIInv`: the looks since a beat had their time |
| `LostBrokersAreGivenUp` | `Punctual`: `Spec => []LostInTime` | `SoundSilence`, likewise |
| `RosterIsInTime` | `Punctual`: `Spec => []RosterInTime` | `SoundStale`: an agent that is gone is forgotten when the round ends |
| `AccountsAgree` | `Spec => []RunnerIInv` | below |
| `StopsAreLast` | `Spec => []RunnerInv` | from `RunnerIInv` |
| `CountedOutIsComplete` | `Spec => []AloneIsComplete` | from `RunnerIInv`: as many stopped as the crew has agents, and none of another run |
| `KeysForQueue` | `_compress_headers` of any queue loses and moves no key and leaves every kind with one | by induction over the queue |
| `DBInductive` | `Spec => []DBIInv` | below; one lemma per operation for one run, one for all runs, one step per action |
| `ResultsStayInOrder` | `Spec => []DBInv` | `Orderly` and `LastOf` of `DBIInv` |
| `CleanMeansSynced` | `Spec => []CleanIsSynced` | `Synced` of `DBIInv` |
| `TotalsStayComplete` | `Spec => []TotalsAreComplete` | `Counted` and `Synced` of `DBIInv` |
| `LinesStayReadable` | `Spec => []ReadableUntilRestart` | `Coded` of `DBIInv`; a flush extends the headers, `KeysForQueue` |
| `FlagsStayOnDisk` | `Spec => MetadataSurvives` | `Grown` of `DBIInv`: what memory has of a run includes what its file has, unless it has nothing |
| `LocalInductive` | `Spec => []LocalIInv` | below |
| `StopStaysLast` | `Spec => []LocalInv` of `LocalRunner` | `StopSound` of `LocalIInv`: stopTestRun is added when main closes, and nothing runs then |
| `UsersKeepToTheirCycle` | `Spec => [](OneCycle => UsersOfCycle)` | `StaffSound`: main goes on when the users it joined have ended |
| `HitsAreReported` | `Spec => []AllReported` | `ProgressSound`, `ReportsSound` and that a link is left while a socket is unclosed, and the sum of the plan (`TotalIsProduct`) |
| `DatabasesInductive` | `Spec => []DatabasesIInv` | below |
| `QueriesSound` | `Spec => []QueriesInv` | `Layout` and `ReadsOn` for the reader, `KeysSound` for the groups of redis |
| `PagesAreFound` | `Spec => []PagesAreWindows` | `BatchSound`: what was found is what the window selects of the records fed so far |
| `FileImplements` | `Spec /\ [](torn = 0) => FileKeepsPromise` | each step is a step or stutter of `ResultStore`, as long as no record is cut off |
| `RedisImplements` | `Spec => RedisKeepsPromise` | likewise, from `KeysSound`: the lists hold the log in another order, counters and groups add it up |
| `RunnerInvariant` | `Spec => []RunnerInv` of `ExternalRunner` | `RunnerIInv`: up to now exactly the processes of the steps started exist, so a new crew is disjoint from the old ones |
| `AllStepsAreRun` | `Spec => []AllStepsRun` | from `RunnerIInv`: the runner stops at `NbSteps` only |
| `PoolInvariant` | `Spec => []PoolInv` | `PoolIInv` adds `SocketsSound`, at most one thread awaits an answer on a client and its socket carries that thread's job alone, and `CallsSound` |
| `AnswersAlwaysMatch` | `Spec => AnswersMatch` | from `SocketsSound` |

`PoolInv` is not inductive by itself: that a connector given back is clean
depends on what was under way while its thread used it, which is what
`SocketsSound` records.  The same conjunct explains why receiving without the
lock is safe: a second thread that takes the lock cannot send, because the
socket still has to receive, so there is never a second answer to mix up.

**The cluster.**  `ClusterRunsCtrl` is a lemma about how `Cluster` is put together and
says nothing of agents: what agents send, in
whatever order it arrives, is among the inputs `BrokerCtrl` chooses freely.  That the
broker knows who works is true only under `Calm`: no heartbeat that removes busy
agents, no silence that times them out, no retirement, no failing sends, no commands
to single agents, and one run, since with two an answer about the first can be taken
for one about the second.  Each of these is a way the code loses track of an agent;
`ClusterStalePoll.cfg` and `ClusterRefuted.cfg` show some.  Agents may crash.

**The heartbeat.**  Three theorems hold for any periods.  The others say what the
parameters have to be.  `Tolerant`, `(Retries - 1) * Delay > Interval + MaxLate +
2 * MaxBlock`, is what keeps an agent from giving up a broker that is up: the code
beats every 10 s and looks three times every 10 s, which leaves 10 s for the beat to be
late and for handlers that block.  `Punctual`, `MaxLate < Interval /\ MaxBlock < Delay`,
says that no beat and no look is skipped; without it timers that are late by a period
leave one out (`NextDue`), and TLC finds the bounds exceeded.

**The distributed runner.**  That no hit stays behind its stopTestRun is about the sum
of what is on its way, which would take an induction over the messages.  `Accounted`
states it by running totals instead: there are numbers `p` and `q`, one before each
message and one after the last, that begin with what the runner counted, grow by each
message and end at what the worker made.  A step appends a total or drops the first,
and at a stopTestRun the total is all its worker made.  For a runner that follows its
run from the start `p` ends where `q` begins; one that attaches, or was not subscribed,
has missed what lies between.

**The file database.**  None of its properties is inductive by itself.  `DBIInv` says of
every run (`Sound`) that a run with something in a queue is known, that metadata in
memory includes that on disk (`Grown`), that entries kept carry rising numbers of which
none is above the last result's (`Orderly`); until a restart, that the headers on disk
are those in memory and decode the lines there (`Coded`); and until the run is wiped,
that what is kept is the end of the log (`LastOf`) and that counts in memory, and errors
in memory and on disk together, are the totals (`Counted`).  Of a run that was not
started nothing is there (`Fresh`), which is why `save_metadata` may overwrite what
memory has.  A death within a flush leaves of each file the old one, the new one or
part of the new one (`CutRun`), and each is part of what was kept (`PartOf`), in the same
order.  The marks of a missing and a torn file are no lines and no headers
(`BrokerDBAssumption`): the code tells such files apart by `os.path.exists` and by what
`json` raises.

`KeysForQueue` is about a recursive function, for a queue of any length.  The library's
induction theorems cannot be instantiated, but its facts about finite sets hold for any
set: `SetInduction` derives induction over the naturals from the well-foundedness of
strict inclusion (`FS_StrictSubsetOrderingWellFounded`), for a set `T` that takes the
place of the predicate.

**The local runner.**  `LocalIInv` says where a stopTestRun may be (`StopSound`), which
users exist and which of them have ended (`StaffSound`), and of a run with hits how far
each user is (`ProgressSound`) and that whatever it has done so far was received, is in
the pipe or waits in `_data`, under its own numbers (`ReportsSound`).  When the runner has
exited everything was received, so what is left is arithmetic: the reports of a plan are
as many as its users times its hits, cycle by cycle (`TotalIsProduct`), whatever the
arguments.  `OneCycle`, a run with a duration has one number of users, is what the code
needs for `UsersOfCycle`: with several, `local.py:185` lets tests of a cycle go on in the
next one (section 7); a run with hits needs nothing.

**The databases.** `DatabasesIInv` relates the bytes of the db file to the results in
it, as long as no record was cut off. `Layout` names the place where each record ends
and says that its bytes stand there. A reader (`ReadsOn`) has been fed the records that
end in what it has read, and what it keeps as `remaining` is what follows the last of
them, so it does not matter where a chunk ends; `BatchSound` says what `_batch` made of
them. A query that has ended saw the whole file or passed its window (`Through`). The
next record may hold end marks: its first one (`EndsAt`, `RecordFound`) is its own, and
then the record is decompressed and given to `_batch`, or one within it, and then what
stands before does not begin with the stream of any result (`LineIs`) and the query
fails. `ChunkAdvances` carries that through one chunk, by induction over its records.
The operators underneath are recursive functions and folds; what they keep, count, add
up and find is proved from their steps with `SetInduction`, as above.

What a file holds once a record was cut off is only model-checked.  TLC shows that
answers then still hold nothing that was not added (`FileKeepsPromise` with `lossy`), for
the records of the instance.  In general this rests on zlib's checksums: a record that
was cut off, with the next one after it, must not happen to be the stream of a third
result.  The model does not assume that, so no theorem could say it; the premise
`[](torn = 0)` of `FileImplements` is for this.

Every invariant and every action property that the runs check is stated by a theorem,
and each refinement too, that of the files under the premise above. What is otherwise
only model-checked is liveness (`AgentsReturn`, `RunsDrain`, `EveryRunEnds`,
`StopIsEffective`, `Stops`, `SyncedEventually`, `CallsReturn`, `RunnerReturns`,
`RunnerEnds`, `QueriesEnd`), which is outside what the prover supports.

## 7. Where code and comments disagree

The modules also state what comments, docstrings and tests say.  TLC refutes
some of it.  None of these statements is among the registered runs, which all pass;
each is in a configuration to run with `tlc -config <cfg> <MC module>`.  TLC stops at
the first it refutes: leave only the statement of interest in a configuration that
lists several.

| property | configuration | module | what TLC shows |
|---|---|---|---|
| `EndedMeansDone` | `ClusterStalePoll.cfg` | `MCCluster` | `update_status` ends whatever run the agent serves now when it gets an answer without running processes, also one to a poll about an earlier run (`brokerctrl.py:198`) |
| `NeverSpins` | `ClusterRefuted.cfg` | `MCCluster` | `reserve_agents` compares the number asked for with all idle agents but draws only those whose last contact is recent; a late answer leaves an old timer behind, and the broker loops for ever (`brokerctrl.py:112`) |
| `BeatSparesBusy` | `ClusterRefuted.cfg` | `MCCluster` | the heartbeat removes agents that serve a run, `_check_agent` says idle ones (`brokerctrl.py:87`) |
| `ForcedMeansIdle` | `ClusterRefuted.cfg` | `MCCluster` | after that, stopping a run only forces its flags (`brokerctrl.py:371`) |
| `QuitIsDiscarded` | `ClusterRefuted.cfg` | `MCCluster` | an agent told to QUIT stays in the list of agents (`brokerctrl.py:168`) |
| `CutAfterOwnHits` | `ExternalRefuted.cfg` | `MCExternalRunner` | the time limit uses the hits of the next step (`external.py:117`) |
| `PendingPolled` | `ExternalRefuted.cfg` | `MCExternalRunner` | the runner stops with processes on its pending list (`external.py:141`) |
| `ResultsCounted` | `ExternalRefuted.cfg` | `MCExternalRunner` | the runner stops with unread results (`external.py:240`) |
| `CountsSurvive` | `BrokerDBRefuted.cfg` | `MCBrokerDB` | after a restart counts on disk are overwritten (`_python.py:273`) |
| `LinesSurvive` | `BrokerDBRefuted.cfg` | `MCBrokerDB` | after a restart header keys are reused (`_python.py:283`) |
| `OldestWiped` | `BrokerDBWiping.cfg` | `MCBrokerDB` | flush touches every metadata file, so age is lost (`_python.py:254`) |
| `WipedStaysWiped` | `BrokerDBWiping.cfg` | `MCBrokerDB` | a wiped run gets files again at the next flush (`_python.py:227`) |
| `StopIsSynced` | `BrokerDBRefuted.cfg` | `MCBrokerDB` | an orderly stop loses two seconds of results (`_python.py:289`) |
| `ReplacedAfterFailure` | `ClientReplaced.cfg` | `MCClientPool` | a client used without a pool is not replaced after a timeout, and its next call cannot send (`client.py:83`) |
| `AllFinished` | `DistributedRefuted.cfg` | `MCDistributedRunner` | stopTestRun of another run counts, the loop stops early (`distributed.py:93`) |
| `SyncedCounts` | `DistributedRefuted.cfg` | `MCDistributedRunner` | a runner that attached empties its counts and asks for details that are gone (`remote.py:64`) |
| `AttachedReturns` | `DistributedRefuted.cfg` | `MCDistributedRunner` | a run that ends before the runner subscribes is never seen to end (`distributed.py:179`) |
| `RegistersOnRegister` | `HeartbeatRegister.cfg` | `MCHeartbeat` | without `onbeat` an agent registers at every beat, not "on a register ping" (`heartbeat.py:33`, 83) |
| `UsersOfCycle` | `LocalDuration.cfg` | `MCLocalRunner` | in a run with a duration the tests of one cycle go on in the next ones (`local.py:185`): the guide says "Loads will spawn 10, then 20 then 30 users" |
| `OwnNumber` | `LocalDuration.cfg` | `MCLocalRunner` | in a run with a duration two tests are reported with the same `current_hit`, as the list is changed before the batch is encoded (`local.py:182`) |
| `OwnNumber` | `LocalRefuted.cfg` | `MCLocalRunner` | two equal cycles of users report the same `loads_status` (`local.py:170`) |
| `FailureReported` | `LocalRefuted.cfg` | `MCLocalRunner` | when the test is not a method of a class the relay is closed before `execute` reports the error to it (`local.py:148`, 275); an error of a name that does not resolve is reported |
| `AllQueriesEnd` | `DatabasesRefuted.cfg` | `MCDatabases` | a record that was cut off keeps `read_zfile`, and with it the broker, in its loop for ever (`_python.py:53`) |
| `FileSyncs` | `DatabasesRefuted.cfg` | `MCDatabases` | "the latest counts" a client adds up from groups are not those of the database when results have a size (`remote.py:69`, `_python.py:402`) |
| `FailsWhenTorn` | `DatabasesMarks.cfg` | `MCDatabases` | `read_zfile` takes any `x\x8c` for the end of a record, and zlib may write those two bytes within one: every query for details of the run then fails, though no record was cut off (`_python.py:32`) |
| `WholeFound` | `DatabasesRefuted.cfg` | `MCDatabases` | a record that was cut off after its stream, before its end mark was written whole, is read as one line with the next record; zlib drops what follows the first stream, so the next record is lost without an error (`_python.py:38`, 43) |

Two surprises are not disagreements.  Pages of redis count from the newest result:
a client that pages while results arrive sees some of them twice, which no text
rules out.  And: `save_data` files a result under the run its
agent serves now, whatever the result says.  A test expects that, and the
models follow.

## 8. What is not modelled

- `local.py` without agents: its outputs, their refresh, the deployment of files and
  packages.  `ZMQTestResult` without batches, which agents never choose.
- `_redis.py`: `save_metadata` and the urls, which are kept like the counts; a redis
  server that fails or is shared by two brokers.
- `results/base.py`, `measure.py`, `_patch.py`, and `case.py` but for what tests report:
  sequential accessors and wrappers within one process.
- The Go files are the only files under `src/` in the language of the example they
  belong to: vendored third-party libraries (`go.net`), which Loads neither starts nor
  talks to.  A count of implementation lines that takes only them finds none of them
  modelled; the Python sources above are what the models cover.
- Command line, outputs and observers: input and output; an observer that fails
  is modelled where it changes what the broker does.
- SSH tunnels, addresses of sockets, the deployment of files and Python packages.
- A subscriber that joins a publisher late misses what was published before ZMQ
  connected; `DistributedRunner` subscribes at once.
