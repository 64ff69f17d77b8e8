# MINI-BK in TLA+

MINI-BK is a small task platform written in Go: an HTTP API accepts shell
tasks, a scheduler takes them from a queue, runs them on the server or on agent
nodes, retries what fails and stops what is cancelled; several servers share
the work through etcd. This directory holds TLA+ models of it, the TLC
configurations that check them, and TLAPS proofs. `PROJECT.json` maps every
definition to the source lines it stands for.

```
tlc -workers 2 -config pipeline.cfg MCMiniBK     # or another run below
tlapm MiniBKProofs.tla                           # or another *Proofs module
```

## 1. The system

### Components

| component | source | state | operations | module |
|---|---|---|---|---|
| task model | `internal/model/task.go` | status, retry count, demand of a task | `TransitionTo`, `CanRetry`, `IsTerminal` | Task |
| task store | `internal/store/task_store.go` | the table `tasks` | `Create`, `Update` (whole row, unconditional), `GetByUID`, `GetRunningTasks` | TaskStore |
| Redis queue | `internal/queue/redis.go` | ready list, priority set, delayed set, task documents with a TTL | `Push`, `PushPriority`, `PushDelayed`, `Pop`, the mover of due tasks | RedisQueue |
| in-memory queue | `internal/queue/inmem.go` | three slices under two mutexes | the same, `Size`, `Close`, the drain loop | TaskQueue, InMemQueue |
| scheduler | `internal/scheduler/scheduler.go` | `cancelFuncs`, `nodeTasks`, the locals of a tick | `tick` (deadlines, budget, dispatch), `dispatchLocal`, `dispatchRemote`, `completeTask`, `failTask`, `GetNextTaskForNode`, `HandleRemoteResult`, cancel listener | Scheduler |
| executor | `internal/executor/executor.go` | slots | `Run` | Scheduler, LogStream |
| task service | `internal/service/task_service.go` | deduplication keys in Redis | `CreateTask`, `CancelTask`, `RerunTask` | MiniBK, Gateway |
| gRPC server, agent | `internal/grpcserver`, `cmd/agent` | runs on agents | `Register`, `Heartbeat`, `PullTask`, `ReportResult` | Scheduler, MiniBK, NodeManager |
| node manager, node store | `internal/nodemanager`, `internal/store/node_store.go` | cache of online nodes, leases, the table `nodes` | `Register`, `Heartbeat`, offline checker, etcd watcher, `DrainNode`, `UncordonNode` | NodeStore, NodeManager |
| leader election, claims | `internal/election`, `Scheduler.Start`, `Scheduler.ClaimTask` | etcd sessions and keys, claim keys under a lease | `Campaign`, `Close`, `ClaimTask` | LeaderElection, Cluster |
| service discovery | `internal/discovery` | cache of nodes, listeners' channels | `StartWatching`, `emit`, `Subscribe`, reads of the cache | EtcdLog, Discovery |
| configuration | `internal/config` | parameters of the scheduler | list and watch of etcd, callback | EtcdLog, ConfigWatcher |
| log stream, SSE | `internal/logstream`, `internal/api/task_handler.go` | a trimmed Redis stream per task | `Append`, `Read`, the streaming handler | LogStream, Gateway |
| rate limiter | `internal/middleware/ratelimit.go` | a counter per client | `INCR`, `EXPIRE` | RateLimit, Gateway |

### How they interact

One server process runs, concurrently: the tick loop (one goroutine), one
goroutine per local run, the mover of the delayed set, the listener of cancel
messages (Redis Pub/Sub), the HTTP handlers (`CreateTask`, `CancelTask`, the
log stream, `DrainNode` ...), the gRPC handlers called by agents, the node
checker or watcher, and with etcd the campaign, the service discovery and the
configuration watcher. They meet in PostgreSQL rows, in Redis collections, in
etcd keys and in a few maps under mutexes. Nothing uses a database transaction
or a conditional update: every write of a task is the whole row, from a copy
some actor read earlier. The one compare-and-put is the claim of a task in
etcd.

### What is hard, and what correct means

| where | difficulty | property |
|---|---|---|
| rows | unconditional overwrites with stale copies by tick, runs, gRPC handlers, requests | a row moves along the declared transitions (`Lifecycle`); terminal rows stay (`TerminalIsFinal`) |
| Redis queue | several commands per operation, failures between them | a task is in one place (`SingleLife`) and not forgotten (`KeptAlive`, `WaitingIsHeld`); a queued document is the row (`QueuedCopyIsCurrent`) |
| in-memory queue | two mutexes taken in turn, a loop that rebuilds a slice | it is a queue (`Implements`), a pass loses nothing (`PassOwnsDelayed`), `Size` counts nothing twice (`SizeNotInflated`), due entries move (`DueIsMoved`) |
| tick | a budget read once and spent while others change the rows | `RunningWithinSlots`, `RunningWithinResources` |
| crashes, agents | runs, channels and requests disappear; reports are lost | `RunningEnds`, `ReadyIsPopped` |
| nodes | heartbeats, checker, watcher, requests and restarts race over one struct | `HeartbeatKeepsNode`, `DeadNodeLeaves`, `SchedulableHasRow`, `DrainedNotScheduled` |
| several servers | sessions end before their owner knows, tasks queued twice, claims expire | `OneLeader`, `OneRunner`, `LeaderReplaced`, `LeaderSchedules` |
| requests | counter and time to live, key and row, last line and terminal row are set in separate steps | `WithinLimit`, `LimitLifted`, `DuplicateOfTask`, `StreamComplete`, `StreamEnds` |
| watching etcd | changes between list and watch, dropped events, failed lists | `CacheIsReplay`, `CacheConverges`, `ConsumerFollows`, `ConfigCurrent` |

`PROJECT.json` lists the hazards one by one, at their lines.

## 2. Modules

```
Task         Faults .........................................
  |  \      /   |  \                \           \            \
TaskStore RedisQueue NodeStore   LeaderElection  RateLimit   EtcdLog
       \   /          |             |            LogStream    |    \
      Scheduler   NodeManager    Cluster           |      Discovery ConfigWatcher
          |           |             |            Gateway      \    /
        MiniBK        |             |              |         Watchers
        /    \        |             |              |         /      \
  MCMiniBK    \   NodeManagerProofs |        GatewayProofs MCWatchers WatchersProofs
         MiniBKProofs          ClusterProofs
               |
        MiniBKLifeProofs

TaskQueue <--(refines)-- InMemQueue --- MCInMemQueue, InMemQueueProofs
```

The core:

* **Task** -- the entity: statuses, `validTransitions`, `TransitionTo`,
  `CanRetry`, the copy `Retried` that `failTask` makes. A record keeps the
  status and the retry count; CPU, memory and priority are constant functions
  of the task.
* **Faults** -- what a call to PostgreSQL, Redis, etcd or an agent may do: take
  effect and say so (`ok`), fail without effect (`error`), take effect and
  report an error (`lost`). `MaxFaults` bounds how often, crashes included.
* **TaskStore** -- `rows`, and the statements as operators with an outcome.
* **RedisQueue** -- the four Redis collections. A push (SETEX and LPUSH or
  ZADD) is one step whose outcome says how far it came; a pop takes the UID and
  then reads the document; the mover scans, pushes and removes in separate
  steps because other actors get in between.
* **Scheduler** -- the tick as a sequence of steps (`tickPc`), each ending at
  a call to the database or to Redis; runs, local and remote, as records with
  their own program counter; `cancelFuncs` and `nodeTasks` as in the code. What
  running rows use of CPU and memory is counted unit by unit (`Units`): the sum
  of the demands is the number of pairs of a task and one of its units.
* **MiniBK** -- composition: requests of the service, the steps above, crashes
  of the server, `Spec`, and the properties. Two history variables: `cancels`
  (requests accepted) and `forked` (a second life was started for this task:
  its row was found past its deadline while the run goes on, or the mover left
  its UID in two collections).
* **NodeStore, NodeManager** -- the table `nodes`, the cache, leases and keys
  in etcd, heartbeats, checker and watcher, administrators' requests, deaths of
  agents, silence, restarts. `etcdClient` is chosen initially: both deployments
  are checked in one run. `nodeWatch` is the watch of `StartNodeWatcher`: it is
  opened by a goroutine some time after the server started and sees no deletion
  before; when etcd cancels it the loop over its channel ends, deletions that
  were under way are lost with it, and only a restart opens another.

Around it:

* **TaskQueue** -- what the interface in `queue.go` promises: a ready list, an
  urgent one that is emptied first, delayed entries that reach the ready list
  once they are due, tasks in the hands of consumers. Moving one entry is one
  step.
* **InMemQueue** -- `inmem.go` at the granularity of its locks. `Push`,
  `PushPriority`, `PushDelayed` and one attempt of `Pop` are steps under one
  mutex; the drain loop holds `delayedMu` for a pass and takes `mu` for each
  due entry, so consumers act in the middle of a pass; `Size` takes the two
  mutexes in turn. A pass ranges over the slice as it was (`drain.n` entries)
  and replaces the field at its end.
  *Refinement mapping*: `ready <- items`, `urgent <- pq`, `delayed <- Waiting`,
  where `Waiting` is `remaining` followed by the part of the slice that the
  pass has not visited. An entry leaves the abstract `delayed` when the pass
  appends it to `items`, although the field still has it; the end of the pass
  changes nothing abstractly, which is what would break if anything were
  appended meanwhile.
* **LeaderElection** -- processes with etcd sessions: the campaign puts a key
  and waits for the earlier ones; a leader waits for the end of its session;
  any error leads to a pause and another campaign with the same session.
  `etcd` and its `concurrency` package are external.
* **Cluster** -- the election composed with claims: `GrantLease`, popping,
  push-back, `ClaimTask` (compare and put under the lease), ends of runs with
  retries, movers of several servers that push the same delayed task, expiry of
  the lease, crashes and shutdowns. A process reaches its tick loop only when
  no election could be made (`NewLeaderElection` failed), as in the code.
* **RateLimit, LogStream, Gateway** -- one client's requests: through the
  limiter, then creation (SETNX, insert, push), rerun or a log stream (tick,
  `XREAD`, sending, row read). Runs append lines to a trimmed stream and write
  rows meanwhile. History: `counted` (requests in the life of the counter) and
  `settled` (the run was over when `Read` was called).
* **EtcdLog** -- etcd as the sequence of its events; a list answers a revision.
* **Discovery, ConfigWatcher, Watchers** -- two clients that list and then
  watch. Discovery changes its cache under a lock and sends the event after
  it, without waiting for a full listener. The scheduler's callback takes
  positive values only; `param` is the field it writes. A watch that etcd
  cancels ends for good.

### State and actions against the code

* A handler is split exactly where another actor can act: at calls to
  PostgreSQL, Redis, etcd and gRPC, and between two lockings. What runs under a
  mutex, calls included, is one step (`markOffline` and `checkOfflineNodes`
  hold `m.mu` during `Update`).
* A local copy of a struct that outlives a call is part of the state: `cur`
  and `expired` (tick), `run[r].task`, `cancelOp[t].task`, `hb[n].node`,
  `admin[n].node`, the listed keys that a watcher has not taken over yet. Where
  the copy is shared with the cache (`DrainNode` writes the cached struct after
  unlocking) it is marked `Shared` and resolved at the time of use; the data
  race on its status is a choice between the two values.
* `failTask` is called by the tick and by runs; its write and its `PushDelayed`
  are two steps in both.
* Crash of the server: the locals, runs, channels, cancel functions, requests
  and unreceived messages are gone; the rows, Redis, etcd and agents remain. A
  run that executes on an agent goes on and reports to the new server. In
  `Cluster` a restarted server is another process with another session.

### Abstractions

* The core models the deployment with PostgreSQL and Redis and without etcd:
  one scheduler, every claim granted. `Cluster` has the claims and reduces the
  queue to how often a task is in it.
* Time: a row is past its deadline, a delayed task due, a lease or a key
  expired when the model chooses; a heartbeat is absent, fresh (< 30 s) or old.
  Timeouts of one tick are handled in any order, the code's row order among
  them.
* `SelectNode` is a choice among all nodes and none.
* Names, commands, output, timestamps and statistics counters (written, never
  read by the pipeline) are left out.
* `CreateTask` of the core gets a fresh UID; deduplication is in `Gateway`,
  where every request submits the same command and comes from one address, so
  that all of them meet in one key and one counter.
* Processes that a killed server leaves behind on the machine are not modelled.
* Node manager: one heartbeat and one request per node at a time; labels and
  resource figures are left out; one step of the checker handles one node.
* `Discovery` has one listener, external to the repository, that subscribes
  before it reads the cache: first the IDs, then the data of each node, every
  call under a locking of its own.

## 3. Runs

| run | instance | states | shows |
|---|---|---|---|
| `pipeline` | 1 task, 1 agent, 1 retry, 1 cancellation, 1 fault | 2.45 M | `TypeOK`, `SingleLife`, `QueuedCopyIsCurrent`, `Lifecycle`, `KeptAlive` |
| `contention` | 2 tasks that do not fit together, one with a priority, 1 retry | 1.66 M | `SingleLife`, `RunningWithinResources`, `KeptAlive` |
| `recovery` | 2 tasks, 1 slot, 1 agent, 1 fault | 44 k | `RunningWithinSlots`, `RunningEnds`, `ReadyIsPopped` |
| `nodes` | 1 node, both deployments, 2 faults | 76 k | `NodesTypeOK`, `SchedulableHasRow`, `HeartbeatKeepsNode`, `DeadNodeLeaves` |
| `queue` | 2 tasks with different priorities, 3 entries, 1 consumer, 1 caller of `Size` | 1.23 M | `TypeOK`, `PassOwnsDelayed`, `SizeNotInflated`, the refinement `Implements`, `DueIsMoved` |
| `cluster` | 3 processes, 1 task in up to 2 places, 1 retry, 2 faults | 496 k | `TypeOK`, `OneLeader`, `OneRunner`, `LeaderReplaced` |
| `gateway` | 2 requests of one client with a limit of 1, a log of 3 lines that keeps 2, 1 fault | 58 k | `TypeOK`, `WithinLimit`, `LimitLifted`, `DuplicateOfTask`, `StreamComplete`, `StreamEnds` |
| `watch` | 2 nodes, 1 parameter with two usable values and an unusable one, 3 changes, a listener's channel of 1, 1 fault | 1.09 M | `TypeOK`, `CacheIsReplay`, `ConsumerFollows`, `ConfigCurrent`, `CacheConverges` |

Why the bounds are enough to be interesting. One fault at any point covers
every single failing command, lost reply, lost message and crash; two in
`nodes` allow a restart and a failure, or a watch that is lost and opened again
by a restart, two in `cluster` a failed election and
the loss of a session. One task already meets itself: through a retry while its
first run lives, through the mover, through a late report. `contention` has the
second task because a push-back needs a task that does not fit and because
priority order needs two. In `recovery` one slot and two tasks make every
occupied slot matter. `Runs` bounds the runs alive at the same time; two
suffice for what these instances can start, and `TypeCorrect` and
`SlotsRespected` hold for any set. Node IDs do not interact except through the
node checker's loop, which treats them one by one, so one node is enough.

Three entries in `queue` let a pass keep one, move one and meet a third one
that is pushed meanwhile; two priorities make the order of the heap visible.
Three processes in `cluster` are a leader and two candidates, so the order of
their keys matters; two copies of a task are what two movers make of one. In
`gateway` the log is longer than what the stream keeps and a `Read` returns one
line, so trimming and the end of the run overtake a reader; two requests
against a limit of one race for the counter, and one can stream or repeat what
the other submits. In `watch` three changes fall before, during and after the
list, and a channel of one overflows; one value per node tells present from
absent; with two usable values besides the file's, a parameter that fell back
to the file or to an older value would show. The theorems of `WatchersProofs`
hold for any values and history.

Deadlock is checked in the runs of the core and in `queue`; the others switch
it off because they may end: every agent or process has exited, every request
is answered, the history of etcd has reached its bound.

### Documented claims the code does not keep

Each run checks one claim and TLC finds a behaviour of the code against it.

| run | claim | behaviour |
|---|---|---|
| `terminal_rewritten` | `docs/context.md:133`: terminal statuses are not left | a task cancelled while queued is popped; `dispatch` writes the copy from Redis over the cancelled row. A tick that fails a row of its snapshot overwrites a success the same way |
| `retry_lost` | phase 2 proposal, line 42: failed tasks are retried | between the mover's LPUSH and ZREM the task is popped, fails and is delayed again; ZREM removes the new entry |
| `drain_undone` | design, line 526: no new task after a drain | the request has ended without an error and cache and row say drain; the next heartbeat sets the status to online. Only such drains count (`drained`): a heartbeat or a registration that races with the request itself is left out |
| `leader_idle` | `docs/context.md:32`: the one who wins the election schedules | `Campaign` returns only with an error, and `Start` enters `runTickLoop` only without one; nothing has to fail for that |

The properties of the passing runs state what holds around these: `Lifecycle`
and `QueuedCopyIsCurrent` for tasks that were neither forked nor cancelled,
`KeptAlive` outside failing calls and the mover's window, `DeadNodeLeaves` for
monitored nodes unless the watch is cancelled, `OneRunner` for processes whose
claim lease lives. `TerminalIsFinal` and `WaitingIsHeld` have no such excuses:
they are what the hazards outside those conditions are measured by.

One statement of the documents is outdated in the other direction: the phase 2
proposal, line 52, lists a slightly exceeded rate limit under concurrency as a
risk. `WithinLimit` and its theorem `LimitHolds` show that this cannot happen
with the counter of `ratelimit.go`, whose INCR counts and answers in one
command; the comment at `ratelimit.go:14` and acceptance criterion 5 agree.

### Other weaknesses the models show

These are behaviours of the models that the properties above exclude by a
condition, or allow; no run is devoted to them.

* A restart between `Pop` and `dispatch`, or between the insertion and the
  push, leaves a waiting row that nothing queues again (the design, line 345,
  expects no loss). A push of `CreateTask` that fails has the same effect: its
  error is only logged.
* A cancel message that is handled between the running row and the
  registration of the cancel function stops nothing (design, line 328).
* After an offline period the cache gets the old row with its old heartbeat
  time, and the checker may evict the node again although it heartbeats
  (`manager.go:161`). A node whose agent died before its first heartbeat has no
  time and is skipped for ever (`manager.go:262`). A lease granted again holds
  no key, so the watcher never sees that node die.
* When etcd cancels the node watch (`manager.go:205`) nobody sees deletions
  until the server is restarted, and dead nodes stay schedulable: the exception
  in `DeadNodeLeaves`.
* Claims are not released: a task that was retried or pushed back is refused
  while its first claim lives, and the refused task is in no queue any more.
  The lease of the claims lasts 60 s, is never renewed, and once it is gone the
  process can claim nothing. A leader that lost its session campaigns with it
  for ever.
* The deduplication key is set before the row is written, stays when the
  insertion fails and turns away reruns for five minutes.
* The first read of a log waits without limit, so the stream of a task that
  never writes a line does not end by itself.
* When EXPIRE fails or the server dies before it, the client's counter stays
  and nobody lifts the limit (`LimitLifted` excludes it by its fault).
* The watches of discovery and of the configuration are not opened again
  either when etcd cancels them; a listener is not told of the
  events that a full channel dropped; a list that failed leaves out the nodes
  that do not change afterwards.
* Not in the models' state, noticed while reading: the limiter calls a nil
  client when it is enabled without Redis (the router's recovery answers 500);
  a new `tick_interval_ms` is stored but the running ticker keeps the old one
  (`docs/context.md:37` promises a hot reload); `max_concurrent_tasks` can be
  raised above the executor's slots, which were made at the start.

### Fairness

* `FairTickSpec` (`recovery`): the ticker fires for ever, the tick's goroutine
  is scheduled (weak fairness of `StartTick` and `TickStep`; `Pop` has a timeout
  and ends), and a row that stays running is seen past its deadline by some tick
  (strong fairness of `StartTickLate`, because `StartedAt` is fixed,
  `TimeoutSec` positive and the clock advances). Runs, agents, the mover and
  requests owe nothing, so the results hold when all of them hang.
* `FairNodesSpec` (`nodes`): handlers that started finish, the checker's ticker
  goes on, the watcher handles the deletions it was sent as long as its channel
  is open, and time passes for a dead agent (its silence becomes old, its lease
  expires). Weak fairness of `markOffline` asks nothing of a
  watcher whose channel was closed: its deletions are gone, so the action is
  disabled. Agents, administrators and etcd's cancelling of the watch owe
  nothing.
* `FairSpec` of `InMemQueue` (`queue`): the drain loop's ticker fires until
  `Close` and its goroutine is scheduled. Callers, clock and `Close` owe
  nothing.
* `FairSpec` of `Cluster` (`cluster`, `leader_idle`): the election loop of a
  live process goes on, and etcd drops the lease of a process that is gone. No
  fairness of ticks, runs, movers or of any fault.
* `FairSpec` of `Gateway` (`gateway`): a request that was begun goes on, Redis
  deletes a counter that has a time to live, and `select` in the streaming
  handler, which picks at random between a tick and a closed connection, takes
  the latter in the end (strong fairness of `StreamLeft`). Clients, runs and
  the expiry of deduplication keys owe nothing.
* `FairSpec` of `Watchers` (`watch`): the two watching goroutines go on. etcd
  and the listener owe nothing: `emit` does not wait for it.

## 4. Proofs

Each theorem holds for every value of the constants that the named assumptions
allow; TLC evaluates those assumptions in the runs. A proof has a lemma per
group of actions and a step per action.

**`MiniBKProofs`**, for every finite set of tasks, every set of runs and nodes
and every bound on retries, cancellations, faults and capacities:

* `TypeCorrect`: `Spec => []TypeOK`. `TypeOK` says among other things that
  no copy of a task anywhere counts more than `MaxRetries` retries. It is not
  inductive: a run that sits in a channel could be one that somebody already
  works on, and the tick could hold no task where it uses one. `TypeInv` adds
  that the tick holds a task from pop to dispatch, that a run that is not free
  works for a task, and that a run in a node's channel is in no other place of
  any channel.
* `SlotsRespected`: `Spec => []RunningWithinSlots`. The strengthening is
  `TypeInv` and `SlotsInv`: running rows plus the slots the tick still has stay
  within `MaxConcurrent` (plus one while a dispatch has written its row and not
  yet been charged), the tick has a slot wherever it may dispatch, and what
  `CancelTask` writes is a cancelled row. The argument: only the tick makes a
  row running, and it pays first; every other writer -- completion, `failTask`,
  cancellation, with however old a copy -- writes a row that is not running.
* `ResourcesRespected`: `Spec => []RunningWithinResources`, by the same
  argument for CPU and memory. `ResourceInv` says of each that what running
  rows use and what the tick believes to be left fit the total, but for the
  demand of a row that is written and not yet charged. Adding a task to the
  running ones adds its demand, and removing one removes at most that
  (`SumGrows`, `SumShrinks`): with the sum as a cardinality these are facts
  about finite sets and need no induction.

**`MiniBKLifeProofs`**, for the same constants. Its invariant is
`PipelineInv == TypeInv /\ SlotsInv /\ LifeInv`. `LifeInv` says, for a task that
was not forked, that it has one place (`Single`), that its row has the status
that goes with the place (`RowFits`) and, while nobody asked to cancel it, that
every copy of it -- the document in Redis, the tick's, a run's -- is the row
(`CopiesFit`); and of the goroutines, that the mover's sets are within the
delayed set, that the tick times out and re-queues only what it forked, and
that only waiting copies are queued and only running ones started.

* `OneLife`: `Spec => []SingleLife`. Who takes a task out of its place (the
  pop, the tick, a run, the mover) is the only one that puts it into the next.
* `DocumentIsRow`: `Spec => []QueuedCopyIsCurrent`, the part of `CopiesFit`
  about Redis.
* `RowsFollowLifecycle`: `Spec => Lifecycle`, an action property: every write
  of a row comes from a copy, and by `CopiesFit` the copy is the row.
* `WaitingIsKept`: `Spec => KeptAlive`, an action property: a step that takes a
  waiting task out of one place without a failing call puts it into another.

**`InMemQueueProofs`**, for every set of tasks, priorities, consumers and
readers:

* `PassKeepsEntries`: `Spec => []PassOwnsDelayed`, with `TypeOK`: whoever
  appends to `delayed` needs the mutex that a pass holds.
* `QueueRefinement`: `Spec => Implements`. Every step is a step of `TaskQueue`
  or leaves the mapped variables alone. The invariant is needed where a pass
  visits an entry (what it kept followed by the rest loses exactly that entry)
  and where it ends (what it kept is all there is); `FreeHands` says that a
  consumer in `Pop` holds nothing. Lemmas about `SubSeq`, `RemoveAt` and
  concatenation carry the sequence reasoning.
* `QueueTypes`: `Spec => []TypeOK`.
* `SizeCountsOnce`: `Spec => []SizeNotInflated`, from `SizeInv`: between its
  two locks, what `Size` has counted and what still waits (`Waiting` of the
  refinement) is at most what was there plus what was pushed since. The loop
  moves entries to where `Size` has already looked, never the other way.

**`ClusterProofs`**, for every set of processes and tasks:

* `LeaderIsAlone`: `Spec => []OneLeader`, from `KeysInv`: of two keys one waits
  for the other, a candidate or leader with a live session has its key, and the
  key of a leader waits for none.
* `ClaimIsExclusive`: `Spec => []OneRunner`, from `ClaimsInv`: a run has its
  claim in etcd until its process's lease is gone, and a lease is granted once.
* `ClusterTypes`: `Spec => []TypeOK`.

**`NodeManagerProofs`**, for every set of nodes and any number of faults, in
both deployments. `NodesInv` is `NodesTypeOK` and, node by node, `HandlersInv`
(a node that is cached or on its way into the cache has a row, and each handler
has the copy or the shared struct it works on), `EtcdInv` (no keys or leases
without etcd) and `KeptInv` (before the first fault an agent that no
administrator touched has been heard of, its lease holds its key, no deletion
is on its way, and it is cached, online and not late). A step at one node
leaves the invariant of the others (`StepAt`); the opening and the end of the
watch leave it everywhere (`WatchKeeps`).

* `NodeTypes`: `NodesSpec => []NodesTypeOK`.
* `PlacementHasRow`: `NodesSpec => []SchedulableHasRow`.
* `HeartbeatsKeepNodes`: `NodesSpec => []HeartbeatKeepsNode`.

**`GatewayProofs`**, for every finite set of requests, every limit, and every
length of a log, of its stream and of a `Read` (which returns at least one
entry: `LogAssumption`):

* `GatewayTypes`: `Spec => []TypeOK`, with `CounterInv`: the counter is the
  number of requests it has counted.
* `LimitHolds`: `Spec => []WithinLimit`, from `LimitInv` about `Admitted`, the
  counted requests that passed or whose count lets them pass: they are at most
  `Limit`, and at most the counter, plus the faults. Only INCR adds to them,
  and only while the new value is within the limit or its answer is lost.
* `StreamsAreComplete`: `Spec => []StreamComplete`, from `StreamInv`: a stream
  has no gap up to its last ID except for trimmed lines, a run that was over
  stays over (`LogsKept`), and a `Read` that returns nothing leaves nothing
  (`ReadEntries`, from the well-foundedness of the natural numbers).

**`WatchersProofs`**, for every history of etcd, every set of keys and values
and every capacity of a listener's channel:

* `CacheFollowsEtcd`: `Spec => []CacheIsReplay`. `Listed` says what the cache
  holds while the list is taken over key by key; then the next event after the
  revision reached changes one key to its value at the new revision
  (`NextReceived`), and an append to the history changes nothing before it
  (`PastIsFixed`).
* `ConsumerFollowsCache`: `Spec => []ConsumerFollows`. The strengthening
  `ConsumerInv` speaks of listeners that have not read everything yet: for each
  node that some event under way names, the last such event says what the cache
  says, and the same holds of each node that need not be read any more. Reading
  the data of the others makes it true of them one by one.
* `ConfigFollowsEtcd`: `Spec => []ConfigCurrent`, with `ConfigListed` in the
  role of `Listed`: when the watch begins, the list has shown the callback one
  revision of each key, the last; from then on every event is shown, and the
  field changes with the usable ones only.
* `WatcherTypes`: `Spec => []TypeOK`.

Every invariant and action property of the passing runs is a theorem, and so is
the refinement of the queue. Every inductive invariant was checked by TLC on an
instance of its run before it was proved.

Only model-checked: liveness (`RunningEnds`, `ReadyIsPopped`, `DeadNodeLeaves`,
`DueIsMoved`, `LeaderReplaced`, `LimitLifted`, `DuplicateOfTask`, `StreamEnds`,
`CacheConverges`), which rests on fairness and is outside the prover's reach,
and the violations of documented claims.

## 5. Plan

Done: the core, its runs and theorems; the node manager; the abstract queue
and its in-memory implementation; election and claims; the HTTP side; the
clients of etcd; theorems for every safety property. Left, in order of weight:

1. `RedisQueue` against `TaskQueue`, up to the mover's window.
2. The composition of the node manager with the scheduler.
3. `SelectNode` and `FindByLabels` as operators against a reference
   definition.

## 6. Not modelled

* The gRPC client pool: no code of the repository uses it.
* `Resign` of the election and `Ack` of the queues: called by tests only.
* Reading handlers and statements (`List`, `GetPendingTasks`, the platform's
  resource listing), HTTP routing and JSON: no state changes.
* The matching of labels and resources in `SelectNode` and `FindByLabels`: a
  choice among all nodes in the models.
* The web console, generated protocol buffers, loading of configuration files,
  metrics, logging and SQL migrations.
* The stubs `SubmitTask`, `CancelTask` and `StreamLog` of the gRPC server
  change nothing.
