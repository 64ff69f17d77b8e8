----------------------------- MODULE Scheduler -----------------------------
(***************************************************************************)
(* The scheduler of internal/scheduler/scheduler.go in the deployment      *)
(* without etcd (one scheduler, every claim granted), the local executor   *)
(* it drives (internal/executor/executor.go) and the channels from which   *)
(* remote agents pull.  One goroutine runs tick; each dispatched task has  *)
(* a goroutine or a remote agent working on it, called a run here; the     *)
(* Pub/Sub listener cancels runs.  They share only the database, the queue *)
(* and the maps cancelFuncs and nodeTasks.                                 *)
(*                                                                         *)
(* SelectNode is a choice among all nodes and "no node" (NoNode), which is *)
(* what node labels, heartbeats and load can make of it.                   *)
(***************************************************************************)
EXTENDS TaskStore, RedisQueue, FiniteSets

CONSTANTS
    Runs,           \* identities of live runs; bounds how many exist at once
    NoRun,
    Nodes,          \* nodes with a registered agent
    NoNode,
    MaxConcurrent,  \* scheduler.max_concurrent_tasks
    TotalCPU,       \* runtime.NumCPU()
    TotalMemory,    \* 8192
    NodeQueueCap    \* capacity of a node's channel, 10 in the code

ASSUME TasksAssumption == IsFiniteSet(Tasks)
ASSUME RunsAssumption == NoRun \notin Runs
ASSUME NodesAssumption == NoNode \notin Nodes
ASSUME CapacityAssumption ==
    /\ MaxConcurrent \in Nat \ {0}
    /\ TotalCPU \in Nat
    /\ TotalMemory \in Nat
    /\ NodeQueueCap \in Nat \ {0}

VARIABLES
    tickPc,       \* where the tick goroutine is
    expired,      \* rows found past their deadline, still to be failed
    slots,        \* availableSlots of the current tick
    cpu,          \* availableCPU
    mem,          \* availableMem
    cur,          \* the task struct the tick holds
    run,          \* the runs
    cancelFuncs,  \* task UID -> the run its cancel function stops
    nodeTasks     \* node -> channel of the runs its agent may pull

tickVars == <<tickPc, expired, slots, cpu, mem, cur>>
runVars == <<run, cancelFuncs, nodeTasks>>

Expired == [uid : Tasks, task : TaskRecord]

NoCur == [uid |-> NoTask, task |-> Absent, node |-> NoNode]
Cur == [uid : Tasks, task : TaskRecord, node : Nodes \cup {NoNode}]

\* A local run waits for an executor slot ("slot"), executes ("exec"), holds
\* a result ("ok", "err"), re-queues ("push") and leaves cancelFuncs
\* ("unreg").  A remote run sits in the channel ("chan"), executes on the
\* agent ("agent"), travels back ("rok", "rerr") and is then completed by the
\* gRPC handler, which has read the row ("gok", "gerr") and goes on like a
\* local run ("ok", "err", "push").
LocalPc == {"slot", "exec", "unreg"}
AgentPc == {"agent", "rok", "rerr"}
RunPc == LocalPc \cup AgentPc \cup {"free", "chan", "gok", "gerr", "ok", "err", "push"}

Run == [pc : RunPc, uid : Tasks \cup {NoTask}, task : TaskRecord \cup {Absent},
        cancelled : BOOLEAN, remote : BOOLEAN]
FreeRun == [pc |-> "free", uid |-> NoTask, task |-> Absent,
            cancelled |-> FALSE, remote |-> FALSE]

\* cpu and mem are what sums over rows leave; that they are natural numbers is
\* part of ResourceInv of MiniBKProofs.
SchedulerTypeOK ==
    /\ tickPc \in {"idle", "check", "requeue", "pop", "brpop", "alloc", "spawn"}
    /\ expired \subseteq Expired
    /\ slots \in 0 .. MaxConcurrent
    /\ cur \in Cur \cup {NoCur}
    /\ run \in [Runs -> Run]
    /\ cancelFuncs \in [Tasks -> Runs \cup {NoRun}]
    /\ nodeTasks \in [Nodes -> Seq(Runs)]

SchedulerInit ==
    /\ tickPc = "idle"
    /\ expired = {}
    /\ slots = 0 /\ cpu = 0 /\ mem = 0
    /\ cur = NoCur
    /\ run = [r \in Runs |-> FreeRun]
    /\ cancelFuncs = [t \in Tasks |-> NoRun]
    /\ nodeTasks = [n \in Nodes |-> <<>>]

-----------------------------------------------------------------------------
(***************************************************************************)
(* failTask, shared by the tick and by the completion of a run: its single *)
(* write to the database.  A copy that may be retried becomes pending,     *)
(* whatever its status was; one that may not must be running to become     *)
(* failed, and is dropped otherwise.  WillRequeue says that PushDelayed    *)
(* follows.                                                                *)
(***************************************************************************)
FailedCopy(task) ==
    IF CanRetry(task) THEN Retried(task) ELSE TransitionTo(task, "failed")

failTask(t, task, outcome) ==
    IF CanRetry(task) \/ CanTransition(task, "failed")
      THEN Update(t, FailedCopy(task), outcome)
      ELSE outcome = "ok" /\ UNCHANGED <<rows, faults>>

\* Mutant: the retry is recorded and never queued.
WillRequeueNever(task, outcome) == FALSE

WillRequeue(task, outcome) == CanRetry(task) /\ outcome = "ok"

-----------------------------------------------------------------------------
(***************************************************************************)
(* The tick.                                                               *)
(***************************************************************************)
\* The sum of the demands of the tasks in S, counted unit by unit.
Units(demand, S) == UNION {{t} \X (1 .. demand[t]) : t \in S}
SumOver(demand, S) == Cardinality(Units(demand, S))

EndTick ==
    /\ tickPc' = "idle"
    /\ slots' = 0 /\ cpu' = 0 /\ mem' = 0
    /\ cur' = NoCur
    /\ UNCHANGED expired

\* Mutant: deadlines are not checked.
TickStartNoDeadline(late) ==
    /\ tickPc = "idle"
    /\ late = {}
    /\ slots' = IF Cardinality(GetRunningTasks) < MaxConcurrent
                  THEN MaxConcurrent - Cardinality(GetRunningTasks) ELSE 0
    /\ cpu' = TotalCPU - SumOver(CPULimit, GetRunningTasks)
    /\ mem' = TotalMemory - SumOver(MemoryLimit, GetRunningTasks)
    /\ tickPc' = "check"
    /\ UNCHANGED <<expired, rows, queueVars, moverVars, faults, cur, runVars>>

\* One reading of the running rows gives the resources left and, with one
\* reading of the clock, the rows that are past their deadline.  A reading
\* that fails ends the tick before it did anything.
TickStart(late) ==
    /\ tickPc = "idle"
    /\ late \subseteq GetRunningTasks
    /\ expired' = {[uid |-> t, task |-> rows[t]] : t \in late}
    /\ slots' = IF Cardinality(GetRunningTasks) < MaxConcurrent
                  THEN MaxConcurrent - Cardinality(GetRunningTasks) ELSE 0
    /\ cpu' = TotalCPU - SumOver(CPULimit, GetRunningTasks)
    /\ mem' = TotalMemory - SumOver(MemoryLimit, GetRunningTasks)
    /\ tickPc' = "check"
    /\ UNCHANGED <<rows, queueVars, moverVars, faults, cur, runVars>>

TickTimeout(e) ==
    /\ tickPc = "check"
    /\ e \in expired
    /\ expired' = expired \ {e}
    /\ \E outcome \in Outcomes :
         /\ failTask(e.uid, e.task, outcome)
         /\ IF WillRequeue(e.task, outcome)
              THEN /\ tickPc' = "requeue"
                   /\ cur' = [uid |-> e.uid, task |-> Retried(e.task),
                              node |-> NoNode]
              ELSE UNCHANGED <<tickPc, cur>>
    /\ UNCHANGED <<slots, cpu, mem, queueVars, moverVars, runVars>>

TickRequeue ==
    /\ tickPc = "requeue"
    /\ \E outcome \in Outcomes : PushDelayed(cur.uid, cur.task, outcome)
    /\ tickPc' = "check"
    /\ cur' = NoCur
    /\ UNCHANGED <<rows, moverVars, expired, slots, cpu, mem, runVars>>

\* Mutant: the last free slot is never used.
TickAllocateOffByOne ==
    /\ tickPc = "check"
    /\ expired = {}
    /\ IF slots > 1
         THEN tickPc' = "pop" /\ UNCHANGED <<expired, slots, cpu, mem, cur>>
         ELSE EndTick
    /\ UNCHANGED <<rows, queueVars, moverVars, faults, runVars>>

TickAllocate ==
    /\ tickPc = "check"
    /\ expired = {}
    /\ IF slots > 0
         THEN tickPc' = "pop" /\ UNCHANGED <<expired, slots, cpu, mem, cur>>
         ELSE EndTick
    /\ UNCHANGED <<rows, queueVars, moverVars, faults, runVars>>

\* The UID t has been popped; its document is read.  A missing document or a
\* failed command ends the loop, and nothing puts t back.
Popped(t) ==
    \/ /\ getTask(t) # Absent
       /\ tickPc' = "alloc"
       /\ cur' = [uid |-> t, task |-> getTask(t), node |-> NoNode]
       /\ UNCHANGED <<expired, slots, cpu, mem, faults>>
    \/ /\ getTask(t) = Absent
       /\ EndTick
       /\ UNCHANGED faults
    \/ /\ getTask(t) # Absent
       /\ Fault
       /\ EndTick

TickPopPriority ==
    /\ tickPc = "pop"
    /\ \/ \E t \in Tasks : PopPriority(t) /\ Popped(t)
       \/ /\ prioritySet = {}
          /\ tickPc' = "brpop"
          /\ UNCHANGED <<expired, slots, cpu, mem, cur, queueVars, faults>>
       \/ Fault /\ EndTick /\ UNCHANGED queueVars
    /\ UNCHANGED <<rows, moverVars, runVars>>

TickPopPending ==
    /\ tickPc = "brpop"
    /\ \/ \E t \in Tasks : PopPending(t) /\ Popped(t)
       \/ pendingList = <<>> /\ EndTick /\ UNCHANGED <<queueVars, faults>>
       \/ Fault /\ EndTick /\ UNCHANGED queueVars
    /\ UNCHANGED <<rows, moverVars, runVars>>

canAllocate(t) ==
    /\ CPULimit[t] > 0 => CPULimit[t] <= cpu
    /\ MemoryLimit[t] > 0 => MemoryLimit[t] <= mem

\* Mutant: a task that does not fit is dropped.
TickPushBackDrops ==
    /\ tickPc = "alloc"
    /\ ~canAllocate(cur.uid)
    /\ tickPc' = "pop"
    /\ cur' = NoCur
    /\ UNCHANGED <<rows, queueVars, moverVars, faults, expired, slots, cpu, mem,
                   runVars>>

TickPushBack ==
    /\ tickPc = "alloc"
    /\ ~canAllocate(cur.uid)
    /\ \E outcome \in Outcomes : PushDelayed(cur.uid, cur.task, outcome)
    /\ tickPc' = "pop"
    /\ cur' = NoCur
    /\ UNCHANGED <<rows, moverVars, expired, slots, cpu, mem, runVars>>

-----------------------------------------------------------------------------
(***************************************************************************)
(* dispatch.  The copy that was popped is written over the row; the row is *)
(* not read.  The tick charges the task to its budget however dispatch     *)
(* returned.                                                               *)
(***************************************************************************)
\* Mutant: the dispatched task is not charged to the tick's budget.
DispatchReturnsUncharged ==
    /\ tickPc' = "pop"
    /\ cur' = NoCur
    /\ UNCHANGED <<expired, slots, cpu, mem>>

DispatchReturns ==
    IF slots > 1
      THEN /\ tickPc' = "pop"
           /\ slots' = slots - 1
           /\ cpu' = cpu - CPULimit[cur.uid]
           /\ mem' = mem - MemoryLimit[cur.uid]
           /\ cur' = NoCur
           /\ UNCHANGED expired
      ELSE EndTick

DispatchPending ==
    /\ tickPc = "alloc"
    /\ canAllocate(cur.uid)
    /\ cur.task.status = "created"
    /\ LET task == TransitionTo(cur.task, "pending") IN
       \E outcome \in Outcomes :
         /\ Update(cur.uid, task, outcome)
         /\ IF outcome = "ok"
              THEN /\ cur' = [cur EXCEPT !.task = task]
                   /\ UNCHANGED <<tickPc, expired, slots, cpu, mem>>
              ELSE DispatchReturns
    /\ UNCHANGED <<queueVars, moverVars, runVars>>

\* The first half of dispatchLocal (node = NoNode) and dispatchRemote.
DispatchRunning(node) ==
    /\ tickPc = "alloc"
    /\ canAllocate(cur.uid)
    /\ cur.task.status # "created"
    /\ IF CanTransition(cur.task, "running")
         THEN LET task == TransitionTo(cur.task, "running") IN
              \E outcome \in Outcomes :
                /\ Update(cur.uid, task, outcome)
                /\ IF outcome = "ok"
                     THEN /\ cur' = [cur EXCEPT !.task = task, !.node = node]
                          /\ tickPc' = "spawn"
                          /\ UNCHANGED <<expired, slots, cpu, mem>>
                     ELSE DispatchReturns
         ELSE DispatchReturns /\ UNCHANGED <<rows, faults>>
    /\ UNCHANGED <<queueVars, moverVars, runVars>>

FreeRuns == {r \in Runs : /\ run[r].pc = "free"
                          /\ \A t \in Tasks \ {cur.uid} : cancelFuncs[t] # r}

NewRun(pc) == [pc |-> pc, uid |-> cur.uid, task |-> cur.task,
               cancelled |-> FALSE, remote |-> pc = "chan"]

\* The second half: the cancel function is registered, then the goroutine
\* starts (locally, or because the node's channel is full) or the task enters
\* the channel.  A run that ended without leaving cancelFuncs keeps its
\* identity reserved.
DispatchSpawn ==
    /\ tickPc = "spawn"
    /\ FreeRuns # {}
    /\ LET r == CHOOSE q \in FreeRuns : TRUE
           toChannel == /\ cur.node # NoNode
                        /\ Len(nodeTasks[cur.node]) < NodeQueueCap
       IN  /\ cancelFuncs' = [cancelFuncs EXCEPT ![cur.uid] = r]
           /\ run' = [run EXCEPT ![r] = NewRun(IF toChannel THEN "chan" ELSE "slot")]
           /\ nodeTasks' = IF toChannel
                             THEN [nodeTasks EXCEPT ![cur.node] = Append(@, r)]
                             ELSE nodeTasks
    /\ DispatchReturns
    /\ UNCHANGED <<rows, queueVars, moverVars, faults>>

-----------------------------------------------------------------------------
(***************************************************************************)
(* A run.  Executor.Run: take a slot, whatever the context says; a context *)
(* already cancelled makes Start fail; otherwise the process ends by       *)
(* itself, by the timeout or by the cancellation.                          *)
(***************************************************************************)
Executing == {r \in Runs : run[r].pc = "exec"}

SetPc(r, pc) == run' = [run EXCEPT ![r].pc = pc]

\* The goroutine returns: a local one still has its deferred delete to do.
\* A freed identity keeps nothing of its task.
Returned(r) == IF run[r].remote THEN FreeRun ELSE [run[r] EXCEPT !.pc = "unreg"]

ExecutorAcquire(r) ==
    /\ run[r].pc = "slot"
    /\ Cardinality(Executing) < MaxConcurrent
    /\ SetPc(r, IF run[r].cancelled THEN "err" ELSE "exec")
    /\ UNCHANGED <<rows, queueVars, moverVars, faults, tickVars, cancelFuncs, nodeTasks>>

ExecutorEnds(r) ==
    /\ run[r].pc = "exec"
    /\ \E result \in {"ok", "err"} : SetPc(r, result)
    /\ UNCHANGED <<rows, queueVars, moverVars, faults, tickVars, cancelFuncs, nodeTasks>>

\* completeTask of a result without error.
CompleteSuccess(r) ==
    /\ run[r].pc = "ok"
    /\ IF CanTransition(run[r].task, "success")
         THEN \E outcome \in Outcomes :
                Update(run[r].uid, TransitionTo(run[r].task, "success"), outcome)
         ELSE UNCHANGED <<rows, faults>>
    /\ run' = [run EXCEPT ![r] = Returned(r)]
    /\ UNCHANGED <<queueVars, moverVars, tickVars, cancelFuncs, nodeTasks>>

\* completeTask of a result with an error, up to the requeue of failTask.
CompleteError(r) ==
    /\ run[r].pc = "err"
    /\ \E outcome \in Outcomes :
         /\ failTask(run[r].uid, run[r].task, outcome)
         /\ run' = [run EXCEPT ![r] =
                      IF WillRequeue(run[r].task, outcome)
                        THEN [run[r] EXCEPT !.pc = "push",
                                            !.task = Retried(run[r].task)]
                        ELSE Returned(r)]
    /\ UNCHANGED <<queueVars, moverVars, tickVars, cancelFuncs, nodeTasks>>

RunRequeue(r) ==
    /\ run[r].pc = "push"
    /\ \E outcome \in Outcomes : PushDelayed(run[r].uid, run[r].task, outcome)
    /\ run' = [run EXCEPT ![r] = Returned(r)]
    /\ UNCHANGED <<rows, moverVars, tickVars, cancelFuncs, nodeTasks>>

\* The deferred delete: by UID, whichever run is registered by then.
RunUnregister(r) ==
    /\ run[r].pc = "unreg"
    /\ cancelFuncs' = [cancelFuncs EXCEPT ![run[r].uid] = NoRun]
    /\ run' = [run EXCEPT ![r] = FreeRun]
    /\ UNCHANGED <<rows, queueVars, moverVars, faults, tickVars, nodeTasks>>

-----------------------------------------------------------------------------
(***************************************************************************)
(* Remote runs: PullTask, the agent, ReportResult.                         *)
(***************************************************************************)
GetNextTaskForNode(n) ==
    /\ nodeTasks[n] # <<>>
    /\ nodeTasks' = [nodeTasks EXCEPT ![n] = Tail(@)]
    /\ \/ /\ SetPc(Head(nodeTasks[n]), "agent")
          /\ UNCHANGED faults
       \/ /\ Fault   \* the reply to the agent is lost
          /\ run' = [run EXCEPT ![Head(nodeTasks[n])] = FreeRun]
    /\ UNCHANGED <<rows, queueVars, moverVars, tickVars, cancelFuncs>>

AgentExecutes(r) ==
    /\ run[r].pc = "agent"
    /\ \E result \in {"rok", "rerr"} : SetPc(r, result)
    /\ UNCHANGED <<rows, queueVars, moverVars, faults, tickVars, cancelFuncs, nodeTasks>>

\* The agent dies, or its only attempt to report fails.
AgentLost(r) ==
    /\ run[r].pc \in AgentPc
    /\ Fault
    /\ run' = [run EXCEPT ![r] = FreeRun]
    /\ UNCHANGED <<rows, queueVars, moverVars, tickVars, cancelFuncs, nodeTasks>>

\* The row is read and from here on the handler works on that copy.
HandleRemoteResult(r) ==
    /\ run[r].pc \in {"rok", "rerr"}
    /\ \/ /\ run' = [run EXCEPT
                ![r].pc = IF @ = "rok" THEN "gok" ELSE "gerr",
                ![r].task = GetByUID(run[r].uid)]
          /\ UNCHANGED faults
       \/ /\ Fault   \* the row could not be read
          /\ run' = [run EXCEPT ![r] = FreeRun]
    /\ UNCHANGED <<rows, queueVars, moverVars, tickVars, cancelFuncs, nodeTasks>>

\* Its delete: by UID, whichever run is registered by then.
RemoteUnregister(r) ==
    /\ run[r].pc \in {"gok", "gerr"}
    /\ cancelFuncs' = [cancelFuncs EXCEPT ![run[r].uid] = NoRun]
    /\ SetPc(r, IF run[r].pc = "gok" THEN "ok" ELSE "err")
    /\ UNCHANGED <<rows, queueVars, moverVars, faults, tickVars, nodeTasks>>

-----------------------------------------------------------------------------
\* The Pub/Sub listener handles a message for t.  Cancelling matters only to
\* a run that has yet to return from the executor: the context of a remote
\* run is given to nobody.
CancelRun(t) ==
    /\ cancelFuncs' = [cancelFuncs EXCEPT ![t] = NoRun]
    /\ run' = IF cancelFuncs[t] # NoRun /\ run[cancelFuncs[t]].pc \in {"slot", "exec"}
                THEN [run EXCEPT ![cancelFuncs[t]].cancelled = TRUE]
                ELSE run
    /\ UNCHANGED <<rows, queueVars, moverVars, faults, tickVars, nodeTasks>>

\* The server process dies: everything it kept in memory is gone, the agents
\* go on.
SchedulerCrash ==
    /\ tickPc' = "idle"
    /\ expired' = {}
    /\ slots' = 0 /\ cpu' = 0 /\ mem' = 0
    /\ cur' = NoCur
    /\ run' = [r \in Runs |-> IF run[r].pc \in AgentPc THEN run[r] ELSE FreeRun]
    /\ cancelFuncs' = [t \in Tasks |-> NoRun]
    /\ nodeTasks' = [n \in Nodes |-> <<>>]
    /\ UNCHANGED rows
=============================================================================
