------------------------------- MODULE MiniBK -------------------------------
(***************************************************************************)
(* The task pipeline of a MINI-BK server with PostgreSQL and Redis and     *)
(* without etcd (cmd/server/main.go): the task service that creates and    *)
(* cancels tasks (internal/service/task_service.go), the scheduler, the    *)
(* queue and the agents, all running concurrently, and crashes of the      *)
(* server.                                                                 *)
(***************************************************************************)
EXTENDS Scheduler

CONSTANT MaxCancels   \* how often CancelTask may be called for one task
ASSUME MaxCancelsAssumption == MaxCancels \in Nat

VARIABLES
    creating,    \* tasks whose row is inserted and whose push is to come
    cancelOp,    \* per task, the CancelTask request being handled
    cancelMsgs,  \* published cancellations the scheduler has not received
    cancels,     \* history: CancelTask requests accepted so far
    forked       \* history: see below

(***************************************************************************)
(* History variable.  A task is forked when the server has, by design or   *)
(* by accident, started a second life of it: a tick found its row past its *)
(* deadline (the first run is not stopped), or the mover left its UID both *)
(* in the ready list and in the delayed set.                               *)
(***************************************************************************)

serviceVars == <<creating, cancelOp, cancelMsgs>>
historyVars == <<cancels, forked>>
vars == <<rows, queueVars, moverVars, faults, tickVars, runVars,
          serviceVars, historyVars>>

NoOp == [pc |-> "none", task |-> Absent]
CancelOp == [pc : {"write", "publish"}, task : TaskRecord] \cup {NoOp}

ServiceTypeOK ==
    /\ creating \subseteq Tasks
    /\ cancelOp \in [Tasks -> CancelOp]
    /\ cancelMsgs \subseteq Tasks
    /\ cancels \in [Tasks -> 0 .. MaxCancels]
    /\ forked \subseteq Tasks

Init ==
    /\ StoreInit /\ QueueInit /\ SchedulerInit /\ FaultsInit
    /\ creating = {}
    /\ cancelOp = [t \in Tasks |-> NoOp]
    /\ cancelMsgs = {}
    /\ cancels = [t \in Tasks |-> 0]
    /\ forked = {}

-----------------------------------------------------------------------------
(***************************************************************************)
(* The task service.                                                       *)
(***************************************************************************)

\* CreateTask up to the insertion of the row; a failed insertion ends it.
\* Every UID is submitted at most once (uuid.New).
CreateTask(t) ==
    /\ ~Exists(t)
    /\ \E outcome \in Outcomes :
         /\ Create(t, NewTask, outcome)
         /\ creating' = IF outcome = "ok" THEN creating \cup {t} ELSE creating
    /\ UNCHANGED <<queueVars, moverVars, tickVars, runVars, cancelOp, cancelMsgs,
                   historyVars>>

\* The push that ends CreateTask; its error is only logged.
CreateTaskPush(t) ==
    /\ t \in creating
    /\ creating' = creating \ {t}
    /\ \E outcome \in Outcomes :
         IF Priority[t] > 0 THEN PushPriority(t, NewTask, outcome)
                            ELSE Push(t, NewTask, outcome)
    /\ UNCHANGED <<rows, moverVars, tickVars, runVars, cancelOp, cancelMsgs,
                   historyVars>>

\* CancelTask reads the row, refuses a terminal one, and transitions the copy.
CancelTask(t) ==
    /\ cancelOp[t] = NoOp
    /\ cancels[t] < MaxCancels
    /\ Exists(t)
    /\ ~IsTerminal(GetByUID(t).status)
    /\ CanTransition(GetByUID(t), "canceled")
    /\ cancelOp' = [cancelOp EXCEPT ![t] =
         [pc |-> "write", task |-> TransitionTo(GetByUID(t), "canceled")]]
    /\ cancels' = [cancels EXCEPT ![t] = @ + 1]
    /\ UNCHANGED <<rows, queueVars, moverVars, faults, tickVars, runVars,
                   creating, cancelMsgs, forked>>

\* It writes the copy over the row, which may have changed since.
CancelTaskWrite(t) ==
    /\ cancelOp[t].pc = "write"
    /\ \E outcome \in Outcomes :
         /\ Update(t, cancelOp[t].task, outcome)
         /\ cancelOp' = [cancelOp EXCEPT ![t] =
              IF outcome = "ok" THEN [@ EXCEPT !.pc = "publish"] ELSE NoOp]
    /\ UNCHANGED <<queueVars, moverVars, tickVars, runVars, creating, cancelMsgs,
                   historyVars>>

\* It publishes; Pub/Sub keeps nothing for a listener that is not there.
CancelTaskPublish(t) ==
    /\ cancelOp[t].pc = "publish"
    /\ cancelOp' = [cancelOp EXCEPT ![t] = NoOp]
    /\ \/ cancelMsgs' = cancelMsgs \cup {t} /\ UNCHANGED faults
       \/ Fault /\ UNCHANGED cancelMsgs
    /\ UNCHANGED <<rows, queueVars, moverVars, tickVars, runVars, creating,
                   historyVars>>

CancelListener(t) ==
    /\ t \in cancelMsgs
    /\ cancelMsgs' = cancelMsgs \ {t}
    /\ CancelRun(t)
    /\ UNCHANGED <<creating, cancelOp, historyVars>>

-----------------------------------------------------------------------------
(***************************************************************************)
(* The steps of the scheduler and of the queue inside the system.          *)
(***************************************************************************)
StartTick ==
    \E late \in SUBSET GetRunningTasks :
      /\ TickStart(late)
      /\ forked' = forked \cup late
      /\ UNCHANGED <<serviceVars, cancels>>

TickStep ==
    /\ \/ \E e \in expired : TickTimeout(e)
       \/ TickRequeue
       \/ TickAllocate
       \/ TickPopPriority
       \/ TickPopPending
       \/ TickPushBack
       \/ DispatchPending
       \/ \E n \in Nodes \cup {NoNode} : DispatchRunning(n)
       \/ DispatchSpawn
    /\ UNCHANGED <<serviceVars, historyVars>>

RunStep(r) ==
    /\ \/ ExecutorAcquire(r)
       \/ ExecutorEnds(r)
       \/ CompleteSuccess(r)
       \/ CompleteError(r)
       \/ RunRequeue(r)
       \/ RunUnregister(r)
       \/ HandleRemoteResult(r)
       \/ RemoteUnregister(r)
    /\ UNCHANGED <<serviceVars, historyVars>>

AgentStep ==
    /\ \/ \E n \in Nodes : GetNextTaskForNode(n)
       \/ \E r \in Runs : AgentExecutes(r) \/ AgentLost(r)
    /\ UNCHANGED <<serviceVars, historyVars>>

MoverStart ==
    /\ \E due \in SUBSET delayedSet : MoverScan(due)
    /\ UNCHANGED <<rows, tickVars, runVars, serviceVars, historyVars>>

MoverStep ==
    /\ \E outcome \in Outcomes :
         \/ \E t \in moverDue :
              /\ MoverPush(t, outcome)
              /\ forked' = IF outcome = "lost" THEN forked \cup {t} ELSE forked
         \/ /\ MoverRem(outcome)
            /\ forked' = IF outcome = "error" THEN forked \cup moving ELSE forked
    /\ UNCHANGED <<rows, tickVars, runVars, serviceVars, cancels>>

DataExpires ==
    /\ \E t \in Tasks : TaskDataExpires(t)
    /\ UNCHANGED <<rows, tickVars, runVars, serviceVars, historyVars>>

Crash ==
    /\ Fault
    /\ SchedulerCrash
    /\ MoverCrash
    /\ creating' = {}
    /\ cancelOp' = [t \in Tasks |-> NoOp]
    /\ cancelMsgs' = {}
    /\ forked' = forked \cup moving
    /\ UNCHANGED cancels

ServiceStep(t) ==
    CreateTaskPush(t) \/ CancelTaskWrite(t) \/ CancelTaskPublish(t) \/ CancelListener(t)

Next ==
    \/ \E t \in Tasks : CreateTask(t) \/ CancelTask(t) \/ ServiceStep(t)
    \/ StartTick
    \/ TickStep
    \/ \E r \in Runs : RunStep(r)
    \/ AgentStep
    \/ MoverStart
    \/ MoverStep
    \/ DataExpires
    \/ Crash

Spec == Init /\ [][Next]_vars

-----------------------------------------------------------------------------
(***************************************************************************)
(* Fairness.  The ticker fires for ever and the tick is never blocked for  *)
(* ever.  A row that stays running is, at some tick, past its deadline     *)
(* (StartedAt is fixed and TimeoutSec is positive).  Nothing else is       *)
(* assumed: runs, agents, the mover and requests may stop anywhere.        *)
(***************************************************************************)
StartTickLate(t) == t \in GetRunningTasks /\ StartTick /\ t \in {e.uid : e \in expired'}

TickFairness ==
    /\ WF_vars(StartTick)
    /\ WF_vars(TickStep)
    /\ \A t \in Tasks : SF_vars(StartTickLate(t))

FairTickSpec == Spec /\ TickFairness

-----------------------------------------------------------------------------
(***************************************************************************)
(* Safety.                                                                 *)
(***************************************************************************)

\* Every variable has its type; in particular no copy of a task, in the
\* database, in Redis or in a goroutine, ever counts more than MaxRetries
\* retries.
TypeOK ==
    /\ StoreTypeOK /\ QueueTypeOK /\ SchedulerTypeOK /\ FaultsTypeOK
    /\ ServiceTypeOK

\* The rows marked running never exceed max_concurrent_tasks: tick computes
\* its free slots from one reading of the database and spends them over many
\* later steps, while completions, cancellations, timeouts and crashes change
\* the rows.
RunningWithinSlots == Cardinality(GetRunningTasks) <= MaxConcurrent

\* The same for the CPU and the memory the running rows ask for, which
\* canAllocate compares with what the tick has left.
RunningWithinResources ==
    /\ SumOver(CPULimit, GetRunningTasks) <= TotalCPU
    /\ SumOver(MemoryLimit, GetRunningTasks) <= TotalMemory

\* The places that will, by themselves, lead to an execution of t or are one:
\* the push that CreateTask owes, entries of the queue, the tick's copy, runs.
\* The entry of the delayed set that the mover is about to remove and a
\* goroutine that has only its deferred delete to do are none.
Lives(t) ==
    {<<"service", u>> : u \in creating \cap {t}}
    \cup {<<"list", i>> : i \in {j \in DOMAIN pendingList : pendingList[j] = t}}
    \cup {<<"priority", u>> : u \in prioritySet \cap {t}}
    \cup {<<"delayed", u>> : u \in (delayedSet \ moving) \cap {t}}
    \cup {<<"tick", u>> : u \in {cur.uid} \cap {t}}
    \cup {<<"run", r>> : r \in {q \in Runs : run[q].uid = t /\ run[q].pc # "unreg"}}

\* A task that was not forked is in one place at a time: it is never queued
\* twice, never queued while it executes and never executed twice at once,
\* through retries, push-backs, cancellations, lost calls and crashes.
SingleLife == \A t \in Tasks \ forked : \A p, q \in Lives(t) : p = q

Queued(t) ==
    \/ t \in prioritySet \cup (delayedSet \ moving)
    \/ \E i \in DOMAIN pendingList : pendingList[i] = t

\* While a task that was neither forked nor canceled is queued, the document
\* in Redis is the row in PostgreSQL (or has expired): dispatch overwrites
\* the row with the document without reading it, so a stale document would
\* undo a status or a retry count.
QueuedCopyIsCurrent ==
    \A t \in Tasks :
        Queued(t) /\ t \notin forked /\ cancels[t] = 0
            => taskData[t] \in {rows[t], Absent}

(***************************************************************************)
(* What a step may do to a row.                                            *)
(***************************************************************************)
LegalStep(old, new) ==
    \/ new = old
    \/ old = Absent /\ new = NewTask
    \/ /\ old # Absent
       /\ CanTransition(old, new.status)
       /\ new.retryCount = old.retryCount
    \/ /\ old.status = "running" /\ new.status = "pending"
       /\ new.retryCount = old.retryCount + 1

\* The row of a task that was neither forked nor canceled moves only along
\* validTransitions or from running to pending with one more retry: terminal
\* rows stay as they are and no retry is forgotten, although every write is
\* an unconditional overwrite with a copy read earlier.
Lifecycle ==
    [][\A t \in Tasks : t \notin forked' /\ cancels'[t] = 0
                            => LegalStep(rows[t], rows'[t])]_vars

\* A waiting task that was not forked is forgotten only when a call fails,
\* when its document expired, or when it is queued again while the mover is
\* between its LPUSH and its ZREM (see WaitingIsHeld): in any other step a
\* row that is, or becomes, created or pending keeps a place that leads to
\* its execution.
KeptAlive ==
    [][\A t \in Tasks \ (moving \cup forked) :
          /\ faults' = faults
          /\ ~(Queued(t) /\ taskData[t] = Absent)
          /\ rows'[t].status \in {"created", "pending"}
          /\ Lives(t) # {} \/ rows'[t] # rows[t]
          => Lives(t)' # {}]_vars

(***************************************************************************)
(* Claims of the documentation that the code does not keep.                *)
(***************************************************************************)

\* docs/context.md: a terminal status is not left again.
TerminalIsFinal ==
    [][\A t \in Tasks : IsTerminal(rows[t].status) => rows'[t] = rows[t]]_vars

\* A failed task is retried automatically until it fails for good: a row that
\* waits to run is held somewhere, whatever failed; timeouts, which fork the
\* task, are left out.
WaitingIsHeld ==
    \A t \in Tasks \ forked :
        rows[t].status \in {"created", "pending"}
            => Lives(t) # {} \/ t \in delayedSet

(***************************************************************************)
(* Liveness.                                                               *)
(***************************************************************************)

\* No row stays running for ever: whatever became of the run (a crash of the
\* server, an agent that never pulls, a report that is lost, an update that
\* fails), a later tick finds the row past its deadline and fails it.
RunningEnds ==
    \A t \in Tasks : rows[t].status = "running" ~> rows[t].status # "running"

\* No UID stays in the ready list for ever: ticks keep finding free slots,
\* because the rows that occupy them do not stay running.
ReadyIsPopped ==
    \A t \in Tasks :
        (\E i \in DOMAIN pendingList : pendingList[i] = t)
            ~> ~(\E i \in DOMAIN pendingList : pendingList[i] = t)
=============================================================================
