---------------------------- MODULE MiniBKProofs ----------------------------
(***************************************************************************)
(* Proofs about MiniBK for every number of tasks, runs, nodes, retries,    *)
(* cancellations and faults.                                               *)
(***************************************************************************)
EXTENDS MiniBK, FiniteSetTheorems, TLAPS

(***************************************************************************)
(* Values.                                                                 *)
(***************************************************************************)

\* A task struct that was absent or well typed is well typed after it moved
\* to a status, and after a retry that CanRetry allowed (model/task.go).
LEMMA TaskValues ==
    /\ NewTask \in TaskRecord
    /\ \A task \in TaskRecord \cup {Absent}, s \in Status :
          /\ TransitionTo(task, s) \in TaskRecord
          /\ TransitionTo(task, s).status = s
    /\ \A task \in TaskRecord \cup {Absent} :
          CanRetry(task) => /\ Retried(task) \in TaskRecord
                            /\ Retried(task).status = "pending"
    /\ \A task \in TaskRecord \cup {Absent} :
          /\ FailedCopy(task) \in TaskRecord
          /\ FailedCopy(task).status \in {"pending", "failed"}
  BY MaxRetriesAssumption
  DEF NewTask, TaskRecord, Absent, TransitionTo, Status, CanRetry, Retried,
      FailedCopy

\* A call uses up the fault budget only while there is one.
LEMMA FaultBudget ==
    ASSUME FaultsTypeOK
    PROVE  /\ Fault => FaultsTypeOK'
           /\ \A outcome : Attempt(outcome) => FaultsTypeOK'
           /\ UNCHANGED faults => FaultsTypeOK'
  BY MaxFaultsAssumption DEF FaultsTypeOK, Fault, Attempt

\* Update and Create write whole rows, so a typed copy leaves a typed table.
LEMMA StoreWrites ==
    ASSUME StoreTypeOK, NEW t, NEW task \in TaskRecord, NEW outcome,
           Update(t, task, outcome) \/ Create(t, task, outcome)
    PROVE  StoreTypeOK'
  BY DEF StoreTypeOK, Update, Create

QueueCollectionsOK ==
    /\ taskData \in [Tasks -> TaskRecord \cup {Absent}]
    /\ pendingList \in Seq(Tasks)
    /\ prioritySet \subseteq Tasks
    /\ delayedSet \subseteq Tasks

\* The pushes of the queue keep its collections typed.
LEMMA QueuePushes ==
    ASSUME QueueCollectionsOK, NEW t \in Tasks,
           NEW task \in TaskRecord \cup {Absent}, NEW outcome,
           \/ Push(t, task, outcome)
           \/ PushPriority(t, task, outcome)
           \/ PushDelayed(t, task, outcome)
    PROVE  QueueCollectionsOK'
  BY DEF QueueCollectionsOK, Push, PushPriority, PushDelayed, storeTask

\* The pops of the queue keep its collections typed.
LEMMA QueuePops ==
    ASSUME QueueCollectionsOK, NEW t \in Tasks, PopPriority(t) \/ PopPending(t)
    PROVE  QueueCollectionsOK'
  BY DEF QueueCollectionsOK, PopPriority, PopPending
-----------------------------------------------------------------------------
(***************************************************************************)
(* The inductive strengthening of TypeOK, by component.  The tick holds a  *)
(* task wherever it uses one; a run that is not free works for a task; a   *)
(* run in a node's channel is in that channel once, in no other, and       *)
(* nobody works on it yet.                                                 *)
(***************************************************************************)
TickOK ==
    /\ tickPc \in {"idle", "check", "requeue", "pop", "brpop", "alloc", "spawn"}
    /\ expired \subseteq Expired
    /\ slots \in 0 .. MaxConcurrent
    /\ cur \in Cur \cup {NoCur}
    /\ tickPc \in {"requeue", "alloc", "spawn"} => cur \in Cur

ChannelsOwnRuns ==
    \A n \in Nodes : \A i \in 1 .. Len(nodeTasks[n]) :
        /\ run[nodeTasks[n][i]].pc = "chan"
        /\ \A m \in Nodes : \A j \in 1 .. Len(nodeTasks[m]) :
              nodeTasks[m][j] = nodeTasks[n][i] => m = n /\ j = i

RunOK ==
    /\ run \in [Runs -> Run]
    /\ cancelFuncs \in [Tasks -> Runs \cup {NoRun}]
    /\ nodeTasks \in [Nodes -> Seq(Runs)]
    /\ \A r \in Runs : run[r].pc # "free" => run[r].uid \in Tasks
    /\ ChannelsOwnRuns

MoverOK == moverDue \subseteq Tasks /\ moving \subseteq Tasks

TypeInv ==
    /\ StoreTypeOK /\ FaultsTypeOK /\ QueueCollectionsOK /\ MoverOK
    /\ TickOK /\ RunOK /\ ServiceTypeOK

\* The strengthening implies the type invariant.
LEMMA TypeInvImplies == TypeInv => TypeOK
  BY DEF TypeInv, TypeOK, QueueTypeOK, QueueCollectionsOK, MoverOK,
         SchedulerTypeOK, TickOK, RunOK

\* The server starts with an empty table, an empty queue and no run.
LEMMA TypeInvInit == Init => TypeInv
  <1> SUFFICES ASSUME Init PROVE TypeInv
    OBVIOUS
  <1> USE DEF Init, StoreInit, QueueInit, SchedulerInit, FaultsInit
  <1>1. StoreTypeOK /\ FaultsTypeOK
    BY MaxFaultsAssumption DEF StoreTypeOK, FaultsTypeOK
  <1>2. QueueCollectionsOK /\ MoverOK
    BY DEF QueueCollectionsOK, MoverOK
  <1>3. TickOK
    BY CapacityAssumption DEF TickOK
  <1>4. RunOK
    <2>1. FreeRun \in Run /\ FreeRun.pc = "free"
      BY DEF FreeRun, Run, RunPc, LocalPc, AgentPc
    <2> QED
      BY <2>1 DEF RunOK, ChannelsOwnRuns
  <1>5. ServiceTypeOK
    BY MaxCancelsAssumption DEF ServiceTypeOK, CancelOp, NoOp
  <1> QED
    BY <1>1, <1>2, <1>3, <1>4, <1>5 DEF TypeInv

\* Steps that leave a component alone keep its part of the invariant.
LEMMA TypeInvStutter ==
    /\ StoreTypeOK /\ UNCHANGED rows => StoreTypeOK'
    /\ QueueCollectionsOK /\ UNCHANGED queueVars => QueueCollectionsOK'
    /\ MoverOK /\ UNCHANGED moverVars => MoverOK'
    /\ TickOK /\ UNCHANGED tickVars => TickOK'
    /\ RunOK /\ UNCHANGED runVars => RunOK'
    /\ ServiceTypeOK /\ UNCHANGED <<serviceVars, historyVars>> => ServiceTypeOK'
  <1>1. StoreTypeOK /\ UNCHANGED rows => StoreTypeOK'
    BY DEF StoreTypeOK
  <1>2. QueueCollectionsOK /\ UNCHANGED queueVars => QueueCollectionsOK'
    BY DEF QueueCollectionsOK, queueVars
  <1>3. MoverOK /\ UNCHANGED moverVars => MoverOK'
    BY DEF MoverOK, moverVars
  <1>4. TickOK /\ UNCHANGED tickVars => TickOK'
    BY DEF TickOK, tickVars
  <1>5. RunOK /\ UNCHANGED runVars => RunOK'
    BY DEF RunOK, runVars, ChannelsOwnRuns
  <1>6. ServiceTypeOK /\ UNCHANGED <<serviceVars, historyVars>> => ServiceTypeOK'
    BY DEF ServiceTypeOK, serviceVars, historyVars
  <1> QED
    BY <1>1, <1>2, <1>3, <1>4, <1>5, <1>6

-----------------------------------------------------------------------------
(***************************************************************************)
(* The tick and dispatch.                                                  *)
(***************************************************************************)

\* The two ways in which the tick moves on after a pop or a dispatch.
LEMMA TickMovesOn ==
    ASSUME TickOK
    PROVE  /\ EndTick => TickOK'
           /\ DispatchReturns => TickOK'
  BY CapacityAssumption DEF TickOK, EndTick, DispatchReturns

\* failTask writes at most one typed row.
LEMMA FailTaskTypes ==
    ASSUME StoreTypeOK, FaultsTypeOK, NEW t, NEW task \in TaskRecord \cup {Absent},
           NEW outcome, failTask(t, task, outcome)
    PROVE  StoreTypeOK' /\ FaultsTypeOK'
  <1>1. CASE Update(t, FailedCopy(task), outcome)
    BY <1>1, TaskValues, StoreWrites, FaultBudget DEF Update
  <1>2. CASE UNCHANGED <<rows, faults>>
    BY <1>2, FaultBudget, TypeInvStutter
  <1> QED
    BY <1>1, <1>2 DEF failTask

\* tick: reading the running rows.
LEMMA StartTickTypes ==
    ASSUME TypeInv, StartTick
    PROVE  TypeInv'
  <1> PICK late \in SUBSET GetRunningTasks :
        TickStart(late) /\ forked' = forked \cup late
        /\ UNCHANGED <<serviceVars, cancels>>
    BY DEF StartTick
  <1>1. GetRunningTasks \subseteq Tasks /\ \A t \in GetRunningTasks : rows[t] \in TaskRecord
    BY DEF TypeInv, StoreTypeOK, GetRunningTasks, Absent
  <1>2. TickOK'
    <2>1. expired' \subseteq Expired
      BY <1>1 DEF TickStart, Expired
    <2>2. slots' \in 0 .. MaxConcurrent
      <3>1. Cardinality(GetRunningTasks) \in Nat
        BY <1>1, TasksAssumption, FS_Subset, FS_CardinalityType
      <3> QED
        BY <3>1, CapacityAssumption DEF TickStart
    <2> QED
      BY <2>1, <2>2 DEF TypeInv, TickOK, TickStart
  <1>3. ServiceTypeOK'
    BY <1>1 DEF TypeInv, ServiceTypeOK, serviceVars
  <1> QED
    BY <1>2, <1>3, TypeInvStutter, FaultBudget DEF TypeInv, TickStart

\* tick: failing the rows past their deadline, and queueing them again.
LEMMA TickTimeoutTypes ==
    ASSUME TypeInv, UNCHANGED <<serviceVars, historyVars>>,
           (\E e \in expired : TickTimeout(e)) \/ TickRequeue \/ TickAllocate
    PROVE  TypeInv'
  <1>1. CASE \E e \in expired : TickTimeout(e)
    <2> PICK e \in expired : TickTimeout(e)
      BY <1>1
    <2>1. e \in Expired /\ e.uid \in Tasks /\ e.task \in TaskRecord
      BY DEF TypeInv, TickOK, Expired
    <2> PICK outcome \in Outcomes :
          /\ failTask(e.uid, e.task, outcome)
          /\ IF WillRequeue(e.task, outcome)
               THEN /\ tickPc' = "requeue"
                    /\ cur' = [uid |-> e.uid, task |-> Retried(e.task),
                               node |-> NoNode]
               ELSE UNCHANGED <<tickPc, cur>>
      BY DEF TickTimeout
    <2>2. StoreTypeOK' /\ FaultsTypeOK'
      BY <2>1, FailTaskTypes DEF TypeInv
    <2>3. TickOK'
      <3>1. CASE WillRequeue(e.task, outcome)
        BY <3>1, <2>1, TaskValues DEF TypeInv, TickOK, TickTimeout, WillRequeue, Cur
      <3>2. CASE ~WillRequeue(e.task, outcome)
        BY <3>2 DEF TypeInv, TickOK, TickTimeout
      <3> QED
        BY <3>1, <3>2
    <2> QED
      BY <2>2, <2>3, TypeInvStutter DEF TypeInv, TickTimeout
  <1>2. CASE TickRequeue
    <2>1. cur.uid \in Tasks /\ cur.task \in TaskRecord
      BY <1>2 DEF TypeInv, TickOK, TickRequeue, Cur
    <2>2. PICK outcome \in Outcomes : PushDelayed(cur.uid, cur.task, outcome)
      BY <1>2 DEF TickRequeue
    <2>3. QueueCollectionsOK' /\ FaultsTypeOK'
      BY <2>1, <2>2, QueuePushes, FaultBudget DEF TypeInv, PushDelayed, storeTask
    <2>4. TickOK'
      BY <1>2 DEF TypeInv, TickOK, TickRequeue
    <2> QED
      BY <1>2, <2>3, <2>4, TypeInvStutter DEF TypeInv, TickRequeue
  <1>3. CASE TickAllocate
    <2>1. TickOK'
      BY <1>3, TickMovesOn DEF TypeInv, TickOK, TickAllocate
    <2> QED
      BY <1>3, <2>1, TypeInvStutter, FaultBudget DEF TypeInv, TickAllocate
  <1> QED
    BY <1>1, <1>2, <1>3
\* tick: popping from the queue, with or without a document.
LEMMA TickPopTypes ==
    ASSUME TypeInv, UNCHANGED <<serviceVars, historyVars>>,
           TickPopPriority \/ TickPopPending
    PROVE  TypeInv'
  <1>1. ASSUME NEW t \in Tasks, PopPriority(t) \/ PopPending(t), Popped(t)
        PROVE  QueueCollectionsOK' /\ TickOK' /\ FaultsTypeOK'
    <2>1. QueueCollectionsOK'
      BY <1>1, QueuePops DEF TypeInv
    <2>2. TickOK' /\ FaultsTypeOK'
      <3>1. getTask(t) # Absent => getTask(t) \in TaskRecord
        BY DEF TypeInv, QueueCollectionsOK, getTask
      <3>2. CASE EndTick /\ (UNCHANGED faults \/ Fault)
        BY <3>2, TickMovesOn, FaultBudget DEF TypeInv
      <3>3. CASE /\ getTask(t) # Absent
                 /\ tickPc' = "alloc"
                 /\ cur' = [uid |-> t, task |-> getTask(t), node |-> NoNode]
                 /\ UNCHANGED <<expired, slots, cpu, mem, faults>>
        <4>1. cur' \in Cur
          BY <3>1, <3>3 DEF Cur
        <4> QED
          BY <3>3, <4>1, FaultBudget DEF TypeInv, TickOK
      <3> QED
        BY <1>1, <3>2, <3>3 DEF Popped
    <2> QED
      BY <2>1, <2>2
  <1>2. ASSUME \E t \in Tasks : (PopPriority(t) \/ PopPending(t)) /\ Popped(t)
        PROVE  QueueCollectionsOK' /\ TickOK' /\ FaultsTypeOK'
    BY <1>1, <1>2
  <1>3. ASSUME EndTick, UNCHANGED queueVars, Fault \/ UNCHANGED faults
        PROVE  QueueCollectionsOK' /\ TickOK' /\ FaultsTypeOK'
    BY <1>3, TickMovesOn, FaultBudget, TypeInvStutter DEF TypeInv
  <1>4. CASE TickPopPriority
    <2>1. QueueCollectionsOK' /\ TickOK' /\ FaultsTypeOK'
      <3>1. CASE /\ prioritySet = {}
                 /\ tickPc' = "brpop"
                 /\ UNCHANGED <<expired, slots, cpu, mem, cur, queueVars, faults>>
        BY <3>1, TypeInvStutter, FaultBudget DEF TypeInv, TickOK
      <3> QED
        BY <1>2, <1>3, <1>4, <3>1 DEF TickPopPriority
    <2> QED
      BY <1>4, <2>1, TypeInvStutter DEF TypeInv, TickPopPriority
  <1>5. CASE TickPopPending
    <2>1. QueueCollectionsOK' /\ TickOK' /\ FaultsTypeOK'
      BY <1>2, <1>3, <1>5 DEF TickPopPending
    <2> QED
      BY <1>5, <2>1, TypeInvStutter DEF TypeInv, TickPopPending
  <1> QED
    BY <1>4, <1>5

\* tick: pushing back what does not fit, and dispatch up to the running row.
LEMMA DispatchTypes ==
    ASSUME TypeInv, UNCHANGED <<serviceVars, historyVars>>,
           \/ TickPushBack
           \/ DispatchPending
           \/ \E n \in Nodes \cup {NoNode} : DispatchRunning(n)
    PROVE  TypeInv'
  <1>1. tickPc = "alloc" => cur \in Cur /\ cur.uid \in Tasks /\ cur.task \in TaskRecord
    BY DEF TypeInv, TickOK, Cur
  <1>2. CASE TickPushBack
    <2>1. PICK outcome \in Outcomes : PushDelayed(cur.uid, cur.task, outcome)
      BY <1>2 DEF TickPushBack
    <2>2. QueueCollectionsOK' /\ FaultsTypeOK'
      BY <1>1, <1>2, <2>1, QueuePushes, FaultBudget
      DEF TypeInv, PushDelayed, storeTask, TickPushBack
    <2>3. TickOK'
      BY <1>2 DEF TypeInv, TickOK, TickPushBack
    <2> QED
      BY <1>2, <2>2, <2>3, TypeInvStutter DEF TypeInv, TickPushBack
  <1>3. CASE DispatchPending
    <2> DEFINE task == TransitionTo(cur.task, "pending")
    <2>1. task \in TaskRecord
      BY <1>1, <1>3, TaskValues DEF DispatchPending, Status
    <2>2. PICK outcome \in Outcomes :
            /\ Update(cur.uid, task, outcome)
            /\ IF outcome = "ok"
                 THEN /\ cur' = [cur EXCEPT !.task = task]
                      /\ UNCHANGED <<tickPc, expired, slots, cpu, mem>>
                 ELSE DispatchReturns
      BY <1>3 DEF DispatchPending
    <2> HIDE DEF task
    <2>3. StoreTypeOK' /\ FaultsTypeOK'
      BY <2>1, <2>2, StoreWrites, FaultBudget DEF TypeInv, Update
    <2>4. TickOK'
      <3>1. CASE outcome = "ok"
        <4>1. cur' \in Cur
          BY <1>1, <1>3, <2>1, <2>2, <3>1 DEF DispatchPending, Cur
        <4> QED
          BY <2>2, <3>1, <4>1 DEF TypeInv, TickOK
      <3>2. CASE outcome # "ok"
        BY <2>2, <3>2, TickMovesOn DEF TypeInv
      <3> QED
        BY <3>1, <3>2
    <2> QED
      BY <1>3, <2>3, <2>4, TypeInvStutter DEF TypeInv, DispatchPending
  <1>4. CASE \E n \in Nodes \cup {NoNode} : DispatchRunning(n)
    <2> PICK n \in Nodes \cup {NoNode} : DispatchRunning(n)
      BY <1>4
    <2> DEFINE task == TransitionTo(cur.task, "running")
    <2>1. task \in TaskRecord
      BY <1>1, TaskValues DEF DispatchRunning, Status
    <2>2. CASE DispatchReturns /\ UNCHANGED <<rows, faults>>
      BY <2>2, TickMovesOn, TypeInvStutter, FaultBudget DEF TypeInv, DispatchRunning
    <2>3. CASE \E outcome \in Outcomes :
            /\ Update(cur.uid, task, outcome)
            /\ IF outcome = "ok"
                 THEN /\ cur' = [cur EXCEPT !.task = task, !.node = n]
                      /\ tickPc' = "spawn"
                      /\ UNCHANGED <<expired, slots, cpu, mem>>
                 ELSE DispatchReturns
      <3>1. PICK outcome \in Outcomes :
            /\ Update(cur.uid, task, outcome)
            /\ IF outcome = "ok"
                 THEN /\ cur' = [cur EXCEPT !.task = task, !.node = n]
                      /\ tickPc' = "spawn"
                      /\ UNCHANGED <<expired, slots, cpu, mem>>
                 ELSE DispatchReturns
        BY <2>3
      <3> HIDE DEF task
      <3>2. StoreTypeOK' /\ FaultsTypeOK'
        BY <2>1, <3>1, StoreWrites, FaultBudget DEF TypeInv, Update
      <3>3. TickOK'
        <4>1. CASE outcome = "ok"
          <5>1. cur' \in Cur
            BY <1>1, <2>1, <3>1, <4>1 DEF DispatchRunning, Cur
          <5> QED
            BY <3>1, <4>1, <5>1 DEF TypeInv, TickOK
        <4>2. CASE outcome # "ok"
          BY <3>1, <4>2, TickMovesOn DEF TypeInv
        <4> QED
          BY <4>1, <4>2
      <3> QED
        BY <3>2, <3>3, TypeInvStutter DEF TypeInv, DispatchRunning
    <2> QED
      BY <2>2, <2>3 DEF DispatchRunning
  <1> QED
    BY <1>2, <1>3, <1>4

-----------------------------------------------------------------------------
(***************************************************************************)
(* Runs.                                                                   *)
(***************************************************************************)

\* A run that no channel holds may change, as long as it is free or works for
\* a task and does not pretend to be in a channel.
LEMMA RunChanges ==
    ASSUME RunOK, NEW r \in Runs, run[r].pc # "chan",
           NEW new \in Run, new.pc # "chan",
           new.pc # "free" => new.uid \in Tasks,
           run' = [run EXCEPT ![r] = new],
           cancelFuncs' \in [Tasks -> Runs \cup {NoRun}],
           UNCHANGED nodeTasks
    PROVE  RunOK'
  <1>1. run' \in [Runs -> Run]
    BY DEF RunOK
  <1>2. \A q \in Runs : run'[q].pc # "free" => run'[q].uid \in Tasks
    BY DEF RunOK
  <1>3. \A n \in Nodes : \A i \in 1 .. Len(nodeTasks[n]) :
          nodeTasks[n][i] \in Runs /\ nodeTasks[n][i] # r
    BY DEF RunOK, ChannelsOwnRuns
  <1>4. ChannelsOwnRuns'
    BY <1>3 DEF RunOK, ChannelsOwnRuns
  <1> QED
    BY <1>1, <1>2, <1>4 DEF RunOK

\* What the records of runs are, and what a finished run becomes.
LEMMA RunValues ==
    ASSUME RunOK, NEW r \in Runs
    PROVE  /\ run[r] \in Run
           /\ FreeRun \in Run /\ FreeRun.pc = "free"
           /\ \A pc \in RunPc : [run[r] EXCEPT !.pc = pc] \in Run
           /\ run[r].pc # "free" =>
                /\ Returned(r) \in Run
                /\ Returned(r).pc # "chan"
                /\ Returned(r).pc # "free" => Returned(r).uid \in Tasks
  BY DEF RunOK, Run, RunPc, LocalPc, AgentPc, FreeRun, Returned
\* dispatch: the run starts, in the channel of a node or locally.
LEMMA DispatchSpawnTypes ==
    ASSUME TypeInv, UNCHANGED <<serviceVars, historyVars>>, DispatchSpawn
    PROVE  TypeInv'
  <1> DEFINE r == CHOOSE q \in FreeRuns : TRUE
             toChannel == /\ cur.node # NoNode
                          /\ Len(nodeTasks[cur.node]) < NodeQueueCap
             new == NewRun(IF toChannel THEN "chan" ELSE "slot")
  <1>1. r \in Runs /\ run[r].pc = "free"
    BY DEF DispatchSpawn, FreeRuns
  <1>2. cur \in Cur /\ cur.uid \in Tasks /\ cur.task \in TaskRecord
        /\ cur.node \in Nodes \cup {NoNode}
    BY DEF TypeInv, TickOK, Cur, DispatchSpawn
  <1>3. new \in Run /\ new.uid \in Tasks /\ new.pc # "free"
        /\ (toChannel => new.pc = "chan") /\ (~toChannel => new.pc # "chan")
    BY <1>2 DEF NewRun, Run, RunPc, LocalPc, AgentPc
  <1>4. /\ cancelFuncs' = [cancelFuncs EXCEPT ![cur.uid] = r]
        /\ run' = [run EXCEPT ![r] = new]
        /\ nodeTasks' = IF toChannel
                          THEN [nodeTasks EXCEPT ![cur.node] = Append(@, r)]
                          ELSE nodeTasks
    BY DEF DispatchSpawn
  <1> HIDE DEF r, new
  <1>5. cancelFuncs' \in [Tasks -> Runs \cup {NoRun}]
    BY <1>1, <1>4 DEF TypeInv, RunOK
  <1>6. RunOK'
    <2>1. CASE ~toChannel
      <3>1. UNCHANGED nodeTasks
        BY <2>1, <1>4
      <3> HIDE DEF toChannel
      <3> QED
        BY <1>1, <1>3, <1>4, <1>5, <2>1, <3>1, RunChanges DEF TypeInv
    <2>2. CASE toChannel
      <3>1. cur.node \in Nodes
        BY <1>2, <2>2
      <3>2. nodeTasks' = [nodeTasks EXCEPT ![cur.node] = Append(nodeTasks[cur.node], r)]
        BY <1>4, <2>2
      <3> HIDE DEF toChannel
      <3>3. nodeTasks' \in [Nodes -> Seq(Runs)] /\ run' \in [Runs -> Run]
        BY <1>1, <1>3, <1>4, <3>1, <3>2 DEF TypeInv, RunOK
      <3>4. \A q \in Runs : run'[q].pc # "free" => run'[q].uid \in Tasks
        BY <1>1, <1>3, <1>4 DEF TypeInv, RunOK
      <3>5. \A n \in Nodes : \A i \in 1 .. Len(nodeTasks[n]) :
              nodeTasks[n][i] \in Runs /\ nodeTasks[n][i] # r
        BY <1>1 DEF TypeInv, RunOK, ChannelsOwnRuns
      <3>6. \A n \in Nodes : \A i \in 1 .. Len(nodeTasks'[n]) :
              \/ /\ i \in 1 .. Len(nodeTasks[n])
                 /\ nodeTasks'[n][i] = nodeTasks[n][i]
              \/ /\ n = cur.node
                 /\ i = Len(nodeTasks[n]) + 1
                 /\ nodeTasks'[n][i] = r
        BY <1>1, <3>1, <3>2 DEF TypeInv, RunOK
      <3>7. ChannelsOwnRuns'
        <4> SUFFICES ASSUME NEW n \in Nodes, NEW i \in 1 .. Len(nodeTasks'[n])
                     PROVE  /\ run'[nodeTasks'[n][i]].pc = "chan"
                            /\ \A m \in Nodes : \A j \in 1 .. Len(nodeTasks'[m]) :
                                 nodeTasks'[m][j] = nodeTasks'[n][i] => m = n /\ j = i
          BY DEF ChannelsOwnRuns
        <4>1. run'[nodeTasks'[n][i]].pc = "chan"
          <5>1. CASE i \in 1 .. Len(nodeTasks[n]) /\ nodeTasks'[n][i] = nodeTasks[n][i]
            <6>1. run[nodeTasks[n][i]].pc = "chan"
              BY <5>1 DEF TypeInv, RunOK, ChannelsOwnRuns
            <6> QED
              BY <1>4, <3>5, <5>1, <6>1 DEF TypeInv, RunOK
          <5>2. CASE nodeTasks'[n][i] = r
            BY <1>1, <1>3, <1>4, <2>2, <5>2 DEF TypeInv, RunOK
          <5> QED
            BY <3>6, <5>1, <5>2
        <4>2. ASSUME NEW m \in Nodes, NEW j \in 1 .. Len(nodeTasks'[m]),
                     nodeTasks'[m][j] = nodeTasks'[n][i]
              PROVE  m = n /\ j = i
          <5>1. CASE nodeTasks'[n][i] = r
            BY <3>5, <3>6, <4>2, <5>1
          <5>2. CASE i \in 1 .. Len(nodeTasks[n]) /\ nodeTasks'[n][i] = nodeTasks[n][i]
            <6>1. j \in 1 .. Len(nodeTasks[m]) /\ nodeTasks'[m][j] = nodeTasks[m][j]
              BY <3>5, <3>6, <4>2, <5>2
            <6> QED
              BY <4>2, <5>2, <6>1 DEF TypeInv, RunOK, ChannelsOwnRuns
          <5> QED
            BY <3>6, <5>1, <5>2
        <4> QED
          BY <4>1, <4>2
      <3> QED
        BY <1>5, <3>3, <3>4, <3>7 DEF RunOK
    <2> QED
      BY <2>1, <2>2
  <1>7. TickOK'
    BY TickMovesOn DEF TypeInv, DispatchSpawn
  <1> QED
    BY <1>6, <1>7, TypeInvStutter, FaultBudget DEF TypeInv, DispatchSpawn

\* The executor, completeTask, failTask, the deferred delete and
\* HandleRemoteResult, for one run.
LEMMA RunStepTypes ==
    ASSUME TypeInv, NEW r \in Runs, RunStep(r)
    PROVE  TypeInv'
  <1> RunOK
    BY DEF TypeInv
  <1>0. /\ run[r] \in Run /\ run[r].task \in TaskRecord \cup {Absent}
        /\ run[r].pc # "free" => run[r].uid \in Tasks
        /\ cancelFuncs \in [Tasks -> Runs \cup {NoRun}]
        /\ UNCHANGED <<serviceVars, historyVars>>
    BY DEF RunOK, Run, RunStep
  <1>f. FreeRun \in Run /\ FreeRun.pc = "free"
    BY RunValues
  <1>p. ASSUME NEW pc \in RunPc \ {"free", "chan"}, run[r].pc \notin {"free", "chan"},
               run' = [run EXCEPT ![r].pc = pc], UNCHANGED <<cancelFuncs, nodeTasks>>
        PROVE  RunOK'
    <2> DEFINE new == [run[r] EXCEPT !.pc = pc]
    <2>1. new \in Run /\ new.pc = pc /\ new.uid = run[r].uid
      BY <1>0, RunValues DEF Run
    <2>2. run' = [run EXCEPT ![r] = new]
      BY <1>p DEF RunOK
    <2> HIDE DEF new
    <2> QED
      BY <1>0, <1>p, <2>1, <2>2, RunChanges
  <1>r. ASSUME run[r].pc \notin {"free", "chan"},
               run' = [run EXCEPT ![r] = Returned(r)], UNCHANGED <<cancelFuncs, nodeTasks>>
        PROVE  RunOK'
    BY <1>0, <1>r, RunValues, RunChanges
  <1>1. CASE ExecutorAcquire(r)
    <2>1. RunOK'
      BY <1>1, <1>p DEF ExecutorAcquire, SetPc, RunPc, LocalPc, AgentPc
    <2> QED
      BY <1>0, <1>1, <2>1, TypeInvStutter, FaultBudget DEF TypeInv, ExecutorAcquire
  <1>2. CASE ExecutorEnds(r)
    <2>1. RunOK'
      BY <1>2, <1>p DEF ExecutorEnds, SetPc, RunPc, LocalPc, AgentPc
    <2> QED
      BY <1>0, <1>2, <2>1, TypeInvStutter, FaultBudget DEF TypeInv, ExecutorEnds
  <1>3. CASE CompleteSuccess(r)
    <2>1. RunOK'
      BY <1>3, <1>r DEF CompleteSuccess
    <2>2. StoreTypeOK' /\ FaultsTypeOK'
      <3>1. TransitionTo(run[r].task, "success") \in TaskRecord
        BY <1>0, TaskValues DEF Status
      <3>2. CASE UNCHANGED <<rows, faults>>
        BY <3>2, TypeInvStutter, FaultBudget DEF TypeInv
      <3>3. CASE \E outcome \in Outcomes :
                   Update(run[r].uid, TransitionTo(run[r].task, "success"), outcome)
        BY <3>1, <3>3, StoreWrites, FaultBudget DEF TypeInv, Update
      <3> QED
        BY <1>3, <3>2, <3>3 DEF CompleteSuccess
    <2> QED
      BY <1>0, <1>3, <2>1, <2>2, TypeInvStutter DEF TypeInv, CompleteSuccess
  <1>4. CASE CompleteError(r)
    <2>1. PICK outcome \in Outcomes :
            /\ failTask(run[r].uid, run[r].task, outcome)
            /\ run' = [run EXCEPT ![r] =
                         IF WillRequeue(run[r].task, outcome)
                           THEN [run[r] EXCEPT !.pc = "push", !.task = Retried(run[r].task)]
                           ELSE Returned(r)]
      BY <1>4 DEF CompleteError
    <2>2. StoreTypeOK' /\ FaultsTypeOK'
      BY <1>0, <2>1, FailTaskTypes DEF TypeInv
    <2>3. RunOK'
      <3>1. CASE ~WillRequeue(run[r].task, outcome)
        BY <1>4, <1>r, <2>1, <3>1 DEF CompleteError
      <3>2. CASE WillRequeue(run[r].task, outcome)
        <4> DEFINE new == [run[r] EXCEPT !.pc = "push", !.task = Retried(run[r].task)]
        <4>1. Retried(run[r].task) \in TaskRecord
          BY <1>0, <3>2, TaskValues DEF WillRequeue
        <4>2. new \in Run /\ new.pc = "push" /\ new.uid = run[r].uid
          BY <1>0, <4>1 DEF Run, RunPc
        <4>3. run' = [run EXCEPT ![r] = new]
          BY <2>1, <3>2
        <4> HIDE DEF new
        <4> QED
          BY <1>0, <1>4, <4>2, <4>3, RunChanges DEF CompleteError
      <3> QED
        BY <3>1, <3>2
    <2> QED
      BY <1>0, <1>4, <2>2, <2>3, TypeInvStutter DEF TypeInv, CompleteError
  <1>5. CASE RunRequeue(r)
    <2>1. RunOK'
      BY <1>5, <1>r DEF RunRequeue
    <2>2. QueueCollectionsOK' /\ FaultsTypeOK'
      BY <1>0, <1>5, QueuePushes, FaultBudget
      DEF TypeInv, RunRequeue, PushDelayed, storeTask
    <2> QED
      BY <1>0, <1>5, <2>1, <2>2, TypeInvStutter DEF TypeInv, RunRequeue
  <1>6. CASE RunUnregister(r)
    <2>1. RunOK'
      BY <1>0, <1>6, <1>f, RunChanges DEF RunUnregister
    <2> QED
      BY <1>0, <1>6, <2>1, TypeInvStutter, FaultBudget DEF TypeInv, RunUnregister
  <1>7. CASE HandleRemoteResult(r)
    <2>1. CASE /\ run' = [run EXCEPT
                     ![r].pc = IF @ = "rok" THEN "gok" ELSE "gerr",
                     ![r].task = GetByUID(run[r].uid)]
               /\ UNCHANGED faults
      <3> DEFINE new == [run[r] EXCEPT !.pc = IF @ = "rok" THEN "gok" ELSE "gerr",
                                       !.task = GetByUID(run[r].uid)]
      <3>1. GetByUID(run[r].uid) \in TaskRecord \cup {Absent}
        BY <1>0, <1>7 DEF TypeInv, StoreTypeOK, GetByUID, HandleRemoteResult
      <3>2. /\ new \in Run /\ new.pc \in {"gok", "gerr"} /\ new.uid = run[r].uid
        BY <1>0, <3>1 DEF Run, RunPc
      <3>3. run' = [run EXCEPT ![r] = new]
        BY <2>1 DEF RunOK
      <3> HIDE DEF new
      <3>4. RunOK'
        BY <1>0, <1>7, <2>1, <3>2, <3>3, RunChanges DEF HandleRemoteResult
      <3> QED
        BY <1>0, <1>7, <2>1, <3>4, TypeInvStutter, FaultBudget DEF TypeInv, HandleRemoteResult
    <2>2. CASE Fault /\ run' = [run EXCEPT ![r] = FreeRun]
      <3>1. RunOK'
        BY <1>0, <1>7, <1>f, <2>2, RunChanges DEF HandleRemoteResult
      <3> QED
        BY <1>0, <1>7, <2>2, <3>1, TypeInvStutter, FaultBudget DEF TypeInv, HandleRemoteResult
    <2> QED
      BY <1>7, <2>1, <2>2 DEF HandleRemoteResult
  <1>8. CASE RemoteUnregister(r)
    <2>1. RunOK'
      <3> DEFINE pc == IF run[r].pc = "gok" THEN "ok" ELSE "err"
                 new == [run[r] EXCEPT !.pc = pc]
      <3>1. pc \in {"ok", "err"} /\ pc \in RunPc
        BY DEF RunPc
      <3>2. new \in Run /\ new.pc = pc /\ new.uid = run[r].uid
        BY <1>0, <3>1, RunValues DEF Run
      <3>3. run' = [run EXCEPT ![r] = new]
        BY <1>8 DEF RunOK, RemoteUnregister, SetPc
      <3>4. /\ run[r].pc \notin {"free", "chan"} /\ UNCHANGED nodeTasks
            /\ cancelFuncs' \in [Tasks -> Runs \cup {NoRun}]
        BY <1>0, <1>8 DEF RemoteUnregister
      <3> HIDE DEF new, pc
      <3> QED
        BY <1>0, <3>1, <3>2, <3>3, <3>4, RunChanges
    <2> QED
      BY <1>0, <1>8, <2>1, TypeInvStutter, FaultBudget DEF TypeInv, RemoteUnregister
  <1> QED
    BY <1>1, <1>2, <1>3, <1>4, <1>5, <1>6, <1>7, <1>8 DEF RunStep
\* PullTask and the agents.
LEMMA AgentStepTypes ==
    ASSUME TypeInv, AgentStep
    PROVE  TypeInv'
  <1> RunOK /\ UNCHANGED <<serviceVars, historyVars>>
    BY DEF TypeInv, AgentStep
  <1>1. ASSUME NEW n \in Nodes, GetNextTaskForNode(n)
        PROVE  TypeInv'
    <2> DEFINE r == Head(nodeTasks[n])
    <2>1. /\ nodeTasks[n] \in Seq(Runs) /\ nodeTasks[n] # <<>>
          /\ r \in Runs /\ 1 \in 1 .. Len(nodeTasks[n]) /\ r = nodeTasks[n][1]
      BY <1>1 DEF RunOK, GetNextTaskForNode
    <2>2. run[r].pc = "chan" /\ run[r] \in Run /\ run[r].uid \in Tasks
      BY <2>1 DEF RunOK, ChannelsOwnRuns
    <2>3. \A m \in Nodes : \A j \in 1 .. Len(nodeTasks'[m]) :
            LET k == IF m = n THEN j + 1 ELSE j IN
            /\ k \in 1 .. Len(nodeTasks[m])
            /\ nodeTasks'[m][j] = nodeTasks[m][k]
            /\ m = n => k # 1
      BY <1>1, <2>1 DEF RunOK, GetNextTaskForNode
    <2>4. nodeTasks' \in [Nodes -> Seq(Runs)]
      BY <1>1, <2>1 DEF RunOK, GetNextTaskForNode
    <2>5. PICK new \in Run :
            /\ run' = [run EXCEPT ![r] = new]
            /\ new.pc # "free" => new.uid \in Tasks
      <3>1. CASE SetPc(r, "agent")
        <4>1. [run[r] EXCEPT !.pc = "agent"] \in Run
              /\ [run[r] EXCEPT !.pc = "agent"].uid \in Tasks
          BY <2>2 DEF Run, RunPc, AgentPc
        <4>2. run' = [run EXCEPT ![r] = [run[r] EXCEPT !.pc = "agent"]]
          BY <3>1, <2>1 DEF SetPc, RunOK
        <4> QED
          BY <4>1, <4>2
      <3>2. CASE run' = [run EXCEPT ![r] = FreeRun]
        BY <2>1, <3>2, RunValues
      <3> QED
        BY <1>1, <3>1, <3>2 DEF GetNextTaskForNode
    <2> HIDE DEF r
    <2>6. ChannelsOwnRuns'
      <3> SUFFICES ASSUME NEW m \in Nodes, NEW j \in 1 .. Len(nodeTasks'[m])
                   PROVE  /\ run'[nodeTasks'[m][j]].pc = "chan"
                          /\ \A l \in Nodes : \A i \in 1 .. Len(nodeTasks'[l]) :
                               nodeTasks'[l][i] = nodeTasks'[m][j] => l = m /\ i = j
        BY DEF ChannelsOwnRuns
      <3> DEFINE k == IF m = n THEN j + 1 ELSE j
      <3>1. /\ k \in 1 .. Len(nodeTasks[m])
            /\ nodeTasks'[m][j] = nodeTasks[m][k]
            /\ m = n => k # 1
        BY <2>3
      <3>2. nodeTasks[m][k] # r /\ nodeTasks[m][k] \in Runs
            /\ run[nodeTasks[m][k]].pc = "chan"
        BY <2>1, <3>1 DEF RunOK, ChannelsOwnRuns
      <3>3. run'[nodeTasks'[m][j]].pc = "chan"
        BY <2>5, <3>1, <3>2 DEF RunOK
      <3>4. ASSUME NEW l \in Nodes, NEW i \in 1 .. Len(nodeTasks'[l]),
                   nodeTasks'[l][i] = nodeTasks'[m][j]
            PROVE  l = m /\ i = j
        <4> DEFINE h == IF l = n THEN i + 1 ELSE i
        <4>1. h \in 1 .. Len(nodeTasks[l]) /\ nodeTasks'[l][i] = nodeTasks[l][h]
          BY <2>3
        <4>2. l = m /\ h = k
          <5> HIDE DEF h, k
          <5>1. nodeTasks[l][h] = nodeTasks[m][k]
            BY <3>1, <3>4, <4>1
          <5> QED
            BY <3>1, <4>1, <5>1 DEF RunOK, ChannelsOwnRuns
        <4> QED
          BY <4>2, <2>4
      <3> QED
        BY <3>3, <3>4
    <2>7. RunOK'
      BY <1>1, <2>1, <2>4, <2>5, <2>6 DEF RunOK, GetNextTaskForNode
    <2> QED
      BY <1>1, <2>7, TypeInvStutter, FaultBudget DEF TypeInv, GetNextTaskForNode
  <1>2. ASSUME NEW r \in Runs, AgentExecutes(r)
        PROVE  TypeInv'
    <2>1. PICK result \in {"rok", "rerr"} : SetPc(r, result)
      BY <1>2 DEF AgentExecutes
    <2> DEFINE new == [run[r] EXCEPT !.pc = result]
    <2>2. new \in Run /\ new.pc = result /\ new.uid \in Tasks
      BY <1>2 DEF RunOK, Run, RunPc, AgentPc, AgentExecutes
    <2>3. run' = [run EXCEPT ![r] = new]
      BY <2>1 DEF SetPc, RunOK
    <2> HIDE DEF new
    <2>4. RunOK'
      BY <1>2, <2>2, <2>3, RunChanges DEF AgentExecutes, RunOK
    <2> QED
      BY <1>2, <2>4, TypeInvStutter, FaultBudget DEF TypeInv, AgentExecutes
  <1>3. ASSUME NEW r \in Runs, AgentLost(r)
        PROVE  TypeInv'
    <2>1. FreeRun \in Run /\ FreeRun.pc = "free"
      BY RunValues
    <2>2. cancelFuncs' \in [Tasks -> Runs \cup {NoRun}] /\ run[r].pc # "chan"
      BY <1>3 DEF RunOK, AgentLost, AgentPc
    <2>3. RunOK'
      BY <1>3, <2>1, <2>2, RunChanges DEF AgentLost
    <2> QED
      BY <1>3, <2>3, TypeInvStutter, FaultBudget DEF TypeInv, AgentLost
  <1> QED
    BY <1>1, <1>2, <1>3 DEF AgentStep

-----------------------------------------------------------------------------
(***************************************************************************)
(* The queue's own steps, the service and crashes.                         *)
(***************************************************************************)

\* moveDueDelayed and the expiry of documents.
LEMMA QueueStepTypes ==
    ASSUME TypeInv, MoverStart \/ MoverStep \/ DataExpires
    PROVE  TypeInv'
  <1>1. CASE MoverStart
    <2>1. MoverOK'
      BY <1>1 DEF TypeInv, MoverOK, MoverStart, MoverScan, QueueCollectionsOK
    <2> QED
      BY <1>1, <2>1, TypeInvStutter, FaultBudget DEF TypeInv, MoverStart, MoverScan
  <1>2. CASE MoverStep
    <2>1. PICK outcome \in Outcomes :
            \/ \E t \in moverDue :
                 /\ MoverPush(t, outcome)
                 /\ forked' = IF outcome = "lost" THEN forked \cup {t} ELSE forked
            \/ /\ MoverRem(outcome)
               /\ forked' = IF outcome = "error" THEN forked \cup moving ELSE forked
      BY <1>2 DEF MoverStep
    <2>2. MoverOK' /\ QueueCollectionsOK'
      BY <2>1 DEF TypeInv, MoverOK, QueueCollectionsOK, MoverPush, MoverRem
    <2>3. FaultsTypeOK'
      BY <2>1, FaultBudget DEF TypeInv, MoverPush, MoverRem
    <2>4. ServiceTypeOK'
      <3>1. forked' \subseteq Tasks
        BY <2>1 DEF TypeInv, MoverOK, ServiceTypeOK
      <3> QED
        BY <1>2, <3>1 DEF TypeInv, ServiceTypeOK, MoverStep, serviceVars
    <2> QED
      BY <1>2, <2>2, <2>3, <2>4, TypeInvStutter DEF TypeInv, MoverStep
  <1>3. CASE DataExpires
    <2>1. QueueCollectionsOK'
      BY <1>3 DEF TypeInv, QueueCollectionsOK, DataExpires, TaskDataExpires
    <2> QED
      BY <1>3, <2>1, TypeInvStutter, FaultBudget
      DEF TypeInv, DataExpires, TaskDataExpires
  <1> QED
    BY <1>1, <1>2, <1>3
\* CreateTask, CancelTask and the listener of cancellations.
LEMMA ServiceTypes ==
    ASSUME TypeInv, NEW t \in Tasks, CreateTask(t) \/ CancelTask(t) \/ ServiceStep(t)
    PROVE  TypeInv'
  <1>0. rows[t] \in TaskRecord \cup {Absent} /\ cancelOp[t] \in CancelOp
        /\ cancels[t] \in 0 .. MaxCancels
    BY DEF TypeInv, StoreTypeOK, ServiceTypeOK
  <1>1. CASE CreateTask(t)
    <2>1. PICK outcome \in Outcomes :
            /\ Create(t, NewTask, outcome)
            /\ creating' = IF outcome = "ok" THEN creating \cup {t} ELSE creating
      BY <1>1 DEF CreateTask
    <2>2. StoreTypeOK' /\ FaultsTypeOK'
      BY <2>1, TaskValues, StoreWrites, FaultBudget DEF TypeInv, Create
    <2>3. ServiceTypeOK'
      BY <1>1, <2>1 DEF TypeInv, ServiceTypeOK, CreateTask, historyVars
    <2> QED
      BY <1>1, <2>2, <2>3, TypeInvStutter DEF TypeInv, CreateTask
  <1>2. CASE CancelTask(t)
    <2>1. /\ TransitionTo(rows[t], "canceled") \in TaskRecord
          /\ cancels[t] + 1 \in 0 .. MaxCancels
      BY <1>0, <1>2, TaskValues, MaxCancelsAssumption DEF Status, CancelTask
    <2>2. ServiceTypeOK'
      <3>1. cancelOp' \in [Tasks -> CancelOp]
        BY <1>2, <2>1 DEF TypeInv, ServiceTypeOK, CancelTask, CancelOp, GetByUID
      <3>2. cancels' \in [Tasks -> 0 .. MaxCancels]
        BY <1>2, <2>1 DEF TypeInv, ServiceTypeOK, CancelTask
      <3> QED
        BY <1>2, <3>1, <3>2 DEF TypeInv, ServiceTypeOK, CancelTask
    <2> QED
      BY <1>2, <2>2, TypeInvStutter, FaultBudget DEF TypeInv, CancelTask
  <1>3. CASE CreateTaskPush(t)
    <2>1. PICK outcome \in Outcomes :
            PushPriority(t, NewTask, outcome) \/ Push(t, NewTask, outcome)
      BY <1>3 DEF CreateTaskPush
    <2>2. QueueCollectionsOK' /\ FaultsTypeOK'
      BY <2>1, TaskValues, QueuePushes, FaultBudget
      DEF TypeInv, PushPriority, Push, storeTask
    <2>3. ServiceTypeOK'
      BY <1>3 DEF TypeInv, ServiceTypeOK, CreateTaskPush, historyVars
    <2> QED
      BY <1>3, <2>2, <2>3, TypeInvStutter DEF TypeInv, CreateTaskPush
  <1>4. CASE CancelTaskWrite(t)
    <2>1. PICK outcome \in Outcomes :
            /\ Update(t, cancelOp[t].task, outcome)
            /\ cancelOp' = [cancelOp EXCEPT ![t] =
                 IF outcome = "ok" THEN [cancelOp[t] EXCEPT !.pc = "publish"] ELSE NoOp]
      BY <1>4 DEF CancelTaskWrite, TypeInv, ServiceTypeOK
    <2>2. /\ cancelOp[t].task \in TaskRecord
          /\ [cancelOp[t] EXCEPT !.pc = "publish"] \in CancelOp
          /\ NoOp \in CancelOp
      BY <1>0, <1>4 DEF CancelTaskWrite, CancelOp, NoOp
    <2>3. StoreTypeOK' /\ FaultsTypeOK'
      BY <2>1, <2>2, StoreWrites, FaultBudget DEF TypeInv, Update
    <2>4. ServiceTypeOK'
      BY <1>4, <2>1, <2>2 DEF TypeInv, ServiceTypeOK, CancelTaskWrite, historyVars
    <2> QED
      BY <1>4, <2>3, <2>4, TypeInvStutter DEF TypeInv, CancelTaskWrite
  <1>5. CASE CancelTaskPublish(t)
    <2>1. ServiceTypeOK'
      BY <1>5 DEF TypeInv, ServiceTypeOK, CancelTaskPublish, CancelOp, historyVars
    <2>2. FaultsTypeOK'
      BY <1>5, FaultBudget DEF TypeInv, CancelTaskPublish
    <2> QED
      BY <1>5, <2>1, <2>2, TypeInvStutter DEF TypeInv, CancelTaskPublish
  <1>6. CASE CancelListener(t)
    <2>1. ServiceTypeOK'
      BY <1>6 DEF TypeInv, ServiceTypeOK, CancelListener, historyVars
    <2>2. cancelFuncs' \in [Tasks -> Runs \cup {NoRun}] /\ UNCHANGED nodeTasks
      BY <1>6 DEF TypeInv, RunOK, CancelListener, CancelRun
    <2>3. RunOK'
      <3>1. CASE cancelFuncs[t] # NoRun /\ run[cancelFuncs[t]].pc \in {"slot", "exec"}
        <4> DEFINE r == cancelFuncs[t]
                   new == [run[r] EXCEPT !.cancelled = TRUE]
        <4>1. r \in Runs /\ run[r].pc \in {"slot", "exec"} /\ run[r].uid \in Tasks
          BY <3>1 DEF TypeInv, RunOK
        <4>2. new \in Run /\ new.pc = run[r].pc /\ new.uid = run[r].uid
          BY <4>1 DEF TypeInv, RunOK, Run
        <4>3. run' = [run EXCEPT ![r] = new]
          BY <1>6, <3>1, <4>1 DEF TypeInv, RunOK, CancelListener, CancelRun
        <4> HIDE DEF r, new
        <4> QED
          BY <2>2, <4>1, <4>2, <4>3, RunChanges DEF TypeInv
      <3>2. CASE run' = run
        BY <2>2, <3>2 DEF TypeInv, RunOK, ChannelsOwnRuns
      <3> QED
        BY <1>6, <3>1, <3>2 DEF CancelListener, CancelRun
    <2> QED
      BY <1>6, <2>1, <2>3, TypeInvStutter, FaultBudget DEF TypeInv, CancelListener, CancelRun
  <1> QED
    BY <1>1, <1>2, <1>3, <1>4, <1>5, <1>6 DEF ServiceStep

\* The server dies and starts again with empty maps and channels.
LEMMA CrashTypes ==
    ASSUME TypeInv, Crash
    PROVE  TypeInv'
  <1> USE DEF Crash, SchedulerCrash, MoverCrash
  <1>1. TickOK'
    BY CapacityAssumption DEF TickOK
  <1>2. RunOK'
    <2>1. FreeRun \in Run /\ FreeRun.pc = "free"
      BY DEF FreeRun, Run, RunPc, LocalPc, AgentPc
    <2>2. /\ run' \in [Runs -> Run]
          /\ \A r \in Runs : run'[r].pc # "free" => run'[r].uid \in Tasks
      BY <2>1 DEF TypeInv, RunOK
    <2>3. cancelFuncs' \in [Tasks -> Runs \cup {NoRun}]
          /\ nodeTasks' \in [Nodes -> Seq(Runs)] /\ ChannelsOwnRuns'
      BY DEF ChannelsOwnRuns
    <2> QED
      BY <2>2, <2>3 DEF RunOK
  <1>3. ServiceTypeOK' /\ MoverOK'
    BY DEF TypeInv, ServiceTypeOK, MoverOK, CancelOp
  <1> QED
    BY <1>1, <1>2, <1>3, TypeInvStutter, FaultBudget DEF TypeInv

\* Every step of the system preserves the strengthened type invariant.
LEMMA TypeInvNext == TypeInv /\ [Next]_vars => TypeInv'
  <1> SUFFICES ASSUME TypeInv, [Next]_vars PROVE TypeInv'
    OBVIOUS
  <1>1. CASE \E t \in Tasks : CreateTask(t) \/ CancelTask(t) \/ ServiceStep(t)
    BY <1>1, ServiceTypes
  <1>2. CASE StartTick
    BY <1>2, StartTickTypes
  <1>3. CASE TickStep
    BY <1>3, TickTimeoutTypes, TickPopTypes, DispatchTypes, DispatchSpawnTypes
    DEF TickStep
  <1>4. CASE \E r \in Runs : RunStep(r)
    BY <1>4, RunStepTypes
  <1>5. CASE AgentStep
    BY <1>5, AgentStepTypes
  <1>6. CASE MoverStart \/ MoverStep \/ DataExpires
    BY <1>6, QueueStepTypes
  <1>7. CASE Crash
    BY <1>7, CrashTypes
  <1>8. CASE UNCHANGED vars
    BY <1>8, TypeInvStutter, FaultBudget DEF TypeInv, vars
  <1> QED
    BY <1>1, <1>2, <1>3, <1>4, <1>5, <1>6, <1>7, <1>8 DEF Next

\* In every behaviour of the pipeline every variable has its type: in
\* particular no copy of a task ever counts more than MaxRetries retries, and
\* runs in a node's channel belong to a task.
THEOREM TypeCorrect == Spec => []TypeOK
  <1>1. Init => TypeInv
    BY TypeInvInit
  <1>2. TypeInv /\ [Next]_vars => TypeInv'
    BY TypeInvNext
  <1>3. TypeInv => TypeOK
    BY TypeInvImplies
  <1> QED
    BY <1>1, <1>2, <1>3, PTL DEF Spec
-----------------------------------------------------------------------------
(***************************************************************************)
(* max_concurrent_tasks.  The inductive invariant relates the rows to the  *)
(* slots that the tick still believes to be free: what is running and what *)
(* may still be started fit together.  While the tick is between writing   *)
(* the running row and charging it, one row is counted on both sides.      *)
(***************************************************************************)
Uncharged == IF tickPc = "spawn" THEN 1 ELSE 0

SlotBudget == Cardinality(GetRunningTasks) + slots <= MaxConcurrent + Uncharged

TickHasSlot == tickPc \in {"pop", "brpop", "alloc", "spawn"} => slots >= 1

CancelsWriteCanceled ==
    \A t \in Tasks : cancelOp[t].pc = "write" => cancelOp[t].task.status = "canceled"

SlotsInv == SlotBudget /\ TickHasSlot /\ CancelsWriteCanceled

\* The running rows are finitely many, now and after a step.
LEMMA RunningFinite ==
    ASSUME TRUE
    PROVE  /\ IsFiniteSet(GetRunningTasks) /\ Cardinality(GetRunningTasks) \in Nat
           /\ IsFiniteSet(GetRunningTasks') /\ Cardinality(GetRunningTasks') \in Nat
  <1>1. GetRunningTasks \subseteq Tasks /\ GetRunningTasks' \subseteq Tasks
    BY DEF GetRunningTasks
  <1> QED
    BY <1>1, TasksAssumption, FS_Subset, FS_CardinalityType

\* Fewer rows running, fewer rows counted.
LEMMA RunningShrinks ==
    ASSUME GetRunningTasks' \subseteq GetRunningTasks
    PROVE  Cardinality(GetRunningTasks') <= Cardinality(GetRunningTasks)
  BY RunningFinite, FS_Subset

\* Writing any other status than running starts nothing.
LEMMA OtherWrites ==
    ASSUME StoreTypeOK, NEW t, NEW task, task.status # "running", NEW outcome,
           Update(t, task, outcome) \/ Create(t, task, outcome)
    PROVE  GetRunningTasks' \subseteq GetRunningTasks
  BY DEF StoreTypeOK, Update, Create, GetRunningTasks

\* Writing the status running starts at most the row that is written.
LEMMA RunningWrites ==
    ASSUME StoreTypeOK, NEW t, NEW task, NEW outcome, Update(t, task, outcome)
    PROVE  /\ outcome = "error" =>
                Cardinality(GetRunningTasks') <= Cardinality(GetRunningTasks)
           /\ Cardinality(GetRunningTasks') <= Cardinality(GetRunningTasks) + 1
  <1>1. outcome = "error" => GetRunningTasks' \subseteq GetRunningTasks
    BY DEF Update, GetRunningTasks
  <1>2. GetRunningTasks' \subseteq GetRunningTasks \cup {t}
    BY DEF StoreTypeOK, Update, GetRunningTasks
  <1>3. Cardinality(GetRunningTasks \cup {t}) <= Cardinality(GetRunningTasks) + 1
        /\ IsFiniteSet(GetRunningTasks \cup {t})
    <2>1. IsFiniteSet(GetRunningTasks) /\ Cardinality(GetRunningTasks) \in Nat
      BY RunningFinite
    <2> DEFINE S == GetRunningTasks
    <2> HIDE DEF S
    <2>2. IsFiniteSet(S) => /\ IsFiniteSet(S \cup {t})
                            /\ Cardinality(S \cup {t}) =
                                 IF t \in S THEN Cardinality(S) ELSE Cardinality(S) + 1
      BY FS_AddElement
    <2> QED
      BY <2>1, <2>2 DEF S
  <1>4. Cardinality(GetRunningTasks') <= Cardinality(GetRunningTasks \cup {t})
    BY <1>2, <1>3, FS_Subset
  <1>5. Cardinality(GetRunningTasks \cup {t}) \in Nat
    BY <1>3, FS_CardinalityType
  <1> QED
    BY <1>1, <1>3, <1>4, <1>5, RunningFinite, RunningShrinks

\* failTask writes pending, failed or nothing.
LEMMA FailTaskStartsNothing ==
    ASSUME StoreTypeOK, NEW t, NEW task \in TaskRecord \cup {Absent}, NEW outcome,
           failTask(t, task, outcome)
    PROVE  GetRunningTasks' \subseteq GetRunningTasks
  <1>1. CASE Update(t, FailedCopy(task), outcome)
    BY <1>1, TaskValues, OtherWrites
  <1>2. CASE UNCHANGED rows
    BY <1>2 DEF GetRunningTasks
  <1> QED
    BY <1>1, <1>2 DEF failTask

\* A step outside the tick that starts no row and leaves the pending
\* cancellations as they are keeps the invariant.
LEMMA OutsideTheTick ==
    ASSUME TypeInv, SlotsInv, UNCHANGED <<slots, tickPc>>,
           GetRunningTasks' \subseteq GetRunningTasks, CancelsWriteCanceled'
    PROVE  SlotsInv'
  <1>1. SlotBudget'
    BY RunningFinite, RunningShrinks, CapacityAssumption
    DEF SlotsInv, SlotBudget, Uncharged, TypeInv, TickOK
  <1> QED
    BY <1>1 DEF SlotsInv, TickHasSlot

\* A step of the tick after which the running rows and the slots left do not
\* exceed what they were, the uncharged row included.
LEMMA InsideTheTick ==
    ASSUME SlotsInv, SlotBudget', TickHasSlot', UNCHANGED cancelOp
    PROVE  SlotsInv'
  BY DEF SlotsInv, CancelsWriteCanceled

\* Leaving the tick, or charging what was dispatched, fits the budget.
LEMMA ChargingFits ==
    ASSUME TypeInv, SlotsInv, tickPc \in {"pop", "brpop", "alloc", "spawn"},
           EndTick \/ DispatchReturns,
           \/ GetRunningTasks' \subseteq GetRunningTasks
           \/ /\ tickPc = "alloc" /\ DispatchReturns
              /\ Cardinality(GetRunningTasks') <= Cardinality(GetRunningTasks) + 1
    PROVE  SlotBudget' /\ TickHasSlot'
  <1>1. Cardinality(GetRunningTasks') <= Cardinality(GetRunningTasks) + 1
    BY RunningFinite, RunningShrinks
  <1>2. GetRunningTasks' \subseteq GetRunningTasks
          => Cardinality(GetRunningTasks') <= Cardinality(GetRunningTasks)
    BY RunningShrinks
  <1>3. slots \in Nat /\ slots >= 1 /\ MaxConcurrent \in Nat
    BY CapacityAssumption DEF TypeInv, TickOK, SlotsInv, TickHasSlot
  <1>4. CASE EndTick
    <2>1. slots' = 0 /\ tickPc' = "idle"
      BY <1>4 DEF EndTick
    <2> QED
      BY <1>1, <1>2, <1>3, <2>1, RunningFinite
      DEF SlotsInv, SlotBudget, Uncharged, TickHasSlot
  <1>5. CASE DispatchReturns /\ slots > 1
    <2>1. slots' = slots - 1 /\ tickPc' = "pop"
      BY <1>5 DEF DispatchReturns
    <2> QED
      BY <1>1, <1>2, <1>3, <1>5, <2>1, RunningFinite
      DEF SlotsInv, SlotBudget, Uncharged, TickHasSlot
  <1> QED
    BY <1>4, <1>5 DEF DispatchReturns

\* What is running fits the slots, also while one row is not yet charged.
LEMMA SlotsInvImplies == TypeInv /\ SlotsInv => RunningWithinSlots
  BY RunningFinite, CapacityAssumption
  DEF TypeInv, TickOK, SlotsInv, SlotBudget, Uncharged, TickHasSlot, RunningWithinSlots

\* Nothing runs in the initial state.
LEMMA SlotsInit == Init => SlotsInv
  <1> SUFFICES ASSUME Init PROVE SlotsInv
    OBVIOUS
  <1>1. GetRunningTasks = {}
    BY DEF Init, StoreInit, GetRunningTasks, Absent
  <1>2. Cardinality(GetRunningTasks) = 0
    BY <1>1, FS_EmptySet
  <1>3. slots = 0 /\ tickPc = "idle" /\ \A t \in Tasks : cancelOp[t] = NoOp
    BY DEF Init, SchedulerInit
  <1> QED
    BY <1>2, <1>3, CapacityAssumption
    DEF SlotsInv, SlotBudget, Uncharged, TickHasSlot, CancelsWriteCanceled, NoOp

\* A step that leaves the table and the pending cancellations alone.
LEMMA NothingStarts ==
    /\ UNCHANGED rows => GetRunningTasks' \subseteq GetRunningTasks
    /\ CancelsWriteCanceled /\ UNCHANGED cancelOp => CancelsWriteCanceled'
  BY DEF GetRunningTasks, CancelsWriteCanceled

\* Completions, re-queues and reports start no row.
LEMMA RunsStartNothing ==
    ASSUME TypeInv, NEW r \in Runs, RunStep(r)
    PROVE  GetRunningTasks' \subseteq GetRunningTasks
  <1>0. StoreTypeOK /\ run[r].task \in TaskRecord \cup {Absent}
    BY DEF TypeInv, RunOK, Run
  <1>1. CASE CompleteSuccess(r)
    <2>1. TransitionTo(run[r].task, "success").status # "running"
      BY <1>0, TaskValues DEF Status
    <2>2. CASE UNCHANGED rows
      BY <2>2, NothingStarts
    <2>3. CASE \E outcome \in Outcomes :
                 Update(run[r].uid, TransitionTo(run[r].task, "success"), outcome)
      BY <1>0, <2>1, <2>3, OtherWrites
    <2> QED
      BY <1>1, <2>2, <2>3 DEF CompleteSuccess
  <1>2. CASE CompleteError(r)
    BY <1>0, <1>2, FailTaskStartsNothing DEF CompleteError
  <1>3. CASE UNCHANGED rows
    BY <1>3, NothingStarts
  <1> QED
    BY <1>1, <1>2, <1>3
    DEF RunStep, ExecutorAcquire, ExecutorEnds, RunRequeue, RunUnregister,
        HandleRemoteResult, RemoteUnregister

\* So they keep the slot invariant.
LEMMA RunStepSlots ==
    ASSUME TypeInv, SlotsInv, NEW r \in Runs, RunStep(r)
    PROVE  SlotsInv'
  <1>1. UNCHANGED <<slots, tickPc, cancelOp>>
    BY DEF RunStep, ExecutorAcquire, ExecutorEnds, CompleteSuccess, CompleteError,
           RunRequeue, RunUnregister, HandleRemoteResult, RemoteUnregister, tickVars, serviceVars
  <1>2. CancelsWriteCanceled'
    BY <1>1, NothingStarts DEF SlotsInv
  <1> QED
    BY <1>1, <1>2, RunsStartNothing, OutsideTheTick

\* The agents and the mover do not touch the table.
LEMMA OtherStepsSlots ==
    ASSUME TypeInv, SlotsInv, AgentStep \/ MoverStart \/ MoverStep \/ DataExpires
    PROVE  SlotsInv'
  <1>1. UNCHANGED <<slots, tickPc, cancelOp, rows>>
    BY DEF AgentStep, GetNextTaskForNode, AgentExecutes, AgentLost, MoverStart,
           MoverStep, DataExpires, tickVars, serviceVars
  <1> QED
    BY <1>1, NothingStarts, OutsideTheTick DEF SlotsInv

\* The service inserts created rows and writes canceled ones.
LEMMA ServiceStartsNothing ==
    ASSUME TypeInv, SlotsInv, NEW t \in Tasks,
           CreateTask(t) \/ CancelTask(t) \/ ServiceStep(t)
    PROVE  GetRunningTasks' \subseteq GetRunningTasks
  <1>0. StoreTypeOK
    BY DEF TypeInv
  <1>1. CASE CreateTask(t)
    <2>1. NewTask.status # "running"
      BY DEF NewTask
    <2> QED
      BY <1>0, <1>1, <2>1, OtherWrites DEF CreateTask
  <1>2. CASE CancelTaskWrite(t)
    <2>1. cancelOp[t].task.status # "running"
      BY <1>2 DEF SlotsInv, CancelsWriteCanceled, CancelTaskWrite
    <2> QED
      BY <1>0, <1>2, <2>1, OtherWrites DEF CancelTaskWrite
  <1>3. CASE UNCHANGED rows
    BY <1>3, NothingStarts
  <1> QED
    BY <1>1, <1>2, <1>3
    DEF CancelTask, ServiceStep, CreateTaskPush, CancelTaskPublish, CancelListener,
        CancelRun

\* So it keeps the slot invariant.
LEMMA ServiceSlots ==
    ASSUME TypeInv, SlotsInv, NEW t \in Tasks,
           CreateTask(t) \/ CancelTask(t) \/ ServiceStep(t)
    PROVE  SlotsInv'
  <1>0. StoreTypeOK /\ cancelOp \in [Tasks -> CancelOp] /\ rows[t] \in TaskRecord \cup {Absent}
    BY DEF TypeInv, ServiceTypeOK, StoreTypeOK
  <1>1. UNCHANGED <<slots, tickPc>>
    BY DEF CreateTask, CancelTask, ServiceStep, CreateTaskPush, CancelTaskWrite,
           CancelTaskPublish, CancelListener, CancelRun, tickVars
  <1>2. GetRunningTasks' \subseteq GetRunningTasks
    BY ServiceStartsNothing
  <1>3. CancelsWriteCanceled'
    <2>1. CASE CancelTask(t)
      <3>1. TransitionTo(rows[t], "canceled").status = "canceled"
        BY <1>0, TaskValues DEF Status
      <3> QED
        BY <1>0, <2>1, <3>1 DEF SlotsInv, CancelsWriteCanceled, CancelTask, GetByUID
    <2>2. CASE CancelTaskWrite(t)
      BY <1>0, <2>2 DEF SlotsInv, CancelsWriteCanceled, CancelTaskWrite, NoOp, CancelOp
    <2>3. CASE CancelTaskPublish(t)
      BY <1>0, <2>3 DEF SlotsInv, CancelsWriteCanceled, CancelTaskPublish, NoOp
    <2>4. CASE UNCHANGED cancelOp
      BY <2>4, NothingStarts DEF SlotsInv
    <2> QED
      BY <2>1, <2>2, <2>3, <2>4
      DEF CreateTask, ServiceStep, CreateTaskPush, CancelListener
  <1> QED
    BY <1>1, <1>2, <1>3, OutsideTheTick

\* A tick starts with what the rows leave; a crash leaves the rows alone.
LEMMA StartAndCrashSlots ==
    ASSUME TypeInv, SlotsInv, StartTick \/ Crash
    PROVE  SlotsInv'
  <1>1. GetRunningTasks' = GetRunningTasks
    BY DEF StartTick, TickStart, Crash, SchedulerCrash, GetRunningTasks
  <1>2. Cardinality(GetRunningTasks) <= MaxConcurrent
    BY SlotsInvImplies DEF RunningWithinSlots
  <1>3. CASE StartTick
    <2>1. /\ tickPc' = "check" /\ UNCHANGED cancelOp
          /\ slots' = IF Cardinality(GetRunningTasks) < MaxConcurrent
                        THEN MaxConcurrent - Cardinality(GetRunningTasks) ELSE 0
      BY <1>3 DEF StartTick, TickStart, serviceVars
    <2>2. SlotBudget' /\ TickHasSlot'
      BY <1>1, <1>2, <2>1, RunningFinite, CapacityAssumption
      DEF SlotBudget, Uncharged, TickHasSlot
    <2> QED
      BY <2>1, <2>2, InsideTheTick
  <1>4. CASE Crash
    <2>1. tickPc' = "idle" /\ slots' = 0
      BY <1>4 DEF Crash, SchedulerCrash
    <2>2. CancelsWriteCanceled'
      BY <1>4 DEF Crash, CancelsWriteCanceled, NoOp
    <2>3. SlotBudget' /\ TickHasSlot'
      BY <1>1, <1>2, <2>1, RunningFinite, CapacityAssumption
      DEF SlotBudget, Uncharged, TickHasSlot
    <2> QED
      BY <2>2, <2>3 DEF SlotsInv
  <1> QED
    BY <1>3, <1>4

\* A step of the tick that charges nothing.
LEMMA TickMoves ==
    ASSUME TypeInv, SlotsInv, UNCHANGED slots, tickPc # "spawn", tickPc' # "spawn",
           GetRunningTasks' \subseteq GetRunningTasks
    PROVE  SlotBudget'
  BY RunningFinite, RunningShrinks, CapacityAssumption
  DEF SlotsInv, SlotBudget, Uncharged, TypeInv, TickOK

\* Timeouts, pops and push-backs start no row.
LEMMA TickWithoutDispatchSlots ==
    ASSUME TypeInv, SlotsInv,
           \/ \E e \in expired : TickTimeout(e)
           \/ TickRequeue \/ TickAllocate \/ TickPopPriority \/ TickPopPending
           \/ TickPushBack
    PROVE  SlotBudget' /\ TickHasSlot'
  <1>1. CASE \E e \in expired : TickTimeout(e)
    <2>1. PICK e \in expired : TickTimeout(e)
      BY <1>1
    <2>2. StoreTypeOK /\ e.task \in TaskRecord
      BY DEF TypeInv, TickOK, Expired
    <2>3. GetRunningTasks' \subseteq GetRunningTasks
      BY <2>1, <2>2, FailTaskStartsNothing DEF TickTimeout
    <2>4. UNCHANGED slots /\ tickPc = "check" /\ tickPc' \in {"check", "requeue"}
      BY <2>1 DEF TickTimeout
    <2> QED
      BY <2>3, <2>4, TickMoves DEF TickHasSlot
  <1>2. CASE TickRequeue \/ TickPushBack
    <2>1. /\ UNCHANGED <<slots, rows>> /\ tickPc # "spawn"
          /\ tickPc' = IF tickPc = "requeue" THEN "check" ELSE "pop"
          /\ tickPc \in {"requeue", "alloc"}
      BY <1>2 DEF TickRequeue, TickPushBack
    <2> QED
      BY <2>1, NothingStarts, TickMoves DEF SlotsInv, TickHasSlot
  <1>3. CASE TickAllocate
    <2>1. UNCHANGED rows /\ tickPc = "check"
      BY <1>3 DEF TickAllocate
    <2>2. CASE slots > 0
      <3>1. UNCHANGED slots /\ tickPc' = "pop"
        BY <1>3, <2>2 DEF TickAllocate
      <3>2. TickHasSlot'
        BY <2>2, <3>1 DEF TypeInv, TickOK, TickHasSlot
      <3> QED
        BY <2>1, <3>1, <3>2, NothingStarts, TickMoves
    <2>3. CASE ~(slots > 0)
      <3>1. UNCHANGED slots /\ tickPc' = "idle"
        BY <1>3, <2>3, CapacityAssumption DEF TickAllocate, EndTick, TypeInv, TickOK
      <3> QED
        BY <2>1, <3>1, NothingStarts, TickMoves DEF TickHasSlot
    <2> QED
      BY <2>2, <2>3
  <1>4. CASE TickPopPriority \/ TickPopPending
    <2>1. UNCHANGED rows /\ tickPc \in {"pop", "brpop"}
      BY <1>4 DEF TickPopPriority, TickPopPending
    <2>2. CASE EndTick
      BY <2>1, <2>2, NothingStarts, ChargingFits
    <2>3. CASE UNCHANGED slots /\ tickPc' \in {"alloc", "brpop"}
      BY <2>1, <2>3, NothingStarts, TickMoves DEF SlotsInv, TickHasSlot
    <2> QED
      BY <1>4, <2>2, <2>3 DEF TickPopPriority, TickPopPending, Popped
  <1> QED
    BY <1>1, <1>2, <1>3, <1>4

\* dispatch: the row it marks running is the one it charges.
LEMMA DispatchSlots ==
    ASSUME TypeInv, SlotsInv,
           \/ DispatchPending
           \/ \E n \in Nodes \cup {NoNode} : DispatchRunning(n)
           \/ DispatchSpawn
    PROVE  SlotBudget' /\ TickHasSlot'
  <1>1. CASE DispatchPending
    <2>1. tickPc = "alloc" /\ StoreTypeOK /\ cur.task \in TaskRecord
      BY <1>1 DEF DispatchPending, TypeInv, TickOK, Cur
    <2>2. TransitionTo(cur.task, "pending").status # "running"
      BY <2>1, TaskValues DEF Status
    <2>3. GetRunningTasks' \subseteq GetRunningTasks
      BY <1>1, <2>1, <2>2, OtherWrites DEF DispatchPending
    <2>4. CASE DispatchReturns
      BY <2>1, <2>3, <2>4, ChargingFits
    <2>5. CASE UNCHANGED <<tickPc, slots>>
      BY <2>1, <2>3, <2>5, TickMoves DEF SlotsInv, TickHasSlot
    <2> QED
      BY <1>1, <2>4, <2>5 DEF DispatchPending
  <1>2. CASE \E n \in Nodes \cup {NoNode} : DispatchRunning(n)
    <2>1. tickPc = "alloc" /\ StoreTypeOK
      BY <1>2 DEF DispatchRunning, TypeInv
    <2>2. CASE UNCHANGED rows /\ DispatchReturns
      BY <2>1, <2>2, NothingStarts, ChargingFits
    <2>3. CASE \E outcome \in Outcomes :
                 /\ Update(cur.uid, TransitionTo(cur.task, "running"), outcome)
                 /\ \/ tickPc' = "spawn" /\ UNCHANGED slots
                    \/ DispatchReturns
      <3>1. Cardinality(GetRunningTasks') <= Cardinality(GetRunningTasks) + 1
        BY <2>1, <2>3, RunningWrites
      <3>2. CASE DispatchReturns
        BY <2>1, <3>1, <3>2, ChargingFits
      <3>3. CASE tickPc' = "spawn" /\ UNCHANGED slots
        BY <2>1, <3>1, <3>3, RunningFinite, CapacityAssumption
        DEF TypeInv, TickOK, SlotsInv, SlotBudget, Uncharged, TickHasSlot
      <3> QED
        BY <2>3, <3>2, <3>3
    <2> QED
      BY <1>2, <2>2, <2>3 DEF DispatchRunning
  <1>3. CASE DispatchSpawn
    BY <1>3, NothingStarts, ChargingFits DEF DispatchSpawn
  <1> QED
    BY <1>1, <1>2, <1>3

\* Every step of the system preserves the slot invariant.
LEMMA SlotsNext == TypeInv /\ SlotsInv /\ [Next]_vars => SlotsInv'
  <1> SUFFICES ASSUME TypeInv, SlotsInv, [Next]_vars PROVE SlotsInv'
    OBVIOUS
  <1>1. CASE \E t \in Tasks : CreateTask(t) \/ CancelTask(t) \/ ServiceStep(t)
    BY <1>1, ServiceSlots
  <1>2. CASE StartTick \/ Crash
    BY <1>2, StartAndCrashSlots
  <1>3. CASE TickStep
    <2>1. UNCHANGED cancelOp
      BY <1>3 DEF TickStep, serviceVars
    <2>2. SlotBudget' /\ TickHasSlot'
      BY <1>3, TickWithoutDispatchSlots, DispatchSlots DEF TickStep
    <2> QED
      BY <2>1, <2>2, InsideTheTick
  <1>4. CASE \E r \in Runs : RunStep(r)
    BY <1>4, RunStepSlots
  <1>5. CASE AgentStep \/ MoverStart \/ MoverStep \/ DataExpires
    BY <1>5, OtherStepsSlots
  <1>6. CASE UNCHANGED vars
    <2>1. UNCHANGED <<rows, slots, tickPc, cancelOp>>
      BY <1>6 DEF vars, tickVars, serviceVars
    <2> QED
      BY <2>1, NothingStarts, OutsideTheTick DEF SlotsInv
  <1> QED
    BY <1>1, <1>2, <1>3, <1>4, <1>5, <1>6 DEF Next

\* In every behaviour, with any number of tasks, faults, timeouts and crashes,
\* at most max_concurrent_tasks rows are marked running: the budget that tick
\* computes once stays an upper bound while everybody else changes the rows.
THEOREM SlotsRespected == Spec => []RunningWithinSlots
  <1>1. Init => TypeInv /\ SlotsInv
    BY TypeInvInit, SlotsInit
  <1>2. TypeInv /\ SlotsInv /\ [Next]_vars => (TypeInv /\ SlotsInv)'
    BY TypeInvNext, SlotsNext
  <1>3. TypeInv /\ SlotsInv => RunningWithinSlots
    BY SlotsInvImplies
  <1> QED
    BY <1>1, <1>2, <1>3, PTL DEF Spec

-----------------------------------------------------------------------------
(***************************************************************************)
(* CPU and memory.  The same argument with sums for counts: what the rows  *)
(* ask for and what the tick believes to be left fit the machine, and the  *)
(* tick never believes more to be left than there is.                      *)
(***************************************************************************)

\* The units that a finite set of tasks asks for are finitely many.
LEMMA UnitsFinite ==
    ASSUME NEW demand \in [Tasks -> Nat], NEW S \in SUBSET Tasks
    PROVE  /\ IsFiniteSet(Units(demand, S))
           /\ SumOver(demand, S) \in Nat
  <1> DEFINE Parts == {{t} \X (1 .. demand[t]) : t \in S}
             f == [t \in S |-> {t} \X (1 .. demand[t])]
  <1>1. IsFiniteSet(S)
    BY TasksAssumption, FS_Subset
  <1>2. f \in Surjection(S, Parts)
    BY DEF Surjection
  <1>3. IsFiniteSet(Parts)
    <2> HIDE DEF f, Parts
    <2> QED
      BY <1>1, <1>2, FS_Surjection
  <1>4. ASSUME NEW P \in Parts
        PROVE  IsFiniteSet(P)
    <2>1. PICK t \in S : P = {t} \X (1 .. demand[t])
      OBVIOUS
    <2>2. demand[t] \in Int /\ 1 \in Int
      OBVIOUS
    <2>3. IsFiniteSet(1 .. demand[t]) /\ IsFiniteSet({t})
      BY <2>2, FS_Interval, FS_Singleton
    <2> QED
      BY <2>1, <2>3, FS_Product
  <1>5. IsFiniteSet(UNION Parts)
    <2> HIDE DEF Parts
    <2> QED
      BY <1>3, <1>4, FS_UNION
  <1>6. IsFiniteSet(Units(demand, S))
    BY <1>5 DEF Units
  <1> QED
    BY <1>6, FS_CardinalityType DEF SumOver

\* Fewer tasks ask for no more.
LEMMA SumShrinks ==
    ASSUME NEW demand \in [Tasks -> Nat], NEW S \in SUBSET Tasks, NEW T \in SUBSET S
    PROVE  SumOver(demand, T) <= SumOver(demand, S)
  <1>1. Units(demand, T) \subseteq Units(demand, S)
    BY DEF Units
  <1> QED
    BY <1>1, UnitsFinite, FS_Subset DEF SumOver

\* One task more asks for its own demand more.
LEMMA SumGrows ==
    ASSUME NEW demand \in [Tasks -> Nat], NEW S \in SUBSET Tasks, NEW t \in Tasks
    PROVE  SumOver(demand, S \cup {t}) <= SumOver(demand, S) + demand[t]
  <1> DEFINE U == Units(demand, S)
             V == {t} \X (1 .. demand[t])
  <1>1. Units(demand, S \cup {t}) = U \cup V
    BY DEF Units
  <1>2. IsFiniteSet(U) /\ Cardinality(U) \in Nat
    BY UnitsFinite, FS_CardinalityType
  <1>3. IsFiniteSet(V) /\ Cardinality(V) = demand[t]
    <2>1. demand[t] \in Int /\ 1 \in Int /\ demand[t] \in Nat
      OBVIOUS
    <2>2. IsFiniteSet(1 .. demand[t]) /\ Cardinality(1 .. demand[t]) = demand[t]
      BY <2>1, FS_Interval
    <2>3. IsFiniteSet({t}) /\ Cardinality({t}) = 1
      BY FS_Singleton
    <2>4. IsFiniteSet(V) /\ Cardinality(V) = Cardinality({t}) * Cardinality(1 .. demand[t])
      BY <2>2, <2>3, FS_Product
    <2> QED
      BY <2>1, <2>2, <2>3, <2>4
  <1>4. IsFiniteSet(U \cap V) /\ Cardinality(U \cap V) \in Nat
    BY <1>2, FS_Intersection, FS_CardinalityType
  <1>5. Cardinality(U \cup V) = Cardinality(U) + Cardinality(V) - Cardinality(U \cap V)
    BY <1>2, <1>3, FS_Union
  <1>6. demand[t] \in Nat
    OBVIOUS
  <1>7. SumOver(demand, S) = Cardinality(U) /\ SumOver(demand, S \cup {t}) = Cardinality(U \cup V)
    BY <1>1 DEF SumOver
  <1> HIDE DEF U, V
  <1> QED
    BY <1>2, <1>3, <1>4, <1>5, <1>6, <1>7

CPUUsed == SumOver(CPULimit, GetRunningTasks)
MemUsed == SumOver(MemoryLimit, GetRunningTasks)

\* The demand that is in the row and not yet charged.
CPUOwed == IF tickPc = "spawn" THEN CPULimit[cur.uid] ELSE 0
MemOwed == IF tickPc = "spawn" THEN MemoryLimit[cur.uid] ELSE 0

\* What is used and what is believed to be left fit the total, but for a
\* demand that is used, still believed to be left, and owed.
Covered(used, left, total, owed) ==
    left \in Nat /\ owed <= left /\ used + left <= total + owed

ResourceInv ==
    /\ Covered(CPUUsed, cpu, TotalCPU, CPUOwed)
    /\ Covered(MemUsed, mem, TotalMemory, MemOwed)

\* The arithmetic of a budget: it implies that the total is respected; using
\* less keeps it; giving up what is left keeps it.
LEMMA BudgetKept ==
    ASSUME NEW used \in Nat, NEW left, NEW total \in Nat, NEW owed \in Nat,
           Covered(used, left, total, owed), NEW new \in Nat
    PROVE  /\ used <= total
           /\ new <= used => new <= total /\ Covered(new, left, total, owed)
           /\ new <= total => Covered(new, 0, total, 0)
  BY DEF Covered

\* A demand d that is left may be used and owed, or charged at once.
LEMMA BudgetUsed ==
    ASSUME NEW used \in Nat, NEW left, NEW total \in Nat, Covered(used, left, total, 0),
           NEW new \in Nat, NEW d \in Nat, d <= left, new <= used + d
    PROVE  new <= total /\ Covered(new, left, total, d) /\ Covered(new, left - d, total, 0)
  BY DEF Covered

\* A demand that is owed may be charged.
LEMMA BudgetPaid ==
    ASSUME NEW used \in Nat, NEW left, NEW total \in Nat, NEW d \in Nat,
           Covered(used, left, total, d), NEW new \in Nat, new <= used
    PROVE  new <= total /\ Covered(new, left - d, total, 0)
  BY DEF Covered

\* How the demand of the running rows follows the rows.
LEMMA UsedFollowsRows ==
    /\ CPUUsed \in Nat /\ MemUsed \in Nat /\ CPUUsed' \in Nat /\ MemUsed' \in Nat
    /\ GetRunningTasks' \subseteq GetRunningTasks => CPUUsed' <= CPUUsed /\ MemUsed' <= MemUsed
    /\ \A t \in Tasks : GetRunningTasks' \subseteq GetRunningTasks \cup {t}
                          => /\ CPUUsed' <= CPUUsed + CPULimit[t]
                             /\ MemUsed' <= MemUsed + MemoryLimit[t]
  <1> DEFINE R == GetRunningTasks
             S == GetRunningTasks'
  <1>1. R \subseteq Tasks /\ S \subseteq Tasks
    BY DEF GetRunningTasks
  <1>2. /\ CPUUsed = SumOver(CPULimit, R) /\ CPUUsed' = SumOver(CPULimit, S)
        /\ MemUsed = SumOver(MemoryLimit, R) /\ MemUsed' = SumOver(MemoryLimit, S)
    BY DEF CPUUsed, MemUsed, SumOver, Units, GetRunningTasks
  <1> HIDE DEF R, S
  <1>3. CPULimit \in [Tasks -> Nat] /\ MemoryLimit \in [Tasks -> Nat]
    BY DemandAssumption
  <1>4. CPUUsed \in Nat /\ MemUsed \in Nat /\ CPUUsed' \in Nat /\ MemUsed' \in Nat
    BY <1>1, <1>2, <1>3, UnitsFinite
  <1>5. S \subseteq R => CPUUsed' <= CPUUsed /\ MemUsed' <= MemUsed
    BY <1>1, <1>2, <1>3, SumShrinks
  <1>6. ASSUME NEW t \in Tasks, S \subseteq R \cup {t}
        PROVE  CPUUsed' <= CPUUsed + CPULimit[t] /\ MemUsed' <= MemUsed + MemoryLimit[t]
    <2>1. R \cup {t} \in SUBSET Tasks
      BY <1>1
    <2>2. /\ SumOver(CPULimit, S) <= SumOver(CPULimit, R \cup {t})
          /\ SumOver(MemoryLimit, S) <= SumOver(MemoryLimit, R \cup {t})
      BY <1>3, <1>6, <2>1, SumShrinks
    <2>3. /\ SumOver(CPULimit, R \cup {t}) <= SumOver(CPULimit, R) + CPULimit[t]
          /\ SumOver(MemoryLimit, R \cup {t}) <= SumOver(MemoryLimit, R) + MemoryLimit[t]
      BY <1>1, <1>3, SumGrows
    <2>4. SumOver(CPULimit, R \cup {t}) \in Nat /\ SumOver(MemoryLimit, R \cup {t}) \in Nat
      BY <1>3, <2>1, UnitsFinite
    <2>5. CPULimit[t] \in Nat /\ MemoryLimit[t] \in Nat
      BY <1>3
    <2> QED
      BY <1>2, <1>4, <2>2, <2>3, <2>4, <2>5
  <1> QED
    BY <1>4, <1>5, <1>6 DEF R, S

\* The numbers of the budget, now and after a step.
LEMMA BudgetNumbers ==
    ASSUME TypeInv
    PROVE  /\ CPUUsed \in Nat /\ MemUsed \in Nat /\ CPUUsed' \in Nat /\ MemUsed' \in Nat
           /\ CPUOwed \in Nat /\ MemOwed \in Nat
           /\ TotalCPU \in Nat /\ TotalMemory \in Nat
           /\ 0 \in Nat
           /\ tickPc # "spawn" => CPUOwed = 0 /\ MemOwed = 0
           /\ tickPc' # "spawn" => CPUOwed' = 0 /\ MemOwed' = 0
           /\ tickPc = "spawn" => CPUOwed = CPULimit[cur.uid] /\ MemOwed = MemoryLimit[cur.uid]
           /\ tickPc' = "spawn" => CPUOwed' = CPULimit[cur'.uid] /\ MemOwed' = MemoryLimit[cur'.uid]
  <1>1. CPUUsed \in Nat /\ MemUsed \in Nat /\ CPUUsed' \in Nat /\ MemUsed' \in Nat
    BY UsedFollowsRows
  <1>2. tickPc = "spawn" => CPULimit[cur.uid] \in Nat /\ MemoryLimit[cur.uid] \in Nat
    BY DemandAssumption DEF TypeInv, TickOK, Cur
  <1> QED
    BY <1>1, <1>2, CapacityAssumption DEF CPUOwed, MemOwed

\* What the invariant says after a step.
LEMMA ResourceInvAfter ==
    ASSUME Covered(CPUUsed', cpu', TotalCPU, CPUOwed'),
           Covered(MemUsed', mem', TotalMemory, MemOwed')
    PROVE  ResourceInv'
  BY DEF ResourceInv, Covered

\* What is running fits, also while one row is not yet charged.
LEMMA ResourceInvImplies ==
    ASSUME TypeInv, ResourceInv
    PROVE  CPUUsed <= TotalCPU /\ MemUsed <= TotalMemory
  BY BudgetNumbers, BudgetKept DEF ResourceInv

\* What canAllocate lets through is left, a demand of zero included.
LEMMA AllocatedIsLeft ==
    ASSUME ResourceInv, NEW t \in Tasks, canAllocate(t)
    PROVE  /\ CPULimit[t] \in Nat /\ CPULimit[t] <= cpu
           /\ MemoryLimit[t] \in Nat /\ MemoryLimit[t] <= mem
  BY DemandAssumption DEF ResourceInv, Covered, canAllocate

\* A step that starts no row and charges nothing.
LEMMA ResourcesKept ==
    ASSUME TypeInv, ResourceInv, UNCHANGED <<cpu, mem>>,
           UNCHANGED <<tickPc, cur>> \/ (tickPc # "spawn" /\ tickPc' # "spawn"),
           GetRunningTasks' \subseteq GetRunningTasks
    PROVE  ResourceInv'
  <1>1. CPUUsed' <= CPUUsed /\ MemUsed' <= MemUsed
    BY UsedFollowsRows
  <1>2. CPUOwed' = CPUOwed /\ MemOwed' = MemOwed
    BY DEF CPUOwed, MemOwed
  <1>3. /\ Covered(CPUUsed', cpu, TotalCPU, CPUOwed)
        /\ Covered(MemUsed', mem, TotalMemory, MemOwed)
    BY <1>1, BudgetNumbers, BudgetKept DEF ResourceInv
  <1> QED
    BY <1>2, <1>3, ResourceInvAfter

\* The tick, or the process, ends and no row starts.
LEMMA ResourcesGivenUp ==
    ASSUME TypeInv, ResourceInv, cpu' = 0, mem' = 0, tickPc' = "idle",
           CPUUsed' <= TotalCPU, MemUsed' <= TotalMemory
    PROVE  ResourceInv'
  <1>1. Covered(CPUUsed', 0, TotalCPU, 0) /\ Covered(MemUsed', 0, TotalMemory, 0)
    BY BudgetNumbers, BudgetKept DEF ResourceInv
  <1> QED
    BY <1>1, BudgetNumbers, ResourceInvAfter

\* Ending without having started a row.
LEMMA TickEndsResources ==
    ASSUME TypeInv, ResourceInv, EndTick, GetRunningTasks' \subseteq GetRunningTasks
    PROVE  ResourceInv'
  <1>1. CPUUsed' <= CPUUsed /\ MemUsed' <= MemUsed
    BY UsedFollowsRows
  <1>2. CPUUsed' <= TotalCPU /\ MemUsed' <= TotalMemory
    BY <1>1, BudgetNumbers, BudgetKept DEF ResourceInv
  <1> QED
    BY <1>2, ResourcesGivenUp DEF EndTick

\* dispatch returns: what it charges is what its write may have added.
LEMMA ResourcesCharged ==
    ASSUME TypeInv, ResourceInv, DispatchReturns,
           \/ /\ tickPc = "alloc" /\ canAllocate(cur.uid)
              /\ GetRunningTasks' \subseteq GetRunningTasks \cup {cur.uid}
           \/ tickPc = "spawn" /\ GetRunningTasks' \subseteq GetRunningTasks
    PROVE  ResourceInv'
  <1> DEFINE c == CPULimit[cur.uid]
             m == MemoryLimit[cur.uid]
  <1>1. cur.uid \in Tasks /\ c \in Nat /\ m \in Nat
    BY DemandAssumption DEF TypeInv, TickOK, Cur
  <1>2. /\ CPUUsed' <= TotalCPU /\ Covered(CPUUsed', cpu - c, TotalCPU, 0)
        /\ MemUsed' <= TotalMemory /\ Covered(MemUsed', mem - m, TotalMemory, 0)
    <2>1. CASE tickPc = "alloc"
      <3>1. GetRunningTasks' \subseteq GetRunningTasks \cup {cur.uid}
        BY <2>1
      <3>2. CPUUsed' <= CPUUsed + c /\ MemUsed' <= MemUsed + m
        BY <1>1, <3>1, UsedFollowsRows
      <3>3. c <= cpu /\ m <= mem
        BY <1>1, <2>1, AllocatedIsLeft
      <3>4. CPUOwed = 0 /\ MemOwed = 0
        BY <2>1, BudgetNumbers
      <3>5. Covered(CPUUsed, cpu, TotalCPU, 0) /\ Covered(MemUsed, mem, TotalMemory, 0)
        BY <3>4 DEF ResourceInv
      <3>6. /\ CPUUsed \in Nat /\ CPUUsed' \in Nat /\ TotalCPU \in Nat
            /\ MemUsed \in Nat /\ MemUsed' \in Nat /\ TotalMemory \in Nat
        BY BudgetNumbers
      <3> HIDE DEF c, m
      <3>7. CPUUsed' <= TotalCPU /\ Covered(CPUUsed', cpu - c, TotalCPU, 0)
        BY <1>1, <3>2, <3>3, <3>5, <3>6, BudgetUsed
      <3>8. MemUsed' <= TotalMemory /\ Covered(MemUsed', mem - m, TotalMemory, 0)
        BY <1>1, <3>2, <3>3, <3>5, <3>6, BudgetUsed
      <3> QED
        BY <3>7, <3>8
    <2>2. CASE tickPc = "spawn"
      <3>1. GetRunningTasks' \subseteq GetRunningTasks
        BY <2>2
      <3>2. CPUUsed' <= CPUUsed /\ MemUsed' <= MemUsed
        BY <3>1, UsedFollowsRows
      <3>3. CPUOwed = c /\ MemOwed = m
        BY <2>2, BudgetNumbers
      <3>4. Covered(CPUUsed, cpu, TotalCPU, c) /\ Covered(MemUsed, mem, TotalMemory, m)
        BY <3>3 DEF ResourceInv
      <3>5. /\ CPUUsed \in Nat /\ CPUUsed' \in Nat /\ TotalCPU \in Nat
            /\ MemUsed \in Nat /\ MemUsed' \in Nat /\ TotalMemory \in Nat
        BY BudgetNumbers
      <3> HIDE DEF c, m
      <3>6. CPUUsed' <= TotalCPU /\ Covered(CPUUsed', cpu - c, TotalCPU, 0)
        BY <1>1, <3>2, <3>4, <3>5, BudgetPaid
      <3>7. MemUsed' <= TotalMemory /\ Covered(MemUsed', mem - m, TotalMemory, 0)
        BY <1>1, <3>2, <3>4, <3>5, BudgetPaid
      <3> QED
        BY <3>6, <3>7
    <2> QED
      BY <2>1, <2>2
  <1>3. CASE EndTick
    BY <1>2, <1>3, ResourcesGivenUp DEF EndTick
  <1>4. CASE tickPc' = "pop" /\ cpu' = cpu - c /\ mem' = mem - m
    BY <1>2, <1>4, BudgetNumbers, ResourceInvAfter
  <1> QED
    BY <1>3, <1>4 DEF DispatchReturns

\* Writing a row starts at most this row.
LEMMA WriteStarts ==
    ASSUME StoreTypeOK, NEW t, NEW task, NEW outcome, Update(t, task, outcome)
    PROVE  GetRunningTasks' \subseteq GetRunningTasks \cup {t}
  BY DEF StoreTypeOK, Update, GetRunningTasks

\* A tick reads what the rows leave; a crash leaves the rows alone.
LEMMA StartAndCrashResources ==
    ASSUME TypeInv, ResourceInv, StartTick \/ Crash
    PROVE  ResourceInv'
  <1>1. UNCHANGED rows
    BY DEF StartTick, TickStart, Crash, SchedulerCrash
  <1>2. CPUUsed' = CPUUsed /\ MemUsed' = MemUsed
    BY <1>1 DEF CPUUsed, MemUsed, SumOver, Units, GetRunningTasks
  <1>3. CPUUsed <= TotalCPU /\ MemUsed <= TotalMemory
    BY ResourceInvImplies
  <1>4. CASE StartTick
    <2>1. tickPc' = "check" /\ cpu' = TotalCPU - CPUUsed /\ mem' = TotalMemory - MemUsed
      BY <1>4 DEF StartTick, TickStart, CPUUsed, MemUsed
    <2>2. CPUOwed' = 0 /\ MemOwed' = 0
      BY <2>1 DEF CPUOwed, MemOwed
    <2>3. Covered(CPUUsed, TotalCPU - CPUUsed, TotalCPU, 0)
      BY <1>3, BudgetNumbers DEF Covered
    <2>4. Covered(MemUsed, TotalMemory - MemUsed, TotalMemory, 0)
      BY <1>3, BudgetNumbers DEF Covered
    <2> QED
      BY <1>2, <2>1, <2>2, <2>3, <2>4, ResourceInvAfter
  <1>5. CASE Crash
    BY <1>2, <1>3, <1>5, ResourcesGivenUp DEF Crash, SchedulerCrash
  <1> QED
    BY <1>4, <1>5

\* Timeouts, pops and push-backs start no row and charge nothing.
LEMMA TickWithoutDispatchResources ==
    ASSUME TypeInv, ResourceInv,
           \/ \E e \in expired : TickTimeout(e)
           \/ TickRequeue \/ TickAllocate \/ TickPopPriority \/ TickPopPending
           \/ TickPushBack
    PROVE  ResourceInv'
  <1>1. CASE \E e \in expired : TickTimeout(e)
    <2>1. PICK e \in expired : TickTimeout(e)
      BY <1>1
    <2>2. StoreTypeOK /\ e.task \in TaskRecord
      BY DEF TypeInv, TickOK, Expired
    <2>3. GetRunningTasks' \subseteq GetRunningTasks
      BY <2>1, <2>2, FailTaskStartsNothing DEF TickTimeout
    <2>4. UNCHANGED <<cpu, mem>> /\ tickPc # "spawn" /\ tickPc' # "spawn"
      BY <2>1 DEF TickTimeout
    <2> QED
      BY <2>3, <2>4, ResourcesKept
  <1>2. CASE TickRequeue \/ TickPushBack
    BY <1>2, NothingStarts, ResourcesKept DEF TickRequeue, TickPushBack
  <1>3. CASE TickAllocate \/ TickPopPriority \/ TickPopPending
    <2>1. GetRunningTasks' \subseteq GetRunningTasks
      BY <1>3, NothingStarts DEF TickAllocate, TickPopPriority, TickPopPending
    <2>2. CASE EndTick
      BY <2>1, <2>2, TickEndsResources
    <2>3. CASE UNCHANGED <<cpu, mem>> /\ tickPc # "spawn" /\ tickPc' # "spawn"
      BY <2>1, <2>3, ResourcesKept
    <2> QED
      BY <1>3, <2>2, <2>3 DEF TickAllocate, TickPopPriority, TickPopPending, Popped
  <1> QED
    BY <1>1, <1>2, <1>3

\* dispatch: the row it marks running is the one that canAllocate admitted and
\* that it charges, whichever way its writes end.
LEMMA DispatchResources ==
    ASSUME TypeInv, ResourceInv,
           \/ DispatchPending
           \/ \E n \in Nodes \cup {NoNode} : DispatchRunning(n)
           \/ DispatchSpawn
    PROVE  ResourceInv'
  <1>1. CASE DispatchPending
    <2>1. /\ tickPc = "alloc" /\ canAllocate(cur.uid)
          /\ StoreTypeOK /\ cur.task \in TaskRecord
      BY <1>1 DEF DispatchPending, TypeInv, TickOK, Cur
    <2>2. TransitionTo(cur.task, "pending").status # "running"
      BY <2>1, TaskValues DEF Status
    <2>3. GetRunningTasks' \subseteq GetRunningTasks
      BY <1>1, <2>1, <2>2, OtherWrites DEF DispatchPending
    <2>4. CASE DispatchReturns
      BY <2>1, <2>3, <2>4, ResourcesCharged
    <2>5. CASE UNCHANGED <<tickPc, cpu, mem>>
      BY <2>1, <2>3, <2>5, ResourcesKept
    <2> QED
      BY <1>1, <2>4, <2>5 DEF DispatchPending
  <1>2. CASE \E n \in Nodes \cup {NoNode} : DispatchRunning(n)
    <2>1. tickPc = "alloc" /\ canAllocate(cur.uid) /\ StoreTypeOK
      BY <1>2 DEF DispatchRunning, TypeInv
    <2>2. GetRunningTasks' \subseteq GetRunningTasks \cup {cur.uid}
      BY <1>2, <2>1, WriteStarts, NothingStarts DEF DispatchRunning
    <2>3. CASE DispatchReturns
      BY <2>1, <2>2, <2>3, ResourcesCharged
    <2>4. CASE tickPc' = "spawn" /\ cur'.uid = cur.uid /\ UNCHANGED <<cpu, mem>>
      <3> DEFINE c == CPULimit[cur.uid]
                 m == MemoryLimit[cur.uid]
      <3>1. cur.uid \in Tasks
        BY <2>1 DEF TypeInv, TickOK, Cur
      <3>2. c \in Nat /\ c <= cpu /\ m \in Nat /\ m <= mem
        BY <2>1, <3>1, AllocatedIsLeft
      <3>3. CPUOwed = 0 /\ MemOwed = 0 /\ CPUOwed' = c /\ MemOwed' = m
        BY <2>1, <2>4 DEF CPUOwed, MemOwed
      <3>4. CPUUsed' <= CPUUsed + c /\ MemUsed' <= MemUsed + m
        BY <2>2, <3>1, UsedFollowsRows
      <3>5. Covered(CPUUsed, cpu, TotalCPU, 0) /\ Covered(MemUsed, mem, TotalMemory, 0)
        BY <3>3 DEF ResourceInv
      <3>6. /\ CPUUsed \in Nat /\ CPUUsed' \in Nat /\ TotalCPU \in Nat
            /\ MemUsed \in Nat /\ MemUsed' \in Nat /\ TotalMemory \in Nat
        BY BudgetNumbers
      <3> HIDE DEF c, m
      <3>7. Covered(CPUUsed', cpu, TotalCPU, c)
        BY <3>2, <3>4, <3>5, <3>6, BudgetUsed
      <3>8. Covered(MemUsed', mem, TotalMemory, m)
        BY <3>2, <3>4, <3>5, <3>6, BudgetUsed
      <3> QED
        BY <2>4, <3>3, <3>7, <3>8, ResourceInvAfter
    <2>5. \/ DispatchReturns
          \/ tickPc' = "spawn" /\ cur'.uid = cur.uid /\ UNCHANGED <<cpu, mem>>
      <3>1. cur \in Cur
        BY <2>1 DEF TypeInv, TickOK
      <3> QED
        BY <1>2, <3>1 DEF DispatchRunning, Cur
    <2> QED
      BY <2>3, <2>4, <2>5
  <1>3. CASE DispatchSpawn
    BY <1>3, NothingStarts, ResourcesCharged DEF DispatchSpawn
  <1> QED
    BY <1>1, <1>2, <1>3

\* Every step of the system preserves the resource invariant.
LEMMA ResourcesNext ==
    TypeInv /\ SlotsInv /\ ResourceInv /\ [Next]_vars => ResourceInv'
  <1> SUFFICES ASSUME TypeInv, SlotsInv, ResourceInv, [Next]_vars PROVE ResourceInv'
    OBVIOUS
  <1>1. CASE \E t \in Tasks : CreateTask(t) \/ CancelTask(t) \/ ServiceStep(t)
    <2>1. UNCHANGED <<tickPc, cpu, mem, cur>>
      BY <1>1 DEF CreateTask, CancelTask, ServiceStep, CreateTaskPush, CancelTaskWrite,
                  CancelTaskPublish, CancelListener, CancelRun, tickVars
    <2> QED
      BY <1>1, <2>1, ServiceStartsNothing, ResourcesKept
  <1>2. CASE StartTick \/ Crash
    BY <1>2, StartAndCrashResources
  <1>3. CASE TickStep
    BY <1>3, TickWithoutDispatchResources, DispatchResources DEF TickStep
  <1>4. CASE \E r \in Runs : RunStep(r)
    <2>1. UNCHANGED <<tickPc, cpu, mem, cur>>
      BY <1>4 DEF RunStep, ExecutorAcquire, ExecutorEnds, CompleteSuccess, CompleteError,
                  RunRequeue, RunUnregister, HandleRemoteResult, RemoteUnregister, tickVars
    <2> QED
      BY <1>4, <2>1, RunsStartNothing, ResourcesKept
  <1>5. CASE AgentStep \/ MoverStart \/ MoverStep \/ DataExpires
    <2>1. UNCHANGED <<tickPc, cpu, mem, cur, rows>>
      BY <1>5 DEF AgentStep, GetNextTaskForNode, AgentExecutes, AgentLost, MoverStart,
                  MoverStep, DataExpires, tickVars
    <2> QED
      BY <2>1, NothingStarts, ResourcesKept
  <1>6. CASE UNCHANGED vars
    <2>1. UNCHANGED <<tickPc, cpu, mem, cur, rows>>
      BY <1>6 DEF vars, tickVars
    <2> QED
      BY <2>1, NothingStarts, ResourcesKept
  <1> QED
    BY <1>1, <1>2, <1>3, <1>4, <1>5, <1>6 DEF Next

\* Nothing is used and nothing is believed to be left in the initial state.
LEMMA ResourcesInit == Init => ResourceInv
  <1> SUFFICES ASSUME Init PROVE ResourceInv
    OBVIOUS
  <1>1. GetRunningTasks = {}
    BY DEF Init, StoreInit, GetRunningTasks, Absent
  <1>2. SumOver(CPULimit, {}) = 0 /\ SumOver(MemoryLimit, {}) = 0
    BY FS_EmptySet DEF SumOver, Units
  <1>3. CPUUsed = 0 /\ MemUsed = 0
    BY <1>1, <1>2 DEF CPUUsed, MemUsed
  <1>4. cpu = 0 /\ mem = 0 /\ tickPc = "idle"
    BY DEF Init, SchedulerInit
  <1> QED
    BY <1>3, <1>4, CapacityAssumption DEF ResourceInv, Covered, CPUOwed, MemOwed

\* In every behaviour, for any demands and any number of tasks, the rows marked
\* running ask for no more CPU and no more memory than the machine has:
\* canAllocate compares with a budget that the tick read once and charges
\* itself, while every other goroutine and crashes change the rows.
THEOREM ResourcesRespected == Spec => []RunningWithinResources
  <1>1. Init => TypeInv /\ SlotsInv /\ ResourceInv
    BY TypeInvInit, SlotsInit, ResourcesInit
  <1>2. TypeInv /\ SlotsInv /\ ResourceInv /\ [Next]_vars
          => (TypeInv /\ SlotsInv /\ ResourceInv)'
    BY TypeInvNext, SlotsNext, ResourcesNext
  <1>3. TypeInv /\ SlotsInv /\ ResourceInv => RunningWithinResources
    BY ResourceInvImplies DEF RunningWithinResources, CPUUsed, MemUsed
  <1> QED
    BY <1>1, <1>2, <1>3, PTL DEF Spec
=============================================================================
