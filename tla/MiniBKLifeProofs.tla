-------------------------- MODULE MiniBKLifeProofs --------------------------
(***************************************************************************)
(* Where a task lives: proofs that a task which was not forked is in one   *)
(* place at a time, that the copy held in that place is the row, that rows *)
(* follow the life cycle of model/task.go, and that no step without a      *)
(* failing call forgets a waiting task.                                    *)
(***************************************************************************)
EXTENDS MiniBKProofs

(***************************************************************************)
(* The places of a task, one predicate for each kind of member of Lives.   *)
(***************************************************************************)
InList(t) == \E i \in DOMAIN pendingList : pendingList[i] = t

OnceInList(t) ==
    \A i, j \in DOMAIN pendingList :
        pendingList[i] = t /\ pendingList[j] = t => i = j

Delayed(t) == t \in delayedSet /\ t \notin moving

Works(r, t) == run[r].uid = t /\ run[r].pc # "unreg"

Worked(t) == \E r \in Runs : Works(r, t)

OnceWorked(t) == \A q, r \in Runs : Works(q, t) /\ Works(r, t) => q = r

Alive(t) ==
    \/ t \in creating
    \/ InList(t)
    \/ t \in prioritySet
    \/ Delayed(t)
    \/ cur.uid = t
    \/ Worked(t)

\* At most one kind of place, and that one once.
Single(t) ==
    /\ OnceInList(t) /\ OnceWorked(t)
    /\ t \in creating => ~InList(t)
    /\ t \in creating \/ InList(t) => t \notin prioritySet
    /\ t \in creating \/ InList(t) \/ t \in prioritySet => ~Delayed(t)
    /\ t \in creating \/ InList(t) \/ t \in prioritySet \/ Delayed(t) => cur.uid # t
    /\ \/ t \in creating \/ InList(t) \/ t \in prioritySet \/ Delayed(t)
       \/ cur.uid = t
       => ~Worked(t)

(***************************************************************************)
(* What the row says while the task is alive.  A task that is worked on,   *)
(* or about to be, has a running row unless it was canceled.               *)
(***************************************************************************)
AtWork(t) ==
    \/ tickPc = "spawn" /\ cur.uid = t
    \/ \E r \in Runs : Works(r, t) /\ run[r].pc # "push"

RowFits(t) ==
    /\ Alive(t) => rows[t] # Absent
    /\ AtWork(t) => rows[t].status \in {"running", "canceled"}

\* The copies of a task that was not canceled are its row.
CopiesFit(t) ==
    /\ t \in creating => rows[t] = NewTask
    /\ InList(t) \/ t \in prioritySet \/ Delayed(t)
         => taskData[t] \in {rows[t], Absent}
    /\ cur.uid = t => cur.task = rows[t]
    /\ \A r \in Runs : Works(r, t) => run[r].task = rows[t]
    /\ AtWork(t) => rows[t].status = "running"

TaskInv(t) ==
    t \notin forked =>
        /\ Single(t)
        /\ RowFits(t)
        /\ cancels[t] = 0 => CopiesFit(t)

(***************************************************************************)
(* What holds of the goroutines whatever happened to the task.             *)
(***************************************************************************)
MoverInv ==
    /\ moverDue \subseteq delayedSet /\ moving \subseteq delayedSet
    /\ moverDue \cap moving = {}

\* The tick holds a task only where it uses one; it times out and re-queues
\* only forked tasks.
TickInv ==
    /\ tickPc \notin {"requeue", "alloc", "spawn"} => cur = NoCur
    /\ \A e \in expired : e.uid \in forked
    /\ tickPc = "requeue" => cur.uid \in forked

\* Only waiting copies are queued, only running ones are started.
WaitingDocs ==
    /\ \A t \in Tasks : taskData[t].status \in {"created", "pending", "absent"}
    /\ tickPc \in {"requeue", "alloc"} => cur.task.status \in {"created", "pending"}
    /\ tickPc = "spawn" => cur.task.status = "running"
    /\ \A r \in Runs : run[r].pc = "push" => run[r].task.status = "pending"

FreeIsFree == \A r \in Runs : run[r].pc = "free" => run[r].uid = NoTask

CancelsCounted == \A t \in Tasks : cancelOp[t] # NoOp => cancels[t] > 0

LifeInv ==
    /\ MoverInv /\ TickInv /\ WaitingDocs /\ FreeIsFree /\ CancelsCounted
    /\ \A t \in Tasks : TaskInv(t)

-----------------------------------------------------------------------------
(***************************************************************************)
(* Places.                                                                 *)
(***************************************************************************)

\* The predicates above are about the members of Lives.
LEMMA LivesArePlaces ==
    ASSUME NEW t \in Tasks
    PROVE  /\ Alive(t) <=> Lives(t) # {}
           /\ Single(t) => \A p, q \in Lives(t) : p = q
  <1>1. \A p : p \in Lives(t) <=>
          \/ p = <<"service", t>> /\ t \in creating
          \/ \E i \in DOMAIN pendingList : p = <<"list", i>> /\ pendingList[i] = t
          \/ p = <<"priority", t>> /\ t \in prioritySet
          \/ p = <<"delayed", t>> /\ Delayed(t)
          \/ p = <<"tick", t>> /\ cur.uid = t
          \/ \E r \in Runs : p = <<"run", r>> /\ Works(r, t)
    BY DEF Lives, Delayed, Works
  <1>2. Alive(t) => Lives(t) # {}
    <2>1. CASE InList(t)
      BY <1>1, <2>1 DEF InList
    <2>2. CASE Worked(t)
      BY <1>1, <2>2 DEF Worked
    <2> QED
      BY <1>1, <2>1, <2>2 DEF Alive
  <1>3. Lives(t) # {} => Alive(t)
    BY <1>1 DEF Alive, InList, Worked
  <1>4. ASSUME Single(t), NEW p \in Lives(t), NEW q \in Lives(t)
        PROVE  p = q
    <2>1. CASE InList(t)
      <3>1. /\ t \notin creating /\ t \notin prioritySet /\ ~Delayed(t)
            /\ cur.uid # t /\ ~Worked(t)
        BY <1>4, <2>1 DEF Single
      <3>2. \A x \in Lives(t) :
              \E i \in DOMAIN pendingList : x = <<"list", i>> /\ pendingList[i] = t
        BY <1>1, <3>1 DEF Worked
      <3> QED
        BY <1>4, <3>2 DEF Single, OnceInList
    <2>2. CASE Worked(t)
      <3>1. /\ t \notin creating /\ t \notin prioritySet /\ ~Delayed(t)
            /\ cur.uid # t /\ ~InList(t)
        BY <1>4, <2>2 DEF Single
      <3>2. \A x \in Lives(t) : \E r \in Runs : x = <<"run", r>> /\ Works(r, t)
        BY <1>1, <3>1 DEF InList
      <3> QED
        BY <1>4, <3>2 DEF Single, OnceWorked
    <2>3. CASE ~InList(t) /\ ~Worked(t)
      <3>1. \A x \in Lives(t) :
              \/ x = <<"service", t>> /\ t \in creating
              \/ x = <<"priority", t>> /\ t \in prioritySet
              \/ x = <<"delayed", t>> /\ Delayed(t)
              \/ x = <<"tick", t>> /\ cur.uid = t
        BY <1>1, <2>3 DEF InList, Worked
      <3> QED
        BY <1>4, <3>1 DEF Single
    <2> QED
      BY <2>1, <2>2, <2>3
  <1> QED
    BY <1>2, <1>3, <1>4

\* LPUSH adds one entry; BRPOP takes the head away; the order of the others
\* stays.
LEMMA ListPushed ==
    ASSUME pendingList \in Seq(Tasks), NEW u \in Tasks,
           pendingList' = Append(pendingList, u), NEW t \in Tasks
    PROVE  /\ InList(t)' <=> InList(t) \/ t = u
           /\ OnceInList(t) /\ (t = u => ~InList(t)) => OnceInList(t)'
  <1>1. /\ DOMAIN pendingList = 1 .. Len(pendingList)
        /\ DOMAIN pendingList' = 1 .. Len(pendingList) + 1
        /\ Len(pendingList) \in Nat
        /\ \A i \in 1 .. Len(pendingList) : pendingList'[i] = pendingList[i]
        /\ pendingList'[Len(pendingList) + 1] = u
    OBVIOUS
  <1>2. InList(t)' <=> InList(t) \/ t = u
    BY <1>1 DEF InList
  <1>3. OnceInList(t) /\ (t = u => ~InList(t)) => OnceInList(t)'
    BY <1>1 DEF InList, OnceInList
  <1> QED
    BY <1>2, <1>3

\* The head leaves the list with its only entry.
LEMMA ListPopped ==
    ASSUME pendingList \in Seq(Tasks), pendingList # <<>>,
           pendingList' = Tail(pendingList), NEW t \in Tasks
    PROVE  /\ InList(Head(pendingList))
           /\ InList(t)' => InList(t)
           /\ t # Head(pendingList) /\ InList(t) => InList(t)'
           /\ OnceInList(t) => OnceInList(t)'
           /\ OnceInList(t) /\ t = Head(pendingList) => ~InList(t)'
  <1>1. /\ DOMAIN pendingList = 1 .. Len(pendingList)
        /\ DOMAIN pendingList' = 1 .. Len(pendingList) - 1
        /\ Len(pendingList) \in Nat /\ Len(pendingList) > 0
        /\ \A i \in 1 .. Len(pendingList) - 1 : pendingList'[i] = pendingList[i + 1]
        /\ pendingList[1] = Head(pendingList)
    OBVIOUS
  <1>2. InList(Head(pendingList))
    BY <1>1 DEF InList
  <1>3. InList(t)' => InList(t)
    BY <1>1 DEF InList
  <1>4. t # Head(pendingList) /\ InList(t) => InList(t)'
    <2> SUFFICES ASSUME t # Head(pendingList), InList(t) PROVE InList(t)'
      OBVIOUS
    <2>1. PICK i \in DOMAIN pendingList : pendingList[i] = t
      BY DEF InList
    <2>2. i # 1 /\ i - 1 \in DOMAIN pendingList' /\ pendingList'[i - 1] = t
      BY <1>1, <2>1
    <2> QED
      BY <2>2 DEF InList
  <1>5. OnceInList(t) => OnceInList(t)'
    BY <1>1 DEF OnceInList
  <1>6. OnceInList(t) /\ t = Head(pendingList) => ~InList(t)'
    BY <1>1 DEF OnceInList, InList
  <1> QED
    BY <1>2, <1>3, <1>4, <1>5, <1>6

\* A step that leaves the list alone.
LEMMA ListKept ==
    ASSUME UNCHANGED pendingList, NEW t
    PROVE  (InList(t)' <=> InList(t)) /\ (OnceInList(t)' <=> OnceInList(t))
  BY DEF InList, OnceInList

(***************************************************************************)
(* Steps that do not concern a task: every place it has after the step it  *)
(* had before, with the same copy, and its row is the same.                *)
(***************************************************************************)
ListLeaves(t) == (InList(t)' => InList(t)) /\ (OnceInList(t) => OnceInList(t)')

CollectionsLeave(t) ==
    /\ ListLeaves(t)
    /\ t \in prioritySet' => t \in prioritySet
    /\ Delayed(t)' => Delayed(t)
    /\ taskData'[t] \in {taskData[t], Absent}

TickLeaves(t) == cur'.uid = t => cur' = cur /\ tickPc' = tickPc

RunsLeave(t) ==
    \A r \in Runs : run'[r].uid = t /\ run'[r].pc # "unreg" =>
        /\ Works(r, t)
        /\ run'[r].task = run[r].task
        /\ run[r].pc = "push" => run'[r].pc = "push"

HistoryLeaves(t) == /\ t \in creating' => t \in creating
                    /\ t \in forked => t \in forked'
                    /\ cancels'[t] = 0 => cancels[t] = 0

\* Such a step keeps what is known of the task.
LEMMA UntouchedKeeps ==
    ASSUME NEW t \in Tasks, TaskInv(t), CollectionsLeave(t), TickLeaves(t),
           RunsLeave(t), HistoryLeaves(t), rows'[t] = rows[t]
    PROVE  TaskInv(t)'
  <1> SUFFICES ASSUME t \notin forked'
               PROVE  /\ Single(t)' /\ RowFits(t)'
                      /\ cancels'[t] = 0 => CopiesFit(t)'
    BY DEF TaskInv
  <1>1. Single(t) /\ RowFits(t) /\ (cancels[t] = 0 => CopiesFit(t))
    BY DEF TaskInv, HistoryLeaves
  <1>2. /\ Worked(t)' => Worked(t)
        /\ OnceWorked(t)'
    BY <1>1 DEF RunsLeave, Worked, Works, Single, OnceWorked
  <1>3. AtWork(t)' => AtWork(t)
    BY DEF AtWork, RunsLeave, TickLeaves, Works
  <1>4. Single(t)'
    BY <1>1, <1>2 DEF Single, CollectionsLeave, ListLeaves, TickLeaves, HistoryLeaves
  <1>5. Alive(t)' => Alive(t)
    BY <1>2 DEF Alive, CollectionsLeave, ListLeaves, TickLeaves, HistoryLeaves
  <1>6. RowFits(t)'
    BY <1>1, <1>3, <1>5 DEF RowFits
  <1>7. cancels'[t] = 0 => CopiesFit(t)'
    <2> SUFFICES ASSUME cancels'[t] = 0 PROVE CopiesFit(t)'
      OBVIOUS
    <2>1. CopiesFit(t)
      BY <1>1 DEF HistoryLeaves
    <2>2. \A r \in Runs : Works(r, t)' => run'[r].task = rows'[t]
      BY <2>1 DEF RunsLeave, Works, CopiesFit
    <2>3. InList(t)' \/ t \in prioritySet' \/ Delayed(t)'
            => taskData'[t] \in {rows'[t], Absent}
      BY <2>1 DEF CollectionsLeave, ListLeaves, CopiesFit
    <2>4. /\ t \in creating' => rows'[t] = NewTask
          /\ cur'.uid = t => cur'.task = rows'[t]
          /\ AtWork(t)' => rows'[t].status = "running"
      BY <1>3, <2>1 DEF HistoryLeaves, TickLeaves, CopiesFit
    <2> QED
      BY <2>2, <2>3, <2>4 DEF CopiesFit
  <1> QED
    BY <1>4, <1>6, <1>7
-----------------------------------------------------------------------------
(***************************************************************************)
(* The goroutines.                                                         *)
(***************************************************************************)

\* What the mover still has to handle stays in the delayed set: everybody
\* else only adds to it.
LEMMA MoverInvNext ==
    ASSUME MoverInv, [Next]_vars
    PROVE  MoverInv'
  <1> USE DEF MoverInv
  <1>1. ASSUME UNCHANGED moverVars, delayedSet \subseteq delayedSet'
        PROVE  MoverInv'
    BY <1>1 DEF moverVars
  <1>2. ASSUME UNCHANGED moverVars, UNCHANGED queueVars
        PROVE  MoverInv'
    BY <1>2 DEF moverVars, queueVars
  <1>3. ASSUME NEW t, NEW task, NEW outcome, UNCHANGED moverVars,
               \/ Push(t, task, outcome) \/ PushPriority(t, task, outcome)
               \/ PushDelayed(t, task, outcome)
        PROVE  MoverInv'
    BY <1>1, <1>3 DEF Push, PushPriority, PushDelayed
  <1>4. CASE \E t \in Tasks : CreateTask(t) \/ CancelTask(t) \/ ServiceStep(t)
    <2> PICK t \in Tasks : CreateTask(t) \/ CancelTask(t) \/ ServiceStep(t)
      BY <1>4
    <2>1. CASE CreateTaskPush(t)
      BY <1>3, <2>1 DEF CreateTaskPush
    <2> QED
      BY <1>2, <2>1 DEF CreateTask, CancelTask, ServiceStep, CancelTaskWrite,
                        CancelTaskPublish, CancelListener, CancelRun
  <1>5. CASE StartTick
    BY <1>2, <1>5 DEF StartTick, TickStart
  <1>6. CASE TickStep
    <2>1. CASE TickRequeue \/ TickPushBack
      BY <1>3, <2>1 DEF TickRequeue, TickPushBack
    <2>2. CASE TickPopPriority \/ TickPopPending
      BY <1>1, <1>2, <2>2 DEF TickPopPriority, TickPopPending, PopPriority, PopPending
    <2> QED
      BY <1>2, <1>6, <2>1, <2>2 DEF TickStep, TickTimeout, TickAllocate, DispatchPending,
         DispatchRunning, DispatchSpawn
  <1>7. CASE \E r \in Runs : RunStep(r)
    <2> PICK r \in Runs : RunStep(r)
      BY <1>7
    <2>1. CASE RunRequeue(r)
      BY <1>3, <2>1 DEF RunRequeue
    <2> QED
      BY <1>2, <2>1 DEF RunStep, ExecutorAcquire, ExecutorEnds, CompleteSuccess,
                        CompleteError, RunUnregister, HandleRemoteResult, RemoteUnregister
  <1>8. CASE AgentStep
    BY <1>2, <1>8 DEF AgentStep, GetNextTaskForNode, AgentExecutes, AgentLost
  <1>9. CASE MoverStart
    BY <1>9 DEF MoverStart, MoverScan, queueVars
  <1>10. CASE MoverStep
    <2>1. ASSUME NEW t \in moverDue, NEW outcome, MoverPush(t, outcome)
          PROVE  MoverInv'
      BY <2>1 DEF MoverPush
    <2>2. ASSUME NEW outcome, MoverRem(outcome)
          PROVE  MoverInv'
      BY <2>2 DEF MoverRem
    <2> QED
      BY <1>10, <2>1, <2>2 DEF MoverStep
  <1>11. CASE DataExpires
    BY <1>1, <1>11 DEF DataExpires, TaskDataExpires
  <1>12. CASE Crash
    BY <1>12 DEF Crash, MoverCrash
  <1>13. CASE UNCHANGED vars
    BY <1>2, <1>13 DEF vars
  <1> QED
    BY <1>4, <1>5, <1>6, <1>7, <1>8, <1>9, <1>10, <1>11, <1>12, <1>13 DEF Next

\* Nothing unforks a task, and no request is uncounted.
LEMMA HistoryGrows ==
    ASSUME TypeInv, [Next]_vars
    PROVE  forked \subseteq forked' /\ \A t \in Tasks : cancels'[t] = 0 => cancels[t] = 0
  <1>1. ASSUME UNCHANGED historyVars
        PROVE  forked \subseteq forked' /\ cancels' = cancels
    BY <1>1 DEF historyVars
  <1>2. CASE \E t \in Tasks : CancelTask(t)
    BY <1>2 DEF CancelTask, TypeInv, ServiceTypeOK
  <1>3. CASE \E t \in Tasks : CreateTask(t) \/ ServiceStep(t)
    BY <1>1, <1>3 DEF CreateTask, ServiceStep, CreateTaskPush, CancelTaskWrite,
                      CancelTaskPublish, CancelListener
  <1>4. CASE StartTick \/ MoverStep \/ Crash
    BY <1>4 DEF StartTick, MoverStep, Crash
  <1> QED
    BY <1>1, <1>2, <1>3, <1>4 DEF Next, TickStep, RunStep, AgentStep, MoverStart,
                                  DataExpires, vars

\* A tick holds a task only while it handles one, and times out only tasks
\* that StartTick has recorded as forked.
LEMMA TickInvNext ==
    ASSUME TypeInv, TickInv, [Next]_vars
    PROVE  TickInv'
  <1>h. forked \subseteq forked'
    BY HistoryGrows
  <1>1. ASSUME UNCHANGED tickVars
        PROVE  TickInv'
    BY <1>h, <1>1 DEF TickInv, tickVars
  <1>2. ASSUME EndTick
        PROVE  TickInv'
    BY <1>h, <1>2 DEF TickInv, EndTick
  <1>3. ASSUME DispatchReturns
        PROVE  TickInv'
    BY <1>h, <1>2, <1>3 DEF TickInv, DispatchReturns
  <1>4. CASE StartTick
    <2> PICK late \in SUBSET GetRunningTasks :
          TickStart(late) /\ forked' = forked \cup late
      BY <1>4 DEF StartTick
    <2> QED
      BY <1>h DEF TickStart, TickInv
  <1>5. CASE TickStep
    <2>1. ASSUME NEW e \in expired, TickTimeout(e)
          PROVE  TickInv'
      BY <1>h, <2>1 DEF TickInv, TickTimeout
    <2>2. CASE TickRequeue \/ TickPushBack
      BY <1>h, <2>2 DEF TickInv, TickRequeue, TickPushBack
    <2>3. CASE TickAllocate
      BY <1>h, <1>2, <2>3 DEF TickInv, TickAllocate
    <2>4. CASE TickPopPriority \/ TickPopPending
      <3>1. ASSUME NEW t \in Tasks, Popped(t)
            PROVE  TickInv'
        BY <1>h, <1>2, <3>1 DEF TickInv, Popped
      <3>2. ASSUME tickPc \in {"pop", "brpop"}, tickPc' = "brpop", UNCHANGED <<expired, cur>>
            PROVE  TickInv'
        BY <1>h, <3>2 DEF TickInv
      <3> QED
        BY <1>2, <2>4, <3>1, <3>2 DEF TickPopPriority, TickPopPending
    <2>5. CASE DispatchPending
      <3>1. CASE DispatchReturns
        BY <1>3, <3>1
      <3>2. CASE UNCHANGED <<tickPc, expired>>
        BY <1>h, <2>5, <3>2 DEF TickInv, DispatchPending
      <3> QED
        BY <2>5, <3>1, <3>2 DEF DispatchPending
    <2>6. ASSUME NEW n, DispatchRunning(n)
          PROVE  TickInv'
      <3>1. CASE DispatchReturns
        BY <1>3, <3>1
      <3>2. CASE tickPc' = "spawn" /\ UNCHANGED expired
        BY <1>h, <3>2 DEF TickInv
      <3> QED
        BY <2>6, <3>1, <3>2 DEF DispatchRunning
    <2>7. CASE DispatchSpawn
      BY <1>3, <2>7 DEF DispatchSpawn
    <2> QED
      BY <1>5, <2>1, <2>2, <2>3, <2>4, <2>5, <2>6, <2>7 DEF TickStep
  <1>6. CASE Crash
    BY <1>6 DEF Crash, SchedulerCrash, TickInv
  <1>7. CASE \E t \in Tasks : CreateTask(t) \/ CancelTask(t) \/ ServiceStep(t)
    BY <1>1, <1>7 DEF CreateTask, CancelTask, ServiceStep, CreateTaskPush,
       CancelTaskWrite, CancelTaskPublish, CancelListener, CancelRun
  <1>8. CASE \E r \in Runs : RunStep(r)
    BY <1>1, <1>8 DEF RunStep, ExecutorAcquire, ExecutorEnds, CompleteSuccess,
       CompleteError, RunRequeue, RunUnregister, HandleRemoteResult, RemoteUnregister
  <1> QED
    BY <1>1, <1>4, <1>5, <1>6, <1>7, <1>8 DEF Next, AgentStep, GetNextTaskForNode,
       AgentExecutes, AgentLost, MoverStart, MoverStep, DataExpires, vars
\* The run that a step changes, and the others.
LEMMA RunWritten ==
    ASSUME RunOK, NEW r \in Runs, NEW new, run' = [run EXCEPT ![r] = new]
    PROVE  \A q \in Runs : run'[q] = IF q = r THEN new ELSE run[q]
  BY DEF RunOK

\* The same for a step that only moves the run on.
LEMMA PcWritten ==
    ASSUME RunOK, NEW r \in Runs, NEW pc, SetPc(r, pc)
    PROVE  \A q \in Runs :
             /\ run'[q].pc = IF q = r THEN pc ELSE run[q].pc
             /\ run'[q].uid = run[q].uid
             /\ run'[q].task = run[q].task
  BY DEF RunOK, SetPc, Run

\* What a finished run becomes.
LEMMA ReturnedIsDone ==
    ASSUME RunOK, NEW r \in Runs
    PROVE  /\ \/ Returned(r).pc = "free" /\ Returned(r).uid = NoTask
              \/ Returned(r).pc = "unreg" /\ Returned(r).uid = run[r].uid
           /\ FreeRun.pc = "free" /\ FreeRun.uid = NoTask /\ FreeRun.task = Absent
  BY DEF RunOK, Run, Returned, FreeRun

\* Every step of a run or of the listener leaves the identities it frees
\* without a task.
LEMMA FreeIsFreeNext ==
    ASSUME TypeInv, FreeIsFree, [Next]_vars
    PROVE  FreeIsFree'
  <1> USE DEF FreeIsFree
  <1> RunOK
    BY DEF TypeInv
  <1>1. ASSUME NEW r \in Runs, NEW new, run' = [run EXCEPT ![r] = new],
               new.pc = "free" => new.uid = NoTask
        PROVE  FreeIsFree'
    BY <1>1, RunWritten
  <1>2. ASSUME NEW r \in Runs, NEW pc, pc # "free", SetPc(r, pc)
        PROVE  FreeIsFree'
    BY <1>2, PcWritten
  <1>3. ASSUME NEW r \in Runs, run' = [run EXCEPT ![r] = Returned(r)]
        PROVE  FreeIsFree'
    BY <1>1, <1>3, ReturnedIsDone
  <1>4. ASSUME NEW r \in Runs, run' = [run EXCEPT ![r] = FreeRun]
        PROVE  FreeIsFree'
    BY <1>1, <1>4, ReturnedIsDone
  <1>5. CASE \E r \in Runs : RunStep(r)
    <2> PICK r \in Runs : RunStep(r)
      BY <1>5
    <2>1. CASE ExecutorAcquire(r) \/ ExecutorEnds(r) \/ RemoteUnregister(r)
      BY <1>2, <2>1 DEF ExecutorAcquire, ExecutorEnds, RemoteUnregister
    <2>2. CASE CompleteSuccess(r) \/ RunRequeue(r)
      BY <1>3, <2>2 DEF CompleteSuccess, RunRequeue
    <2>3. CASE CompleteError(r)
      <3>1. [run[r] EXCEPT !.pc = "push", !.task = Retried(run[r].task)].pc # "free"
        BY DEF RunOK, Run
      <3> QED
        BY <1>1, <1>3, <2>3, <3>1 DEF CompleteError
    <2>4. CASE RunUnregister(r)
      BY <1>4, <2>4 DEF RunUnregister
    <2>5. CASE HandleRemoteResult(r)
      <3>1. CASE run' = [run EXCEPT ![r].pc = IF @ = "rok" THEN "gok" ELSE "gerr",
                                    ![r].task = GetByUID(run[r].uid)]
        BY <3>1 DEF RunOK, Run
      <3> QED
        BY <1>4, <2>5, <3>1 DEF HandleRemoteResult
    <2> QED
      BY <2>1, <2>2, <2>3, <2>4, <2>5 DEF RunStep
  <1>6. CASE AgentStep
    <2>1. ASSUME NEW n \in Nodes, GetNextTaskForNode(n)
          PROVE  FreeIsFree'
      <3>1. Head(nodeTasks[n]) \in Runs
        BY <2>1 DEF RunOK, GetNextTaskForNode
      <3> QED
        BY <1>2, <1>4, <2>1, <3>1 DEF GetNextTaskForNode
    <2> QED
      BY <1>2, <1>4, <1>6, <2>1 DEF AgentStep, AgentExecutes, AgentLost
  <1>7. CASE DispatchSpawn
    <2>1. PICK r \in Runs, pc \in {"chan", "slot"} : run' = [run EXCEPT ![r] = NewRun(pc)]
      BY <1>7 DEF DispatchSpawn, FreeRuns
    <2>2. NewRun(pc).pc # "free"
      BY DEF NewRun
    <2> QED
      BY <1>1, <2>1, <2>2
  <1>8. CASE \E t \in Tasks : CancelListener(t)
    BY <1>8 DEF CancelListener, CancelRun, RunOK, Run
  <1>9. CASE Crash
    BY <1>9, ReturnedIsDone DEF Crash, SchedulerCrash
  <1>10. CASE UNCHANGED run
    BY <1>10
  <1>11. CASE \E t \in Tasks : CreateTask(t) \/ CancelTask(t) \/ ServiceStep(t)
    BY <1>8, <1>10, <1>11 DEF CreateTask, CancelTask, ServiceStep, CreateTaskPush,
       CancelTaskWrite, CancelTaskPublish, runVars
  <1>12. CASE StartTick \/ TickStep
    BY <1>7, <1>10, <1>12 DEF StartTick, TickStart, TickStep, TickTimeout, TickRequeue,
       TickAllocate, TickPopPriority, TickPopPending, TickPushBack, DispatchPending,
       DispatchRunning, runVars
  <1>13. CASE MoverStart \/ MoverStep \/ DataExpires \/ UNCHANGED vars
    BY <1>10, <1>13 DEF MoverStart, MoverStep, DataExpires, vars, runVars
  <1> QED
    BY <1>5, <1>6, <1>9, <1>11, <1>12, <1>13 DEF Next

\* A cancellation in progress has been counted.
LEMMA CancelsCountedNext ==
    ASSUME TypeInv, CancelsCounted, [Next]_vars
    PROVE  CancelsCounted'
  <1> USE DEF CancelsCounted
  <1>0. cancelOp \in [Tasks -> CancelOp] /\ cancels \in [Tasks -> 0 .. MaxCancels]
    BY DEF TypeInv, ServiceTypeOK
  <1>1. CASE \E t \in Tasks : CancelTask(t)
    BY <1>0, <1>1 DEF CancelTask
  <1>2. CASE \E t \in Tasks : CancelTaskWrite(t) \/ CancelTaskPublish(t)
    BY <1>0, <1>2 DEF CancelTaskWrite, CancelTaskPublish, historyVars, NoOp
  <1>3. CASE Crash
    BY <1>3 DEF Crash
  <1>4. CASE UNCHANGED <<cancelOp, cancels>>
    BY <1>4
  <1>5. CASE \E t \in Tasks : CreateTask(t) \/ CreateTaskPush(t) \/ CancelListener(t)
    BY <1>4, <1>5 DEF CreateTask, CreateTaskPush, CancelListener, historyVars
  <1> QED
    BY <1>1, <1>2, <1>3, <1>4, <1>5 DEF Next, ServiceStep, StartTick, TickStep, RunStep,
       AgentStep, MoverStart, MoverStep, DataExpires, vars, serviceVars, historyVars

\* What a push writes into the document.
LEMMA DocWritten ==
    ASSUME QueueCollectionsOK, NEW t \in Tasks, NEW task, NEW outcome,
           \/ Push(t, task, outcome) \/ PushPriority(t, task, outcome)
           \/ PushDelayed(t, task, outcome)
    PROVE  \A u \in Tasks :
             \/ taskData'[u] = taskData[u]
             \/ u = t /\ taskData'[u] = task
  BY DEF QueueCollectionsOK, Push, PushPriority, PushDelayed, storeTask

\* Only copies that wait are queued.
LEMMA DocsWait ==
    ASSUME TypeInv, WaitingDocs, [Next]_vars
    PROVE  \A t \in Tasks : taskData'[t].status \in {"created", "pending", "absent"}
  <1> QueueCollectionsOK
    BY DEF TypeInv
  <1>1. CASE UNCHANGED taskData
    BY <1>1 DEF WaitingDocs
  <1>2. ASSUME NEW t \in Tasks, NEW task, NEW outcome,
               \/ Push(t, task, outcome) \/ PushPriority(t, task, outcome)
               \/ PushDelayed(t, task, outcome),
               task.status \in {"created", "pending"}
        PROVE  \A u \in Tasks : taskData'[u].status \in {"created", "pending", "absent"}
    BY <1>2, DocWritten DEF WaitingDocs
  <1>3. CASE \E t \in Tasks : CreateTask(t) \/ CancelTask(t) \/ ServiceStep(t)
    <2> PICK t \in Tasks : CreateTask(t) \/ CancelTask(t) \/ ServiceStep(t)
      BY <1>3
    <2>1. CASE CreateTaskPush(t)
      <3>1. NewTask.status = "created"
        BY DEF NewTask
      <3> QED
        BY <1>2, <2>1, <3>1 DEF CreateTaskPush
    <2> QED
      BY <1>1, <2>1 DEF CreateTask, CancelTask, ServiceStep, CancelTaskWrite,
                        CancelTaskPublish, CancelListener, CancelRun, queueVars
  <1>4. CASE StartTick \/ TickStep
    <2>1. CASE TickRequeue \/ TickPushBack
      <3>1. cur.uid \in Tasks /\ cur.task.status \in {"created", "pending"}
        BY <2>1 DEF TypeInv, TickOK, Cur, WaitingDocs, TickRequeue, TickPushBack
      <3> QED
        BY <1>2, <2>1, <3>1 DEF TickRequeue, TickPushBack
    <2> QED
      BY <1>1, <1>4, <2>1 DEF StartTick, TickStart, TickStep, TickTimeout, TickAllocate,
         TickPopPriority, TickPopPending, PopPriority, PopPending, DispatchPending,
         DispatchRunning, DispatchSpawn, queueVars
  <1>5. CASE \E r \in Runs : RunStep(r)
    <2> PICK r \in Runs : RunStep(r)
      BY <1>5
    <2>1. CASE RunRequeue(r)
      <3>1. run[r].uid \in Tasks /\ run[r].task.status = "pending"
        BY <2>1 DEF TypeInv, RunOK, WaitingDocs, RunRequeue
      <3> QED
        BY <1>2, <2>1, <3>1 DEF RunRequeue
    <2> QED
      BY <1>1, <2>1 DEF RunStep, ExecutorAcquire, ExecutorEnds, CompleteSuccess,
                        CompleteError, RunUnregister, HandleRemoteResult, RemoteUnregister,
                        queueVars
  <1>6. CASE AgentStep \/ MoverStart \/ MoverStep \/ Crash \/ UNCHANGED vars
    BY <1>1, <1>6 DEF AgentStep, GetNextTaskForNode, AgentExecutes, AgentLost, MoverStart,
       MoverScan, MoverStep, MoverPush, MoverRem, Crash, MoverCrash, queueVars, vars
  <1>7. CASE DataExpires
    BY <1>7 DEF DataExpires, TaskDataExpires, QueueCollectionsOK, WaitingDocs, Absent
  <1> QED
    BY <1>3, <1>4, <1>5, <1>6, <1>7 DEF Next
\* The tick works on a waiting copy until it has written the running row, and
\* starts a run with the running copy.
LEMMA TickCopyFits ==
    ASSUME TypeInv, TickInv, WaitingDocs, [Next]_vars
    PROVE  /\ tickPc' \in {"requeue", "alloc"} => cur'.task.status \in {"created", "pending"}
           /\ tickPc' = "spawn" => cur'.task.status = "running"
  <1> DEFINE Fits == /\ tickPc \in {"requeue", "alloc"}
                          => cur.task.status \in {"created", "pending"}
                     /\ tickPc = "spawn" => cur.task.status = "running"
  <1> SUFFICES Fits'
    OBVIOUS
  <1>1. CASE UNCHANGED <<tickPc, cur>>
    BY <1>1 DEF WaitingDocs
  <1>2. CASE tickPc' \notin {"requeue", "alloc", "spawn"}
    BY <1>2
  <1>3. EndTick \/ DispatchReturns => Fits'
    BY <1>2 DEF EndTick, DispatchReturns
  <1>4. CASE TickStep
    <2>0. tickPc = "alloc" => cur \in Cur /\ cur.task \in TaskRecord
      BY DEF TypeInv, TickOK, Cur
    <2>1. ASSUME NEW e \in expired, TickTimeout(e)
          PROVE  Fits'
      <3>1. e.task \in TaskRecord
        BY DEF TypeInv, TickOK, Expired
      <3>2. CASE UNCHANGED <<tickPc, cur>>
        BY <1>1, <3>2
      <3>3. CASE /\ tickPc' = "requeue" /\ CanRetry(e.task)
                 /\ cur' = [uid |-> e.uid, task |-> Retried(e.task), node |-> NoNode]
        BY <3>1, <3>3, TaskValues
      <3> QED
        BY <2>1, <3>2, <3>3 DEF TickTimeout, WillRequeue
    <2>2. CASE TickRequeue \/ TickPushBack
      BY <1>2, <2>2 DEF TickRequeue, TickPushBack
    <2>3. CASE TickAllocate
      BY <1>2, <1>3, <2>3 DEF TickAllocate
    <2>4. CASE TickPopPriority \/ TickPopPending
      <3>1. ASSUME NEW t \in Tasks, Popped(t)
            PROVE  Fits'
        <4>1. CASE /\ getTask(t) # Absent /\ tickPc' = "alloc"
                   /\ cur' = [uid |-> t, task |-> getTask(t), node |-> NoNode]
          <5>1. taskData[t] # Absent => taskData[t].status \in {"created", "pending"}
            BY DEF WaitingDocs, TypeInv, QueueCollectionsOK, TaskRecord, Status, Absent
          <5> QED
            BY <4>1, <5>1 DEF getTask
        <4> QED
          BY <1>3, <3>1, <4>1 DEF Popped
      <3> QED
        BY <1>2, <1>3, <2>4, <3>1 DEF TickPopPriority, TickPopPending
    <2>5. CASE DispatchPending
      <3>1. CASE /\ tickPc = "alloc" /\ UNCHANGED tickPc
                 /\ cur' = [cur EXCEPT !.task = TransitionTo(cur.task, "pending")]
        <4>1. cur'.task = TransitionTo(cur.task, "pending")
          BY <2>0, <3>1 DEF Cur
        <4> QED
          BY <2>0, <3>1, <4>1, TaskValues DEF Status
      <3> QED
        BY <1>3, <2>5, <3>1 DEF DispatchPending
    <2>6. ASSUME NEW n, DispatchRunning(n)
          PROVE  Fits'
      <3>1. CASE /\ tickPc = "alloc" /\ tickPc' = "spawn"
                 /\ cur' = [cur EXCEPT !.task = TransitionTo(cur.task, "running"),
                                       !.node = n]
        <4>1. cur'.task = TransitionTo(cur.task, "running")
          BY <2>0, <3>1 DEF Cur
        <4> QED
          BY <2>0, <3>1, <4>1, TaskValues DEF Status
      <3> QED
        BY <1>3, <2>6, <3>1 DEF DispatchRunning
    <2>7. CASE DispatchSpawn
      BY <1>3, <2>7 DEF DispatchSpawn
    <2> QED
      BY <1>4, <2>1, <2>2, <2>3, <2>4, <2>5, <2>6, <2>7 DEF TickStep
  <1>5. CASE StartTick
    BY <1>2, <1>5 DEF StartTick, TickStart
  <1>6. CASE Crash
    BY <1>2, <1>6 DEF Crash, SchedulerCrash
  <1>7. CASE \E t \in Tasks : CreateTask(t) \/ CancelTask(t) \/ ServiceStep(t)
    BY <1>1, <1>7 DEF CreateTask, CancelTask, ServiceStep, CreateTaskPush,
       CancelTaskWrite, CancelTaskPublish, CancelListener, CancelRun, tickVars
  <1>8. CASE \E r \in Runs : RunStep(r)
    BY <1>1, <1>8 DEF RunStep, ExecutorAcquire, ExecutorEnds, CompleteSuccess,
       CompleteError, RunRequeue, RunUnregister, HandleRemoteResult, RemoteUnregister, tickVars
  <1> QED
    BY <1>1, <1>4, <1>5, <1>6, <1>7, <1>8 DEF Next, AgentStep, GetNextTaskForNode,
       AgentExecutes, AgentLost, MoverStart, MoverStep, DataExpires, vars, tickVars

\* A run re-queues only the copy that failTask prepared for a retry.
LEMMA RequeuedCopyWaits ==
    ASSUME TypeInv, WaitingDocs, [Next]_vars
    PROVE  \A r \in Runs : run'[r].pc = "push" => run'[r].task.status = "pending"
  <1> DEFINE Fits == \A r \in Runs : run[r].pc = "push" => run[r].task.status = "pending"
  <1> SUFFICES Fits'
    OBVIOUS
  <1> RunOK /\ Fits
    BY DEF TypeInv, WaitingDocs
  <1>1. ASSUME NEW r \in Runs, NEW new, run' = [run EXCEPT ![r] = new],
               new.pc = "push" => new.task.status = "pending"
        PROVE  Fits'
    BY <1>1, RunWritten
  <1>2. ASSUME NEW r \in Runs, NEW pc, pc # "push", SetPc(r, pc)
        PROVE  Fits'
    BY <1>2, PcWritten
  <1>3. ASSUME NEW r \in Runs,
               \/ run' = [run EXCEPT ![r] = Returned(r)]
               \/ run' = [run EXCEPT ![r] = FreeRun]
        PROVE  Fits'
    BY <1>1, <1>3, ReturnedIsDone
  <1>5. CASE \E r \in Runs : RunStep(r)
    <2> PICK r \in Runs : RunStep(r)
      BY <1>5
    <2>1. CASE ExecutorAcquire(r) \/ ExecutorEnds(r) \/ RemoteUnregister(r)
      BY <1>2, <2>1 DEF ExecutorAcquire, ExecutorEnds, RemoteUnregister
    <2>2. CASE CompleteSuccess(r) \/ RunRequeue(r) \/ RunUnregister(r)
      BY <1>3, <2>2 DEF CompleteSuccess, RunRequeue, RunUnregister
    <2>3. CASE CompleteError(r)
      <3> DEFINE new == [run[r] EXCEPT !.pc = "push", !.task = Retried(run[r].task)]
      <3>1. run[r].task \in TaskRecord \cup {Absent} /\ new.task = Retried(run[r].task)
        BY DEF RunOK, Run
      <3>2. CanRetry(run[r].task) => new.task.status = "pending"
        BY <3>1, TaskValues
      <3> HIDE DEF new
      <3>3. CASE CanRetry(run[r].task) /\ run' = [run EXCEPT ![r] = new]
        BY <1>1, <3>2, <3>3
      <3> QED
        BY <1>3, <2>3, <3>3 DEF CompleteError, WillRequeue, new
    <2>4. CASE HandleRemoteResult(r)
      <3>1. CASE run' = [run EXCEPT ![r].pc = IF @ = "rok" THEN "gok" ELSE "gerr",
                                    ![r].task = GetByUID(run[r].uid)]
        BY <3>1 DEF RunOK, Run
      <3> QED
        BY <1>3, <2>4, <3>1 DEF HandleRemoteResult
    <2> QED
      BY <2>1, <2>2, <2>3, <2>4 DEF RunStep
  <1>6. CASE AgentStep
    <2>1. ASSUME NEW n \in Nodes, GetNextTaskForNode(n)
          PROVE  Fits'
      <3>1. Head(nodeTasks[n]) \in Runs
        BY <2>1 DEF RunOK, GetNextTaskForNode
      <3> QED
        BY <1>2, <1>3, <2>1, <3>1 DEF GetNextTaskForNode
    <2> QED
      BY <1>2, <1>3, <1>6, <2>1 DEF AgentStep, AgentExecutes, AgentLost
  <1>7. CASE DispatchSpawn
    <2>1. PICK r \in Runs, pc \in {"chan", "slot"} : run' = [run EXCEPT ![r] = NewRun(pc)]
      BY <1>7 DEF DispatchSpawn, FreeRuns
    <2>2. NewRun(pc).pc # "push"
      BY DEF NewRun
    <2> QED
      BY <1>1, <2>1, <2>2
  <1>8. CASE \E t \in Tasks : CancelListener(t)
    BY <1>8 DEF CancelListener, CancelRun, RunOK, Run
  <1>9. CASE Crash
    BY <1>9, ReturnedIsDone DEF Crash, SchedulerCrash
  <1>10. CASE UNCHANGED run
    BY <1>10
  <1>11. CASE \E t \in Tasks : CreateTask(t) \/ CancelTask(t) \/ ServiceStep(t)
    BY <1>8, <1>10, <1>11 DEF CreateTask, CancelTask, ServiceStep, CreateTaskPush,
       CancelTaskWrite, CancelTaskPublish, runVars
  <1>12. CASE StartTick \/ TickStep
    BY <1>7, <1>10, <1>12 DEF StartTick, TickStart, TickStep, TickTimeout, TickRequeue,
       TickAllocate, TickPopPriority, TickPopPending, TickPushBack, DispatchPending,
       DispatchRunning, runVars
  <1>13. CASE MoverStart \/ MoverStep \/ DataExpires \/ UNCHANGED vars
    BY <1>10, <1>13 DEF MoverStart, MoverStep, DataExpires, vars, runVars
  <1> QED
    BY <1>5, <1>6, <1>9, <1>11, <1>12, <1>13 DEF Next
-----------------------------------------------------------------------------
(***************************************************************************)
(* Tasks.  Each step is about one task or none; the others are untouched.  *)
(***************************************************************************)

\* Parts of the state that a step leaves alone leave every task alone.
LEMMA Leaves ==
    ASSUME NEW t \in Tasks, [Next]_vars, TypeInv
    PROVE  /\ UNCHANGED <<queueVars, moving>> => CollectionsLeave(t)
           /\ UNCHANGED tickVars \/ cur' = NoCur => TickLeaves(t)
           /\ UNCHANGED run => RunsLeave(t)
           /\ UNCHANGED creating => HistoryLeaves(t)
  <1>1. UNCHANGED <<queueVars, moving>> => CollectionsLeave(t)
    BY ListKept DEF queueVars, CollectionsLeave, ListLeaves, Delayed
  <1>2. UNCHANGED tickVars \/ cur' = NoCur => TickLeaves(t)
    BY NoTaskAssumption DEF tickVars, TickLeaves, NoCur
  <1>3. UNCHANGED run => RunsLeave(t)
    BY DEF RunsLeave, Works
  <1>4. UNCHANGED creating => HistoryLeaves(t)
    BY HistoryGrows DEF HistoryLeaves
  <1> QED
    BY <1>1, <1>2, <1>3, <1>4

\* A push of one UID leaves the others alone.
LEMMA PushLeaves ==
    ASSUME QueueCollectionsOK, NEW u \in Tasks, NEW task, NEW outcome,
           \/ Push(u, task, outcome) \/ PushPriority(u, task, outcome)
           \/ PushDelayed(u, task, outcome),
           UNCHANGED moving, NEW t \in Tasks, t # u
    PROVE  CollectionsLeave(t)
  <1>1. taskData'[t] = taskData[t]
    BY DocWritten
  <1>2. ListLeaves(t)
    <2>1. CASE pendingList' = Append(pendingList, u)
      BY <2>1, ListPushed DEF ListLeaves, QueueCollectionsOK
    <2>2. CASE UNCHANGED pendingList
      BY <2>2, ListKept DEF ListLeaves
    <2> QED
      BY <2>1, <2>2 DEF Push, PushPriority, PushDelayed
  <1>3. (t \in prioritySet' => t \in prioritySet) /\ (Delayed(t)' => Delayed(t))
    BY DEF Push, PushPriority, PushDelayed, Delayed
  <1> QED
    BY <1>1, <1>2, <1>3 DEF CollectionsLeave

\* A write of one row leaves the others alone.
LEMMA WriteLeaves ==
    ASSUME StoreTypeOK, NEW u \in Tasks, NEW task, NEW outcome,
           Update(u, task, outcome) \/ Create(u, task, outcome)
    PROVE  /\ \A t \in Tasks : t # u => rows'[t] = rows[t]
           /\ rows'[u] = rows[u] \/ rows'[u] = task
           /\ outcome # "error" => rows'[u] = task
  BY DEF StoreTypeOK, Update, Create

\* A run that works for nobody, or for another task, after the step.
LEMMA RunWriteLeaves ==
    ASSUME RunOK, NEW r \in Runs, NEW new, run' = [run EXCEPT ![r] = new],
           NEW t \in Tasks, new.uid # t \/ new.pc = "unreg"
    PROVE  RunsLeave(t)
  BY RunWritten DEF RunsLeave, Works

\* A run that moves on with the same task.
LEMMA PcWriteLeaves ==
    ASSUME RunOK, NEW r \in Runs, NEW pc, SetPc(r, pc), run[r].pc \notin {"unreg", "push"},
           NEW t \in Tasks
    PROVE  RunsLeave(t)
  BY PcWritten DEF RunsLeave, Works

\* CreateTask: a new UID gets its first place.
LEMMA CreateTaskLife ==
    ASSUME TypeInv, LifeInv, NEW u \in Tasks, CreateTask(u), NEW t \in Tasks, [Next]_vars
    PROVE  TaskInv(t)'
  <1>1. PICK outcome \in Outcomes :
          /\ Create(u, NewTask, outcome)
          /\ creating' = IF outcome = "ok" THEN creating \cup {u} ELSE creating
    BY DEF CreateTask
  <1>2. UNCHANGED <<queueVars, moverVars, tickVars, runVars, historyVars>>
    BY DEF CreateTask
  <1>3. CollectionsLeave(t) /\ TickLeaves(t) /\ RunsLeave(t)
    BY <1>2, Leaves DEF moverVars, runVars
  <1>4. CASE t # u
    <2>1. rows'[t] = rows[t]
      BY <1>1, <1>4, WriteLeaves DEF TypeInv
    <2>2. HistoryLeaves(t)
      BY <1>1, <1>2, <1>4 DEF HistoryLeaves, historyVars
    <2> QED
      BY <1>3, <2>1, <2>2, UntouchedKeeps DEF LifeInv
  <1>5. CASE t = u /\ t \notin forked
    <2>1. ~Alive(t) /\ Single(t)
      BY <1>5 DEF LifeInv, TaskInv, RowFits, CreateTask, Exists
    <2>2. ~InList(t) /\ t \notin prioritySet /\ ~Delayed(t) /\ cur.uid # t /\ ~Worked(t)
      BY <2>1 DEF Alive
    <2>3. /\ ~InList(t)' /\ t \notin prioritySet' /\ ~Delayed(t)' /\ cur'.uid # t
          /\ ~Worked(t)' /\ OnceInList(t)'
      BY <1>3, <2>1, <2>2
      DEF CollectionsLeave, ListLeaves, TickLeaves, RunsLeave, Works, Worked, Single
    <2>4. Single(t)'
      BY <2>3 DEF Single, OnceWorked, Worked
    <2>5. ~AtWork(t)'
      BY <2>3 DEF AtWork, Worked
    <2>6. Alive(t)' => t \in creating'
      BY <2>3 DEF Alive
    <2>7. t \in creating' => rows'[t] = NewTask
      BY <1>1, <1>5, <2>1, WriteLeaves DEF TypeInv, Alive
    <2>8. NewTask # Absent
      BY DEF NewTask, Absent
    <2>9. \A r \in Runs : ~Works(r, t)'
      BY <2>3 DEF Worked
    <2> QED
      BY <2>3, <2>4, <2>5, <2>6, <2>7, <2>8, <2>9 DEF TaskInv, RowFits, CopiesFit
  <1>6. CASE t \in forked
    BY <1>2, <1>6 DEF TaskInv, historyVars
  <1> QED
    BY <1>4, <1>5, <1>6

\* The push of CreateTask: the task moves from the service to the queue, or
\* nowhere.
LEMMA CreateTaskPushLife ==
    ASSUME TypeInv, LifeInv, NEW u \in Tasks, CreateTaskPush(u), NEW t \in Tasks, [Next]_vars
    PROVE  TaskInv(t)'
  <1>1. PICK outcome \in Outcomes :
          PushPriority(u, NewTask, outcome) \/ Push(u, NewTask, outcome)
    BY DEF CreateTaskPush
  <1>2. /\ UNCHANGED <<rows, moving, tickVars, run, historyVars>>
        /\ u \in creating /\ creating' = creating \ {u}
    BY DEF CreateTaskPush, moverVars, runVars
  <1>3. TickLeaves(t) /\ RunsLeave(t) /\ HistoryLeaves(t)
    BY <1>2, Leaves, HistoryGrows DEF HistoryLeaves
  <1>4. CASE t # u
    BY <1>1, <1>2, <1>3, <1>4, PushLeaves, UntouchedKeeps DEF LifeInv, TypeInv
  <1>5. CASE t = u /\ t \notin forked
    <2>1. /\ ~InList(t) /\ t \notin prioritySet /\ ~Delayed(t) /\ cur.uid # t
          /\ ~Worked(t) /\ OnceInList(t) /\ rows[t] # Absent
          /\ cancels[t] = 0 => rows[t] = NewTask
      BY <1>2, <1>5 DEF LifeInv, TaskInv, Single, RowFits, Alive, CopiesFit
    <2>2. t \notin creating' /\ ~Delayed(t)' /\ cur'.uid # t
      BY <1>1, <1>2, <1>5, <2>1 DEF PushPriority, Push, Delayed, tickVars
    <2>3. ~Worked(t)' /\ \A r \in Runs : ~Works(r, t)'
      BY <1>2, <2>1 DEF Worked, Works
    <2>4. OnceInList(t)' /\ ~(InList(t)' /\ t \in prioritySet')
      <3>1. CASE pendingList' = Append(pendingList, u) /\ UNCHANGED prioritySet
        BY <1>5, <2>1, <3>1, ListPushed DEF TypeInv, QueueCollectionsOK
      <3>2. CASE UNCHANGED pendingList
        BY <2>1, <3>2, ListKept
      <3> QED
        BY <1>1, <3>1, <3>2 DEF PushPriority, Push
    <2>5. Single(t)'
      BY <2>2, <2>3, <2>4 DEF Single, OnceWorked
    <2>6. InList(t)' \/ t \in prioritySet' => taskData'[t] = NewTask
      <3>1. CASE outcome = "ok"
        BY <1>1, <1>5, <3>1
        DEF PushPriority, Push, storeTask, TypeInv, QueueCollectionsOK
      <3>2. CASE outcome # "ok"
        BY <1>1, <2>1, <3>2, ListKept DEF PushPriority, Push
      <3> QED
        BY <3>1, <3>2
    <2>7. ~AtWork(t)'
      BY <2>2, <2>3 DEF AtWork
    <2>8. rows' = rows /\ cancels' = cancels
      BY <1>2 DEF historyVars
    <2>9. RowFits(t)'
      BY <2>1, <2>7, <2>8 DEF RowFits
    <2>10. cancels'[t] = 0 => CopiesFit(t)'
      BY <2>1, <2>2, <2>3, <2>6, <2>7, <2>8 DEF CopiesFit
    <2> QED
      BY <2>5, <2>9, <2>10 DEF TaskInv
  <1>6. CASE t \in forked
    BY <1>2, <1>6 DEF TaskInv, historyVars
  <1> QED
    BY <1>4, <1>5, <1>6
\* CancelTask in its four steps: the task stays where it is; only the row may
\* become canceled, and the request has been counted before.
LEMMA CancelTaskLife ==
    ASSUME TypeInv, LifeInv, CancelsWriteCanceled, NEW u \in Tasks, [Next]_vars,
           \/ CancelTask(u) \/ CancelTaskWrite(u) \/ CancelTaskPublish(u)
           \/ CancelListener(u),
           NEW t \in Tasks
    PROVE  TaskInv(t)'
  <1>1. UNCHANGED <<queueVars, moving, tickVars, creating>>
    BY DEF CancelTask, CancelTaskWrite, CancelTaskPublish, CancelListener, CancelRun,
           moverVars
  <1>2. CollectionsLeave(t) /\ TickLeaves(t) /\ HistoryLeaves(t)
    BY <1>1, Leaves
  <1>3. RunsLeave(t)
    <2>1. CASE CancelListener(u)
      <3>1. \A q \in Runs : /\ run'[q].pc = run[q].pc /\ run'[q].uid = run[q].uid
                            /\ run'[q].task = run[q].task
        BY <2>1 DEF CancelListener, CancelRun, TypeInv, RunOK, Run
      <3> QED
        BY <3>1 DEF RunsLeave, Works
    <2>2. CASE UNCHANGED run
      BY <2>2, Leaves
    <2> QED
      BY <2>1, <2>2 DEF CancelTask, CancelTaskWrite, CancelTaskPublish, runVars
  <1>4. CASE rows'[t] = rows[t]
    BY <1>2, <1>3, <1>4, UntouchedKeeps DEF LifeInv
  <1>5. CASE CancelTaskWrite(u) /\ t = u /\ rows'[t] = cancelOp[t].task /\ t \notin forked
    <2>1. /\ cancelOp[t].pc = "write" /\ cancelOp[t].task.status = "canceled"
          /\ cancels[t] > 0 /\ cancels' = cancels
      BY <1>5 DEF CancelTaskWrite, CancelsWriteCanceled, LifeInv, CancelsCounted, NoOp,
                  historyVars
    <2>2. cancels[t] \in Nat
      BY DEF TypeInv, ServiceTypeOK
    <2>3. Single(t)'
      <3>1. Single(t)
        BY <1>5 DEF LifeInv, TaskInv
      <3>2. Worked(t)' => Worked(t)
        BY <1>3 DEF RunsLeave, Worked, Works
      <3>3. OnceWorked(t)'
        BY <1>3, <3>1 DEF RunsLeave, Works, Single, OnceWorked
      <3> QED
        BY <1>2, <3>1, <3>2, <3>3
        DEF Single, CollectionsLeave, ListLeaves, TickLeaves, HistoryLeaves
    <2>4. RowFits(t)'
      BY <1>5, <2>1 DEF RowFits, Absent
    <2> QED
      BY <2>1, <2>2, <2>3, <2>4 DEF TaskInv
  <1>6. CASE t \in forked
    BY <1>2, <1>6 DEF TaskInv, HistoryLeaves
  <1>7. CASE CancelTaskWrite(u)
    <2>1. PICK outcome \in Outcomes : Update(u, cancelOp[u].task, outcome)
      BY <1>7 DEF CancelTaskWrite
    <2>2. t # u => rows'[t] = rows[t]
      BY <2>1, WriteLeaves DEF TypeInv
    <2>3. rows'[u] = rows[u] \/ rows'[u] = cancelOp[u].task
      BY <2>1, WriteLeaves DEF TypeInv
    <2> QED
      BY <1>4, <1>5, <1>6, <1>7, <2>2, <2>3
  <1>8. CASE UNCHANGED rows
    BY <1>4, <1>8
  <1> QED
    BY <1>7, <1>8 DEF CancelTask, CancelTaskPublish, CancelListener, CancelRun

\* tick: the start, the rows past their deadline and their re-queue concern
\* forked tasks only.
LEMMA TickDeadlinesLife ==
    ASSUME TypeInv, LifeInv, [Next]_vars, NEW t \in Tasks,
           \/ StartTick
           \/ \E e \in expired : TickTimeout(e)
           \/ TickRequeue
           \/ TickAllocate,
           UNCHANGED <<creating, run, moving>>
    PROVE  TaskInv(t)'
  <1>1. HistoryLeaves(t) /\ RunsLeave(t)
    BY Leaves
  <1>2. tickPc # "requeue" /\ tickPc # "alloc" /\ tickPc # "spawn" => cur.uid # t
    BY NoTaskAssumption DEF LifeInv, TickInv, NoCur
  <1>3. CASE t \in forked
    BY <1>1, <1>3 DEF TaskInv, HistoryLeaves
  <1>4. CASE StartTick \/ TickAllocate
    <2>1. cur'.uid # t /\ UNCHANGED <<rows, queueVars>>
      BY <1>2, <1>4, NoTaskAssumption
      DEF StartTick, TickStart, TickAllocate, EndTick, NoCur
    <2> QED
      BY <1>1, <2>1, Leaves, UntouchedKeeps DEF TickLeaves, LifeInv
  <1>5. ASSUME NEW e \in expired, TickTimeout(e), t \notin forked
        PROVE  TaskInv(t)'
    <2>1. e.uid \in Tasks /\ e.uid # t
      BY <1>5 DEF LifeInv, TickInv, TypeInv, TickOK, Expired
    <2>2. cur'.uid # t /\ UNCHANGED queueVars
      BY <1>2, <1>5, <2>1 DEF TickTimeout
    <2>3. rows'[t] = rows[t]
      <3>1. PICK outcome \in Outcomes : failTask(e.uid, e.task, outcome)
        BY <1>5 DEF TickTimeout
      <3>2. Update(e.uid, FailedCopy(e.task), outcome) \/ UNCHANGED rows
        BY <3>1 DEF failTask
      <3> QED
        BY <2>1, <3>2, WriteLeaves DEF TypeInv
    <2> QED
      BY <1>1, <2>2, <2>3, Leaves, UntouchedKeeps DEF TickLeaves, LifeInv
  <1>6. CASE TickRequeue /\ t \notin forked
    <2>1. cur.uid \in Tasks /\ cur.uid # t
      BY <1>6 DEF LifeInv, TickInv, TypeInv, TickOK, Cur, TickRequeue
    <2>2. PICK outcome \in Outcomes : PushDelayed(cur.uid, cur.task, outcome)
      BY <1>6 DEF TickRequeue
    <2>3. CollectionsLeave(t)
      BY <2>1, <2>2, PushLeaves DEF TypeInv
    <2>4. TickLeaves(t) /\ rows'[t] = rows[t]
      BY <1>6, Leaves DEF TickRequeue
    <2> QED
      BY <1>1, <2>3, <2>4, UntouchedKeeps DEF LifeInv
  <1> QED
    BY <1>3, <1>4, <1>5, <1>6

\* tick: a popped task moves from the queue to the tick, or nowhere.
LEMMA PoppedLife ==
    ASSUME TypeInv, LifeInv, [Next]_vars, NEW u \in Tasks,
           PopPriority(u) \/ PopPending(u), Popped(u), tickPc \in {"pop", "brpop"},
           UNCHANGED <<rows, moving, run, creating, historyVars>>, NEW t \in Tasks
    PROVE  TaskInv(t)'
  <1>1. HistoryLeaves(t) /\ RunsLeave(t)
    BY Leaves
  <1>2. cur.uid # t
    BY NoTaskAssumption DEF LifeInv, TickInv, NoCur
  <1>3. /\ UNCHANGED taskData
        /\ \/ cur' = NoCur /\ tickPc' = "idle"
           \/ /\ cur' = [uid |-> u, task |-> taskData[u], node |-> NoNode]
              /\ tickPc' = "alloc" /\ taskData[u] # Absent
    BY DEF Popped, EndTick, PopPriority, PopPending, getTask
  <1>4. /\ ListLeaves(t)
        /\ t \in prioritySet' => t \in prioritySet
        /\ Delayed(t)' <=> Delayed(t)
    <2>1. CASE PopPriority(u)
      BY <2>1, ListKept DEF PopPriority, ListLeaves, Delayed
    <2>2. CASE PopPending(u)
      BY <2>2, ListPopped DEF PopPending, ListLeaves, Delayed, TypeInv, QueueCollectionsOK
    <2> QED
      BY <2>1, <2>2
  <1>5. CollectionsLeave(t)
    BY <1>3, <1>4 DEF CollectionsLeave
  <1>6. CASE t # u
    <2>1. TickLeaves(t)
      BY <1>3, <1>6, NoTaskAssumption DEF TickLeaves, NoCur
    <2> QED
      BY <1>1, <1>5, <2>1, UntouchedKeeps DEF LifeInv
  <1>7. CASE t = u /\ t \notin forked
    <2>1. Single(t) /\ RowFits(t) /\ (cancels[t] = 0 => CopiesFit(t))
      BY <1>7 DEF LifeInv, TaskInv
    <2>2. /\ t \notin creating /\ ~Delayed(t) /\ ~Worked(t)
          /\ ~InList(t)' /\ t \notin prioritySet' /\ OnceInList(t)'
          /\ InList(t) \/ t \in prioritySet
      <3>1. CASE PopPriority(u)
        BY <1>7, <2>1, <3>1, ListKept DEF PopPriority, Single
      <3>2. CASE PopPending(u)
        BY <1>7, <2>1, <3>2, ListPopped DEF PopPending, Single, TypeInv, QueueCollectionsOK
      <3> QED
        BY <3>1, <3>2
    <2>3. /\ t \notin creating' /\ ~Delayed(t)' /\ ~Worked(t)'
          /\ \A r \in Runs : ~Works(r, t)'
      BY <1>4, <2>2 DEF Worked, Works
    <2>4. Single(t)'
      BY <2>2, <2>3 DEF Single, OnceWorked
    <2>5. ~AtWork(t)'
      BY <1>3, <2>3 DEF AtWork
    <2>6. RowFits(t)'
      BY <2>1, <2>2, <2>5 DEF RowFits, Alive
    <2>7. cancels'[t] = 0 => CopiesFit(t)'
      <3> SUFFICES ASSUME cancels'[t] = 0 PROVE CopiesFit(t)'
        OBVIOUS
      <3>1. taskData[t] \in {rows[t], Absent}
        BY <2>1, <2>2 DEF CopiesFit, historyVars
      <3>2. cur'.uid = t => cur'.task = rows'[t]
        BY <1>3, <1>7, <3>1, NoTaskAssumption DEF NoCur
      <3> QED
        BY <2>2, <2>3, <2>5, <3>2 DEF CopiesFit
    <2> QED
      BY <2>4, <2>6, <2>7 DEF TaskInv
  <1>8. CASE t \in forked
    BY <1>1, <1>8 DEF TaskInv, HistoryLeaves
  <1> QED
    BY <1>6, <1>7, <1>8
\* tick: popping, in its three outcomes.
LEMMA TickPopLife ==
    ASSUME TypeInv, LifeInv, [Next]_vars, NEW t \in Tasks,
           TickPopPriority \/ TickPopPending,
           UNCHANGED <<creating, historyVars>>
    PROVE  TaskInv(t)'
  <1>1. UNCHANGED <<rows, moving, run>> /\ tickPc \in {"pop", "brpop"}
    BY DEF TickPopPriority, TickPopPending, moverVars, runVars
  <1>2. CASE \E u \in Tasks : (PopPriority(u) \/ PopPending(u)) /\ Popped(u)
    BY <1>1, <1>2, PoppedLife
  <1>3. CASE UNCHANGED queueVars /\ (cur' = cur \/ cur' = NoCur)
    <2>1. cur'.uid # t
      BY <1>1, <1>3, NoTaskAssumption DEF LifeInv, TickInv, NoCur
    <2> QED
      BY <1>1, <1>3, <2>1, Leaves, UntouchedKeeps DEF TickLeaves, LifeInv
  <1> QED
    BY <1>2, <1>3 DEF TickPopPriority, TickPopPending, EndTick

\* A task that leaves its only place for the delayed set, with its row as its
\* document.
LEMMA RequeuedLife ==
    ASSUME TypeInv, NEW t \in Tasks, t \notin forked,
           NEW task, NEW outcome, PushDelayed(t, task, outcome),
           UNCHANGED <<rows, moving, creating, historyVars>>,
           t \notin creating, ~InList(t), OnceInList(t), t \notin prioritySet,
           ~Delayed(t), cur'.uid # t, \A r \in Runs : ~Works(r, t)',
           rows[t] # Absent, cancels[t] = 0 => task = rows[t]
    PROVE  TaskInv(t)'
  <1>1. t \notin creating' /\ ~InList(t)' /\ OnceInList(t)' /\ t \notin prioritySet'
    BY ListKept DEF PushDelayed
  <1>2. ~Worked(t)' /\ ~AtWork(t)'
    BY DEF Worked, AtWork
  <1>3. Single(t)'
    BY <1>1, <1>2 DEF Single, OnceWorked
  <1>4. RowFits(t)'
    BY <1>2 DEF RowFits
  <1>5. Delayed(t)' => taskData'[t] = task
    BY DEF Delayed, PushDelayed, storeTask, TypeInv, QueueCollectionsOK
  <1>6. cancels'[t] = 0 => CopiesFit(t)'
    BY <1>1, <1>2, <1>5 DEF CopiesFit, historyVars
  <1> QED
    BY <1>3, <1>4, <1>6 DEF TaskInv

\* tick: a task that does not fit moves from the tick to the delayed set.
LEMMA PushBackLife ==
    ASSUME TypeInv, LifeInv, [Next]_vars, NEW t \in Tasks, TickPushBack,
           UNCHANGED <<creating, historyVars>>
    PROVE  TaskInv(t)'
  <1>1. PICK outcome \in Outcomes : PushDelayed(cur.uid, cur.task, outcome)
    BY DEF TickPushBack
  <1>2. /\ UNCHANGED <<rows, moving, run>> /\ cur' = NoCur
        /\ cur.uid \in Tasks /\ cur'.uid # t
    BY NoTaskAssumption
    DEF TickPushBack, moverVars, runVars, TypeInv, TickOK, Cur, NoCur
  <1>3. CASE t # cur.uid
    BY <1>1, <1>2, <1>3, PushLeaves, Leaves, UntouchedKeeps DEF LifeInv, TypeInv
  <1>4. CASE t = cur.uid /\ t \notin forked
    <2>1. Single(t) /\ RowFits(t) /\ (cancels[t] = 0 => CopiesFit(t))
      BY <1>4 DEF LifeInv, TaskInv
    <2>2. /\ t \notin creating /\ ~InList(t) /\ OnceInList(t) /\ t \notin prioritySet
          /\ ~Delayed(t) /\ ~Worked(t) /\ rows[t] # Absent
          /\ cancels[t] = 0 => cur.task = rows[t]
      BY <1>4, <2>1 DEF Single, RowFits, Alive, CopiesFit
    <2>3. \A r \in Runs : ~Works(r, t)'
      BY <1>2, <2>2 DEF Worked, Works
    <2> QED
      BY <1>1, <1>2, <1>4, <2>2, <2>3, RequeuedLife
  <1>5. CASE t \in forked
    BY <1>5 DEF TaskInv, historyVars
  <1> QED
    BY <1>3, <1>4, <1>5

\* A write of the row by the tick or by a run whose task is, or was, the
\* only one at its place.
LEMMA NoLifeLeft ==
    ASSUME NEW t \in Tasks, Single(t), CollectionsLeave(t),
           t \notin creating', ~InList(t), t \notin prioritySet, ~Delayed(t),
           cur'.uid # t, \A r \in Runs : ~Works(r, t)'
    PROVE  TaskInv(t)'
  <1>1. ~InList(t)' /\ OnceInList(t)' /\ t \notin prioritySet' /\ ~Delayed(t)'
    BY DEF CollectionsLeave, ListLeaves, Single
  <1>2. ~Worked(t)' /\ ~AtWork(t)' /\ OnceWorked(t)'
    BY DEF Worked, AtWork, OnceWorked
  <1>3. Single(t)' /\ ~Alive(t)'
    BY <1>1, <1>2 DEF Single, Alive
  <1> QED
    BY <1>1, <1>2, <1>3 DEF TaskInv, RowFits, CopiesFit

\* dispatch: the row is overwritten with the copy that the tick holds and
\* goes on to hold.
LEMMA DispatchLife ==
    ASSUME TypeInv, LifeInv, [Next]_vars, NEW t \in Tasks,
           \/ DispatchPending
           \/ \E n \in Nodes \cup {NoNode} : DispatchRunning(n),
           UNCHANGED <<creating, historyVars>>
    PROVE  TaskInv(t)'
  <1>1. /\ UNCHANGED <<queueVars, moving, run>> /\ tickPc = "alloc"
        /\ cur \in Cur /\ cur.uid \in Tasks /\ cur.task \in TaskRecord
    BY DEF DispatchPending, DispatchRunning, moverVars, runVars, TypeInv, TickOK, Cur
  <1>2. CollectionsLeave(t) /\ RunsLeave(t) /\ HistoryLeaves(t)
    BY <1>1, Leaves
  <1>3. DispatchReturns => cur' = NoCur
    BY DEF DispatchReturns, EndTick
  <1>4. PICK status \in {"pending", "running"}, outcome \in Outcomes :
          /\ \/ UNCHANGED rows /\ cur' = NoCur
             \/ /\ Update(cur.uid, TransitionTo(cur.task, status), outcome)
                /\ outcome # "ok" => cur' = NoCur
                /\ outcome = "ok" =>
                     /\ cur'.uid = cur.uid
                     /\ cur'.task = TransitionTo(cur.task, status)
          /\ cur' # NoCur => tickPc' = IF status = "running" THEN "spawn" ELSE "alloc"
    <2>1. CASE DispatchPending
      <3>1. PICK outcome \in Outcomes :
              /\ Update(cur.uid, TransitionTo(cur.task, "pending"), outcome)
              /\ IF outcome = "ok"
                   THEN /\ cur' = [cur EXCEPT !.task = TransitionTo(cur.task, "pending")]
                        /\ UNCHANGED <<tickPc, expired, slots, cpu, mem>>
                   ELSE DispatchReturns
        BY <2>1 DEF DispatchPending
      <3>2. outcome = "ok" => /\ cur'.uid = cur.uid
                              /\ cur'.task = TransitionTo(cur.task, "pending")
        BY <1>1, <3>1 DEF Cur
      <3> QED
        BY <1>1, <1>3, <3>1, <3>2
    <2>2. ASSUME NEW n, DispatchRunning(n)
          PROVE  \E outcome \in Outcomes :
                   /\ \/ UNCHANGED rows /\ cur' = NoCur
                      \/ /\ Update(cur.uid, TransitionTo(cur.task, "running"), outcome)
                         /\ outcome # "ok" => cur' = NoCur
                         /\ outcome = "ok" =>
                              /\ cur'.uid = cur.uid
                              /\ cur'.task = TransitionTo(cur.task, "running")
                   /\ cur' # NoCur => tickPc' = "spawn"
      <3>1. CASE DispatchReturns /\ UNCHANGED rows
        BY <1>3, <3>1 DEF Outcomes
      <3>2. CASE \E outcome \in Outcomes :
              /\ Update(cur.uid, TransitionTo(cur.task, "running"), outcome)
              /\ IF outcome = "ok"
                   THEN /\ cur' = [cur EXCEPT !.task = TransitionTo(cur.task, "running"),
                                              !.node = n]
                        /\ tickPc' = "spawn"
                   ELSE DispatchReturns
        <4>1. PICK outcome \in Outcomes :
              /\ Update(cur.uid, TransitionTo(cur.task, "running"), outcome)
              /\ IF outcome = "ok"
                   THEN /\ cur' = [cur EXCEPT !.task = TransitionTo(cur.task, "running"),
                                              !.node = n]
                        /\ tickPc' = "spawn"
                   ELSE DispatchReturns
          BY <3>2
        <4>2. outcome = "ok" => /\ cur'.uid = cur.uid
                                /\ cur'.task = TransitionTo(cur.task, "running")
          BY <1>1, <4>1 DEF Cur
        <4> QED
          BY <1>3, <4>1, <4>2
      <3> QED
        BY <2>2, <3>1, <3>2 DEF DispatchRunning
    <2> QED
      BY <2>1, <2>2
  <1>5. CASE t # cur.uid
    <2>1. TickLeaves(t)
      BY <1>4, <1>5, NoTaskAssumption DEF TickLeaves, NoCur, Outcomes
    <2>2. rows'[t] = rows[t]
      BY <1>1, <1>4, <1>5, WriteLeaves DEF TypeInv
    <2> QED
      BY <1>2, <2>1, <2>2, UntouchedKeeps DEF LifeInv
  <1>6. CASE t = cur.uid /\ t \notin forked
    <2>1. Single(t) /\ RowFits(t) /\ (cancels[t] = 0 => CopiesFit(t))
      BY <1>6 DEF LifeInv, TaskInv
    <2>2. /\ t \notin creating /\ ~InList(t) /\ t \notin prioritySet
          /\ ~Delayed(t) /\ ~Worked(t)
      BY <1>6, <2>1 DEF Single
    <2>3. t \notin creating' /\ \A r \in Runs : ~Works(r, t)'
      BY <1>1, <2>2 DEF Worked, Works
    <2>4. CASE cur' = NoCur
      BY <1>2, <2>1, <2>2, <2>3, <2>4, NoLifeLeft, NoTaskAssumption DEF NoCur
    <2>5. CASE cur' # NoCur
      <3> DEFINE new == TransitionTo(cur.task, status)
      <3>1. new \in TaskRecord /\ new.status = status /\ new # Absent
        BY <1>1, TaskValues DEF Status, TaskRecord, Absent
      <3>2. /\ Update(t, new, "ok") /\ cur'.uid = t /\ cur'.task = new
            /\ tickPc' = IF status = "running" THEN "spawn" ELSE "alloc"
        BY <1>4, <1>6, <2>5
      <3>3. rows'[t] = new
        BY <3>2, WriteLeaves DEF TypeInv
      <3>4. /\ ~InList(t)' /\ OnceInList(t)' /\ t \notin prioritySet' /\ ~Delayed(t)'
            /\ ~Worked(t)'
        BY <1>2, <2>1, <2>2, <2>3 DEF CollectionsLeave, ListLeaves, Single, Worked
      <3>5. Single(t)'
        BY <2>3, <3>4 DEF Single, OnceWorked
      <3>6. AtWork(t)' => status = "running"
        BY <2>3, <3>2 DEF AtWork
      <3> HIDE DEF new
      <3> QED
        BY <2>3, <3>1, <3>2, <3>3, <3>4, <3>5, <3>6 DEF TaskInv, RowFits, CopiesFit
    <2> QED
      BY <2>4, <2>5
  <1>7. CASE t \in forked
    BY <1>7 DEF TaskInv, historyVars
  <1> QED
    BY <1>5, <1>6, <1>7
\* dispatch: the task moves from the tick to a free run, with its copy.
LEMMA DispatchSpawnLife ==
    ASSUME TypeInv, LifeInv, [Next]_vars, NEW t \in Tasks, DispatchSpawn,
           UNCHANGED <<creating, historyVars>>
    PROVE  TaskInv(t)'
  <1>1. PICK r \in Runs, pc \in {"chan", "slot"} :
          run[r].pc = "free" /\ run' = [run EXCEPT ![r] = NewRun(pc)]
    BY DEF DispatchSpawn, FreeRuns
  <1> DEFINE new == NewRun(pc)
  <1>2. new.pc = pc /\ new.uid = cur.uid /\ new.task = cur.task
    BY DEF NewRun
  <1> HIDE DEF new
  <1>3. \A q \in Runs : run'[q] = IF q = r THEN new ELSE run[q]
    BY <1>1, RunWritten DEF TypeInv, new
  <1>4. /\ UNCHANGED <<rows, queueVars, moving>> /\ tickPc = "spawn"
        /\ cur' = NoCur /\ cur'.uid # t
        /\ cur.uid \in Tasks /\ cur.task.status = "running"
    BY NoTaskAssumption
    DEF DispatchSpawn, DispatchReturns, EndTick, moverVars, TypeInv, TickOK, Cur, NoCur,
        LifeInv, WaitingDocs
  <1>5. CollectionsLeave(t) /\ TickLeaves(t) /\ HistoryLeaves(t)
    BY <1>4, Leaves
  <1>6. CASE t # cur.uid
    <2>1. RunsLeave(t)
      BY <1>2, <1>3, <1>6 DEF RunsLeave, Works
    <2> QED
      BY <1>4, <1>5, <2>1, UntouchedKeeps DEF LifeInv
  <1>7. CASE t = cur.uid /\ t \notin forked
    <2>1. Single(t) /\ RowFits(t) /\ (cancels[t] = 0 => CopiesFit(t))
      BY <1>7 DEF LifeInv, TaskInv
    <2>2. /\ t \notin creating /\ ~InList(t) /\ t \notin prioritySet
          /\ ~Delayed(t) /\ \A q \in Runs : ~Works(q, t)
      BY <1>7, <2>1 DEF Single, Worked
    <2>3. /\ t \notin creating' /\ ~InList(t)' /\ OnceInList(t)' /\ t \notin prioritySet'
          /\ ~Delayed(t)'
      BY <1>5, <2>1, <2>2 DEF CollectionsLeave, ListLeaves, HistoryLeaves, Single
    <2>4. \A q \in Runs : Works(q, t)' <=> q = r
      BY <1>2, <1>3, <1>7, <2>2 DEF Works
    <2>5. Single(t)'
      BY <1>4, <2>3, <2>4 DEF Single, OnceWorked
    <2>6. RowFits(t)'
      <3>1. rows[t] # Absent /\ rows[t].status \in {"running", "canceled"}
        BY <1>4, <1>7, <2>1 DEF RowFits, Alive, AtWork
      <3> QED
        BY <1>4, <3>1 DEF RowFits
    <2>7. cancels'[t] = 0 => CopiesFit(t)'
      <3> SUFFICES ASSUME cancels'[t] = 0 PROVE CopiesFit(t)'
        OBVIOUS
      <3>1. cur.task = rows[t] /\ rows[t].status = "running"
        BY <1>4, <1>7, <2>1 DEF CopiesFit, AtWork, historyVars
      <3>2. \A q \in Runs : Works(q, t)' => run'[q].task = rows'[t]
        BY <1>2, <1>3, <1>4, <2>4, <3>1
      <3> QED
        BY <1>4, <2>3, <3>1, <3>2 DEF CopiesFit
    <2> QED
      BY <2>5, <2>6, <2>7 DEF TaskInv
  <1>8. CASE t \in forked
    BY <1>8 DEF TaskInv, historyVars
  <1> QED
    BY <1>6, <1>7, <1>8

\* A task that loses its only run and has no other place.
LEMMA LastRunGone ==
    ASSUME RunOK, LifeInv, NEW t \in Tasks, t \notin forked, NEW r \in Runs, Works(r, t),
           NEW new, run' = [run EXCEPT ![r] = new],
           new.uid # t \/ new.pc = "unreg",
           UNCHANGED <<queueVars, moving, tickVars, creating>>
    PROVE  TaskInv(t)'
  <1>1. Single(t)
    BY DEF LifeInv, TaskInv
  <1>2. /\ t \notin creating /\ ~InList(t) /\ t \notin prioritySet /\ ~Delayed(t)
        /\ cur.uid # t
    BY <1>1 DEF Single, Worked
  <1>3. \A q \in Runs : ~Works(q, t)'
    <2>1. \A q \in Runs : Works(q, t) => q = r
      BY <1>1 DEF Single, OnceWorked
    <2>2. \A q \in Runs : run'[q] = IF q = r THEN new ELSE run[q]
      BY RunWritten
    <2> QED
      BY <2>1, <2>2 DEF Works
  <1>4. CollectionsLeave(t)
    BY ListKept DEF queueVars, CollectionsLeave, ListLeaves, Delayed
  <1> QED
    BY <1>1, <1>2, <1>3, <1>4, NoLifeLeft DEF tickVars

\* completeTask: a run that ends leaves its task without a place; one that is
\* retried keeps the copy that was written.
LEMMA CompleteLife ==
    ASSUME TypeInv, LifeInv, [Next]_vars, NEW t \in Tasks, NEW r \in Runs,
           CompleteSuccess(r) \/ CompleteError(r),
           UNCHANGED <<creating, historyVars>>
    PROVE  TaskInv(t)'
  <1> RunOK
    BY DEF TypeInv
  <1>0. /\ run[r].pc \in {"ok", "err"} /\ run[r].uid \in Tasks
        /\ run[r] \in Run /\ run[r].task \in TaskRecord \cup {Absent}
    BY DEF RunOK, Run, CompleteSuccess, CompleteError
  <1>1. UNCHANGED <<queueVars, moving, tickVars>>
    BY DEF CompleteSuccess, CompleteError, moverVars
  <1>2. CollectionsLeave(t) /\ TickLeaves(t) /\ HistoryLeaves(t)
    BY <1>1, Leaves
  <1>3. PICK task \in TaskRecord, outcome \in Outcomes :
          /\ UNCHANGED rows \/ Update(run[r].uid, task, outcome)
          /\ \/ run' = [run EXCEPT ![r] = Returned(r)]
             \/ /\ run[r].pc = "err" /\ CanRetry(run[r].task)
                /\ task = Retried(run[r].task) /\ outcome = "ok"
                /\ Update(run[r].uid, task, outcome)
                /\ run' = [run EXCEPT ![r] = [run[r] EXCEPT !.pc = "push", !.task = task]]
    <2>1. CASE CompleteSuccess(r)
      <3>1. TransitionTo(run[r].task, "success") \in TaskRecord /\ NewTask \in TaskRecord
        BY <1>0, TaskValues DEF Status
      <3>2. CASE UNCHANGED rows
        BY <2>1, <3>1, <3>2 DEF CompleteSuccess, Outcomes
      <3>3. CASE \E outcome \in Outcomes :
                   Update(run[r].uid, TransitionTo(run[r].task, "success"), outcome)
        BY <2>1, <3>1, <3>3 DEF CompleteSuccess
      <3> QED
        BY <2>1, <3>2, <3>3 DEF CompleteSuccess
    <2>2. CASE CompleteError(r)
      <3>1. PICK outcome \in Outcomes :
              /\ failTask(run[r].uid, run[r].task, outcome)
              /\ run' = [run EXCEPT ![r] =
                           IF WillRequeue(run[r].task, outcome)
                             THEN [run[r] EXCEPT !.pc = "push",
                                                 !.task = Retried(run[r].task)]
                             ELSE Returned(r)]
        BY <2>2 DEF CompleteError
      <3>2. CASE WillRequeue(run[r].task, outcome)
        <4>1. /\ CanRetry(run[r].task) /\ outcome = "ok"
              /\ FailedCopy(run[r].task) = Retried(run[r].task)
          BY <3>2 DEF WillRequeue, FailedCopy
        <4>2. Update(run[r].uid, Retried(run[r].task), outcome)
          BY <3>1, <4>1 DEF failTask
        <4>3. Retried(run[r].task) \in TaskRecord /\ run[r].pc = "err"
          BY <1>0, <2>2, <4>1, TaskValues DEF CompleteError
        <4>4. run' = [run EXCEPT ![r] =
                       [run[r] EXCEPT !.pc = "push", !.task = Retried(run[r].task)]]
          BY <3>1, <3>2
        <4> QED
          BY <4>1, <4>2, <4>3, <4>4
      <3>3. CASE ~WillRequeue(run[r].task, outcome)
        <4>1. FailedCopy(run[r].task) \in TaskRecord
          BY <1>0, TaskValues
        <4>2. run' = [run EXCEPT ![r] = Returned(r)]
          BY <3>1, <3>3
        <4>3. UNCHANGED rows \/ Update(run[r].uid, FailedCopy(run[r].task), outcome)
          BY <3>1 DEF failTask
        <4> QED
          BY <4>1, <4>2, <4>3
      <3> QED
        BY <3>2, <3>3
    <2> QED
      BY <2>1, <2>2
  <1>4. CASE t # run[r].uid
    <2>1. rows'[t] = rows[t]
      BY <1>0, <1>3, <1>4, WriteLeaves DEF TypeInv
    <2>2. RunsLeave(t)
      <3>1. [run[r] EXCEPT !.pc = "push", !.task = task].uid = run[r].uid
        BY <1>0 DEF Run
      <3> QED
        BY <1>3, <1>4, <3>1, RunWriteLeaves, ReturnedIsDone, NoTaskAssumption
    <2> QED
      BY <1>2, <2>1, <2>2, UntouchedKeeps DEF LifeInv
  <1>5. CASE t = run[r].uid /\ t \notin forked
    <2>0. Works(r, t)
      BY <1>0, <1>5 DEF Works
    <2>1. CASE run' = [run EXCEPT ![r] = Returned(r)]
      BY <1>1, <1>5, <2>0, <2>1, LastRunGone, ReturnedIsDone, NoTaskAssumption
    <2>2. CASE /\ CanRetry(run[r].task) /\ task = Retried(run[r].task)
               /\ Update(t, task, "ok")
               /\ run' = [run EXCEPT ![r] = [run[r] EXCEPT !.pc = "push", !.task = task]]
      <3> DEFINE new == [run[r] EXCEPT !.pc = "push", !.task = task]
      <3>1. new.uid = t /\ new.pc = "push" /\ new.task = task
        BY <1>0, <1>5 DEF Run
      <3>2. \A q \in Runs : run'[q] = IF q = r THEN new ELSE run[q]
        BY <2>2, RunWritten
      <3> HIDE DEF new
      <3>3. Single(t)
        BY <1>5 DEF LifeInv, TaskInv
      <3>4. \A q \in Runs : Works(q, t)' <=> q = r
        BY <2>0, <3>1, <3>2, <3>3 DEF Works, Single, OnceWorked
      <3>5. /\ t \notin creating' /\ ~InList(t)' /\ OnceInList(t)' /\ t \notin prioritySet'
            /\ ~Delayed(t)' /\ cur'.uid # t
        BY <1>1, <1>2, <2>0, <3>3
        DEF Single, Worked, CollectionsLeave, ListLeaves, HistoryLeaves, tickVars
      <3>6. Single(t)'
        BY <3>4, <3>5 DEF Single, OnceWorked
      <3>7. ~AtWork(t)'
        BY <3>1, <3>2, <3>4, <3>5 DEF AtWork
      <3>8. rows'[t] = task /\ rows'[t] # Absent
        <4>1. task \in TaskRecord
          BY <1>0, <2>2, TaskValues
        <4>2. task # Absent
          BY <4>1 DEF TaskRecord, Status, Absent
        <4> QED
          BY <2>2, <4>2, WriteLeaves DEF TypeInv
      <3> QED
        BY <3>1, <3>2, <3>4, <3>5, <3>6, <3>7, <3>8 DEF TaskInv, RowFits, CopiesFit
    <2> QED
      BY <1>3, <1>5, <2>1, <2>2
  <1>6. CASE t \in forked
    BY <1>6 DEF TaskInv, historyVars
  <1> QED
    BY <1>4, <1>5, <1>6
\* A run that re-queues its task moves it to the delayed set.
LEMMA RunRequeueLife ==
    ASSUME TypeInv, LifeInv, [Next]_vars, NEW t \in Tasks, NEW r \in Runs, RunRequeue(r),
           UNCHANGED <<creating, historyVars>>
    PROVE  TaskInv(t)'
  <1> RunOK
    BY DEF TypeInv
  <1>1. PICK outcome \in Outcomes : PushDelayed(run[r].uid, run[r].task, outcome)
    BY DEF RunRequeue
  <1>2. /\ UNCHANGED <<rows, moving, tickVars>> /\ run[r].pc = "push"
        /\ run' = [run EXCEPT ![r] = Returned(r)] /\ run[r].uid \in Tasks
    BY DEF RunRequeue, moverVars, RunOK
  <1>3. CASE t # run[r].uid
    <2>1. RunsLeave(t)
      BY <1>2, <1>3, RunWriteLeaves, ReturnedIsDone, NoTaskAssumption
    <2>2. CollectionsLeave(t)
      BY <1>1, <1>2, <1>3, PushLeaves DEF TypeInv
    <2> QED
      BY <1>2, <2>1, <2>2, Leaves, UntouchedKeeps DEF LifeInv
  <1>4. CASE t = run[r].uid /\ t \notin forked
    <2>0. Works(r, t)
      BY <1>2, <1>4 DEF Works
    <2>1. Single(t) /\ RowFits(t) /\ (cancels[t] = 0 => CopiesFit(t))
      BY <1>4 DEF LifeInv, TaskInv
    <2>2. /\ t \notin creating /\ ~InList(t) /\ OnceInList(t) /\ t \notin prioritySet
          /\ ~Delayed(t) /\ cur.uid # t /\ rows[t] # Absent
      BY <2>0, <2>1 DEF Single, RowFits, Alive, Worked
    <2>3. cancels[t] = 0 => run[r].task = rows[t]
      BY <2>0, <2>1 DEF CopiesFit
    <2>4. \A q \in Runs : ~Works(q, t)'
      <3>1. \A q \in Runs : Works(q, t) => q = r
        BY <2>0, <2>1 DEF Single, OnceWorked
      <3>2. \A q \in Runs : run'[q] = IF q = r THEN Returned(r) ELSE run[q]
        BY <1>2, RunWritten
      <3> QED
        BY <3>1, <3>2, ReturnedIsDone, NoTaskAssumption DEF Works
    <2>5. cur'.uid # t
      BY <1>2, <2>2 DEF tickVars
    <2> QED
      BY <1>1, <1>2, <1>4, <2>2, <2>3, <2>4, <2>5, RequeuedLife
  <1>5. CASE t \in forked
    BY <1>5 DEF TaskInv, historyVars
  <1> QED
    BY <1>3, <1>4, <1>5

\* A run that is given up, by an agent, by a lost reply or by a handler that
\* cannot read the row, or that leaves cancelFuncs.
LEMMA RunFreedLife ==
    ASSUME TypeInv, LifeInv, [Next]_vars, NEW t \in Tasks, NEW r \in Runs,
           run' = [run EXCEPT ![r] = FreeRun],
           UNCHANGED <<rows, queueVars, moving, tickVars, creating>>
    PROVE  TaskInv(t)'
  <1>1. RunsLeave(t)
    BY RunWriteLeaves, ReturnedIsDone, NoTaskAssumption DEF TypeInv
  <1> QED
    BY <1>1, Leaves, UntouchedKeeps DEF LifeInv

\* A run that moves on with its task.
LEMMA RunMovesLife ==
    ASSUME TypeInv, LifeInv, [Next]_vars, NEW t \in Tasks, NEW r \in Runs, NEW pc,
           SetPc(r, pc), run[r].pc \notin {"unreg", "push"},
           UNCHANGED <<rows, queueVars, moving, tickVars, creating>>
    PROVE  TaskInv(t)'
  <1>1. RunsLeave(t)
    BY PcWriteLeaves DEF TypeInv
  <1> QED
    BY <1>1, Leaves, UntouchedKeeps DEF LifeInv

\* HandleRemoteResult: from here on the handler works on the row it read.
LEMMA RemoteResultLife ==
    ASSUME TypeInv, LifeInv, [Next]_vars, NEW t \in Tasks, NEW r \in Runs,
           run[r].pc \in {"rok", "rerr"},
           run' = [run EXCEPT ![r].pc = IF @ = "rok" THEN "gok" ELSE "gerr",
                              ![r].task = GetByUID(run[r].uid)],
           UNCHANGED <<rows, queueVars, moving, tickVars, creating, historyVars>>
    PROVE  TaskInv(t)'
  <1> RunOK
    BY DEF TypeInv
  <1>1. /\ \A q \in Runs : run'[q].uid = run[q].uid
        /\ \A q \in Runs : q # r => run'[q] = run[q]
        /\ run'[r].pc \in {"gok", "gerr"} /\ run'[r].task = rows[run[r].uid]
    BY DEF RunOK, Run, GetByUID
  <1>2. CollectionsLeave(t) /\ TickLeaves(t) /\ HistoryLeaves(t)
    BY Leaves
  <1>3. CASE t # run[r].uid
    <2>1. RunsLeave(t)
      BY <1>1, <1>3 DEF RunsLeave, Works
    <2> QED
      BY <1>2, <2>1, UntouchedKeeps DEF LifeInv
  <1>4. CASE t = run[r].uid /\ t \notin forked
    <2>1. Single(t) /\ RowFits(t) /\ (cancels[t] = 0 => CopiesFit(t))
      BY <1>4 DEF LifeInv, TaskInv
    <2>2. \A q \in Runs : Works(q, t)' => Works(q, t)
      BY <1>1, <1>4 DEF Works
    <2>3. AtWork(t)
      BY <1>4 DEF AtWork, Works
    <2>4. Single(t)'
      <3>1. OnceWorked(t)' /\ (Worked(t)' => Worked(t))
        BY <2>1, <2>2 DEF OnceWorked, Worked, Single
      <3> QED
        BY <1>2, <2>1, <3>1
        DEF Single, CollectionsLeave, ListLeaves, TickLeaves, HistoryLeaves
    <2>5. RowFits(t)'
      BY <2>1, <2>3 DEF RowFits, Alive, AtWork, Absent
    <2>6. cancels'[t] = 0 => CopiesFit(t)'
      <3> SUFFICES ASSUME cancels'[t] = 0 PROVE CopiesFit(t)'
        OBVIOUS
      <3>1. CopiesFit(t)
        BY <2>1 DEF historyVars
      <3>2. \A q \in Runs : Works(q, t)' => run'[q].task = rows'[t]
        BY <1>1, <1>4, <2>2, <3>1 DEF CopiesFit
      <3>3. ~InList(t)' /\ t \notin prioritySet' /\ ~Delayed(t)' /\ t \notin creating'
        <4>1. Worked(t)
          BY <1>4 DEF Worked, Works
        <4> QED
          BY <1>2, <2>1, <4>1 DEF Single, CollectionsLeave, ListLeaves, HistoryLeaves
      <3>4. cur'.uid = t => cur'.task = rows'[t]
        BY <1>2, <3>1 DEF CopiesFit, TickLeaves
      <3> QED
        BY <2>3, <3>1, <3>2, <3>3, <3>4 DEF CopiesFit
    <2> QED
      BY <2>4, <2>5, <2>6 DEF TaskInv
  <1>5. CASE t \in forked
    BY <1>5 DEF TaskInv, historyVars
  <1> QED
    BY <1>3, <1>4, <1>5

\* Every step of a run.
LEMMA RunStepLife ==
    ASSUME TypeInv, LifeInv, [Next]_vars, NEW t \in Tasks, NEW r \in Runs, RunStep(r)
    PROVE  TaskInv(t)'
  <1>1. UNCHANGED <<creating, historyVars>>
    BY DEF RunStep, serviceVars
  <1>2. CASE ExecutorAcquire(r) \/ ExecutorEnds(r) \/ RemoteUnregister(r)
    BY <1>1, <1>2, RunMovesLife DEF ExecutorAcquire, ExecutorEnds, RemoteUnregister, moverVars
  <1>3. CASE CompleteSuccess(r) \/ CompleteError(r)
    BY <1>1, <1>3, CompleteLife
  <1>4. CASE RunRequeue(r)
    BY <1>1, <1>4, RunRequeueLife
  <1>5. CASE RunUnregister(r)
    BY <1>1, <1>5, RunFreedLife DEF RunUnregister, moverVars
  <1>6. CASE HandleRemoteResult(r)
    <2>1. UNCHANGED <<rows, queueVars, moving, tickVars, creating, historyVars>>
          /\ run[r].pc \in {"rok", "rerr"}
      BY <1>1, <1>6 DEF HandleRemoteResult, moverVars
    <2>2. CASE run' = [run EXCEPT ![r] = FreeRun]
      BY <2>1, <2>2, RunFreedLife
    <2>3. CASE run' = [run EXCEPT ![r].pc = IF @ = "rok" THEN "gok" ELSE "gerr",
                                  ![r].task = GetByUID(run[r].uid)]
      BY <2>1, <2>3, RemoteResultLife
    <2> QED
      BY <1>6, <2>2, <2>3 DEF HandleRemoteResult
  <1> QED
    BY <1>2, <1>3, <1>4, <1>5, <1>6 DEF RunStep

\* The agents.
LEMMA AgentStepLife ==
    ASSUME TypeInv, LifeInv, [Next]_vars, NEW t \in Tasks, AgentStep
    PROVE  TaskInv(t)'
  <1>1. UNCHANGED <<creating, historyVars>>
    BY DEF AgentStep, serviceVars
  <1>2. ASSUME NEW n \in Nodes, GetNextTaskForNode(n)
        PROVE  TaskInv(t)'
    <2>1. Head(nodeTasks[n]) \in Runs /\ run[Head(nodeTasks[n])].pc = "chan"
      <3>1. /\ nodeTasks[n] \in Seq(Runs) /\ nodeTasks[n] # <<>>
            /\ Head(nodeTasks[n]) = nodeTasks[n][1] /\ 1 \in 1 .. Len(nodeTasks[n])
            /\ Head(nodeTasks[n]) \in Runs
        BY <1>2 DEF TypeInv, RunOK, GetNextTaskForNode
      <3> QED
        BY <3>1 DEF TypeInv, RunOK, ChannelsOwnRuns
    <2>2. UNCHANGED <<rows, queueVars, moving, tickVars>>
      BY <1>2 DEF GetNextTaskForNode, moverVars
    <2> QED
      BY <1>1, <1>2, <2>1, <2>2, RunMovesLife, RunFreedLife DEF GetNextTaskForNode
  <1>3. ASSUME NEW r \in Runs, AgentExecutes(r)
        PROVE  TaskInv(t)'
    BY <1>1, <1>3, RunMovesLife DEF AgentExecutes, moverVars
  <1>4. ASSUME NEW r \in Runs, AgentLost(r)
        PROVE  TaskInv(t)'
    BY <1>1, <1>4, RunFreedLife DEF AgentLost, moverVars
  <1> QED
    BY <1>2, <1>3, <1>4 DEF AgentStep
\* moveDueDelayed: the task moves from the delayed set to the list; what an
\* interrupted move leaves in both is recorded as forked.
LEMMA MoverLife ==
    ASSUME TypeInv, LifeInv, [Next]_vars, NEW t \in Tasks, MoverStart \/ MoverStep
    PROVE  TaskInv(t)'
  <1>1. UNCHANGED <<rows, tickVars, run, creating, cancels>>
    BY DEF MoverStart, MoverStep, runVars, serviceVars, historyVars
  <1>2. TickLeaves(t) /\ RunsLeave(t) /\ HistoryLeaves(t)
    BY <1>1, Leaves
  <1>3. CASE MoverStart
    BY <1>1, <1>2, <1>3, Leaves, UntouchedKeeps DEF LifeInv, MoverStart, MoverScan
  <1>4. ASSUME NEW outcome, MoverRem(outcome),
               forked' = IF outcome = "error" THEN forked \cup moving ELSE forked
        PROVE  TaskInv(t)'
    <2>1. CASE t \in forked'
      BY <2>1 DEF TaskInv
    <2>2. CASE t \notin forked'
      <3>1. Delayed(t)' => Delayed(t)
        BY <1>4, <2>2 DEF MoverRem, Delayed
      <3>2. CollectionsLeave(t)
        BY <1>4, <3>1, ListKept DEF MoverRem, CollectionsLeave, ListLeaves
      <3> QED
        BY <1>1, <1>2, <3>2, UntouchedKeeps DEF LifeInv
    <2> QED
      BY <2>1, <2>2
  <1>5. ASSUME NEW u \in moverDue, NEW outcome \in Outcomes, MoverPush(u, outcome),
               forked' = IF outcome = "lost" THEN forked \cup {u} ELSE forked
        PROVE  TaskInv(t)'
    <2>1. /\ u \in Tasks /\ u \in delayedSet /\ moving = {}
          /\ UNCHANGED <<taskData, prioritySet, delayedSet>>
          /\ pendingList' = IF outcome = "error" THEN pendingList
                                                 ELSE Append(pendingList, u)
          /\ moving' = IF outcome = "ok" THEN {u} ELSE {}
      BY <1>5 DEF MoverPush, LifeInv, MoverInv, TypeInv, MoverOK
    <2>2. Delayed(t)' => Delayed(t)
      BY <2>1 DEF Delayed
    <2>3. CASE outcome = "error" \/ t # u
      <3>1. ListLeaves(t)
        BY <2>1, <2>3, ListKept, ListPushed DEF ListLeaves, TypeInv, QueueCollectionsOK
      <3>2. CollectionsLeave(t)
        BY <2>1, <2>2, <3>1 DEF CollectionsLeave
      <3> QED
        BY <1>1, <1>2, <3>2, UntouchedKeeps DEF LifeInv
    <2>4. CASE outcome = "lost" /\ t = u
      BY <1>5, <2>4 DEF TaskInv
    <2>5. CASE outcome = "ok" /\ t = u /\ t \notin forked
      <3>1. Single(t) /\ RowFits(t) /\ (cancels[t] = 0 => CopiesFit(t)) /\ Delayed(t)
        BY <2>1, <2>5 DEF LifeInv, TaskInv, Delayed
      <3>2. /\ t \notin creating /\ ~InList(t) /\ t \notin prioritySet /\ cur.uid # t
            /\ \A r \in Runs : ~Works(r, t)
        BY <3>1 DEF Single, Worked
      <3>3. /\ t \notin creating' /\ OnceInList(t)' /\ t \notin prioritySet' /\ cur'.uid # t
            /\ ~Delayed(t)' /\ \A r \in Runs : ~Works(r, t)'
        <4>1. OnceInList(t)'
          BY <2>1, <2>5, <3>1, <3>2, ListPushed DEF TypeInv, QueueCollectionsOK, Single
        <4> QED
          BY <1>1, <2>1, <2>5, <3>2, <4>1 DEF Delayed, Works, tickVars
      <3>4. ~AtWork(t)' /\ ~Worked(t)'
        BY <3>3 DEF AtWork, Worked
      <3>5. Single(t)'
        BY <3>3, <3>4 DEF Single, OnceWorked
      <3>6. RowFits(t)'
        BY <1>1, <3>1, <3>4 DEF RowFits, Alive
      <3>7. cancels'[t] = 0 => CopiesFit(t)'
        BY <1>1, <2>1, <3>1, <3>3, <3>4 DEF CopiesFit
      <3> QED
        BY <3>5, <3>6, <3>7 DEF TaskInv
    <2>6. CASE t \in forked
      BY <1>5, <2>6 DEF TaskInv
    <2> QED
      BY <2>3, <2>4, <2>5, <2>6 DEF Outcomes
  <1> QED
    BY <1>3, <1>4, <1>5 DEF MoverStep

\* A document that expires, a crash of the server, and a step of nobody.
LEMMA LossesLife ==
    ASSUME TypeInv, LifeInv, [Next]_vars, NEW t \in Tasks,
           DataExpires \/ Crash \/ UNCHANGED vars
    PROVE  TaskInv(t)'
  <1>1. CASE DataExpires
    <2>1. UNCHANGED <<rows, tickVars, run, creating, pendingList, prioritySet, delayedSet,
                      moving>>
      BY <1>1 DEF DataExpires, TaskDataExpires, runVars, serviceVars, moverVars
    <2>2. taskData'[t] \in {taskData[t], Absent}
      BY <1>1 DEF DataExpires, TaskDataExpires, TypeInv, QueueCollectionsOK
    <2>3. CollectionsLeave(t)
      BY <2>1, <2>2, ListKept DEF CollectionsLeave, ListLeaves, Delayed
    <2> QED
      BY <2>1, <2>3, Leaves, UntouchedKeeps DEF LifeInv
  <1>2. CASE Crash /\ t \notin forked'
    <2>1. /\ UNCHANGED <<rows, queueVars>> /\ moving' = {} /\ t \notin moving
          /\ cur' = NoCur /\ creating' = {}
      BY <1>2 DEF Crash, SchedulerCrash, MoverCrash
    <2>2. CollectionsLeave(t)
      BY <2>1, ListKept DEF queueVars, CollectionsLeave, ListLeaves, Delayed
    <2>3. RunsLeave(t)
      BY <1>2, NoTaskAssumption
      DEF Crash, SchedulerCrash, RunsLeave, Works, FreeRun
    <2>4. HistoryLeaves(t)
      BY <2>1, HistoryGrows DEF HistoryLeaves
    <2> QED
      BY <2>1, <2>2, <2>3, <2>4, Leaves, UntouchedKeeps DEF LifeInv
  <1>3. CASE t \in forked'
    BY <1>3 DEF TaskInv
  <1>4. CASE UNCHANGED vars
    <2>1. UNCHANGED <<rows, queueVars, moving, tickVars, run, creating>>
      BY <1>4 DEF vars, moverVars, runVars, serviceVars
    <2> QED
      BY <2>1, Leaves, UntouchedKeeps DEF LifeInv
  <1> QED
    BY <1>1, <1>2, <1>3, <1>4

-----------------------------------------------------------------------------
(***************************************************************************)
(* The invariant and what follows from it.                                 *)
(***************************************************************************)

\* Every step of the system keeps what is known of every task.
LEMMA TaskInvNext ==
    ASSUME TypeInv, LifeInv, CancelsWriteCanceled, [Next]_vars, NEW t \in Tasks
    PROVE  TaskInv(t)'
  <1>1. ASSUME NEW u \in Tasks, CreateTask(u) \/ CancelTask(u) \/ ServiceStep(u)
        PROVE  TaskInv(t)'
    BY <1>1, CreateTaskLife, CreateTaskPushLife, CancelTaskLife DEF ServiceStep
  <1>2. CASE StartTick
    BY <1>2, TickDeadlinesLife
    DEF StartTick, TickStart, moverVars, runVars, serviceVars
  <1>3. CASE TickStep
    <2>1. UNCHANGED <<creating, historyVars>>
      BY <1>3 DEF TickStep, serviceVars
    <2>2. CASE (\E e \in expired : TickTimeout(e)) \/ TickRequeue \/ TickAllocate
      <3>1. UNCHANGED <<run, moving>>
        BY <2>2 DEF TickTimeout, TickRequeue, TickAllocate, runVars, moverVars
      <3> QED
        BY <2>1, <2>2, <3>1, TickDeadlinesLife
    <2> QED
      BY <1>3, <2>1, <2>2, TickPopLife, PushBackLife, DispatchLife, DispatchSpawnLife
      DEF TickStep
  <1>4. CASE (\E r \in Runs : RunStep(r)) \/ AgentStep
    BY <1>4, RunStepLife, AgentStepLife
  <1>5. CASE MoverStart \/ MoverStep
    BY <1>5, MoverLife
  <1>6. CASE DataExpires \/ Crash \/ UNCHANGED vars
    BY <1>6, LossesLife
  <1> QED
    BY <1>1, <1>2, <1>3, <1>4, <1>5, <1>6 DEF Next

\* LifeInv is inductive relative to the invariants proved before.
LEMMA LifeInvNext == TypeInv /\ SlotsInv /\ LifeInv /\ [Next]_vars => LifeInv'
  <1> SUFFICES ASSUME TypeInv, SlotsInv, LifeInv, [Next]_vars PROVE LifeInv'
    OBVIOUS
  <1>1. MoverInv /\ TickInv /\ WaitingDocs /\ FreeIsFree /\ CancelsCounted
        /\ CancelsWriteCanceled
    BY DEF LifeInv, SlotsInv
  <1>2. MoverInv' /\ TickInv' /\ FreeIsFree' /\ CancelsCounted'
    BY <1>1, MoverInvNext, TickInvNext, FreeIsFreeNext, CancelsCountedNext
  <1>3. WaitingDocs'
    BY <1>1, DocsWait, TickCopyFits, RequeuedCopyWaits DEF WaitingDocs
  <1>4. \A t \in Tasks : TaskInv(t)'
    BY <1>1, TaskInvNext
  <1> QED
    BY <1>2, <1>3, <1>4 DEF LifeInv

\* No task has a place in the initial state.
LEMMA LifeInvInit == Init => LifeInv
  <1> SUFFICES ASSUME Init PROVE LifeInv
    OBVIOUS
  <1> USE DEF Init, StoreInit, QueueInit, SchedulerInit, FaultsInit
  <1>1. MoverInv /\ TickInv /\ CancelsCounted
    BY DEF MoverInv, TickInv, CancelsCounted
  <1>2. WaitingDocs /\ FreeIsFree
    BY DEF WaitingDocs, FreeIsFree, FreeRun, Absent
  <1>3. ASSUME NEW t \in Tasks
        PROVE  TaskInv(t)
    <2>1. ~Alive(t) /\ ~AtWork(t)
      BY NoTaskAssumption
      DEF Alive, AtWork, InList, Delayed, Worked, Works, NoCur, FreeRun
    <2>2. OnceInList(t) /\ OnceWorked(t)
      BY NoTaskAssumption DEF OnceInList, OnceWorked, Works, FreeRun
    <2>3. Single(t)
      BY <2>1, <2>2 DEF Single, Alive
    <2> QED
      BY <2>1, <2>3 DEF TaskInv, RowFits, CopiesFit, Alive, Worked
  <1> QED
    BY <1>1, <1>2, <1>3 DEF LifeInv

\* TypeInv, SlotsInv and LifeInv together are an invariant.
PipelineInv == TypeInv /\ SlotsInv /\ LifeInv

\* The three invariants hold in every reachable state.
LEMMA PipelineInvariant == Spec => []PipelineInv
  <1>1. Init => PipelineInv
    BY TypeInvInit, SlotsInit, LifeInvInit DEF PipelineInv
  <1>2. PipelineInv /\ [Next]_vars => PipelineInv'
    BY TypeInvNext, SlotsNext, LifeInvNext DEF PipelineInv
  <1> QED
    BY <1>1, <1>2, PTL DEF Spec

\* For any number of tasks, runs, nodes, retries and faults: a task that was
\* not forked is never queued twice, never queued while it executes and never
\* executed twice at once.
THEOREM OneLife == Spec => []SingleLife
  <1>1. PipelineInv => SingleLife
    BY LivesArePlaces DEF PipelineInv, LifeInv, TaskInv, SingleLife
  <1> QED
    BY <1>1, PipelineInvariant, PTL

\* While a task that was neither forked nor canceled is queued, its document
\* in Redis, if it has not expired, is its row in PostgreSQL.
THEOREM DocumentIsRow == Spec => []QueuedCopyIsCurrent
  <1>1. PipelineInv => QueuedCopyIsCurrent
    <2> SUFFICES ASSUME PipelineInv, NEW t \in Tasks, Queued(t), t \notin forked,
                        cancels[t] = 0
                 PROVE  taskData[t] \in {rows[t], Absent}
      BY DEF QueuedCopyIsCurrent
    <2>1. CopiesFit(t)
      BY DEF PipelineInv, LifeInv, TaskInv
    <2> QED
      BY <2>1 DEF Queued, CopiesFit, InList, Delayed
  <1> QED
    BY <1>1, PipelineInvariant, PTL
-----------------------------------------------------------------------------
(***************************************************************************)
(* What a step may do to a row.                                            *)
(***************************************************************************)

\* Transitions of task structs that dispatch and completeTask make.
LEMMA LegalTransitions ==
    ASSUME NEW task \in TaskRecord
    PROVE  /\ \A s \in Status : CanTransition(task, s) => LegalStep(task, TransitionTo(task, s))
           /\ task.status = "running" => LegalStep(task, Retried(task))
           /\ LegalStep(task, task)
           /\ task.status = "created" => CanTransition(task, "pending")
           /\ task.status = "running" => CanTransition(task, "failed")
  BY MaxRetriesAssumption
  DEF TaskRecord, Status, CanTransition, TransitionTo, Retried, LegalStep, Absent,
      validTransitions

\* The copy of a task that was neither forked nor canceled is the row at every
\* place that writes rows.
LEMMA CopiesAreRows ==
    ASSUME PipelineInv, NEW t \in Tasks, t \notin forked, cancels[t] = 0
    PROVE  /\ cur.uid = t => cur.task = rows[t] /\ rows[t] \in TaskRecord
           /\ \A r \in Runs : run[r].uid = t /\ run[r].pc \in {"ok", "err"} =>
                /\ run[r].task = rows[t] /\ rows[t] \in TaskRecord
                /\ rows[t].status = "running"
  <1>1. RowFits(t) /\ CopiesFit(t)
    BY DEF PipelineInv, LifeInv, TaskInv
  <1>2. Alive(t) => rows[t] \in TaskRecord
    BY <1>1 DEF RowFits, PipelineInv, TypeInv, StoreTypeOK
  <1>3. cur.uid = t => cur.task = rows[t] /\ rows[t] \in TaskRecord
    BY <1>1, <1>2 DEF Alive, CopiesFit
  <1>4. ASSUME NEW r \in Runs, run[r].uid = t, run[r].pc \in {"ok", "err"}
        PROVE  /\ run[r].task = rows[t] /\ rows[t] \in TaskRecord
               /\ rows[t].status = "running"
    <2>1. Works(r, t) /\ AtWork(t) /\ Alive(t)
      BY <1>4 DEF Works, AtWork, Alive, Worked
    <2> QED
      BY <1>1, <1>2, <2>1 DEF CopiesFit
  <1> QED
    BY <1>3, <1>4

\* Every step moves every row legally.
LEMMA LifecycleStep ==
    ASSUME PipelineInv, [Next]_vars, NEW t \in Tasks, t \notin forked', cancels'[t] = 0
    PROVE  LegalStep(rows[t], rows'[t])
  <1> TypeInv /\ StoreTypeOK
    BY DEF PipelineInv, TypeInv
  <1>0. t \notin forked /\ cancels[t] = 0
    BY HistoryGrows
  <1>1. CASE rows'[t] = rows[t]
    BY <1>1 DEF LegalStep
  <1>2. ASSUME NEW u \in Tasks, CreateTask(u)
        PROVE  LegalStep(rows[t], rows'[t])
    <2>1. CASE t = u
      <3>1. rows[t] = Absent /\ (rows'[t] = rows[t] \/ rows'[t] = NewTask)
        BY <1>2, <2>1, WriteLeaves DEF CreateTask, Exists
      <3> QED
        BY <3>1 DEF LegalStep
    <2>2. CASE t # u
      BY <1>1, <1>2, <2>2, WriteLeaves DEF CreateTask
    <2> QED
      BY <2>1, <2>2
  <1>3. ASSUME NEW u \in Tasks, CancelTaskWrite(u)
        PROVE  LegalStep(rows[t], rows'[t])
    <2>1. t # u
      <3>1. cancels[u] > 0
        BY <1>3 DEF PipelineInv, LifeInv, CancelsCounted, CancelTaskWrite, NoOp
      <3> QED
        BY <1>0, <3>1
    <2> QED
      BY <1>1, <1>3, <2>1, WriteLeaves DEF CancelTaskWrite
  <1>4. ASSUME NEW e \in expired, TickTimeout(e)
        PROVE  LegalStep(rows[t], rows'[t])
    <2>1. e.uid \in Tasks /\ e.uid # t
      BY <1>0 DEF PipelineInv, LifeInv, TickInv, TypeInv, TickOK, Expired
    <2>2. PICK outcome \in Outcomes : failTask(e.uid, e.task, outcome)
      BY <1>4 DEF TickTimeout
    <2>3. Update(e.uid, FailedCopy(e.task), outcome) \/ UNCHANGED rows
      BY <2>2 DEF failTask
    <2> QED
      BY <1>1, <2>1, <2>3, WriteLeaves
  <1>5. CASE DispatchPending \/ \E n \in Nodes \cup {NoNode} : DispatchRunning(n)
    <2>1. cur.uid \in Tasks /\ cur.task \in TaskRecord
      BY <1>5 DEF DispatchPending, DispatchRunning, TypeInv, TickOK, Cur
    <2>2. \/ UNCHANGED rows
          \/ \E outcome \in Outcomes, s \in {"pending", "running"} :
               /\ CanTransition(cur.task, s)
               /\ Update(cur.uid, TransitionTo(cur.task, s), outcome)
      BY <1>5, <2>1, LegalTransitions DEF DispatchPending, DispatchRunning
    <2>3. CASE t # cur.uid
      BY <1>1, <2>1, <2>2, <2>3, WriteLeaves
    <2>4. CASE t = cur.uid
      <3>1. cur.task = rows[t] /\ rows[t] \in TaskRecord
        BY <1>0, <2>4, CopiesAreRows
      <3>2. ASSUME NEW outcome \in Outcomes, NEW s \in {"pending", "running"},
                   CanTransition(cur.task, s),
                   Update(cur.uid, TransitionTo(cur.task, s), outcome)
            PROVE  LegalStep(rows[t], rows'[t])
        <4>1. rows'[t] = rows[t] \/ rows'[t] = TransitionTo(rows[t], s)
          BY <2>1, <2>4, <3>1, <3>2, WriteLeaves
        <4> QED
          BY <1>1, <3>1, <3>2, <4>1, LegalTransitions DEF Status
      <3> QED
        BY <1>1, <2>2, <3>2
    <2> QED
      BY <2>3, <2>4
  <1>6. ASSUME NEW r \in Runs, CompleteSuccess(r) \/ CompleteError(r)
        PROVE  LegalStep(rows[t], rows'[t])
    <2>1. run[r].uid \in Tasks /\ run[r].pc \in {"ok", "err"}
      BY <1>6 DEF CompleteSuccess, CompleteError, TypeInv, RunOK
    <2>2. PICK task, outcome :
            \/ UNCHANGED rows
            \/ /\ Update(run[r].uid, task, outcome)
               /\ \/ /\ task = TransitionTo(run[r].task, "success")
                     /\ CanTransition(run[r].task, "success")
                  \/ /\ task = FailedCopy(run[r].task)
                     /\ CanRetry(run[r].task) \/ CanTransition(run[r].task, "failed")
      BY <1>6 DEF CompleteSuccess, CompleteError, failTask
    <2>3. CASE t # run[r].uid
      BY <1>1, <2>1, <2>2, <2>3, WriteLeaves
    <2>4. CASE t = run[r].uid
      <3>1. run[r].task = rows[t] /\ rows[t] \in TaskRecord /\ rows[t].status = "running"
        BY <1>0, <2>1, <2>4, CopiesAreRows
      <3>2. rows'[t] \in {rows[t], task}
        BY <2>1, <2>2, <2>4, WriteLeaves
      <3>3. CASE UNCHANGED rows
        BY <1>1, <3>3
      <3>4. CASE /\ task = TransitionTo(run[r].task, "success")
                 /\ CanTransition(run[r].task, "success")
        BY <1>1, <3>1, <3>2, <3>4, LegalTransitions DEF Status
      <3>5. CASE task = FailedCopy(run[r].task)
        <4>1. FailedCopy(rows[t]) \in {Retried(rows[t]), TransitionTo(rows[t], "failed")}
          BY DEF FailedCopy
        <4> QED
          BY <1>1, <3>1, <3>2, <3>5, <4>1, LegalTransitions DEF Status
      <3> QED
        BY <2>2, <3>3, <3>4, <3>5
    <2> QED
      BY <2>3, <2>4
  <1>7. CASE UNCHANGED rows
    BY <1>1, <1>7
  <1>8. ASSUME NEW u \in Tasks, CreateTask(u) \/ CancelTask(u) \/ ServiceStep(u)
        PROVE  LegalStep(rows[t], rows'[t])
    BY <1>2, <1>3, <1>7, <1>8 DEF CancelTask, ServiceStep, CreateTaskPush,
       CancelTaskPublish, CancelListener, CancelRun
  <1>9. CASE TickStep
    BY <1>4, <1>5, <1>7, <1>9 DEF TickStep, TickRequeue, TickAllocate, TickPopPriority,
       TickPopPending, TickPushBack, DispatchSpawn
  <1>10. ASSUME NEW r \in Runs, RunStep(r)
         PROVE  LegalStep(rows[t], rows'[t])
    BY <1>6, <1>7, <1>10 DEF RunStep, ExecutorAcquire, ExecutorEnds, RunRequeue,
       RunUnregister, HandleRemoteResult, RemoteUnregister
  <1>11. CASE StartTick \/ AgentStep \/ MoverStart \/ MoverStep \/ DataExpires \/ Crash
              \/ UNCHANGED vars
    BY <1>7, <1>11 DEF StartTick, TickStart, AgentStep, GetNextTaskForNode, AgentExecutes,
       AgentLost, MoverStart, MoverStep, DataExpires, Crash, SchedulerCrash, vars
  <1> QED
    BY <1>8, <1>9, <1>10, <1>11 DEF Next

\* The row of a task that was neither forked nor canceled moves only along
\* validTransitions, or from running to pending with one more retry: although
\* every write overwrites the row with a copy read earlier, the copy is the
\* row whenever it is written.
THEOREM RowsFollowLifecycle == Spec => Lifecycle
  <1>1. PipelineInv /\ [Next]_vars =>
          [\A t \in Tasks : t \notin forked' /\ cancels'[t] = 0
                                => LegalStep(rows[t], rows'[t])]_vars
    BY LifecycleStep
  <1> QED
    BY <1>1, PipelineInvariant, PTL DEF Spec, Lifecycle
-----------------------------------------------------------------------------
(***************************************************************************)
(* No step without a failing call forgets a waiting task.                  *)
(***************************************************************************)

\* A call of a step that uses up no fault succeeded.
LEMMA CallsSucceed ==
    ASSUME FaultsTypeOK, faults' = faults
    PROVE  ~Fault /\ \A outcome : Attempt(outcome) => outcome = "ok"
  BY MaxFaultsAssumption DEF FaultsTypeOK, Fault, Attempt

\* The places that a step leaves to a task.
Stays(t) ==
    /\ t \in creating => t \in creating'
    /\ InList(t) => InList(t)'
    /\ t \in prioritySet => t \in prioritySet'
    /\ Delayed(t) => Delayed(t)'
    /\ cur.uid = t => cur'.uid = t
    /\ Worked(t) => Worked(t)'

\* What KeptAlive asks of a step.
KeepsAlive(t) ==
    rows'[t].status \in {"created", "pending"} /\ (Alive(t) \/ rows'[t] # rows[t])
        => Alive(t)'

\* A task whose row and places stay is kept.
LEMMA StayingIsKept ==
    ASSUME NEW t, Stays(t), rows'[t] = rows[t]
    PROVE  KeepsAlive(t)
  BY DEF Stays, KeepsAlive, Alive

\* A task that is in a place after the step is kept.
LEMMA PlacedIsKept ==
    ASSUME NEW t, \/ t \in creating' \/ InList(t)' \/ t \in prioritySet' \/ Delayed(t)'
                  \/ cur'.uid = t \/ Worked(t)'
    PROVE  KeepsAlive(t)
  BY DEF KeepsAlive, Alive

\* Parts of the state that do not change keep their places.
LEMMA PartsStay ==
    ASSUME NEW t
    PROVE  /\ UNCHANGED <<queueVars, moving>> =>
                /\ InList(t) => InList(t)'
                /\ t \in prioritySet => t \in prioritySet'
                /\ Delayed(t) => Delayed(t)'
           /\ UNCHANGED tickVars => (cur.uid = t => cur'.uid = t)
           /\ UNCHANGED run => (Worked(t) => Worked(t)')
  <1>1. UNCHANGED <<queueVars, moving>> =>
          /\ InList(t) => InList(t)'
          /\ t \in prioritySet => t \in prioritySet'
          /\ Delayed(t) => Delayed(t)'
    BY ListKept DEF queueVars, Delayed
  <1>2. UNCHANGED tickVars => (cur.uid = t => cur'.uid = t)
    BY DEF tickVars
  <1>3. UNCHANGED run => (Worked(t) => Worked(t)')
    BY DEF Worked, Works
  <1> QED
    BY <1>1, <1>2, <1>3

\* A push adds a place and takes none away.
LEMMA PushStays ==
    ASSUME QueueCollectionsOK, NEW u \in Tasks, NEW task, NEW outcome,
           \/ Push(u, task, outcome) \/ PushPriority(u, task, outcome)
           \/ PushDelayed(u, task, outcome),
           UNCHANGED moving, NEW t \in Tasks
    PROVE  /\ InList(t) => InList(t)'
           /\ t \in prioritySet => t \in prioritySet'
           /\ Delayed(t) => Delayed(t)'
  <1>1. InList(t) => InList(t)'
    <2>1. CASE pendingList' = Append(pendingList, u)
      BY <2>1, ListPushed DEF QueueCollectionsOK
    <2>2. CASE UNCHANGED pendingList
      BY <2>2, ListKept
    <2> QED
      BY <2>1, <2>2 DEF Push, PushPriority, PushDelayed
  <1>2. (t \in prioritySet => t \in prioritySet') /\ (Delayed(t) => Delayed(t)')
    BY DEF Push, PushPriority, PushDelayed, Delayed
  <1> QED
    BY <1>1, <1>2

\* The service.
LEMMA ServiceKeeps ==
    ASSUME PipelineInv, faults' = faults, NEW t \in Tasks, NEW u \in Tasks,
           CreateTask(u) \/ CancelTask(u) \/ ServiceStep(u)
    PROVE  KeepsAlive(t)
  <1> TypeInv /\ StoreTypeOK /\ FaultsTypeOK /\ QueueCollectionsOK /\ RunOK
    BY DEF PipelineInv, TypeInv
  <1>1. CASE CreateTask(u)
    <2>1. Create(u, NewTask, "ok") /\ creating' = creating \cup {u}
      BY <1>1, CallsSucceed DEF CreateTask, Create
    <2>2. CASE t = u
      BY <2>1, <2>2, PlacedIsKept
    <2>3. CASE t # u
      <3>1. rows'[t] = rows[t]
        BY <2>1, <2>3, WriteLeaves
      <3>2. Stays(t)
        BY <1>1, <2>1, PartsStay DEF Stays, CreateTask, moverVars, runVars
      <3> QED
        BY <3>1, <3>2, StayingIsKept
    <2> QED
      BY <2>2, <2>3
  <1>2. CASE CreateTaskPush(u)
    <2>1. PushPriority(u, NewTask, "ok") \/ Push(u, NewTask, "ok")
      BY <1>2, CallsSucceed DEF CreateTaskPush, PushPriority, Push, storeTask
    <2>2. creating' = creating \ {u} /\ UNCHANGED <<rows, moving, tickVars, run>>
      BY <1>2 DEF CreateTaskPush, moverVars, runVars
    <2>3. CASE t = u
      <3>1. t \in prioritySet' \/ InList(t)'
        BY <2>1, <2>3, ListPushed DEF PushPriority, Push, QueueCollectionsOK
      <3> QED
        BY <3>1, PlacedIsKept
    <2>4. CASE t # u
      <3>1. Stays(t)
        BY <2>1, <2>2, <2>4, PushStays, PartsStay DEF Stays
      <3> QED
        BY <2>2, <3>1, StayingIsKept
    <2> QED
      BY <2>3, <2>4
  <1>3. CASE CancelTask(u) \/ CancelTaskWrite(u) \/ CancelTaskPublish(u) \/ CancelListener(u)
    <2>1. UNCHANGED <<queueVars, moving, tickVars, creating>>
      BY <1>3 DEF CancelTask, CancelTaskWrite, CancelTaskPublish, CancelListener, CancelRun,
                  moverVars
    <2>2. Worked(t) => Worked(t)'
      <3>1. CASE CancelListener(u)
        <4>1. \A q \in Runs : run'[q].pc = run[q].pc /\ run'[q].uid = run[q].uid
          BY <3>1 DEF CancelListener, CancelRun, RunOK, Run
        <4> QED
          BY <4>1 DEF Worked, Works
      <3>2. CASE UNCHANGED run
        BY <3>2, PartsStay
      <3> QED
        BY <1>3, <3>1, <3>2 DEF CancelTask, CancelTaskWrite, CancelTaskPublish, runVars
    <2>3. Stays(t)
      BY <2>1, <2>2, PartsStay DEF Stays
    <2>4. CASE rows'[t] = rows[t]
      BY <2>3, <2>4, StayingIsKept
    <2>5. CASE CancelTaskWrite(u)
      <3>1. /\ t # u => rows'[t] = rows[t]
            /\ rows'[u] = rows[u] \/ rows'[u] = cancelOp[u].task
        BY <2>5, WriteLeaves DEF CancelTaskWrite
      <3>2. cancelOp[u].task.status = "canceled"
        BY <2>5 DEF CancelTaskWrite, PipelineInv, SlotsInv, CancelsWriteCanceled
      <3> QED
        BY <2>4, <3>1, <3>2 DEF KeepsAlive
    <2> QED
      BY <1>3, <2>4, <2>5 DEF CancelTask, CancelTaskPublish, CancelListener, CancelRun
  <1> QED
    BY <1>1, <1>2, <1>3 DEF ServiceStep

\* The tick, up to the pop.
LEMMA TickDeadlinesKeep ==
    ASSUME PipelineInv, faults' = faults, NEW t \in Tasks, t \notin forked,
           UNCHANGED <<creating, run, moving>>,
           \/ StartTick
           \/ \E e \in expired : TickTimeout(e)
           \/ TickRequeue
           \/ TickAllocate
    PROVE  KeepsAlive(t)
  <1> TypeInv /\ StoreTypeOK /\ QueueCollectionsOK
    BY DEF PipelineInv, TypeInv
  <1>1. cur.uid # t
    <2>1. tickPc # "requeue" /\ tickPc # "alloc" /\ tickPc # "spawn" => cur.uid # t
      BY NoTaskAssumption DEF PipelineInv, LifeInv, TickInv, NoCur
    <2>2. tickPc = "requeue" => cur.uid # t
      BY DEF PipelineInv, LifeInv, TickInv
    <2>3. tickPc # "alloc" /\ tickPc # "spawn"
      BY DEF StartTick, TickStart, TickTimeout, TickRequeue, TickAllocate
    <2> QED
      BY <2>1, <2>2, <2>3
  <1>2. CASE TickRequeue
    <2>1. PICK outcome \in Outcomes : PushDelayed(cur.uid, cur.task, outcome)
      BY <1>2 DEF TickRequeue
    <2>2. cur.uid \in Tasks
      BY <1>2 DEF TickRequeue, TypeInv, TickOK, Cur
    <2>3. Stays(t)
      BY <1>1, <2>1, <2>2, PushStays, PartsStay DEF Stays
    <2> QED
      BY <1>2, <2>3, StayingIsKept DEF TickRequeue
  <1>3. ASSUME UNCHANGED queueVars, rows'[t] = rows[t]
        PROVE  KeepsAlive(t)
    <2>1. Stays(t)
      BY <1>1, <1>3, PartsStay DEF Stays
    <2> QED
      BY <1>3, <2>1, StayingIsKept
  <1>4. CASE StartTick \/ TickAllocate
    BY <1>3, <1>4 DEF StartTick, TickStart, TickAllocate
  <1>5. ASSUME NEW e \in expired, TickTimeout(e)
        PROVE  KeepsAlive(t)
    <2>1. e.uid \in Tasks /\ e.uid # t
      BY DEF PipelineInv, LifeInv, TickInv, TypeInv, TickOK, Expired
    <2>2. PICK outcome \in Outcomes : failTask(e.uid, e.task, outcome)
      BY <1>5 DEF TickTimeout
    <2>3. Update(e.uid, FailedCopy(e.task), outcome) \/ UNCHANGED rows
      BY <2>2 DEF failTask
    <2> QED
      BY <1>3, <1>5, <2>1, <2>3, WriteLeaves DEF TickTimeout
  <1> QED
    BY <1>2, <1>4, <1>5
\* The pop: a task whose document is there goes on to the tick.
LEMMA TickPopKeeps ==
    ASSUME PipelineInv, faults' = faults, NEW t \in Tasks, t \notin forked,
           ~(Queued(t) /\ taskData[t] = Absent),
           TickPopPriority \/ TickPopPending, UNCHANGED creating
    PROVE  KeepsAlive(t)
  <1> TypeInv /\ FaultsTypeOK /\ QueueCollectionsOK
    BY DEF PipelineInv, TypeInv
  <1>1. /\ UNCHANGED <<rows, moving, run>> /\ tickPc \in {"pop", "brpop"}
        /\ cur.uid # t
    BY NoTaskAssumption
    DEF TickPopPriority, TickPopPending, moverVars, runVars, PipelineInv, LifeInv, TickInv,
        NoCur
  <1>2. CASE UNCHANGED queueVars
    <2>1. Stays(t)
      BY <1>1, <1>2, PartsStay DEF Stays
    <2> QED
      BY <1>1, <2>1, StayingIsKept
  <1>3. ASSUME NEW u \in Tasks, PopPriority(u) \/ PopPending(u), Popped(u)
        PROVE  KeepsAlive(t)
    <2>1. CASE t # u
      <3>1. /\ InList(t) => InList(t)'
            /\ t \in prioritySet => t \in prioritySet'
            /\ Delayed(t) => Delayed(t)'
        <4>1. CASE PopPriority(u)
          BY <1>1, <2>1, <4>1, ListKept DEF PopPriority, Delayed
        <4>2. CASE PopPending(u)
          BY <1>1, <2>1, <4>2, ListPopped DEF PopPending, Delayed, QueueCollectionsOK
        <4> QED
          BY <1>3, <4>1, <4>2
      <3>2. Stays(t)
        BY <1>1, <3>1, PartsStay DEF Stays
      <3> QED
        BY <1>1, <3>2, StayingIsKept
    <2>2. CASE t = u
      <3>1. Queued(t)
        <4>1. CASE PopPriority(u)
          BY <2>2, <4>1 DEF PopPriority, Queued
        <4>2. CASE PopPending(u)
          <5>1. InList(t)
            BY <2>2, <4>2, ListPopped DEF PopPending, QueueCollectionsOK
          <5> QED
            BY <5>1 DEF InList, Queued
        <4> QED
          BY <1>3, <4>1, <4>2
      <3>2. taskData[t] # Absent
        BY <3>1
      <3>3. cur'.uid = t
        BY <1>3, <2>2, <3>2, CallsSucceed DEF Popped, getTask
      <3> QED
        BY <3>3, PlacedIsKept
    <2> QED
      BY <2>1, <2>2
  <1> QED
    BY <1>2, <1>3 DEF TickPopPriority, TickPopPending

\* The push-back and the dispatch: a waiting copy is delayed, or becomes a run.
LEMMA DispatchKeeps ==
    ASSUME PipelineInv, faults' = faults, NEW t \in Tasks, t \notin forked, t \notin moving,
           UNCHANGED creating,
           \/ TickPushBack
           \/ DispatchPending
           \/ \E n \in Nodes \cup {NoNode} : DispatchRunning(n)
           \/ DispatchSpawn
    PROVE  KeepsAlive(t)
  <1> TypeInv /\ StoreTypeOK /\ FaultsTypeOK /\ QueueCollectionsOK /\ RunOK
    BY DEF PipelineInv, TypeInv
  <1>1. tickPc \in {"alloc", "spawn"} /\ cur \in Cur /\ cur.uid \in Tasks
        /\ cur.task \in TaskRecord /\ UNCHANGED moving
    BY DEF TickPushBack, DispatchPending, DispatchRunning, DispatchSpawn, TypeInv, TickOK,
           Cur, moverVars
  <1>2. CASE TickPushBack
    <2>1. PushDelayed(cur.uid, cur.task, "ok") /\ UNCHANGED <<rows, run>>
      BY <1>2, CallsSucceed DEF TickPushBack, PushDelayed, storeTask, runVars
    <2>2. CASE t = cur.uid
      <3>1. Delayed(t)'
        BY <1>1, <2>1, <2>2 DEF PushDelayed, Delayed
      <3> QED
        BY <3>1, PlacedIsKept
    <2>3. CASE t # cur.uid
      <3>1. Stays(t)
        BY <1>1, <2>1, <2>3, PushStays, PartsStay DEF Stays
      <3> QED
        BY <2>1, <3>1, StayingIsKept
    <2> QED
      BY <2>2, <2>3
  <1>3. CASE DispatchPending \/ \E n \in Nodes \cup {NoNode} : DispatchRunning(n)
    <2>1. tickPc = "alloc" /\ UNCHANGED <<queueVars, run>>
          /\ cur.task.status \in {"created", "pending"}
      BY <1>3 DEF DispatchPending, DispatchRunning, runVars, PipelineInv, LifeInv, WaitingDocs
    <2>2. cur.task.status # "created" => CanTransition(cur.task, "running")
      BY <2>1 DEF CanTransition, validTransitions, Status
    <2>3. PICK s \in {"pending", "running"} :
            Update(cur.uid, TransitionTo(cur.task, s), "ok") /\ cur'.uid = cur.uid
      <3>1. CASE DispatchPending
        <4>1. /\ Update(cur.uid, TransitionTo(cur.task, "pending"), "ok")
              /\ cur' = [cur EXCEPT !.task = TransitionTo(cur.task, "pending")]
          BY <3>1, CallsSucceed DEF DispatchPending, Update
        <4> QED
          BY <1>1, <4>1 DEF Cur
      <3>2. ASSUME NEW n, DispatchRunning(n)
            PROVE  /\ Update(cur.uid, TransitionTo(cur.task, "running"), "ok")
                   /\ cur'.uid = cur.uid
        <4>1. /\ Update(cur.uid, TransitionTo(cur.task, "running"), "ok")
              /\ cur' = [cur EXCEPT !.task = TransitionTo(cur.task, "running"), !.node = n]
          BY <2>2, <3>2, CallsSucceed DEF DispatchRunning, Update
        <4> QED
          BY <1>1, <4>1 DEF Cur
      <3> QED
        BY <1>3, <3>1, <3>2
    <2>4. CASE t = cur.uid
      BY <2>3, <2>4, PlacedIsKept
    <2>5. CASE t # cur.uid
      <3>1. rows'[t] = rows[t]
        BY <1>1, <2>3, <2>5, WriteLeaves
      <3>2. Stays(t)
        BY <1>1, <2>1, <2>5, PartsStay DEF Stays
      <3> QED
        BY <3>1, <3>2, StayingIsKept
    <2> QED
      BY <2>4, <2>5
  <1>4. CASE DispatchSpawn
    <2>1. PICK r \in Runs, pc \in {"chan", "slot"} :
            run[r].pc = "free" /\ run' = [run EXCEPT ![r] = NewRun(pc)]
      BY <1>4 DEF DispatchSpawn, FreeRuns
    <2> DEFINE new == NewRun(pc)
    <2>2. new.pc = pc /\ new.uid = cur.uid
      BY DEF NewRun
    <2> HIDE DEF new
    <2>3. \A q \in Runs : run'[q] = IF q = r THEN new ELSE run[q]
      BY <2>1, RunWritten DEF new
    <2>4. CASE t = cur.uid
      <3>1. Worked(t)'
        BY <2>2, <2>3, <2>4 DEF Worked, Works
      <3> QED
        BY <3>1, PlacedIsKept
    <2>5. CASE t # cur.uid
      <3>1. run[r].uid # t
        BY <2>1, NoTaskAssumption DEF PipelineInv, LifeInv, FreeIsFree
      <3>2. Worked(t) => Worked(t)'
        BY <2>3, <3>1 DEF Worked, Works
      <3>3. Stays(t) /\ rows'[t] = rows[t]
        BY <1>1, <1>4, <2>5, <3>2, PartsStay DEF Stays, DispatchSpawn
      <3> QED
        BY <3>3, StayingIsKept
    <2> QED
      BY <2>4, <2>5
  <1> QED
    BY <1>2, <1>3, <1>4

\* A run that keeps its task, whatever else it does.
LEMMA RunGoesOn ==
    ASSUME NEW t \in Tasks, UNCHANGED <<rows, queueVars, moving, tickVars, creating>>,
           \A q \in Runs : Works(q, t) => Works(q, t)'
    PROVE  KeepsAlive(t)
  <1>1. Worked(t) => Worked(t)'
    BY DEF Worked
  <1>2. Stays(t)
    BY <1>1, PartsStay DEF Stays
  <1> QED
    BY <1>2, StayingIsKept

\* completeTask and the re-queue: a run ends with a row that does not wait, or
\* with a task that is delayed.
LEMMA RunStepKeeps ==
    ASSUME PipelineInv, faults' = faults, NEW t \in Tasks, t \notin forked, t \notin moving,
           NEW r \in Runs, RunStep(r)
    PROVE  KeepsAlive(t)
  <1> TypeInv /\ StoreTypeOK /\ FaultsTypeOK /\ QueueCollectionsOK /\ RunOK
    BY DEF PipelineInv, TypeInv
  <1>0. /\ UNCHANGED <<creating, moving, tickVars>>
        /\ run[r].pc # "free" => run[r].uid \in Tasks
        /\ run[r] \in Run /\ run[r].task \in TaskRecord \cup {Absent}
    BY DEF RunStep, ExecutorAcquire, ExecutorEnds, CompleteSuccess, CompleteError,
           RunRequeue, RunUnregister, HandleRemoteResult, RemoteUnregister, serviceVars,
           moverVars, RunOK, Run
  <1>1. CASE ExecutorAcquire(r) \/ ExecutorEnds(r) \/ RemoteUnregister(r)
    <2>1. PICK pc \in {"err", "exec", "ok"} : SetPc(r, pc)
      BY <1>1 DEF ExecutorAcquire, ExecutorEnds, RemoteUnregister
    <2>2. \A q \in Runs : Works(q, t) => Works(q, t)'
      BY <2>1, PcWritten DEF Works
    <2> QED
      BY <1>0, <1>1, <2>2, RunGoesOn DEF ExecutorAcquire, ExecutorEnds, RemoteUnregister
  <1>2. CASE RunUnregister(r)
    <2>1. run[r].pc = "unreg" /\ run' = [run EXCEPT ![r] = FreeRun]
      BY <1>2 DEF RunUnregister
    <2>2. \A q \in Runs : Works(q, t) => Works(q, t)'
      BY <2>1, RunWritten DEF Works
    <2> QED
      BY <1>0, <1>2, <2>2, RunGoesOn DEF RunUnregister
  <1>3. CASE HandleRemoteResult(r)
    <2>1. run' = [run EXCEPT ![r].pc = IF @ = "rok" THEN "gok" ELSE "gerr",
                             ![r].task = GetByUID(run[r].uid)]
      BY <1>3, CallsSucceed DEF HandleRemoteResult
    <2>2. \A q \in Runs : run'[q].uid = run[q].uid /\ (run'[q].pc = "unreg" => run[q].pc = "unreg")
      BY <2>1 DEF RunOK, Run
    <2>3. \A q \in Runs : Works(q, t) => Works(q, t)'
      BY <2>2 DEF Works
    <2> QED
      BY <1>0, <1>3, <2>3, RunGoesOn DEF HandleRemoteResult
  <1>4. CASE RunRequeue(r)
    <2>1. /\ PushDelayed(run[r].uid, run[r].task, "ok") /\ UNCHANGED rows
          /\ run[r].pc = "push" /\ run' = [run EXCEPT ![r] = Returned(r)]
          /\ run[r].uid \in Tasks
      BY <1>0, <1>4, CallsSucceed DEF RunRequeue, PushDelayed, storeTask
    <2>2. CASE t = run[r].uid
      <3>1. Delayed(t)'
        BY <1>0, <2>1, <2>2 DEF PushDelayed, Delayed
      <3> QED
        BY <3>1, PlacedIsKept
    <2>3. CASE t # run[r].uid
      <3>1. \A q \in Runs : run'[q] = IF q = r THEN Returned(r) ELSE run[q]
        BY <2>1, RunWritten
      <3>2. Worked(t) => Worked(t)'
        BY <2>3, <3>1 DEF Worked, Works
      <3>3. Stays(t)
        BY <1>0, <2>1, <3>2, PushStays, PartsStay DEF Stays
      <3> QED
        BY <2>1, <3>3, StayingIsKept
    <2> QED
      BY <2>2, <2>3
  <1>5. CASE CompleteSuccess(r) \/ CompleteError(r)
    <2>0. run[r].pc \in {"ok", "err"} /\ run[r].uid \in Tasks /\ UNCHANGED queueVars
      BY <1>0, <1>5 DEF CompleteSuccess, CompleteError
    <2>1. CASE t # run[r].uid
      <3>1. rows'[t] = rows[t]
        <4>1. PICK task, outcome : UNCHANGED rows \/ Update(run[r].uid, task, outcome)
          BY <1>5 DEF CompleteSuccess, CompleteError, failTask
        <4> QED
          BY <2>0, <2>1, <4>1, WriteLeaves
      <3>2. PICK new : run' = [run EXCEPT ![r] = new]
        BY <1>5 DEF CompleteSuccess, CompleteError
      <3>3. \A q \in Runs : run'[q] = IF q = r THEN new ELSE run[q]
        BY <3>2, RunWritten
      <3>4. Worked(t) => Worked(t)'
        BY <2>1, <3>3 DEF Worked, Works
      <3>5. Stays(t)
        BY <1>0, <2>0, <3>4, PartsStay DEF Stays
      <3> QED
        BY <3>1, <3>5, StayingIsKept
    <2>2. CASE t = run[r].uid
      <3>1. rows[t].status \in {"running", "canceled"}
        <4>1. AtWork(t)
          BY <2>0, <2>2 DEF AtWork, Works
        <4> QED
          BY <4>1 DEF PipelineInv, LifeInv, TaskInv, RowFits
      <3>2. CASE UNCHANGED rows
        BY <3>1, <3>2 DEF KeepsAlive
      <3>3. CASE \E task : task.status \in {"success", "failed"} /\ Update(t, task, "ok")
        <4>1. rows'[t].status \in {"success", "failed"}
          BY <3>3, WriteLeaves
        <4> QED
          BY <4>1 DEF KeepsAlive
      <3>4. CASE CompleteSuccess(r)
        <4>1. TransitionTo(run[r].task, "success").status = "success"
          BY <1>0, TaskValues DEF Status
        <4>2. UNCHANGED rows \/ Update(t, TransitionTo(run[r].task, "success"), "ok")
          BY <2>2, <3>4, CallsSucceed DEF CompleteSuccess, Update
        <4> QED
          BY <3>2, <3>3, <4>1, <4>2
      <3>5. CASE CompleteError(r)
        <4>1. /\ failTask(t, run[r].task, "ok")
              /\ run' = [run EXCEPT ![r] =
                           IF WillRequeue(run[r].task, "ok")
                             THEN [run[r] EXCEPT !.pc = "push", !.task = Retried(run[r].task)]
                             ELSE Returned(r)]
          BY <2>2, <3>5, CallsSucceed DEF CompleteError, failTask, Update
        <4>2. CASE CanRetry(run[r].task)
          <5>1. run' = [run EXCEPT ![r] = [run[r] EXCEPT !.pc = "push",
                                                         !.task = Retried(run[r].task)]]
            BY <4>1, <4>2 DEF WillRequeue
          <5>2. run'[r].uid = t /\ run'[r].pc = "push"
            BY <1>0, <2>2, <5>1 DEF RunOK, Run
          <5>3. Worked(t)'
            BY <5>2 DEF Worked, Works
          <5> QED
            BY <5>3, PlacedIsKept
        <4>3. CASE ~CanRetry(run[r].task)
          <5>1. TransitionTo(run[r].task, "failed").status = "failed"
            BY <1>0, TaskValues DEF Status
          <5>2. UNCHANGED rows \/ Update(t, TransitionTo(run[r].task, "failed"), "ok")
            BY <4>1, <4>3 DEF failTask, FailedCopy
          <5> QED
            BY <3>2, <3>3, <5>1, <5>2
        <4> QED
          BY <4>2, <4>3
      <3> QED
        BY <1>5, <3>4, <3>5
    <2> QED
      BY <2>1, <2>2
  <1> QED
    BY <1>1, <1>2, <1>3, <1>4, <1>5 DEF RunStep
\* The agents and the mover lose nothing without a fault.
LEMMA OthersKeep ==
    ASSUME PipelineInv, faults' = faults, NEW t \in Tasks, t \notin moving,
           AgentStep \/ MoverStart \/ MoverStep
    PROVE  KeepsAlive(t)
  <1> TypeInv /\ FaultsTypeOK /\ QueueCollectionsOK /\ RunOK
    BY DEF PipelineInv, TypeInv
  <1>1. UNCHANGED <<rows, tickVars, creating>>
    BY DEF AgentStep, GetNextTaskForNode, AgentExecutes, AgentLost, MoverStart, MoverStep,
           serviceVars
  <1>2. CASE AgentStep
    <2>1. PICK r \in Runs, pc \in {"agent", "rok", "rerr"} : SetPc(r, pc)
      <3>1. ASSUME NEW n \in Nodes, GetNextTaskForNode(n)
            PROVE  Head(nodeTasks[n]) \in Runs /\ SetPc(Head(nodeTasks[n]), "agent")
        BY <3>1, CallsSucceed DEF GetNextTaskForNode, RunOK
      <3> QED
        BY <1>2, <3>1, CallsSucceed DEF AgentStep, AgentExecutes, AgentLost
    <2>2. \A q \in Runs : Works(q, t) => Works(q, t)'
      BY <2>1, PcWritten DEF Works
    <2>3. UNCHANGED <<queueVars, moving>>
      BY <1>2 DEF AgentStep, GetNextTaskForNode, AgentExecutes, AgentLost, moverVars
    <2> QED
      BY <1>1, <2>2, <2>3, RunGoesOn
  <1>3. CASE MoverStart \/ MoverStep
    <2>1. UNCHANGED <<run, prioritySet>>
      BY <1>3 DEF MoverStart, MoverScan, MoverStep, MoverPush, MoverRem, runVars, queueVars
    <2>2. CASE MoverStart
      <3>1. Stays(t)
        BY <1>1, <2>1, <2>2, PartsStay DEF Stays, MoverStart, MoverScan
      <3> QED
        BY <1>1, <3>1, StayingIsKept
    <2>3. ASSUME NEW outcome, MoverRem(outcome)
          PROVE  KeepsAlive(t)
      <3>1. (Delayed(t) => Delayed(t)') /\ (InList(t) => InList(t)')
        BY <2>3, ListKept DEF MoverRem, Delayed
      <3>2. Stays(t)
        BY <1>1, <2>1, <3>1, PartsStay DEF Stays
      <3> QED
        BY <1>1, <3>2, StayingIsKept
    <2>4. ASSUME NEW u \in moverDue, NEW outcome, MoverPush(u, outcome)
          PROVE  KeepsAlive(t)
      <3>1. /\ moving' = {u} /\ pendingList' = Append(pendingList, u) /\ u \in Tasks
            /\ UNCHANGED delayedSet
        BY <2>4, CallsSucceed DEF MoverPush, TypeInv, MoverOK
      <3>2. InList(t)' <=> InList(t) \/ t = u
        BY <3>1, ListPushed DEF QueueCollectionsOK
      <3>3. CASE t = u
        BY <3>2, <3>3, PlacedIsKept
      <3>4. CASE t # u
        <4>1. Stays(t)
          BY <1>1, <2>1, <3>1, <3>2, <3>4, PartsStay DEF Stays, Delayed
        <4> QED
          BY <1>1, <4>1, StayingIsKept
      <3> QED
        BY <3>3, <3>4
    <2> QED
      BY <1>3, <2>2, <2>3, <2>4 DEF MoverStep
  <1> QED
    BY <1>2, <1>3

\* Every step that uses up no fault keeps every waiting task that is neither
\* forked nor being moved and whose document is there.
LEMMA KeptAliveStep ==
    ASSUME PipelineInv, [Next]_vars, NEW t \in Tasks, t \notin moving, t \notin forked,
           faults' = faults, ~(Queued(t) /\ taskData[t] = Absent)
    PROVE  KeepsAlive(t)
  <1> FaultsTypeOK
    BY DEF PipelineInv, TypeInv
  <1>1. ASSUME NEW u \in Tasks, CreateTask(u) \/ CancelTask(u) \/ ServiceStep(u)
        PROVE  KeepsAlive(t)
    BY <1>1, ServiceKeeps
  <1>2. CASE StartTick
    BY <1>2, TickDeadlinesKeep DEF StartTick, TickStart, moverVars, runVars, serviceVars
  <1>3. CASE TickStep
    <2>1. UNCHANGED creating
      BY <1>3 DEF TickStep, serviceVars
    <2>2. CASE (\E e \in expired : TickTimeout(e)) \/ TickRequeue \/ TickAllocate
      <3>1. UNCHANGED <<run, moving>>
        BY <2>2 DEF TickTimeout, TickRequeue, TickAllocate, runVars, moverVars
      <3> QED
        BY <2>1, <2>2, <3>1, TickDeadlinesKeep
    <2> QED
      BY <1>3, <2>1, <2>2, TickPopKeeps, DispatchKeeps DEF TickStep
  <1>4. CASE \E r \in Runs : RunStep(r)
    BY <1>4, RunStepKeeps
  <1>5. CASE AgentStep \/ MoverStart \/ MoverStep
    BY <1>5, OthersKeep
  <1>6. CASE DataExpires \/ Crash
    BY <1>6, CallsSucceed DEF DataExpires, TaskDataExpires, Crash
  <1>7. CASE UNCHANGED vars
    <2>1. Stays(t) /\ rows'[t] = rows[t]
      BY <1>7, PartsStay DEF Stays, vars, moverVars, runVars, serviceVars
    <2> QED
      BY <2>1, StayingIsKept
  <1> QED
    BY <1>1, <1>2, <1>3, <1>4, <1>5, <1>6, <1>7 DEF Next

\* A place after the step is a member of Lives after the step.
LEMMA PlacesAreLivesNext ==
    ASSUME NEW t \in Tasks, Alive(t)'
    PROVE  Lives(t)' # {}
  <1>1. CASE InList(t)'
    <2>1. PICK i \in DOMAIN pendingList' : pendingList'[i] = t
      BY <1>1 DEF InList
    <2>2. <<"list", i>> \in Lives(t)'
      BY <2>1 DEF Lives
    <2> QED
      BY <2>2
  <1>2. CASE Worked(t)'
    <2>1. PICK r \in Runs : run'[r].uid = t /\ run'[r].pc # "unreg"
      BY <1>2 DEF Worked, Works
    <2>2. <<"run", r>> \in Lives(t)'
      BY <2>1 DEF Lives
    <2> QED
      BY <2>2
  <1>3. CASE t \in creating' \/ t \in prioritySet' \/ Delayed(t)' \/ cur'.uid = t
    <2>1. \/ <<"service", t>> \in Lives(t)' \/ <<"priority", t>> \in Lives(t)'
          \/ <<"delayed", t>> \in Lives(t)' \/ <<"tick", t>> \in Lives(t)'
      BY <1>3 DEF Lives, Delayed
    <2> QED
      BY <2>1
  <1> QED
    BY <1>1, <1>2, <1>3 DEF Alive

\* A waiting task that was not forked is forgotten only when a call fails,
\* when its document expired, or when it is queued again while the mover is
\* between its LPUSH and its ZREM.
THEOREM WaitingIsKept == Spec => KeptAlive
  <1>1. ASSUME PipelineInv, [Next]_vars, NEW t \in Tasks \ (moving \cup forked),
               faults' = faults, ~(Queued(t) /\ taskData[t] = Absent),
               rows'[t].status \in {"created", "pending"},
               Lives(t) # {} \/ rows'[t] # rows[t]
        PROVE  Lives(t)' # {}
    <2>1. KeepsAlive(t)
      BY <1>1, KeptAliveStep
    <2>2. Alive(t) \/ rows'[t] # rows[t]
      BY <1>1, LivesArePlaces
    <2>3. Alive(t)'
      BY <1>1, <2>1, <2>2 DEF KeepsAlive
    <2> QED
      BY <2>3, PlacesAreLivesNext
  <1>2. PipelineInv /\ [Next]_vars =>
          [\A t \in Tasks \ (moving \cup forked) :
              /\ faults' = faults
              /\ ~(Queued(t) /\ taskData[t] = Absent)
              /\ rows'[t].status \in {"created", "pending"}
              /\ Lives(t) # {} \/ rows'[t] # rows[t]
              => Lives(t)' # {}]_vars
    BY <1>1
  <1> QED
    BY <1>2, PipelineInvariant, PTL DEF Spec, KeptAlive
=============================================================================
