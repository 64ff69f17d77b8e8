----------------------------- MODULE RedisQueue -----------------------------
(***************************************************************************)
(* The task queue of internal/queue/redis.go: a document per task          *)
(* (tasks:<uid>, overwritten by every push), a list of UIDs that are       *)
(* ready, a sorted set of UIDs by priority, a sorted set of UIDs that wait *)
(* for a delay, and the goroutine that moves the due ones to the list.     *)
(*                                                                         *)
(* LPUSH and BRPOP work at opposite ends, so the list is first in, first   *)
(* out.  Scores of the delayed set are abstracted: which of its members    *)
(* are due is a choice made when the mover asks.  A push is two commands,  *)
(* SETEX then LPUSH or ZADD, and is one step here: between them the UID is *)
(* in no collection that it was not in before, and its document is read    *)
(* only by a Pop of that UID.  A push whose outcome is "error" changed     *)
(* nothing; one that is "lost" wrote the document and queued nothing.      *)
(***************************************************************************)
EXTENDS Task, Faults, Sequences

VARIABLES
    taskData,      \* the documents
    pendingList,   \* the ready list; its head is the next to be popped
    prioritySet,   \* members of the priority sorted set
    delayedSet,    \* members of the delayed sorted set
    moverDue,      \* UIDs returned to the mover and not yet handled
    moving         \* UID pushed by the mover and not yet removed

queueVars == <<taskData, pendingList, prioritySet, delayedSet>>
moverVars == <<moverDue, moving>>

QueueTypeOK ==
    /\ taskData \in [Tasks -> TaskRecord \cup {Absent}]
    /\ pendingList \in Seq(Tasks)
    /\ prioritySet \subseteq Tasks
    /\ delayedSet \subseteq Tasks
    /\ moverDue \subseteq Tasks
    /\ moving \subseteq Tasks

QueueInit ==
    /\ taskData = [t \in Tasks |-> Absent]
    /\ pendingList = <<>>
    /\ prioritySet = {}
    /\ delayedSet = {}
    /\ moverDue = {}
    /\ moving = {}

\* Mutant: an existing document is kept.
storeTaskOnce(t, task, outcome) ==
    /\ Attempt(outcome)
    /\ taskData' = IF outcome = "error" \/ taskData[t] # Absent
                     THEN taskData
                     ELSE [taskData EXCEPT ![t] = task]

storeTask(t, task, outcome) ==
    /\ Attempt(outcome)
    /\ taskData' = IF outcome = "error"
                     THEN taskData
                     ELSE [taskData EXCEPT ![t] = task]

Push(t, task, outcome) ==
    /\ storeTask(t, task, outcome)
    /\ pendingList' = IF outcome = "ok" THEN Append(pendingList, t)
                                        ELSE pendingList
    /\ UNCHANGED <<prioritySet, delayedSet>>

PushPriority(t, task, outcome) ==
    /\ storeTask(t, task, outcome)
    /\ prioritySet' = IF outcome = "ok" THEN prioritySet \cup {t}
                                        ELSE prioritySet
    /\ UNCHANGED <<pendingList, delayedSet>>

PushDelayed(t, task, outcome) ==
    /\ storeTask(t, task, outcome)
    /\ delayedSet' = IF outcome = "ok" THEN delayedSet \cup {t}
                                       ELSE delayedSet
    /\ UNCHANGED <<pendingList, prioritySet>>

(***************************************************************************)
(* Pop asks the priority set first and the list only if that was empty:    *)
(* two commands, with room for a push between them.  The UID has left its  *)
(* collection before its document is read.                                 *)
(***************************************************************************)
PopPriority(t) ==
    /\ t \in prioritySet
    /\ \A u \in prioritySet : Priority[u] <= Priority[t]
    /\ prioritySet' = prioritySet \ {t}
    /\ UNCHANGED <<taskData, pendingList, delayedSet>>

\* Mutant: the UID is read and stays in the list.
PopPendingPeek(t) ==
    /\ pendingList # <<>>
    /\ t = Head(pendingList)
    /\ UNCHANGED queueVars

PopPending(t) ==
    /\ pendingList # <<>>
    /\ t = Head(pendingList)
    /\ pendingList' = Tail(pendingList)
    /\ UNCHANGED <<taskData, prioritySet, delayedSet>>

getTask(t) == taskData[t]

\* The document of a UID outlives no more than taskTTL (24 h) in the queue.
TaskDataExpires(t) ==
    /\ taskData[t] # Absent
    /\ Fault
    /\ taskData' = [taskData EXCEPT ![t] = Absent]
    /\ UNCHANGED <<pendingList, prioritySet, delayedSet, moverVars>>

(***************************************************************************)
(* moveDueDelayed: ZRANGEBYSCORE, then for each UID LPUSH followed by ZREM.*)
(* An LPUSH that failed skips its UID; a ZREM that failed leaves the UID   *)
(* in both collections.                                                    *)
(***************************************************************************)
MoverScan(due) ==
    /\ moverDue = {} /\ moving = {}
    /\ due # {} /\ due \subseteq delayedSet
    /\ moverDue' = due
    /\ UNCHANGED <<queueVars, moving, faults>>

MoverPush(t, outcome) ==
    /\ moving = {}
    /\ t \in moverDue
    /\ Attempt(outcome)
    /\ moverDue' = moverDue \ {t}
    /\ moving' = IF outcome = "ok" THEN {t} ELSE {}
    /\ pendingList' = IF outcome = "error" THEN pendingList
                                           ELSE Append(pendingList, t)
    /\ UNCHANGED <<taskData, prioritySet, delayedSet>>

\* Mutant: the moved UID stays in the delayed set.
MoverRemForgotten(outcome) ==
    /\ moving # {}
    /\ Attempt(outcome)
    /\ moving' = {}
    /\ UNCHANGED <<queueVars, moverDue>>

MoverRem(outcome) ==
    /\ moving # {}
    /\ Attempt(outcome)
    /\ moving' = {}
    /\ delayedSet' = IF outcome = "error" THEN delayedSet
                                          ELSE delayedSet \ moving
    /\ UNCHANGED <<taskData, pendingList, prioritySet, moverDue>>

\* What is left of the queue when the server dies: Redis keeps its
\* collections, the mover forgets what it was doing.
MoverCrash ==
    /\ moverDue' = {}
    /\ moving' = {}
    /\ UNCHANGED queueVars
=============================================================================
