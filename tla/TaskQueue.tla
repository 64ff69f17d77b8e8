------------------------------ MODULE TaskQueue -----------------------------
(***************************************************************************)
(* What the interface of internal/queue/queue.go promises, free of locks   *)
(* and goroutines: a ready queue, first in, first out; a priority queue    *)
(* that is served before it, highest priority first; and delayed entries,  *)
(* each of which joins the tail of the ready queue once, after its delay.  *)
(* Nothing that was pushed is lost, duplicated or invented.                *)
(***************************************************************************)
EXTENDS Naturals, SequencesExt

CONSTANTS
    Tasks,       \* the *model.Task values that are queued
    Nil,         \* no task
    Priority,    \* their Priority field
    Consumers    \* the callers of Pop

VARIABLES
    ready,       \* the ordinary tasks, head first
    urgent,      \* the tasks with a priority, in the order of their pushes
    delayed,     \* entries that wait for their delay
    held         \* what each consumer popped and has not finished with

queueVars == <<ready, urgent, delayed, held>>

Entry == [task : Tasks, due : BOOLEAN]

\* Positions of q whose task no other one of q beats.
Highest(q) == {i \in DOMAIN q : \A j \in DOMAIN q : Priority[q[j]] <= Priority[q[i]]}

QueueInit ==
    /\ ready = <<>>
    /\ urgent = <<>>
    /\ delayed = <<>>
    /\ held = [c \in Consumers |-> Nil]

Push(t) ==
    /\ ready' = Append(ready, t)
    /\ UNCHANGED <<urgent, delayed, held>>

PushPriority(t) ==
    /\ urgent' = Append(urgent, t)
    /\ UNCHANGED <<ready, delayed, held>>

PushDelayed(t) ==
    /\ delayed' = Append(delayed, [task |-> t, due |-> FALSE])
    /\ UNCHANGED <<ready, urgent, held>>

Due(i) ==
    /\ delayed' = [delayed EXCEPT ![i].due = TRUE]
    /\ UNCHANGED <<ready, urgent, held>>

\* A due entry becomes an ordinary task.
Release(i) ==
    /\ delayed[i].due
    /\ delayed' = RemoveAt(delayed, i)
    /\ ready' = Append(ready, delayed[i].task)
    /\ UNCHANGED <<urgent, held>>

Pop(c) ==
    /\ held[c] = Nil
    /\ \/ \E i \in Highest(urgent) :
            /\ urgent' = RemoveAt(urgent, i)
            /\ held' = [held EXCEPT ![c] = urgent[i]]
            /\ UNCHANGED ready
       \/ /\ urgent = <<>> /\ ready # <<>>
          /\ ready' = Tail(ready)
          /\ held' = [held EXCEPT ![c] = Head(ready)]
          /\ UNCHANGED urgent
    /\ UNCHANGED delayed

\* The consumer is done with its task.
Finish(c) ==
    /\ held' = [held EXCEPT ![c] = Nil]
    /\ UNCHANGED <<ready, urgent, delayed>>

QueueNext ==
    \/ \E t \in Tasks : Push(t) \/ PushPriority(t) \/ PushDelayed(t)
    \/ \E i \in DOMAIN delayed : Due(i) \/ Release(i)
    \/ \E c \in Consumers : Pop(c) \/ Finish(c)

QueueSpec == QueueInit /\ [][QueueNext]_queueVars
=============================================================================
