----------------------------- MODULE InMemQueue -----------------------------
(***************************************************************************)
(* The in-memory task queue of internal/queue/inmem.go, which the server   *)
(* uses when Redis is not there: items and pq under mu, delayed under      *)
(* delayedMu, and drainDelayedLoop, which takes both.                      *)
(*                                                                         *)
(* A method that changes the queue under one lock is one step.  The steps  *)
(* of drainDelayedLoop are interleaved with the others: it holds delayedMu *)
(* for a whole pass and mu for one append at a time, so Pop sees moved     *)
(* tasks before the pass replaces delayed.  Size reads under mu, then      *)
(* under delayedMu.  A delay is abstracted to whether it has passed when a *)
(* pass reads the clock; the clock is read once per pass, so an entry      *)
(* falls due between passes.  container/heap (external) returns an entry   *)
(* that none beats; which one among equals is left open.                   *)
(***************************************************************************)
EXTENDS Naturals, SequencesExt

CONSTANTS
    Tasks, Nil, Priority, Consumers,   \* see TaskQueue
    Readers,                           \* the callers of Size
    MaxEntries                         \* bound: entries waiting at a time

ASSUME NilAssumption == Nil \notin Tasks
ASSUME PriorityAssumption == Priority \in [Tasks -> Nat]
ASSUME MaxEntriesAssumption == MaxEntries \in Nat

VARIABLES
    items, pq, delayed,   \* the fields; pq in the order of its pushes
    drain,                \* the loop: where it is, the pass's range, remaining
    closed,
    popping,              \* per consumer: where its call of Pop is
    held,                 \* per consumer: the task that Pop returned to it
    size                  \* per reader: its call of Size

vars == <<items, pq, delayed, drain, closed, popping, held, size>>

Entry == [task : Tasks, due : BOOLEAN]

IdleDrain == [pc |-> "select", i |-> 1, n |-> 0, remaining |-> <<>>]
NoSize == [pc |-> "idle", total |-> 0, most |-> 0]

\* The entries that wait for their delay.  In a pass: the ones it kept and
\* the ones it has not looked at.
Waiting ==
    IF drain.pc = "pass"
      THEN drain.remaining \o SubSeq(delayed, drain.i, Len(delayed))
      ELSE delayed

Count == Len(items) + Len(pq) + Len(Waiting)

Init ==
    /\ items = <<>> /\ pq = <<>> /\ delayed = <<>>
    /\ drain = IdleDrain
    /\ closed = FALSE
    /\ popping = [c \in Consumers |-> "idle"]
    /\ held = [c \in Consumers |-> Nil]
    /\ size = [r \in Readers |-> NoSize]

(***************************************************************************)
(* The methods.  size[r].most records, for SizeNotInflated, how many       *)
(* entries there were when r read under mu plus the pushes since, up to    *)
(* the largest total that Size can reach.                                  *)
(***************************************************************************)
Pushed ==
    /\ Count < MaxEntries
    /\ size' = [r \in Readers |-> IF size[r].pc = "delayed"
                                    THEN [size[r] EXCEPT !.most = Min({@ + 1, 2 * MaxEntries})]
                                    ELSE size[r]]
    /\ UNCHANGED <<drain, closed, popping, held>>

Push(t) ==
    /\ items' = Append(items, t)
    /\ Pushed
    /\ UNCHANGED <<pq, delayed>>

PushPriority(t) ==
    /\ pq' = Append(pq, t)
    /\ Pushed
    /\ UNCHANGED <<items, delayed>>

\* Mutant: without delayedMu.
PushDelayedUnlocked(t) ==
    /\ delayed' = Append(delayed, [task |-> t, due |-> FALSE])
    /\ Pushed
    /\ UNCHANGED <<items, pq>>

PushDelayed(t) ==
    /\ drain.pc # "pass"
    /\ delayed' = Append(delayed, [task |-> t, due |-> FALSE])
    /\ Pushed
    /\ UNCHANGED <<items, pq>>

\* The clock: the delay of an entry is over.
FallDue(i) ==
    /\ drain.pc # "pass" /\ ~delayed[i].due
    /\ delayed' = [delayed EXCEPT ![i].due = TRUE]
    /\ UNCHANGED <<items, pq, drain, closed, popping, held, size>>

\* The heap's Pop: an index whose task is not Less than another.
Best == {i \in DOMAIN pq : \A j \in DOMAIN pq : ~(Priority[pq[j]] > Priority[pq[i]])}

CallPop(c) ==
    /\ popping[c] = "idle" /\ held[c] = Nil
    /\ popping' = [popping EXCEPT ![c] = "try"]
    /\ UNCHANGED <<items, pq, delayed, drain, closed, held, size>>

\* One turn of Pop's loop under mu.
popInternal(c) ==
    /\ popping[c] = "try"
    /\ \/ /\ pq # <<>>
          /\ \E i \in Best : /\ held' = [held EXCEPT ![c] = pq[i]]
                             /\ pq' = RemoveAt(pq, i)
          /\ popping' = [popping EXCEPT ![c] = "idle"]
          /\ UNCHANGED items
       \/ /\ pq = <<>> /\ items # <<>>
          /\ held' = [held EXCEPT ![c] = Head(items)]
          /\ items' = Tail(items)
          /\ popping' = [popping EXCEPT ![c] = "idle"]
          /\ UNCHANGED pq
       \/ /\ pq = <<>> /\ items = <<>>
          /\ popping' = [popping EXCEPT ![c] = "empty"]
          /\ UNCHANGED <<items, pq, held>>
    /\ UNCHANGED <<delayed, drain, closed, size>>

\* After an empty turn: past the deadline Pop returns nil, before it tries again.
PopSleep(c) ==
    /\ popping[c] = "empty"
    /\ \E next \in {"idle", "try"} : popping' = [popping EXCEPT ![c] = next]
    /\ UNCHANGED <<items, pq, delayed, drain, closed, held, size>>

Finish(c) ==
    /\ held[c] # Nil
    /\ held' = [held EXCEPT ![c] = Nil]
    /\ UNCHANGED <<items, pq, delayed, drain, closed, popping, size>>

SizeItems(r) ==
    /\ size[r].pc = "idle"
    /\ size' = [size EXCEPT ![r] = [pc |-> "delayed", total |-> Len(items) + Len(pq),
                                    most |-> Count]]
    /\ UNCHANGED <<items, pq, delayed, drain, closed, popping, held>>

\* Mutant: without delayedMu.
SizeDelayedUnlocked(r) ==
    /\ size[r].pc = "delayed"
    /\ size' = [size EXCEPT ![r].pc = "done", ![r].total = @ + Len(delayed)]
    /\ UNCHANGED <<items, pq, delayed, drain, closed, popping, held>>

SizeDelayed(r) ==
    /\ size[r].pc = "delayed" /\ drain.pc # "pass"
    /\ size' = [size EXCEPT ![r].pc = "done", ![r].total = @ + Len(delayed)]
    /\ UNCHANGED <<items, pq, delayed, drain, closed, popping, held>>

SizeReturn(r) ==
    /\ size[r].pc = "done"
    /\ size' = [size EXCEPT ![r] = NoSize]
    /\ UNCHANGED <<items, pq, delayed, drain, closed, popping, held>>

\* Close waits for the loop to end (DrainStop); a second Close returns at once.
Close ==
    /\ ~closed
    /\ closed' = TRUE
    /\ UNCHANGED <<items, pq, delayed, drain, popping, held, size>>

(***************************************************************************)
(* drainDelayedLoop.  When a tick and stopCh are both ready, select takes  *)
(* either.                                                                 *)
(***************************************************************************)
\* Mutant: the pass starts one too low.
DrainTickLow ==
    /\ drain.pc = "select"
    /\ drain' = [pc |-> "pass", i |-> 0, n |-> Len(delayed), remaining |-> <<>>]
    /\ UNCHANGED <<items, pq, delayed, closed, popping, held, size>>

DrainTick ==
    /\ drain.pc = "select"
    /\ drain' = [pc |-> "pass", i |-> 1, n |-> Len(delayed), remaining |-> <<>>]
    /\ UNCHANGED <<items, pq, delayed, closed, popping, held, size>>

DrainEntry ==
    /\ drain.pc = "pass" /\ drain.i <= drain.n
    /\ \/ /\ delayed[drain.i].due
          /\ items' = Append(items, delayed[drain.i].task)
          /\ drain' = [drain EXCEPT !.i = @ + 1]
       \/ /\ ~delayed[drain.i].due
          /\ drain' = [drain EXCEPT !.i = @ + 1,
                                    !.remaining = Append(@, delayed[drain.i])]
          /\ UNCHANGED items
    /\ UNCHANGED <<pq, delayed, closed, popping, held, size>>

\* Mutant: delayed is not replaced.
DrainUnlockKeeps ==
    /\ drain.pc = "pass" /\ drain.i > drain.n
    /\ drain' = IdleDrain
    /\ UNCHANGED <<items, pq, delayed, closed, popping, held, size>>

DrainUnlock ==
    /\ drain.pc = "pass" /\ drain.i > drain.n
    /\ delayed' = drain.remaining
    /\ drain' = IdleDrain
    /\ UNCHANGED <<items, pq, closed, popping, held, size>>

\* Mutant: the loop ends by itself.
DrainStopEarly ==
    /\ drain.pc = "select"
    /\ drain' = [drain EXCEPT !.pc = "stopped"]
    /\ UNCHANGED <<items, pq, delayed, closed, popping, held, size>>

DrainStop ==
    /\ drain.pc = "select" /\ closed
    /\ drain' = [drain EXCEPT !.pc = "stopped"]
    /\ UNCHANGED <<items, pq, delayed, closed, popping, held, size>>

drainDelayedLoop == DrainTick \/ DrainEntry \/ DrainUnlock \/ DrainStop

Next ==
    \/ \E t \in Tasks : Push(t) \/ PushPriority(t) \/ PushDelayed(t)
    \/ \E i \in DOMAIN delayed : FallDue(i)
    \/ \E c \in Consumers : CallPop(c) \/ popInternal(c) \/ PopSleep(c) \/ Finish(c)
    \/ \E r \in Readers : SizeItems(r) \/ SizeDelayed(r) \/ SizeReturn(r)
    \/ Close
    \/ drainDelayedLoop

Spec == Init /\ [][Next]_vars

\* The ticker goes on until Close.  Callers owe nothing.
FairSpec == Spec /\ WF_vars(drainDelayedLoop)

-----------------------------------------------------------------------------
TypeOK ==
    /\ items \in Seq(Tasks) /\ pq \in Seq(Tasks) /\ delayed \in Seq(Entry)
    /\ drain \in [pc : {"select", "pass", "stopped"}, i : Nat \ {0}, n : Nat,
                  remaining : Seq(Entry)]
    /\ closed \in BOOLEAN
    /\ popping \in [Consumers -> {"idle", "try", "empty"}]
    /\ held \in [Consumers -> Tasks \cup {Nil}]
    /\ size \in [Readers -> [pc : {"idle", "delayed", "done"}, total : Nat, most : Nat]]

\* During a pass the slice it ranges over is the field: an entry that was
\* appended meanwhile would be overwritten by remaining.
PassOwnsDelayed ==
    drain.pc = "pass" => drain.n = Len(delayed) /\ drain.i <= drain.n + 1

\* Size may miss a task that moves from delayed to items between its two
\* locks, but it never counts one twice: delayedMu is held until the moved
\* entries are out of delayed.
SizeNotInflated == \A r \in Readers : size[r].pc = "done" => size[r].total <= size[r].most

\* The queue keeps the promises of the interface, whatever the loop and the
\* callers interleave: every step is a step of TaskQueue or changes nothing
\* that its users see.
Abstract == INSTANCE TaskQueue WITH ready <- items, urgent <- pq, delayed <- Waiting

Implements == Abstract!QueueSpec

\* A due entry does not stay behind: the loop moves it, unless the queue is
\* closed, which strands it.
DueIsMoved ==
    \A t \in Tasks :
        (\E i \in DOMAIN delayed : delayed[i] = [task |-> t, due |-> TRUE])
            ~> closed \/ ~(\E i \in DOMAIN Waiting : Waiting[i] = [task |-> t, due |-> TRUE])
=============================================================================
