------------------------------- MODULE Gateway ------------------------------
(***************************************************************************)
(* The HTTP side of the server: a request passes the limiter and then its  *)
(* handler creates a task, reruns one or streams a log as server-sent      *)
(* events.  Requests run concurrently; each command to Redis or PostgreSQL *)
(* is a step.  All requests come from one address and submit the same      *)
(* command, so that they share the counter and the idempotency key; the    *)
(* UID of a task is the request that made it.                              *)
(***************************************************************************)
EXTENDS RateLimit, LogStream, FiniteSetsExt

CONSTANT None

ASSUME GatewayAssumption == Requests = Uids /\ None \notin Requests /\ IsFiniteSet(Requests)

VARIABLES
    pc,        \* where each request is
    count,     \* the answer of its INCR
    answer,    \* how it ended
    dedup,     \* tasks:dedup:<key>: the UID it holds
    target,    \* stream: the task whose log is sent
    sent,      \* stream: lines sent
    lastID,    \* stream: ID of the last one
    empty,     \* stream: the last Read returned nothing
    settled,   \* history: the run was over when Read was called
    gone       \* clients that closed their connection

requestVars == <<pc, count, answer>>
streamVars == <<target, sent, lastID, empty, settled>>
vars == <<requestVars, dedup, streamVars, gone, limitVars, logVars, faults>>

Init ==
    /\ LimitInit /\ LogInit /\ FaultsInit
    /\ pc = [r \in Requests |-> "new"]
    /\ count = [r \in Requests |-> 0]
    /\ answer = [r \in Requests |-> "none"]
    /\ dedup = None
    /\ target = [r \in Requests |-> None]
    /\ sent = [r \in Requests |-> {}]
    /\ lastID = [r \in Requests |-> 0]
    /\ empty = {}
    /\ settled = {}
    /\ gone = {}

Goto(r, from, to) == pc[r] = from /\ pc' = [pc EXCEPT ![r] = to]

Answer(r, from, a) ==
    /\ Goto(r, from, "end")
    /\ answer' = [answer EXCEPT ![r] = a]

(***************************************************************************)
(* RateLimit.  A request that Redis does not answer passes.                *)
(***************************************************************************)
LimitIncr(r, outcome) ==
    /\ Incr(r, outcome)
    /\ \/ outcome # "ok" /\ Goto(r, "new", "open") /\ UNCHANGED count
       \/ /\ outcome = "ok"
          /\ Goto(r, "new", IF Opens(counter') THEN "expire" ELSE "check")
          /\ count' = [count EXCEPT ![r] = counter']
    /\ UNCHANGED <<answer, dedup, streamVars, gone, logVars>>

LimitExpire(r, outcome) ==
    /\ Goto(r, "expire", "check")
    /\ Expire(outcome)
    /\ UNCHANGED <<count, answer, dedup, streamVars, gone, logVars>>

LimitCheck(r) ==
    /\ \/ Allows(count[r]) /\ Goto(r, "check", "open") /\ UNCHANGED answer
       \/ ~Allows(count[r]) /\ Answer(r, "check", "limited")
    /\ count' = [count EXCEPT ![r] = 0]
    /\ UNCHANGED <<dedup, streamVars, gone, limitVars, logVars, faults>>

MinuteEnds ==
    /\ WindowEnds
    /\ UNCHANGED <<requestVars, dedup, streamVars, gone, logVars, faults>>

(***************************************************************************)
(* createTask and rerunTask: TaskService.CreateTask.                       *)
(***************************************************************************)
CreateRequest(r) ==
    /\ Goto(r, "open", "setnx")
    /\ UNCHANGED <<count, answer, dedup, streamVars, gone, limitVars, logVars, faults>>

\* RerunTask reads the row and submits its command again.
RerunRequest(r, u, outcome) ==
    /\ Attempt(outcome)
    /\ \/ outcome = "ok" /\ row[u] # "absent" /\ Goto(r, "open", "setnx") /\ UNCHANGED answer
       \/ (outcome # "ok" \/ row[u] = "absent") /\ Answer(r, "open", "error")
    /\ UNCHANGED <<count, dedup, streamVars, gone, limitVars, logVars>>

\* Mutant: the answer of SETNX is read the wrong way round.
IsDuplicateInverted == dedup = None

IsDuplicate == dedup # None

\* An error of SETNX lets the task pass, whether the key was set or not.
SetNX(r, outcome) ==
    /\ Goto(r, "setnx", IF outcome = "ok" /\ IsDuplicate THEN "dup" ELSE "create")
    /\ Attempt(outcome)
    /\ dedup' = IF outcome = "error" \/ dedup # None THEN dedup ELSE r
    /\ UNCHANGED <<count, answer, streamVars, gone, limitVars, logVars>>

\* The GET whose answer the error names.
Duplicate(r) ==
    /\ Answer(r, "dup", "duplicate")
    /\ UNCHANGED <<count, dedup, streamVars, gone, limitVars, logVars, faults>>

\* The key stays when the row could not be written.
StoreCreate(r, outcome) ==
    /\ Attempt(outcome)
    /\ row' = [row EXCEPT ![r] = IF outcome = "error" THEN @ ELSE "open"]
    /\ \/ outcome = "ok" /\ Goto(r, "create", "push") /\ UNCHANGED answer
       \/ outcome # "ok" /\ Answer(r, "create", "error")
    /\ UNCHANGED <<count, dedup, streamVars, gone, limitVars, work, lines>>

\* A failed push is logged and the client is told that the task was created.
QueuePush(r, outcome) ==
    /\ Answer(r, "push", "created")
    /\ Attempt(outcome)
    /\ work' = [work EXCEPT ![r] = IF outcome = "error" THEN @ ELSE "queued"]
    /\ UNCHANGED <<count, dedup, streamVars, gone, limitVars, row, lines>>

\* Five minutes after SETNX.
DedupExpires ==
    /\ dedup # None
    /\ dedup' = None
    /\ UNCHANGED <<requestVars, streamVars, gone, limitVars, logVars, faults>>

(***************************************************************************)
(* streamTaskLog.                                                          *)
(***************************************************************************)
StreamTaskLog(r, u, outcome) ==
    /\ Attempt(outcome)
    /\ \/ /\ outcome = "ok" /\ row[u] # "absent"
          /\ Goto(r, "open", "select")
          /\ target' = [target EXCEPT ![r] = u]
          /\ UNCHANGED answer
       \/ /\ outcome # "ok" \/ row[u] = "absent"
          /\ Answer(r, "open", "error")
          /\ UNCHANGED target
    /\ UNCHANGED <<count, dedup, sent, lastID, empty, settled, gone, limitVars, logVars>>

\* Nothing will write the row or the log any more.
RunOver(u) == IsTerminal(u) /\ work[u] = "none" /\ pc[u] = "end"

\* A tick of 200 ms.  When the client has gone and a tick is ready as well,
\* select takes either.
StreamTick(r) ==
    /\ Goto(r, "select", "read")
    /\ settled' = IF RunOver(target[r]) THEN settled \cup {r} ELSE settled
    /\ UNCHANGED <<count, answer, dedup, target, sent, lastID, empty, gone, limitVars, logVars,
                   faults>>

\* Read and the sending of what it returned.  The first one, from ID 0, waits
\* without limit for an entry; later ones return nothing after a second.
StreamRead(r) ==
    LET new == Entries(target[r], lastID[r])
    IN  /\ Goto(r, "read", "status")
        /\ new # {} \/ lastID[r] > 0
        /\ empty' = IF new = {} THEN empty \cup {r} ELSE empty \ {r}
        /\ sent' = [sent EXCEPT ![r] = @ \cup new]
        /\ lastID' = [lastID EXCEPT ![r] = IF new = {} THEN @ ELSE Max(new)]
        /\ UNCHANGED <<count, answer, dedup, target, settled, gone, limitVars, logVars, faults>>

\* A call fails, also when the client has gone and cancelled its context.
CallFails(r) == Fault \/ (r \in gone /\ UNCHANGED faults)

\* The handler goes on with the next tick.
StreamCallFails(r) ==
    /\ CallFails(r)
    /\ Goto(r, "read", "select") \/ Goto(r, "status", "select")
    /\ UNCHANGED <<count, answer, dedup, streamVars, gone, limitVars, logVars>>

\* Mutant: it does not matter whether the last Read returned lines.
EndsOnTerminal(r) == IsTerminal(target[r])

\* Mutant: the status is compared with one that the row never has.
EndsNever(r) == FALSE

EndOfStream(r) == IsTerminal(target[r]) /\ r \in empty

\* The row is read; done is sent when it is terminal and nothing was new.
StreamStatus(r) ==
    /\ pc[r] = "status"
    /\ \/ EndOfStream(r) /\ Answer(r, "status", "done")
       \/ ~EndOfStream(r) /\ Goto(r, "status", "select") /\ UNCHANGED answer
    /\ UNCHANGED <<count, dedup, streamVars, gone, limitVars, logVars, faults>>

Disconnect(r) ==
    /\ pc[r] \in {"select", "read", "status"} /\ r \notin gone
    /\ gone' = gone \cup {r}
    /\ UNCHANGED <<requestVars, dedup, streamVars, limitVars, logVars, faults>>

StreamLeft(r) ==
    /\ r \in gone
    /\ Answer(r, "select", "left")
    /\ UNCHANGED <<count, dedup, streamVars, gone, limitVars, logVars, faults>>

\* The server dies with the requests that it was handling.
Crash ==
    /\ Fault
    /\ pc' = [r \in Requests |-> IF pc[r] = "new" THEN "new" ELSE "end"]
    /\ answer' = [r \in Requests |-> IF pc[r] \in {"new", "end"} THEN answer[r] ELSE "cut"]
    /\ UNCHANGED <<count, dedup, streamVars, gone, limitVars, logVars>>

LimitStep(r) ==
    (\E outcome \in Outcomes : LimitIncr(r, outcome) \/ LimitExpire(r, outcome)) \/ LimitCheck(r)

CreateStep(r) ==
    \/ \E outcome \in Outcomes : SetNX(r, outcome) \/ StoreCreate(r, outcome) \/ QueuePush(r, outcome)
    \/ Duplicate(r)

StreamStep(r) == StreamTick(r) \/ StreamRead(r) \/ StreamStatus(r)

Dispatch(r) ==
    \/ CreateRequest(r)
    \/ \E u \in Uids, outcome \in Outcomes : StreamTaskLog(r, u, outcome) \/ RerunRequest(r, u, outcome)

RunStep(u) ==
    /\ \/ StartRun(u) \/ EndRun(u) \/ CancelTask(u)
       \/ \E outcome \in Outcomes : AppendLine(u, outcome)
    /\ UNCHANGED <<requestVars, dedup, streamVars, gone, limitVars>>

Next ==
    \/ \E r \in Requests : \/ LimitStep(r) \/ Dispatch(r) \/ CreateStep(r) \/ StreamStep(r)
                           \/ StreamCallFails(r) \/ Disconnect(r) \/ StreamLeft(r)
    \/ \E u \in Uids : RunStep(u)
    \/ MinuteEnds \/ DedupExpires \/ Crash

Spec == Init /\ [][Next]_vars

(***************************************************************************)
(* A request that was begun goes on and the clock of Redis runs.  A select *)
(* that finds its client gone again and again takes that branch in the end *)
(* (Go picks at random).                                                   *)
(***************************************************************************)
FairSpec ==
    /\ Spec
    /\ WF_vars(MinuteEnds)
    /\ \A r \in Requests : /\ WF_vars(pc[r] # "new" /\ LimitStep(r))
                           /\ WF_vars(CreateStep(r))
                           /\ WF_vars(StreamStep(r))
                           /\ SF_vars(StreamLeft(r))

-----------------------------------------------------------------------------
TypeOK ==
    /\ counter \in 0 .. Cardinality(Requests) /\ ttl \in BOOLEAN /\ counted \subseteq Requests
    /\ row \in [Uids -> {"absent", "open", "terminal"}]
    /\ work \in [Uids -> {"none", "queued", "running"}]
    /\ lines \in [Uids -> 0 .. MaxLines]
    /\ pc \in [Requests -> {"new", "expire", "check", "open", "setnx", "dup", "create", "push",
                            "select", "read", "status", "end"}]
    /\ count \in [Requests -> 0 .. Cardinality(Requests)]
    /\ answer \in [Requests -> {"none", "limited", "created", "duplicate", "error", "done", "left",
                                "cut"}]
    /\ dedup \in Requests \cup {None}
    /\ target \in [Requests -> Uids \cup {None}]
    /\ sent \in [Requests -> SUBSET (1 .. MaxLines)]
    /\ lastID \in [Requests -> 0 .. MaxLines]
    /\ empty \subseteq Requests /\ settled \subseteq Requests /\ gone \subseteq Requests

\* A request that got past the limiter.
Passed(r) == pc[r] \notin {"new", "expire", "check"} /\ answer[r] \notin {"limited", "cut"}

\* Of the requests that one life of the counter has counted, no more than
\* Limit get past the limiter, however they interleave; each call to Redis
\* that is not answered lets one more through.
WithinLimit == Cardinality({r \in counted : Passed(r)}) <= Limit + faults

\* A client that used up its minute is let in again: the counter goes away,
\* unless a call failed or the server died between INCR and EXPIRE.
LimitLifted == counter > Limit ~> counter = 0 \/ faults > 0

\* Whoever is turned away as a duplicate is turned away for a task that
\* exists or comes to exist, unless a call failed or the server died after
\* the key was set.
DuplicateOfTask ==
    \A r \in Requests :
        answer[r] = "duplicate" ~> (\E u \in Uids \ {r} : row[u] # "absent") \/ faults > 0

\* A stream that says done after the run was over has sent every line of the
\* log that had not been trimmed, whatever was canceled, retried or failed
\* on the way.
StreamComplete ==
    \A r \in settled :
        answer[r] = "done" => 1 .. lines[target[r]] \subseteq sent[r] \cup Trimmed(target[r])

\* A stream of a log with a line in it ends when the run is over or its
\* client has gone.  (Without a line the first Read waits for ever.)
StreamEnds ==
    \A r \in Requests :
        /\ pc[r] \in {"select", "read", "status"}
        /\ lines[target[r]] > 0
        /\ RunOver(target[r]) \/ r \in gone
        ~> pc[r] = "end"
=============================================================================
