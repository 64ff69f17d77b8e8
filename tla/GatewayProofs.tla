--------------------------- MODULE GatewayProofs ---------------------------
(***************************************************************************)
(* Proofs about Gateway for any finite number of requests of one client,   *)
(* any limit, any length of the logs, of what Redis keeps of them and of   *)
(* what a Read returns, and any number of faults.                          *)
(***************************************************************************)
EXTENDS Gateway, FiniteSetTheorems, WellFoundedInduction, TLAPS

(***************************************************************************)
(* The inductive invariant.                                                *)
(***************************************************************************)

\* Only a request that has ended has an answer.
AnswerInv == \A r \in Requests : answer[r] # "none" => pc[r] = "end"

\* The counter counts each request once.
CounterInv ==
    /\ counter = Cardinality(counted)
    /\ \A r \in counted : pc[r] # "new"

\* The requests of this life of the counter that got past the limiter or that
\* will, unless the server dies.
Admitted ==
    {r \in counted : /\ pc[r] # "new" /\ answer[r] \notin {"limited", "cut"}
                     /\ pc[r] \in {"expire", "check"} => Allows(count[r])}

\* The counter lets in as many as it has counted, up to the limit, and each
\* lost answer one more.
LimitInv ==
    /\ Cardinality(Admitted) <= Limit + faults
    /\ Cardinality(Admitted) <= counter + faults

\* Every line of the log was sent or is trimmed.
AllSent(r) == 1 .. lines[target[r]] \subseteq sent[r] \cup Trimmed(target[r])

\* A request that is not yet handled has sent nothing.  A stream has skipped
\* no line up to the last one sent, except trimmed ones; once its run was
\* over when Read was called the run stays over; and nothing to read then
\* means that everything was sent.
StreamInv(r) ==
    /\ pc[r] \in {"new", "expire", "check", "open"} => lastID[r] = 0
    /\ pc[r] \in {"select", "read", "status"} \/ r \in settled => target[r] \in Uids
    /\ r \in settled => pc[r] \in {"select", "read", "status", "end"} /\ RunOver(target[r])
    /\ target[r] \in Uids => /\ lastID[r] <= lines[target[r]]
                             /\ 1 .. lastID[r] \subseteq sent[r] \cup Trimmed(target[r])
    /\ r \in settled /\ ((pc[r] = "status" /\ r \in empty) \/ answer[r] = "done") => AllSent(r)

GatewayInv ==
    /\ TypeOK /\ FaultsTypeOK
    /\ AnswerInv /\ CounterInv /\ LimitInv
    /\ \A r \in Requests : StreamInv(r)

(***************************************************************************)
(* What a Read returns.                                                    *)
(***************************************************************************)

\* A set of natural numbers that is not empty has a least element.
LEMMA LeastOf ==
    ASSUME NEW S \in SUBSET Nat, S # {}
    PROVE  \E x \in S : \A y \in S : x <= y
  <1>1. PICK x \in S : \A y \in S : <<y, x>> \notin OpToRel(<, Nat)
    BY NatLessThanWellFounded, WFMin, Zenon
  <1>2. \A y \in S : ~(y < x)
    BY <1>1 DEF OpToRel
  <1> QED
    BY <1>2

\* One that is bounded has a greatest element, which Max chooses.
LEMMA GreatestOf ==
    ASSUME NEW b \in Nat, NEW S \in SUBSET (0 .. b), S # {}
    PROVE  Max(S) \in S /\ \A y \in S : y <= Max(S)
  <1> DEFINE T == {b - x : x \in S}
  <1>1. T # {}
    <2>1. PICK x : x \in S
      OBVIOUS
    <2>2. b - x \in T
      BY <2>1
    <2> QED
      BY <2>2
  <1>2. T \in SUBSET Nat
    <2>1. \A x \in S : b - x \in Nat
      OBVIOUS
    <2> QED
      BY <2>1
  <1>3. PICK z \in T : \A y \in T : z <= y
    BY <1>1, <1>2, LeastOf
  <1>4. PICK x \in S : z = b - x
    BY <1>3
  <1>5. ASSUME NEW y \in S
        PROVE  x >= y
    <2>1. b - y \in T
      OBVIOUS
    <2>2. b - x <= b - y
      BY <1>3, <1>4, <2>1
    <2> QED
      BY <2>2
  <1>6. \E g \in S : \A y \in S : g >= y
    BY <1>5
  <1>7. Max(S) \in S /\ \A y \in S : Max(S) >= y
    BY <1>6 DEF Max
  <1>8. \A y \in S : y \in Int /\ Max(S) \in Int
    BY <1>7
  <1> QED
    BY <1>7, <1>8

\* Read returns entries after lastID, without a gap except for what has been
\* trimmed, and nothing only if nothing is left.
LEMMA ReadEntries ==
    ASSUME NEW u \in Uids, lines[u] \in 0 .. MaxLines, NEW last \in 0 .. MaxLines
    PROVE  /\ Entries(u, last) \subseteq 1 .. MaxLines
           /\ Entries(u, last) # {} =>
                /\ Max(Entries(u, last)) \in 1 .. lines[u]
                /\ \A l \in 1 .. Max(Entries(u, last)) :
                      l > last => l \in Entries(u, last) \cup Trimmed(u)
           /\ Entries(u, last) = {} => \A l \in 1 .. lines[u] : l > last => l \in Trimmed(u)
  <1> DEFINE new == {l \in 1 .. lines[u] : l > last} \ Trimmed(u)
             E == {l \in new : \A m \in new : l < m + ReadCount}
  <1>1. Entries(u, last) = E
    BY DEF Entries
  <1>2. E \subseteq 0 .. MaxLines /\ E \subseteq 1 .. lines[u] /\ E \subseteq 1 .. MaxLines
    BY LogAssumption
  <1>3. ASSUME E # {}
        PROVE  /\ Max(E) \in 1 .. lines[u]
               /\ \A l \in 1 .. Max(E) : l > last => l \in E \cup Trimmed(u)
    <2>1. Max(E) \in E
      BY <1>2, <1>3, GreatestOf, LogAssumption
    <2>2. Max(E) \in 1 .. lines[u] /\ \A m \in new : Max(E) < m + ReadCount
      BY <2>1
    <2>3. ASSUME NEW l \in 1 .. Max(E), l > last, l \notin Trimmed(u)
          PROVE  l \in E
      <3> HIDE DEF E
      <3>1. l \in new
        BY <2>2, <2>3
      <3>2. \A m \in new : l < m + ReadCount
        BY <2>2, <2>3, LogAssumption
      <3> QED
        BY <3>1, <3>2 DEF E
    <2> QED
      BY <2>2, <2>3
  <1>4. ASSUME new # {}
        PROVE  E # {}
    <2>1. new \in SUBSET Nat
      OBVIOUS
    <2>2. PICK x \in new : \A y \in new : x <= y
      BY <1>4, <2>1, LeastOf
    <2>3. \A m \in new : x < m + ReadCount
      BY <2>1, <2>2, LogAssumption
    <2> QED
      BY <2>3
  <1> QED
    BY <1>1, <1>2, <1>3, <1>4

-----------------------------------------------------------------------------
(***************************************************************************)
(* What every step does to the faults and to the logs.                     *)
(***************************************************************************)

\* The number of faults never decreases.
LEMMA FaultsCounted ==
    ASSUME FaultsTypeOK
    PROVE  /\ Fault => FaultsTypeOK' /\ faults' = faults + 1
           /\ \A outcome : Attempt(outcome) =>
                 FaultsTypeOK' /\ faults' = IF outcome = "ok" THEN faults ELSE faults + 1
           /\ UNCHANGED faults => FaultsTypeOK'
           /\ faults \in Nat
  BY MaxFaultsAssumption DEF FaultsTypeOK, Fault, Attempt

\* Every step is one of these.
LEMMA StepCases ==
    ASSUME Next
    PROVE  \/ \E r \in Requests, outcome \in Outcomes :
                 \/ LimitIncr(r, outcome) \/ LimitExpire(r, outcome)
                 \/ SetNX(r, outcome) \/ StoreCreate(r, outcome) \/ QueuePush(r, outcome)
           \/ \E r \in Requests, u \in Uids, outcome \in Outcomes :
                 StreamTaskLog(r, u, outcome) \/ RerunRequest(r, u, outcome)
           \/ \E r \in Requests :
                 \/ LimitCheck(r) \/ CreateRequest(r) \/ Duplicate(r)
                 \/ StreamTick(r) \/ StreamRead(r) \/ StreamStatus(r)
                 \/ StreamCallFails(r) \/ Disconnect(r) \/ StreamLeft(r)
           \/ \E u \in Uids : RunStep(u)
           \/ MinuteEnds \/ DedupExpires \/ Crash
  BY DEF Next, LimitStep, Dispatch, CreateStep, StreamStep

\* No step takes a fault back.
LEMMA FaultsKept ==
    ASSUME FaultsTypeOK, Next
    PROVE  FaultsTypeOK' /\ faults \in Nat /\ faults' \in Nat /\ faults <= faults'
  <1>1. \/ UNCHANGED faults \/ Fault \/ \E outcome : Attempt(outcome)
    BY StepCases, Zenon
    DEF LimitIncr, LimitExpire, Incr, Expire, SetNX, StoreCreate, QueuePush, StreamTaskLog,
        RerunRequest, LimitCheck, CreateRequest, Duplicate, StreamTick, StreamRead, StreamStatus,
        StreamCallFails, CallFails, Disconnect, StreamLeft, RunStep, StartRun, EndRun, CancelTask,
        AppendLine, MinuteEnds, DedupExpires, Crash, vars
  <1> QED
    BY <1>1, FaultsCounted, MaxFaultsAssumption DEF FaultsTypeOK

\* A request that has ended stays so.
LEMMA EndedStays ==
    ASSUME TypeOK, Next, NEW u \in Requests, pc[u] = "end"
    PROVE  pc'[u] = "end"
  <1>1. CASE UNCHANGED pc
    BY <1>1
  <1>2. ASSUME NEW r \in Requests, NEW to, pc[r] # "end", pc' = [pc EXCEPT ![r] = to]
        PROVE  pc'[u] = "end"
    BY <1>2 DEF TypeOK
  <1>3. CASE Crash
    BY <1>3 DEF Crash
  <1>4. CASE \E r \in Requests, outcome \in Outcomes :
                \/ LimitIncr(r, outcome) \/ LimitExpire(r, outcome)
                \/ SetNX(r, outcome) \/ StoreCreate(r, outcome) \/ QueuePush(r, outcome)
    BY <1>2, <1>4 DEF LimitIncr, LimitExpire, SetNX, StoreCreate, QueuePush, Goto, Answer
  <1>5. CASE \E r \in Requests, v \in Uids, outcome \in Outcomes :
                StreamTaskLog(r, v, outcome) \/ RerunRequest(r, v, outcome)
    BY <1>2, <1>5 DEF StreamTaskLog, RerunRequest, Goto, Answer
  <1>6. CASE \E r \in Requests :
                \/ LimitCheck(r) \/ CreateRequest(r) \/ Duplicate(r)
                \/ StreamTick(r) \/ StreamRead(r) \/ StreamStatus(r)
                \/ StreamCallFails(r) \/ Disconnect(r) \/ StreamLeft(r)
    BY <1>1, <1>2, <1>6
    DEF LimitCheck, CreateRequest, Duplicate, StreamTick, StreamRead, StreamStatus,
        StreamCallFails, Disconnect, StreamLeft, Goto, Answer, requestVars
  <1>7. CASE (\E v \in Uids : RunStep(v)) \/ MinuteEnds \/ DedupExpires
    BY <1>1, <1>7 DEF RunStep, MinuteEnds, DedupExpires, requestVars
  <1> QED
    BY <1>3, <1>4, <1>5, <1>6, <1>7, StepCases

\* The rows and logs keep their types, a log never gets shorter, and nothing
\* touches the row or the log of a run that is over.
LEMMA LogsKept ==
    ASSUME TypeOK, Next
    PROVE  /\ row' \in [Uids -> {"absent", "open", "terminal"}]
           /\ work' \in [Uids -> {"none", "queued", "running"}]
           /\ lines' \in [Uids -> 0 .. MaxLines]
           /\ \A u \in Uids : lines[u] <= lines'[u]
           /\ \A u \in Uids : RunOver(u) => RunOver(u)' /\ lines'[u] = lines[u]
  <1>0. /\ row \in [Uids -> {"absent", "open", "terminal"}]
        /\ work \in [Uids -> {"none", "queued", "running"}]
        /\ lines \in [Uids -> 0 .. MaxLines]
    BY DEF TypeOK
  <1>1. \A u \in Uids : RunOver(u) => pc'[u] = "end"
    BY EndedStays, GatewayAssumption DEF RunOver
  <1>2. CASE UNCHANGED logVars
    BY <1>0, <1>1, <1>2 DEF logVars, RunOver, IsTerminal
  <1>3. CASE \E r \in Requests, outcome \in Outcomes : StoreCreate(r, outcome)
    <2>1. PICK r \in Requests, outcome \in Outcomes : StoreCreate(r, outcome)
      BY <1>3
    <2>2. r \in Uids /\ pc[r] = "create" /\ UNCHANGED work /\ UNCHANGED lines
      BY <2>1, GatewayAssumption DEF StoreCreate, Goto, Answer
    <2>3. PICK s \in {row[r], "open"} : row' = [row EXCEPT ![r] = s]
      BY <2>1 DEF StoreCreate
    <2> QED
      BY <1>0, <1>1, <2>2, <2>3 DEF RunOver, IsTerminal
  <1>4. CASE \E r \in Requests, outcome \in Outcomes : QueuePush(r, outcome)
    <2>1. PICK r \in Requests, outcome \in Outcomes : QueuePush(r, outcome)
      BY <1>4
    <2>2. r \in Uids /\ pc[r] = "push" /\ UNCHANGED row /\ UNCHANGED lines
      BY <2>1, GatewayAssumption DEF QueuePush, Goto, Answer
    <2>3. PICK w \in {work[r], "queued"} : work' = [work EXCEPT ![r] = w]
      BY <2>1 DEF QueuePush
    <2> QED
      BY <1>0, <1>1, <2>2, <2>3 DEF RunOver, IsTerminal
  <1>5. CASE \E v \in Uids : RunStep(v)
    <2>1. PICK v \in Uids : \/ StartRun(v) \/ EndRun(v) \/ CancelTask(v)
                            \/ \E outcome \in Outcomes : AppendLine(v, outcome)
      BY <1>5 DEF RunStep
    <2>2. CASE StartRun(v) \/ EndRun(v) \/ CancelTask(v)
      BY <1>0, <1>1, <2>2 DEF StartRun, EndRun, CancelTask, RunOver, IsTerminal
    <2>3. CASE \E outcome \in Outcomes : AppendLine(v, outcome)
      <3>1. /\ lines[v] \in 0 .. MaxLines /\ lines[v] < MaxLines /\ work[v] = "running"
            /\ UNCHANGED row /\ UNCHANGED work
        BY <1>0, <2>3 DEF AppendLine
      <3>2. PICK l \in {lines[v], lines[v] + 1} : lines' = [lines EXCEPT ![v] = l]
        BY <2>3 DEF AppendLine
      <3>3. l \in 0 .. MaxLines /\ lines[v] <= l
        BY <3>1, <3>2, LogAssumption
      <3> QED
        BY <1>0, <1>1, <3>1, <3>2, <3>3 DEF RunOver, IsTerminal
    <2> QED
      BY <2>1, <2>2, <2>3
  <1>6. \/ UNCHANGED logVars
        \/ \E r \in Requests, outcome \in Outcomes : StoreCreate(r, outcome) \/ QueuePush(r, outcome)
        \/ \E v \in Uids : RunStep(v)
    BY StepCases, Zenon
    DEF LimitIncr, LimitExpire, SetNX, StreamTaskLog, RerunRequest, LimitCheck, CreateRequest,
        Duplicate, StreamTick, StreamRead, StreamStatus, StreamCallFails, Disconnect, StreamLeft,
        MinuteEnds, DedupExpires, Crash
  <1> QED
    BY <1>2, <1>3, <1>4, <1>5, <1>6

-----------------------------------------------------------------------------
(***************************************************************************)
(* The limiter.                                                            *)
(***************************************************************************)

\* The part of TypeOK about requests and their counter.
LimiterTypes ==
    /\ counter \in 0 .. Cardinality(Requests) /\ ttl \in BOOLEAN /\ counted \subseteq Requests
    /\ pc \in [Requests -> {"new", "expire", "check", "open", "setnx", "dup", "create", "push",
                            "select", "read", "status", "end"}]
    /\ count \in [Requests -> 0 .. Cardinality(Requests)]
    /\ answer \in [Requests -> {"none", "limited", "created", "duplicate", "error", "done", "left",
                                "cut"}]

LimiterInv == LimiterTypes /\ AnswerInv /\ CounterInv /\ LimitInv

\* Sets of requests are finite; adding one adds at most one to their number.
LEMMA RequestSets ==
    /\ Cardinality(Requests) \in Nat
    /\ \A S \in SUBSET Requests : /\ IsFiniteSet(S) /\ Cardinality(S) \in Nat
                                  /\ Cardinality(S) <= Cardinality(Requests)
    /\ \A S \in SUBSET Requests : \A T \in SUBSET S : Cardinality(T) <= Cardinality(S)
    /\ \A S \in SUBSET Requests, r \in Requests :
          /\ Cardinality(S \cup {r}) \in Nat
          /\ Cardinality(S \cup {r}) <= Cardinality(S) + 1
          /\ r \notin S => Cardinality(S \cup {r}) = Cardinality(S) + 1
  <1>1. IsFiniteSet(Requests)
    BY GatewayAssumption
  <1>2. \A S \in SUBSET Requests : /\ IsFiniteSet(S) /\ Cardinality(S) \in Nat
                                   /\ Cardinality(S) <= Cardinality(Requests)
    BY <1>1, FS_Subset, FS_CardinalityType
  <1>3. \A S \in SUBSET Requests : \A T \in SUBSET S : Cardinality(T) <= Cardinality(S)
    BY <1>2, FS_Subset
  <1>4. ASSUME NEW S \in SUBSET Requests, NEW r \in Requests
        PROVE  /\ Cardinality(S \cup {r}) \in Nat
               /\ Cardinality(S \cup {r}) <= Cardinality(S) + 1
               /\ r \notin S => Cardinality(S \cup {r}) = Cardinality(S) + 1
    <2>1. IsFiniteSet(S) /\ Cardinality(S) \in Nat
      BY <1>2
    <2>2. Cardinality(S \cup {r}) = IF r \in S THEN Cardinality(S) ELSE Cardinality(S) + 1
      BY <2>1, FS_AddElement
    <2> QED
      BY <2>1, <2>2
  <1> QED
    BY <1>1, <1>2, <1>3, <1>4, FS_CardinalityType

\* A step that counts nobody keeps the counts if it admits nobody.
LEMMA NobodyAdmitted ==
    ASSUME LimiterInv, faults \in Nat, faults' \in Nat, faults <= faults',
           UNCHANGED counter, UNCHANGED counted,
           Admitted' \subseteq Admitted, \A r \in counted : pc'[r] # "new"
    PROVE  CounterInv' /\ LimitInv'
  <1>1. CounterInv'
    BY DEF LimiterInv, CounterInv
  <1>2. Admitted \subseteq Requests
    BY DEF LimiterInv, LimiterTypes, Admitted
  <1>3. /\ Cardinality(Admitted) \in Nat /\ Cardinality(Admitted') \in Nat
        /\ Cardinality(Admitted') <= Cardinality(Admitted)
    BY <1>2, RequestSets
  <1>4. counter \in Nat /\ Limit \in Nat
    BY LimitAssumption, RequestSets DEF LimiterInv, LimiterTypes
  <1>5. /\ Cardinality(Admitted) <= Limit + faults
        /\ Cardinality(Admitted) <= counter + faults
    BY DEF LimiterInv, LimitInv
  <1>6. /\ Cardinality(Admitted') <= Limit + faults'
        /\ Cardinality(Admitted') <= counter' + faults'
    <2> HIDE DEF Admitted
    <2> QED
      BY <1>3, <1>4, <1>5
  <1> QED
    BY <1>1, <1>6 DEF LimitInv

\* A request that is past INCR moves on: it is let in only if its count
\* allows it.
LEMMA RequestMoves ==
    ASSUME LimiterInv, faults \in Nat, faults' \in Nat, faults <= faults',
           NEW q \in Requests, pc[q] \notin {"new", "end"},
           NEW to \in {"check", "open", "setnx", "dup", "create", "push", "select", "read",
                       "status", "end"},
           NEW a \in {"none", "limited", "created", "duplicate", "error", "done", "left"},
           pc' = [pc EXCEPT ![q] = to], answer' = [answer EXCEPT ![q] = a],
           a # "none" => to = "end",
           NEW c \in {0, count[q]}, count' = [count EXCEPT ![q] = c],
           to = "check" => pc[q] = "expire" /\ c = count[q],
           pc[q] \in {"expire", "check"} /\ to # "check" => Allows(count[q]) \/ a = "limited",
           UNCHANGED counter, UNCHANGED counted, ttl' \in BOOLEAN
    PROVE  LimiterInv'
  <1>0. LimiterTypes /\ AnswerInv /\ CounterInv
    BY DEF LimiterInv
  <1>1. LimiterTypes'
    BY <1>0, RequestSets DEF LimiterTypes
  <1>2. AnswerInv'
    BY <1>0 DEF LimiterTypes, AnswerInv
  <1>3. \A r \in counted : pc'[r] # "new"
    BY <1>0 DEF LimiterTypes, CounterInv
  <1>4. ASSUME NEW r \in Admitted'
        PROVE  r \in Admitted
    <2>1. r \in counted /\ r \in Requests
      BY <1>0 DEF LimiterTypes, Admitted
    <2>2. CASE r # q
      BY <1>0, <2>1, <2>2 DEF LimiterTypes, Admitted
    <2>3. CASE r = q
      BY <1>0, <2>1, <2>3 DEF LimiterTypes, AnswerInv, Admitted
    <2> QED
      BY <2>2, <2>3
  <1>5. CounterInv' /\ LimitInv'
    BY <1>3, <1>4, NobodyAdmitted
  <1> QED
    BY <1>1, <1>2, <1>5 DEF LimiterInv

\* INCR: the request that is counted is let in if the new value allows it, or
\* if the answer is lost, by a fault.
LEMMA LimitIncrKeeps ==
    ASSUME LimiterInv, FaultsTypeOK, NEW q \in Requests, NEW outcome \in Outcomes,
           LimitIncr(q, outcome)
    PROVE  LimiterInv'
  <1>0. LimiterTypes /\ AnswerInv /\ CounterInv /\ pc[q] = "new" /\ Attempt(outcome)
    BY DEF LimiterInv, LimitIncr, Goto, Incr
  <1>1. /\ faults \in Nat /\ faults' = IF outcome = "ok" THEN faults ELSE faults + 1
        /\ UNCHANGED ttl /\ UNCHANGED answer
    BY <1>0, FaultsCounted DEF LimitIncr, Incr
  <1>2. counter \in Nat /\ Limit \in Nat
    BY <1>0, LimitAssumption, RequestSets DEF LimiterTypes
  <1>3. CASE outcome = "error"
    <2>1. /\ pc' = [pc EXCEPT ![q] = "open"] /\ UNCHANGED count
          /\ UNCHANGED counter /\ UNCHANGED counted
      BY <1>3 DEF LimitIncr, Incr, Goto
    <2>2. q \notin counted
      BY <1>0 DEF CounterInv
    <2>3. LimiterTypes' /\ AnswerInv'
      BY <1>0, <1>1, <2>1 DEF LimiterTypes, AnswerInv
    <2>4. Admitted' \subseteq Admitted /\ \A r \in counted : pc'[r] # "new"
      BY <1>0, <1>1, <2>1, <2>2 DEF LimiterTypes, CounterInv, Admitted
    <2> QED
      BY <1>1, <1>3, <2>1, <2>3, <2>4, NobodyAdmitted DEF LimiterInv
  <1>4. CASE outcome # "error"
    <2>1. /\ counter' = counter + 1 /\ counted' = counted \cup {q}
          /\ \/ outcome = "lost" /\ pc' = [pc EXCEPT ![q] = "open"] /\ UNCHANGED count
             \/ /\ outcome = "ok" /\ count' = [count EXCEPT ![q] = counter + 1]
                /\ \E to \in {"expire", "check"} : pc' = [pc EXCEPT ![q] = to]
      BY <1>4 DEF LimitIncr, Incr, Goto, Outcomes
    <2>2. q \notin counted
      BY <1>0 DEF CounterInv
    <2>3. counter' = Cardinality(counted') /\ counter' \in 0 .. Cardinality(Requests)
      <3>1. counted' \subseteq Requests /\ counted \subseteq Requests
        BY <1>0, <2>1 DEF LimiterTypes
      <3>2. counter = Cardinality(counted)
        BY <1>0 DEF CounterInv
      <3> QED
        BY <1>2, <2>1, <2>2, <3>1, <3>2, RequestSets
    <2>4. LimiterTypes' /\ AnswerInv'
      BY <1>0, <1>1, <2>1, <2>3 DEF LimiterTypes, AnswerInv
    <2>5. CounterInv'
      BY <1>0, <2>1, <2>3 DEF LimiterTypes, CounterInv
    <2>6. Admitted' \subseteq Admitted \cup {q}
      BY <1>0, <1>1, <2>1 DEF LimiterTypes, Admitted
    <2>7. Admitted \subseteq Requests
      BY <1>0 DEF LimiterTypes, Admitted
    <2>8. /\ Cardinality(Admitted) \in Nat /\ Cardinality(Admitted') \in Nat
          /\ Cardinality(Admitted') <= Cardinality(Admitted) + 1
      <3> HIDE DEF Admitted
      <3>1. /\ Admitted \cup {q} \in SUBSET Requests /\ Admitted \in SUBSET Requests
            /\ Admitted' \in SUBSET (Admitted \cup {q}) /\ Admitted' \in SUBSET Requests
        BY <2>6, <2>7
      <3>2. /\ Cardinality(Admitted) \in Nat /\ Cardinality(Admitted') \in Nat
            /\ Cardinality(Admitted \cup {q}) \in Nat
            /\ Cardinality(Admitted') <= Cardinality(Admitted \cup {q})
            /\ Cardinality(Admitted \cup {q}) <= Cardinality(Admitted) + 1
        BY <3>1, RequestSets
      <3> QED
        BY <3>2
    <2>9. outcome = "ok" /\ counter + 1 > Limit => Cardinality(Admitted') <= Cardinality(Admitted)
      <3>1. outcome = "ok" /\ counter + 1 > Limit => Admitted' \subseteq Admitted
        BY <1>0, <1>1, <1>2, <2>1 DEF LimiterTypes, Admitted, Allows
      <3> QED
        BY <2>7, <3>1, RequestSets
    <2>10. LimitInv'
      <3>1. /\ Cardinality(Admitted) <= Limit + faults
            /\ Cardinality(Admitted) <= counter + faults
        BY DEF LimiterInv, LimitInv
      <3>2. /\ Cardinality(Admitted') <= Limit + faults'
            /\ Cardinality(Admitted') <= counter' + faults'
        <4> HIDE DEF Admitted
        <4> QED
          BY <1>1, <1>2, <2>1, <2>8, <2>9, <3>1
      <3> QED
        BY <3>2 DEF LimitInv
    <2> QED
      BY <2>4, <2>5, <2>10 DEF LimiterInv
  <1> QED
    BY <1>3, <1>4

\* The counter's life ends: nobody counts any more.
LEMMA MinuteEndsKeeps ==
    ASSUME LimiterInv, faults \in Nat, MinuteEnds
    PROVE  LimiterInv'
  <1>1. /\ counter' = 0 /\ counted' = {} /\ ttl' \in BOOLEAN
        /\ UNCHANGED pc /\ UNCHANGED count /\ UNCHANGED answer /\ UNCHANGED faults
    BY DEF MinuteEnds, WindowEnds, requestVars
  <1>2. Cardinality(counted') = 0 /\ Admitted' = {} /\ Cardinality(Admitted') = 0
    BY <1>1, FS_EmptySet DEF Admitted
  <1>3. LimiterTypes' /\ AnswerInv' /\ CounterInv'
    <2>0. Cardinality(Requests) \in Nat
      BY RequestSets
    <2>1. LimiterTypes'
      BY <1>1, <2>0 DEF LimiterInv, LimiterTypes
    <2>2. AnswerInv'
      BY <1>1 DEF LimiterInv, AnswerInv
    <2>3. CounterInv'
      BY <1>1, <1>2 DEF CounterInv
    <2> QED
      BY <2>1, <2>2, <2>3
  <1>4. LimitInv'
    <2> HIDE DEF Admitted
    <2> QED
      BY <1>1, <1>2, LimitAssumption DEF LimitInv
  <1> QED
    BY <1>3, <1>4 DEF LimiterInv

\* The server dies: whoever was being handled is not let in.
LEMMA CrashKeeps ==
    ASSUME LimiterInv, faults \in Nat, faults' \in Nat, faults <= faults', Crash
    PROVE  LimiterInv'
  <1>1. /\ pc' = [r \in Requests |-> IF pc[r] = "new" THEN "new" ELSE "end"]
        /\ answer' = [r \in Requests |-> IF pc[r] \in {"new", "end"} THEN answer[r] ELSE "cut"]
        /\ UNCHANGED counter /\ UNCHANGED counted /\ UNCHANGED ttl /\ UNCHANGED count
    BY DEF Crash, limitVars
  <1>2. LimiterTypes' /\ AnswerInv'
    BY <1>1 DEF LimiterInv, LimiterTypes, AnswerInv
  <1>3. \A r \in counted : pc'[r] # "new"
    BY <1>1 DEF LimiterInv, LimiterTypes, CounterInv
  <1>4. Admitted' \subseteq Admitted
    BY <1>1 DEF LimiterInv, LimiterTypes, Admitted
  <1> QED
    BY <1>1, <1>2, <1>3, <1>4, NobodyAdmitted DEF LimiterInv

\* Every step keeps the limiter's invariant.
LEMMA LimiterKept ==
    ASSUME LimiterInv, FaultsTypeOK, Next
    PROVE  LimiterInv'
  <1>0. faults \in Nat /\ faults' \in Nat /\ faults <= faults'
    BY FaultsKept
  <1>1. LimiterTypes /\ AnswerInv /\ \A r \in Requests : pc[r] # "end" => answer[r] = "none"
    BY DEF LimiterInv, AnswerInv
  <1>2. CASE UNCHANGED requestVars /\ UNCHANGED limitVars
    <2>1. /\ UNCHANGED pc /\ UNCHANGED count /\ UNCHANGED answer
          /\ UNCHANGED counter /\ UNCHANGED ttl /\ UNCHANGED counted
      BY <1>2 DEF requestVars, limitVars
    <2>2. LimiterTypes' /\ AnswerInv' /\ Admitted' = Admitted
      BY <1>1, <2>1 DEF LimiterTypes, AnswerInv, Admitted
    <2>3. \A r \in counted : pc'[r] # "new"
      BY <2>1 DEF LimiterInv, CounterInv
    <2> QED
      BY <1>0, <2>1, <2>2, <2>3, NobodyAdmitted DEF LimiterInv
  \* A request past the limiter goes on, answered or not.
  <1>3. ASSUME NEW q \in Requests, pc[q] \notin {"new", "expire", "check", "end"},
               NEW to \in {"open", "setnx", "dup", "create", "push", "select", "read",
                           "status", "end"},
               pc' = [pc EXCEPT ![q] = to],
               \/ UNCHANGED answer
               \/ to = "end" /\ \E a \in {"created", "duplicate", "error", "done", "left"} :
                                   answer' = [answer EXCEPT ![q] = a],
               UNCHANGED count, UNCHANGED limitVars
        PROVE  LimiterInv'
    <2>1. UNCHANGED counter /\ UNCHANGED counted /\ ttl' \in BOOLEAN
      BY <1>1, <1>3 DEF limitVars, LimiterTypes
    <2>2. count' = [count EXCEPT ![q] = count[q]]
      BY <1>1, <1>3 DEF LimiterTypes
    <2>3. PICK a \in {"none", "created", "duplicate", "error", "done", "left"} :
            answer' = [answer EXCEPT ![q] = a] /\ (a # "none" => to = "end")
      BY <1>1, <1>3 DEF LimiterTypes
    <2> QED
      BY <1>0, <1>3, <2>1, <2>2, <2>3, RequestMoves
  <1>4. ASSUME NEW q \in Requests, NEW outcome \in Outcomes, LimitExpire(q, outcome)
        PROVE  LimiterInv'
    <2>1. /\ pc[q] = "expire" /\ pc' = [pc EXCEPT ![q] = "check"]
          /\ UNCHANGED counter /\ UNCHANGED counted /\ UNCHANGED count /\ UNCHANGED answer
      BY <1>4 DEF LimitExpire, Expire, Goto
    <2>2. count' = [count EXCEPT ![q] = count[q]] /\ answer' = [answer EXCEPT ![q] = "none"]
      BY <1>1, <2>1 DEF LimiterTypes
    <2>3. ttl' \in BOOLEAN
      <3>1. ttl \in BOOLEAN /\ (counter > 0) \in BOOLEAN
        BY <1>1 DEF LimiterTypes
      <3>2. ttl' = ttl \/ ttl' = (counter > 0)
        BY <1>4 DEF LimitExpire, Expire
      <3> QED
        BY <3>1, <3>2
    <2> QED
      BY <1>0, <2>1, <2>2, <2>3, RequestMoves
  <1>5. ASSUME NEW q \in Requests, LimitCheck(q)
        PROVE  LimiterInv'
    <2>1. /\ pc[q] = "check" /\ count' = [count EXCEPT ![q] = 0]
          /\ UNCHANGED counter /\ UNCHANGED counted /\ ttl' \in BOOLEAN
      BY <1>1, <1>5 DEF LimitCheck, Goto, Answer, limitVars, LimiterTypes
    <2>2. CASE /\ Allows(count[q]) /\ pc' = [pc EXCEPT ![q] = "open"]
               /\ answer' = [answer EXCEPT ![q] = "none"]
      BY <1>0, <2>1, <2>2, RequestMoves
    <2>3. CASE pc' = [pc EXCEPT ![q] = "end"] /\ answer' = [answer EXCEPT ![q] = "limited"]
      BY <1>0, <2>1, <2>3, RequestMoves
    <2> QED
      BY <1>1, <1>5, <2>1, <2>2, <2>3 DEF LimitCheck, Goto, Answer, LimiterTypes
  <1>6. ASSUME NEW q \in Requests, NEW outcome \in Outcomes,
               SetNX(q, outcome) \/ StoreCreate(q, outcome) \/ QueuePush(q, outcome)
        PROVE  LimiterInv'
    BY <1>3, <1>6 DEF SetNX, StoreCreate, QueuePush, Goto, Answer
  <1>7. ASSUME NEW q \in Requests, NEW u \in Uids, NEW outcome \in Outcomes,
               StreamTaskLog(q, u, outcome) \/ RerunRequest(q, u, outcome)
        PROVE  LimiterInv'
    BY <1>3, <1>7 DEF StreamTaskLog, RerunRequest, Goto, Answer
  <1>8. ASSUME NEW q \in Requests,
               \/ CreateRequest(q) \/ Duplicate(q) \/ StreamTick(q) \/ StreamRead(q)
               \/ StreamStatus(q) \/ StreamCallFails(q) \/ StreamLeft(q)
        PROVE  LimiterInv'
    BY <1>3, <1>8
    DEF CreateRequest, Duplicate, StreamTick, StreamRead, StreamStatus, StreamCallFails,
        StreamLeft, Goto, Answer
  <1>9. CASE \/ \E q \in Requests : Disconnect(q)
             \/ \E u \in Uids : RunStep(u)
             \/ DedupExpires
    BY <1>2, <1>9 DEF Disconnect, RunStep, DedupExpires
  <1> QED
    BY <1>0, <1>4, <1>5, <1>6, <1>7, <1>8, <1>9, StepCases, LimitIncrKeeps, MinuteEndsKeeps,
       CrashKeeps

-----------------------------------------------------------------------------
(***************************************************************************)
(* The streams.                                                            *)
(***************************************************************************)

\* The rest of TypeOK.
StreamTypes ==
    /\ target \in [Requests -> Uids \cup {None}]
    /\ sent \in [Requests -> SUBSET (1 .. MaxLines)]
    /\ lastID \in [Requests -> 0 .. MaxLines]
    /\ empty \subseteq Requests /\ settled \subseteq Requests /\ gone \subseteq Requests

\* A step leaves what r has sent alone, does not begin a stream and calls it
\* done only at its end.
StreamQuiet(r) ==
    /\ target'[r] = target[r] /\ sent'[r] = sent[r] /\ lastID'[r] = lastID[r]
    /\ r \in empty' <=> r \in empty
    /\ r \in settled' <=> r \in settled
    /\ pc'[r] \in {"new", "expire", "check", "open"} =>
          pc[r] \in {"new", "expire", "check", "open"}
    /\ pc'[r] \in {"select", "read", "status"} => pc[r] \in {"select", "read", "status"}
    /\ pc[r] \in {"select", "read", "status", "end"} =>
          pc'[r] \in {"select", "read", "status", "end"}
    /\ pc'[r] = "status" => pc[r] = "status"
    /\ answer'[r] = "done" => answer[r] = "done" \/ (pc[r] = "status" /\ EndOfStream(r))

\* Of a log, what is trimmed stays trimmed; of a run that is over, nothing
\* changes.
LEMMA LogAt ==
    ASSUME TypeOK, Next, NEW u \in Uids
    PROVE  /\ lines[u] \in Nat /\ lines'[u] \in Nat /\ lines[u] <= lines'[u]
           /\ Trimmed(u) \subseteq Trimmed(u)'
           /\ RunOver(u) => RunOver(u)' /\ lines'[u] = lines[u]
  <1>1. lines[u] \in Nat /\ lines'[u] \in Nat /\ lines[u] <= lines'[u]
    BY LogsKept, LogAssumption DEF TypeOK
  <1>2. Trimmed(u) \subseteq Trimmed(u)'
    BY <1>1, LogAssumption DEF Trimmed
  <1> QED
    BY <1>1, <1>2, LogsKept

\* A quiet step keeps what is known of a stream.
LEMMA StreamQuietKeeps ==
    ASSUME TypeOK, Next, NEW r \in Requests, StreamInv(r), StreamQuiet(r)
    PROVE  StreamInv(r)'
  <1>1. CASE target[r] \notin Uids
    BY <1>1 DEF StreamInv, StreamQuiet
  <1>2. CASE target[r] \in Uids
    <2>1. PICK u \in Uids : target[r] = u /\ target'[r] = u
      BY <1>2 DEF StreamQuiet
    <2>2. /\ lines[u] \in Nat /\ lines'[u] \in Nat /\ lines[u] <= lines'[u]
          /\ Trimmed(u) \subseteq Trimmed(u)'
          /\ RunOver(u) => RunOver(u)' /\ lines'[u] = lines[u]
      BY LogAt
    <2>0. pc'[r] \in {"new", "expire", "check", "open"} => lastID'[r] = 0
      BY DEF StreamInv, StreamQuiet
    <2>3. r \in settled' => pc'[r] \in {"select", "read", "status", "end"} /\ RunOver(u)'
      BY <2>1, <2>2 DEF StreamInv, StreamQuiet
    <2>4. lastID'[r] <= lines'[u] /\ 1 .. lastID'[r] \subseteq sent'[r] \cup Trimmed(u)'
      <3>1. /\ lastID[r] <= lines[u] /\ lastID[r] \in Nat
            /\ 1 .. lastID[r] \subseteq sent[r] \cup Trimmed(u)
        BY <2>1, LogAssumption DEF StreamInv, TypeOK
      <3>2. lastID'[r] = lastID[r] /\ sent'[r] = sent[r]
        BY DEF StreamQuiet
      <3> QED
        BY <2>2, <3>1, <3>2
    <2>5. ASSUME r \in settled',
                 (pc'[r] = "status" /\ r \in empty') \/ answer'[r] = "done"
          PROVE  1 .. lines'[u] \subseteq sent'[r] \cup Trimmed(u)'
      <3>1. r \in settled /\ RunOver(u)
        BY <2>1, <2>5 DEF StreamInv, StreamQuiet
      <3>2. (pc[r] = "status" /\ r \in empty) \/ answer[r] = "done"
        BY <2>5 DEF StreamQuiet, EndOfStream
      <3>3. 1 .. lines[u] \subseteq sent[r] \cup Trimmed(u)
        BY <2>1, <3>1, <3>2 DEF StreamInv, AllSent
      <3>4. sent'[r] = sent[r]
        BY DEF StreamQuiet
      <3> QED
        BY <2>2, <3>1, <3>3, <3>4
    <2> QED
      BY <2>0, <2>1, <2>3, <2>4, <2>5 DEF StreamInv, AllSent
  <1> QED
    BY <1>1, <1>2

\* A stream begins: nothing has been sent.
LEMMA StreamBegins ==
    ASSUME TypeOK, AnswerInv, Next, NEW q \in Requests, StreamInv(q), NEW u \in Uids,
           pc[q] = "open", pc' = [pc EXCEPT ![q] = "select"],
           target' = [target EXCEPT ![q] = u],
           UNCHANGED answer, UNCHANGED sent, UNCHANGED lastID, UNCHANGED empty, UNCHANGED settled
    PROVE  StreamInv(q)'
  <1>1. target'[q] = u /\ pc'[q] = "select" /\ answer'[q] # "done" /\ lastID'[q] = 0
    BY DEF TypeOK, AnswerInv, StreamInv
  <1>2. q \notin settled'
    BY DEF StreamInv
  <1>3. lines'[u] \in Nat
    BY LogAt
  <1> QED
    BY <1>1, <1>2, <1>3 DEF StreamInv

\* A tick: a run that is over at the moment of the Read stays over.
LEMMA StreamTickKeeps ==
    ASSUME TypeOK, AnswerInv, Next, NEW q \in Requests, StreamInv(q), StreamTick(q)
    PROVE  StreamInv(q)'
  <1>1. /\ pc[q] = "select" /\ pc' = [pc EXCEPT ![q] = "read"]
        /\ settled' = IF RunOver(target[q]) THEN settled \cup {q} ELSE settled
        /\ UNCHANGED answer /\ UNCHANGED target /\ UNCHANGED sent /\ UNCHANGED lastID
        /\ UNCHANGED empty
    BY DEF StreamTick, Goto
  <1>2. pc'[q] = "read" /\ answer'[q] # "done"
    BY <1>1 DEF TypeOK, AnswerInv
  <1>3. PICK u \in Uids : target[q] = u /\ target'[q] = u
    BY <1>1 DEF StreamInv
  <1>4. /\ lines[u] \in Nat /\ lines'[u] \in Nat /\ lines[u] <= lines'[u]
        /\ Trimmed(u) \subseteq Trimmed(u)'
        /\ RunOver(u) => RunOver(u)'
    BY LogAt
  <1>5. q \in settled' => RunOver(u)'
    BY <1>1, <1>3, <1>4 DEF StreamInv
  <1>6. lastID'[q] <= lines'[u] /\ 1 .. lastID'[q] \subseteq sent'[q] \cup Trimmed(u)'
    <2>1. /\ lastID[q] <= lines[u] /\ lastID[q] \in Nat
          /\ 1 .. lastID[q] \subseteq sent[q] \cup Trimmed(u)
      BY <1>3, LogAssumption DEF StreamInv, TypeOK
    <2> QED
      BY <1>1, <1>4, <2>1
  <1> QED
    BY <1>2, <1>3, <1>5, <1>6 DEF StreamInv

\* A Read and the sending of its lines leave no gap; a Read that returns
\* nothing after the run was over shows that all was sent.
LEMMA StreamReadKeeps ==
    ASSUME TypeOK, AnswerInv, Next, NEW q \in Requests, StreamInv(q), StreamRead(q)
    PROVE  /\ StreamInv(q)'
           /\ sent'[q] \subseteq 1 .. MaxLines /\ lastID'[q] \in 0 .. MaxLines
  <1> DEFINE new == Entries(target[q], lastID[q])
  <1>1. /\ pc[q] = "read" /\ pc' = [pc EXCEPT ![q] = "status"]
        /\ empty' = IF new = {} THEN empty \cup {q} ELSE empty \ {q}
        /\ sent' = [sent EXCEPT ![q] = sent[q] \cup new]
        /\ lastID' = [lastID EXCEPT ![q] = IF new = {} THEN lastID[q] ELSE Max(new)]
        /\ UNCHANGED answer /\ UNCHANGED target /\ UNCHANGED settled /\ UNCHANGED lines
    BY DEF StreamRead, Goto, logVars
  <1>2. PICK u \in Uids : target[q] = u /\ target'[q] = u
    BY <1>1 DEF StreamInv
  <1>3. /\ lines[u] \in 0 .. MaxLines /\ lastID[q] \in 0 .. MaxLines
        /\ sent[q] \subseteq 1 .. MaxLines
    BY DEF TypeOK
  <1>4. /\ lastID[q] <= lines[u] /\ 1 .. lastID[q] \subseteq sent[q] \cup Trimmed(u)
        /\ q \in settled => RunOver(u)
    BY <1>2 DEF StreamInv
  <1>5. /\ new = Entries(u, lastID[q])
        /\ Trimmed(u)' = Trimmed(u)
        /\ RunOver(u) => RunOver(u)'
    BY <1>1, <1>2, LogAt DEF Trimmed
  <1>6. pc'[q] = "status" /\ answer'[q] # "done" /\ sent'[q] = sent[q] \cup new
    BY <1>1 DEF TypeOK, AnswerInv
  <1>7. CASE new # {}
    <2>1. /\ new \subseteq 1 .. MaxLines /\ Max(new) \in 1 .. lines[u]
          /\ \A l \in 1 .. Max(new) : l > lastID[q] => l \in new \cup Trimmed(u)
      BY <1>3, <1>5, <1>7, ReadEntries
    <2>2. lastID'[q] = Max(new) /\ q \notin empty'
      BY <1>1, <1>7 DEF TypeOK
    <2> HIDE DEF new
    <2>3. 1 .. Max(new) \subseteq sent[q] \cup new \cup Trimmed(u)
      BY <1>3, <1>4, <2>1
    <2>4. /\ lastID'[q] <= lines'[u] /\ 1 .. lastID'[q] \subseteq sent'[q] \cup Trimmed(u)'
          /\ sent'[q] \subseteq 1 .. MaxLines /\ lastID'[q] \in 0 .. MaxLines
      BY <1>1, <1>3, <1>5, <1>6, <2>1, <2>2, <2>3, LogAssumption
    <2>5. q \in settled' => RunOver(u)'
      BY <1>1, <1>4, <1>5
    <2> QED
      BY <1>2, <1>6, <2>2, <2>4, <2>5 DEF StreamInv
  <1>8. CASE new = {}
    <2>1. \A l \in 1 .. lines[u] : l > lastID[q] => l \in Trimmed(u)
      BY <1>3, <1>5, <1>8, ReadEntries
    <2>2. lastID'[q] = lastID[q] /\ sent'[q] = sent[q]
      BY <1>1, <1>6, <1>8 DEF TypeOK
    <2> HIDE DEF new
    <2>3. 1 .. lines[u] \subseteq sent[q] \cup Trimmed(u)
      BY <1>3, <1>4, <2>1
    <2> QED
      BY <1>1, <1>2, <1>3, <1>4, <1>5, <1>6, <2>2, <2>3 DEF StreamInv, AllSent
  <1> QED
    BY <1>7, <1>8

\* Every step keeps the streams' invariant.
LEMMA StreamsKept ==
    ASSUME TypeOK, AnswerInv, Next, \A r \in Requests : StreamInv(r)
    PROVE  StreamTypes' /\ \A r \in Requests : StreamInv(r)'
  <1>0. StreamTypes
    BY DEF TypeOK, StreamTypes
  <1>1. ASSUME NEW q \in Requests, StreamInv(q)', \A r \in Requests \ {q} : StreamQuiet(r)
        PROVE  \A r \in Requests : StreamInv(r)'
    BY <1>1, StreamQuietKeeps
  \* The steps that begin a stream, tick and read.
  <1>2. ASSUME NEW q \in Requests, NEW u \in Uids, NEW outcome \in Outcomes,
               StreamTaskLog(q, u, outcome), pc'[q] # "end"
        PROVE  StreamTypes' /\ \A r \in Requests : StreamInv(r)'
    <2>1. /\ pc[q] = "open" /\ pc' = [pc EXCEPT ![q] = "select"]
          /\ target' = [target EXCEPT ![q] = u]
          /\ UNCHANGED answer /\ UNCHANGED sent /\ UNCHANGED lastID /\ UNCHANGED empty
          /\ UNCHANGED settled /\ UNCHANGED gone
      BY <1>2 DEF StreamTaskLog, Goto, Answer, TypeOK
    <2>2. StreamTypes' /\ \A r \in Requests \ {q} : StreamQuiet(r)
      BY <1>0, <2>1 DEF StreamTypes, StreamQuiet, TypeOK
    <2>3. StreamInv(q)'
      BY <2>1, StreamBegins
    <2> QED
      BY <1>1, <2>2, <2>3
  <1>3. ASSUME NEW q \in Requests, StreamTick(q)
        PROVE  StreamTypes' /\ \A r \in Requests : StreamInv(r)'
    <2>1. StreamTypes' /\ \A r \in Requests \ {q} : StreamQuiet(r)
      BY <1>0, <1>3 DEF StreamTick, Goto, StreamTypes, StreamQuiet, TypeOK
    <2> QED
      BY <1>1, <1>3, <2>1, StreamTickKeeps
  <1>4. ASSUME NEW q \in Requests, StreamRead(q)
        PROVE  StreamTypes' /\ \A r \in Requests : StreamInv(r)'
    <2>1. /\ StreamInv(q)'
          /\ sent'[q] \subseteq 1 .. MaxLines /\ lastID'[q] \in 0 .. MaxLines
      BY <1>4, StreamReadKeeps
    <2>2. PICK s, l :
            /\ pc' = [pc EXCEPT ![q] = "status"]
            /\ sent' = [sent EXCEPT ![q] = s] /\ lastID' = [lastID EXCEPT ![q] = l]
            /\ empty' = empty \cup {q} \/ empty' = empty \ {q}
            /\ UNCHANGED answer /\ UNCHANGED target /\ UNCHANGED settled /\ UNCHANGED gone
      BY <1>4 DEF StreamRead, Goto
    <2>3. StreamTypes'
      BY <1>0, <2>1, <2>2 DEF StreamTypes
    <2>4. \A r \in Requests \ {q} : StreamQuiet(r)
      BY <1>0, <2>2 DEF StreamQuiet, StreamTypes, TypeOK
    <2> QED
      BY <1>1, <2>1, <2>3, <2>4
  \* All the others are quiet.
  <1>5. ASSUME UNCHANGED streamVars, gone' \subseteq Requests, \A r \in Requests : StreamQuiet(r)
        PROVE  StreamTypes' /\ \A r \in Requests : StreamInv(r)'
    BY <1>0, <1>5, StreamQuietKeeps DEF StreamTypes, streamVars
  <1>6. ASSUME NEW q \in Requests, UNCHANGED streamVars, gone' \subseteq Requests, NEW to,
               pc' = [pc EXCEPT ![q] = to],
               to \in {"new", "expire", "check", "open"} =>
                  pc[q] \in {"new", "expire", "check", "open"},
               to \in {"select", "read"} => pc[q] \in {"select", "read", "status"},
               pc[q] \in {"select", "read", "status"} => to \in {"select", "read", "end"},
               to # "status", pc[q] # "end",
               \/ UNCHANGED answer
               \/ \E a : /\ answer' = [answer EXCEPT ![q] = a]
                         /\ a = "done" => pc[q] = "status" /\ EndOfStream(q)
        PROVE  StreamTypes' /\ \A r \in Requests : StreamInv(r)'
    <2>1. ASSUME NEW r \in Requests
          PROVE  StreamQuiet(r)
      <3>1. CASE r = q
        BY <1>6, <3>1 DEF StreamQuiet, streamVars, TypeOK
      <3>2. CASE r # q
        BY <1>6, <3>2 DEF StreamQuiet, streamVars, TypeOK
      <3> QED
        BY <3>1, <3>2
    <2> QED
      BY <1>5, <1>6, <2>1
  <1>7. gone \subseteq Requests
    BY <1>0 DEF StreamTypes
  <1>8. ASSUME NEW q \in Requests, NEW outcome \in Outcomes,
               \/ LimitIncr(q, outcome) \/ LimitExpire(q, outcome)
               \/ SetNX(q, outcome) \/ StoreCreate(q, outcome) \/ QueuePush(q, outcome)
        PROVE  StreamTypes' /\ \A r \in Requests : StreamInv(r)'
    BY <1>6, <1>7, <1>8 DEF LimitIncr, LimitExpire, SetNX, StoreCreate, QueuePush, Goto, Answer
  <1>9. ASSUME NEW q \in Requests, NEW u \in Uids, NEW outcome \in Outcomes,
               \/ StreamTaskLog(q, u, outcome) /\ pc'[q] = "end"
               \/ RerunRequest(q, u, outcome)
        PROVE  StreamTypes' /\ \A r \in Requests : StreamInv(r)'
    BY <1>6, <1>7, <1>9 DEF StreamTaskLog, RerunRequest, Goto, Answer, TypeOK, streamVars
  <1>10. ASSUME NEW q \in Requests,
                \/ LimitCheck(q) \/ CreateRequest(q) \/ Duplicate(q)
                \/ StreamStatus(q) \/ StreamCallFails(q) \/ StreamLeft(q)
         PROVE  StreamTypes' /\ \A r \in Requests : StreamInv(r)'
    BY <1>6, <1>7, <1>10
    DEF LimitCheck, CreateRequest, Duplicate, StreamStatus, StreamCallFails, StreamLeft, Goto,
        Answer
  <1>11. CASE UNCHANGED requestVars /\ UNCHANGED streamVars /\ gone' \subseteq Requests
    <2>1. \A r \in Requests : StreamQuiet(r)
      BY <1>11 DEF StreamQuiet, requestVars, streamVars
    <2> QED
      BY <1>5, <1>11, <2>1
  <1>12. ASSUME \/ \E q \in Requests : Disconnect(q)
                \/ \E u \in Uids : RunStep(u)
                \/ MinuteEnds \/ DedupExpires
         PROVE  StreamTypes' /\ \A r \in Requests : StreamInv(r)'
    BY <1>7, <1>11, <1>12 DEF Disconnect, RunStep, MinuteEnds, DedupExpires
  <1>13. CASE Crash
    <2>1. /\ pc' = [r \in Requests |-> IF pc[r] = "new" THEN "new" ELSE "end"]
          /\ answer' = [r \in Requests |-> IF pc[r] \in {"new", "end"} THEN answer[r] ELSE "cut"]
          /\ UNCHANGED streamVars /\ UNCHANGED gone
      BY <1>13 DEF Crash
    <2>2. \A r \in Requests : StreamQuiet(r)
      BY <2>1 DEF StreamQuiet, streamVars
    <2> QED
      BY <1>5, <1>7, <2>1, <2>2
  <1> QED
    BY <1>2, <1>3, <1>4, <1>8, <1>9, <1>10, <1>12, <1>13, StepCases

-----------------------------------------------------------------------------
(***************************************************************************)
(* The theorems.                                                           *)
(***************************************************************************)

\* TypeOK in its parts.
LEMMA TypeParts ==
    TypeOK <=> /\ LimiterTypes /\ StreamTypes /\ dedup \in Requests \cup {None}
               /\ row \in [Uids -> {"absent", "open", "terminal"}]
               /\ work \in [Uids -> {"none", "queued", "running"}]
               /\ lines \in [Uids -> 0 .. MaxLines]
  BY DEF TypeOK, LimiterTypes, StreamTypes

\* The key of SETNX holds a request or nothing.
LEMMA DedupKept ==
    ASSUME dedup \in Requests \cup {None}, Next
    PROVE  dedup' \in Requests \cup {None}
  <1>1. UNCHANGED dedup \/ dedup' = None \/ \E r \in Requests : dedup' = r
    BY StepCases
    DEF LimitIncr, LimitExpire, SetNX, StoreCreate, QueuePush, StreamTaskLog, RerunRequest,
        LimitCheck, CreateRequest, Duplicate, StreamTick, StreamRead, StreamStatus,
        StreamCallFails, Disconnect, StreamLeft, RunStep, MinuteEnds, DedupExpires, Crash
  <1> QED
    BY <1>1

\* At the start no request has been made and there is no log.
LEMMA GatewayStart == Init => GatewayInv
  <1> SUFFICES ASSUME Init PROVE GatewayInv
    OBVIOUS
  <1>1. /\ counter = 0 /\ counted = {} /\ ttl \in BOOLEAN /\ faults = 0
        /\ pc = [r \in Requests |-> "new"] /\ count = [r \in Requests |-> 0]
        /\ answer = [r \in Requests |-> "none"]
    BY DEF Init, LimitInit, FaultsInit
  <1>2. Cardinality(Requests) \in Nat
    BY RequestSets
  <1>3. LimiterTypes
    BY <1>1, <1>2 DEF LimiterTypes
  <1>4. StreamTypes /\ \A r \in Requests : StreamInv(r)
    BY <1>1, LogAssumption, GatewayAssumption DEF Init, StreamTypes, StreamInv
  <1>5. TypeOK
    BY <1>3, <1>4, TypeParts, LogAssumption DEF Init, LogInit
  <1>6. AnswerInv /\ CounterInv
    BY <1>1, FS_EmptySet DEF AnswerInv, CounterInv
  <1>7. LimitInv
    <2>1. Admitted = {}
      BY <1>1 DEF Admitted
    <2> QED
      BY <1>1, <2>1, FS_EmptySet, LimitAssumption DEF LimitInv
  <1>8. FaultsTypeOK
    BY <1>1, MaxFaultsAssumption DEF FaultsTypeOK
  <1> QED
    BY <1>4, <1>5, <1>6, <1>7, <1>8 DEF GatewayInv

\* Every step keeps the invariant.
LEMMA GatewayStep == GatewayInv /\ [Next]_vars => GatewayInv'
  <1> SUFFICES ASSUME GatewayInv, [Next]_vars PROVE GatewayInv'
    OBVIOUS
  <1>1. CASE Next
    <2>1. LimiterInv /\ FaultsTypeOK /\ TypeOK /\ AnswerInv
      BY TypeParts DEF GatewayInv, LimiterInv
    <2>2. LimiterInv'
      BY <1>1, <2>1, LimiterKept
    <2>3. StreamTypes' /\ \A r \in Requests : StreamInv(r)'
      BY <1>1, <2>1, StreamsKept DEF GatewayInv
    <2>4. TypeOK'
      <3>1. /\ row' \in [Uids -> {"absent", "open", "terminal"}]
            /\ work' \in [Uids -> {"none", "queued", "running"}]
            /\ lines' \in [Uids -> 0 .. MaxLines]
        BY <1>1, <2>1, LogsKept
      <3>2. dedup' \in Requests \cup {None}
        BY <1>1, <2>1, DedupKept DEF TypeOK
      <3> QED
        BY <2>2, <2>3, <3>1, <3>2 DEF TypeOK, LimiterInv, LimiterTypes, StreamTypes
    <2> QED
      BY <1>1, <2>1, <2>2, <2>3, <2>4, FaultsKept DEF GatewayInv, LimiterInv
  <1>2. CASE UNCHANGED vars
    BY <1>2
    DEF GatewayInv, TypeOK, FaultsTypeOK, AnswerInv, CounterInv, LimitInv, Admitted, StreamInv,
        AllSent, RunOver, IsTerminal, Trimmed, vars, requestVars, streamVars, limitVars, logVars
  <1> QED
    BY <1>1, <1>2

\* The invariant holds in every reachable state.
LEMMA GatewayInvariant == Spec => []GatewayInv
  BY GatewayStart, GatewayStep, PTL DEF Spec

\* The variables keep their types whatever fails: the counter of Redis counts
\* no request twice, and a stream sends and remembers only IDs that a log can
\* have.
THEOREM GatewayTypes == Spec => []TypeOK
  <1>1. GatewayInv => TypeOK
    BY DEF GatewayInv
  <1> QED
    BY <1>1, GatewayInvariant, PTL

\* However the INCRs, EXPIREs and checks of any number of requests interleave,
\* one life of the counter lets in no more than Limit of those it counted, and
\* one more for each call that failed.
THEOREM LimitHolds == Spec => []WithinLimit
  <1>1. GatewayInv => WithinLimit
    <2> SUFFICES ASSUME GatewayInv PROVE WithinLimit
      OBVIOUS
    <2> DEFINE P == {r \in counted : Passed(r)}
    <2>1. P \subseteq Admitted /\ Admitted \subseteq Requests
      BY DEF GatewayInv, TypeOK, Passed, Admitted
    <2>2. Cardinality(P) <= Cardinality(Admitted) /\ Cardinality(P) \in Nat
          /\ Cardinality(Admitted) \in Nat
      BY <2>1, RequestSets
    <2>3. Cardinality(Admitted) <= Limit + faults
      BY DEF GatewayInv, LimitInv
    <2>4. Limit \in Nat /\ faults \in Nat
      BY LimitAssumption, MaxFaultsAssumption DEF GatewayInv, FaultsTypeOK
    <2>5. Cardinality(P) <= Limit + faults
      <3> HIDE DEF P, Admitted
      <3> QED
        BY <2>2, <2>3, <2>4
    <2> QED
      BY <2>5 DEF WithinLimit
  <1> QED
    BY <1>1, GatewayInvariant, PTL

\* A stream that says done after the run was over has sent every line that
\* Redis had not trimmed, for any length of log, of stream and of Read, and
\* whatever failed on the way.
THEOREM StreamsAreComplete == Spec => []StreamComplete
  <1>1. GatewayInv => StreamComplete
    BY DEF GatewayInv, TypeOK, StreamInv, AllSent, StreamComplete
  <1> QED
    BY <1>1, GatewayInvariant, PTL
=============================================================================
