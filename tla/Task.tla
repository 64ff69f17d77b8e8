-------------------------------- MODULE Task --------------------------------
(***************************************************************************)
(* The task entity of internal/model/task.go: its status machine, its      *)
(* retry budget and the scheduling demand that never changes once the task *)
(* is submitted.  A task struct is a record with the two fields that the   *)
(* control flow of the server reads and writes; the same record stands for *)
(* the row in PostgreSQL, the JSON document in Redis and the copies that   *)
(* goroutines hold.  StartedAt is abstracted: whether the deadline of a    *)
(* running task has passed is a choice made where the code compares it.    *)
(***************************************************************************)
EXTENDS Integers

CONSTANTS
    Tasks,        \* task UIDs
    NoTask,       \* no UID
    MaxRetries,   \* Task.MaxRetries, the same for every task (NewTask)
    CPULimit,     \* Task.CPULimit of each UID; 0 asks for nothing
    MemoryLimit,  \* Task.MemoryLimit of each UID; 0 asks for nothing
    Priority      \* Task.Priority of each UID; 0 is the ordinary queue

ASSUME MaxRetriesAssumption == MaxRetries \in Nat
ASSUME NoTaskAssumption == NoTask \notin Tasks
ASSUME DemandAssumption ==
    /\ CPULimit \in [Tasks -> Nat]
    /\ MemoryLimit \in [Tasks -> Nat]
    /\ Priority \in [Tasks -> Nat]

Status == {"created", "pending", "running", "success", "failed", "canceled"}

IsTerminal(status) == status \in {"success", "failed", "canceled"}

validTransitions ==
    [s \in Status |->
        CASE s = "created" -> {"pending", "canceled"}
          [] s = "pending" -> {"running", "canceled"}
          [] s = "running" -> {"success", "failed", "canceled"}
          [] OTHER         -> {}]

\* A task struct, and the value that stands for a row or document that does
\* not exist.
TaskRecord == [status : Status, retryCount : 0 .. MaxRetries]
Absent == [status |-> "absent", retryCount |-> 0]

NewTask == [status |-> "created", retryCount |-> 0]

CanTransition(task, target) == target \in validTransitions[task.status]
TransitionTo(task, target) == [task EXCEPT !.status = target]

\* Mutant: one retry too many.
CanRetryInclusive(task) == task.retryCount <= MaxRetries

CanRetry(task) == task.retryCount < MaxRetries

\* Mutant: the retry is not counted.
RetriedUncounted(task) == [task EXCEPT !.status = "pending"]

\* What failTask leaves in its copy when it grants a retry: the status is
\* assigned, not passed through TransitionTo, and FinishedAt is cleared.
Retried(task) == [status |-> "pending", retryCount |-> task.retryCount + 1]
=============================================================================
