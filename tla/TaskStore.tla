----------------------------- MODULE TaskStore -----------------------------
(***************************************************************************)
(* The tasks table of PostgreSQL as internal/store/task_store.go uses it.  *)
(* Every statement is atomic and nothing joins two statements: there is no *)
(* transaction, no version column and no condition on the old status, so   *)
(* Update overwrites the whole row with whatever copy its caller holds.    *)
(***************************************************************************)
EXTENDS Task, Faults

VARIABLE rows

StoreTypeOK == rows \in [Tasks -> TaskRecord \cup {Absent}]

StoreInit == rows = [t \in Tasks |-> Absent]

Exists(t) == rows[t] # Absent

Create(t, task, outcome) ==
    /\ Attempt(outcome)
    /\ rows' = IF outcome = "error" THEN rows ELSE [rows EXCEPT ![t] = task]

Update(t, task, outcome) ==
    /\ Attempt(outcome)
    /\ rows' = IF outcome = "error" THEN rows ELSE [rows EXCEPT ![t] = task]

GetByUID(t) == rows[t]

GetRunningTasks == {t \in Tasks : rows[t].status = "running"}
=============================================================================
