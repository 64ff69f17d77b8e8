------------------------------ MODULE LogStream -----------------------------
(***************************************************************************)
(* The log of a task: the Redis stream of internal/logstream/logstream.go, *)
(* which Executor.Run fills while the task runs, and what the reader sees  *)
(* of the row meanwhile (MiniBK has the steps of the runs and of           *)
(* CancelTask).  Lines are numbered in the order of their entries; stdout  *)
(* and stderr share the numbering.  XADD trims the stream to its newest    *)
(* MaxLen entries.                                                         *)
(***************************************************************************)
EXTENDS Faults

CONSTANTS
    Uids,
    MaxLen,      \* MaxLen of XADD
    ReadCount,   \* COUNT of XREAD
    MaxLines     \* bound: lines that a task writes

ASSUME LogAssumption == MaxLen \in Nat /\ ReadCount \in Nat \ {0} /\ MaxLines \in Nat

VARIABLES
    row,     \* the row of each task: none, with an open status or a terminal one
    work,    \* the task is in the queue, runs, or neither
    lines    \* entries ever appended to its stream

logVars == <<row, work, lines>>

IsTerminal(u) == row[u] = "terminal"

LogInit ==
    /\ row = [u \in Uids |-> "absent"]
    /\ work = [u \in Uids |-> "none"]
    /\ lines = [u \in Uids |-> 0]

\* dispatch writes the row whatever it says.
StartRun(u) ==
    /\ work[u] = "queued"
    /\ work' = [work EXCEPT ![u] = "running"]
    /\ row' = [row EXCEPT ![u] = "open"]
    /\ UNCHANGED <<lines, faults>>

\* streamOutput logs the error of a failed Append and goes on.
AppendLine(u, outcome) ==
    /\ work[u] = "running" /\ lines[u] < MaxLines
    /\ Attempt(outcome)
    /\ lines' = [lines EXCEPT ![u] = IF outcome = "error" THEN @ ELSE @ + 1]
    /\ UNCHANGED <<row, work>>

\* Run waits for the output; completeTask then writes the row, or queues a
\* retry, whatever the row says.
EndRun(u) ==
    /\ work[u] = "running"
    /\ \/ work' = [work EXCEPT ![u] = "none"] /\ row' = [row EXCEPT ![u] = "terminal"]
       \/ work' = [work EXCEPT ![u] = "queued"] /\ row' = [row EXCEPT ![u] = "open"]
    /\ UNCHANGED <<lines, faults>>

\* CancelTask writes the row; the process and its output end later.
CancelTask(u) ==
    /\ row[u] = "open"
    /\ row' = [row EXCEPT ![u] = "terminal"]
    /\ UNCHANGED <<work, lines, faults>>

Trimmed(u) == {l \in 1 .. MaxLines : l + MaxLen <= lines[u]}

\* XREAD: the oldest entries after lastID.
Entries(u, lastID) ==
    LET new == {l \in 1 .. lines[u] : l > lastID} \ Trimmed(u)
    IN  {l \in new : \A m \in new : l < m + ReadCount}
=============================================================================
