------------------------------- MODULE Cluster ------------------------------
(***************************************************************************)
(* Several servers over one etcd and one Redis: the election, and the      *)
(* claims that dispatch makes in etcd before it runs a popped task         *)
(* (Scheduler.ClaimTask), against tasks that are queued twice.             *)
(*                                                                         *)
(* The Redis queue is reduced to how many times each task is in it: the    *)
(* movers of two servers may both push a delayed task before either        *)
(* removes it (see RedisQueue for the steps of one mover).  A tick handles *)
(* one popped task at a time.  Slots and the rest of dispatch are modelled *)
(* in Scheduler.  Runs are not followed past the end of their process.     *)
(***************************************************************************)
EXTENDS LeaderElection, FiniteSets

CONSTANTS
    Tasks, NoTask,
    NoServer,
    MaxRetries,   \* bound: failures of a task
    MaxCopies     \* bound: entries of a task in the ready list

ASSUME ClusterAssumption ==
    NoTask \notin Tasks /\ NoServer \notin Servers /\ MaxRetries \in Nat /\ MaxCopies \in Nat \ {0}

VARIABLES
    lease,     \* the claim lease of each process: none when Grant failed
    claims,    \* the keys under /tasks/claimed/: who put each
    copies,    \* entries in the ready list
    delayed,   \* members of the delayed set
    cur,       \* the task that each process's tick popped
    runs,      \* who executes each task
    failures   \* failed runs of each task

claimVars == <<lease, claims, copies, delayed, cur, runs, failures>>
clusterVars == <<electionVars, claimVars, faults>>

Init ==
    /\ ElectionInit /\ FaultsInit
    /\ lease = [s \in Servers |-> "none"]
    /\ claims = [t \in Tasks |-> NoServer]
    /\ copies = [t \in Tasks |-> 1]
    /\ delayed = {}
    /\ cur = [s \in Servers |-> NoTask]
    /\ runs = [t \in Tasks |-> {}]
    /\ failures = [t \in Tasks |-> 0]

\* main: the lease for the claims; without it leaseID stays zero.
GrantLease(s, outcome) ==
    /\ pc[s] = "new" /\ outcome \in {"ok", "error"}
    /\ Attempt(outcome)
    /\ lease' = [lease EXCEPT ![s] = IF outcome = "ok" THEN "live" ELSE "none"]
    /\ pc' = [pc EXCEPT ![s] = "start"]
    /\ UNCHANGED <<isLeader, session, keys, ahead>>
    /\ UNCHANGED <<claims, copies, delayed, cur, runs, failures>>

StartServer(s) ==
    \E outcome \in Outcomes :
        GrantLease(s, outcome) \/ (NewLeaderElection(s, outcome) /\ UNCHANGED claimVars)

(***************************************************************************)
(* The tick of a process in runTickLoop.                                   *)
(***************************************************************************)
Pop(s, t) ==
    /\ pc[s] = "tick" /\ cur[s] = NoTask /\ copies[t] > 0
    /\ copies' = [copies EXCEPT ![t] = @ - 1]
    /\ cur' = [cur EXCEPT ![s] = t]
    /\ UNCHANGED <<lease, claims, delayed, runs, failures, electionVars, faults>>

\* canAllocate refuses: the task is queued again with a delay.
PushBack(s) ==
    /\ cur[s] # NoTask
    /\ delayed' = delayed \cup {cur[s]}
    /\ cur' = [cur EXCEPT ![s] = NoTask]
    /\ UNCHANGED <<lease, claims, copies, runs, failures, electionVars, faults>>

\* Mutant: the key is put without the comparison.
ClaimableBlindly(s) == lease[s] # "expired"

\* What the transaction does when it is applied: it compares, then puts the
\* key under the lease of the process, which must exist.
Claimable(s) == claims[cur[s]] = NoServer /\ lease[s] # "expired"

\* dispatch runs a task that it claimed.  A refusal and an error end dispatch:
\* the popped task is in no queue any more.
ClaimTask(s, outcome) ==
    /\ cur[s] # NoTask
    /\ Attempt(outcome)
    /\ claims' = IF outcome # "error" /\ Claimable(s)
                   THEN [claims EXCEPT ![cur[s]] = s] ELSE claims
    /\ IF outcome = "ok" /\ Claimable(s)
         THEN runs' = [runs EXCEPT ![cur[s]] = @ \cup {s}]
         ELSE UNCHANGED runs
    /\ cur' = [cur EXCEPT ![s] = NoTask]
    /\ UNCHANGED <<lease, copies, delayed, failures, electionVars>>

\* Mutant: CanRetry is not asked.
EndRunRetries(s, t) ==
    /\ s \in runs[t]
    /\ runs' = [runs EXCEPT ![t] = @ \ {s}]
    /\ failures' = [failures EXCEPT ![t] = @ + 1]
    /\ delayed' = delayed \cup {t}
    /\ UNCHANGED <<lease, claims, copies, cur, electionVars, faults>>

\* A run ends; a failed one is retried with a delay.  The claim stays.
EndRun(s, t) ==
    /\ s \in runs[t]
    /\ runs' = [runs EXCEPT ![t] = @ \ {s}]
    /\ \/ UNCHANGED <<delayed, failures>>
       \/ /\ failures[t] < MaxRetries
          /\ failures' = [failures EXCEPT ![t] = @ + 1]
          /\ delayed' = delayed \cup {t}
    /\ UNCHANGED <<lease, claims, copies, cur, electionVars, faults>>

\* moveDelayedLoop of every process: n of them push t before one removes it.
MoveDelayed(t, n) ==
    /\ t \in delayed
    /\ n <= Cardinality({s \in Servers : pc[s] \notin {"new", "off"}})
    /\ copies[t] + n <= MaxCopies
    /\ copies' = [copies EXCEPT ![t] = @ + n]
    /\ delayed' = delayed \ {t}
    /\ UNCHANGED <<lease, claims, cur, runs, failures, electionVars, faults>>

\* Sixty seconds after Grant: the lease of the claims is never renewed.
ClaimLeaseExpires(s) ==
    /\ lease[s] = "live"
    /\ lease' = [lease EXCEPT ![s] = "expired"]
    /\ claims' = [t \in Tasks |-> IF claims[t] = s THEN NoServer ELSE claims[t]]
    /\ UNCHANGED <<copies, delayed, cur, runs, failures, electionVars, faults>>

\* What the process had popped or was running goes with it.
Ends(s) ==
    /\ Crash(s) \/ Shutdown(s)
    /\ cur' = [cur EXCEPT ![s] = NoTask]
    /\ runs' = [t \in Tasks |-> runs[t] \ {s}]
    /\ UNCHANGED <<lease, claims, copies, delayed, failures>>

TickStep(s) == (\E t \in Tasks : Pop(s, t)) \/ (\E outcome \in Outcomes : ClaimTask(s, outcome))

Next ==
    \/ \E s \in Servers :
         \/ StartServer(s)
         \/ ElectionStep(s) /\ UNCHANGED claimVars
         \/ (OrphanExpires(s) \/ SessionExpires(s)) /\ UNCHANGED claimVars
         \/ PushBack(s) \/ TickStep(s)
         \/ \E t \in Tasks : EndRun(s, t)
         \/ ClaimLeaseExpires(s) \/ Ends(s)
    \/ \E t \in Tasks, n \in 1 .. Cardinality(Servers) : MoveDelayed(t, n)

Spec == Init /\ [][Next]_clusterVars

(***************************************************************************)
(* A live process goes on and etcd drops the leases of dead ones.          *)
(***************************************************************************)
FairSpec ==
    /\ Spec
    /\ \A s \in Servers :
         /\ WF_clusterVars(ElectionStep(s) /\ UNCHANGED claimVars)
         /\ WF_clusterVars(OrphanExpires(s) /\ UNCHANGED claimVars)

-----------------------------------------------------------------------------
TypeOK ==
    /\ ElectionTypeOK /\ FaultsTypeOK
    /\ lease \in [Servers -> {"none", "live", "expired"}]
    /\ claims \in [Tasks -> Servers \cup {NoServer}]
    /\ copies \in [Tasks -> 0 .. MaxCopies]
    /\ delayed \subseteq Tasks
    /\ cur \in [Servers -> Tasks \cup {NoTask}]
    /\ runs \in [Tasks -> SUBSET Servers]
    /\ failures \in [Tasks -> 0 .. MaxRetries]

\* However often a task is queued, two schedulers execute it at once only
\* when the lease of the first one's claim has run out.
OneRunner ==
    \A t \in Tasks : \A s, q \in runs[t] :
        s # q => "expired" \in {lease[s], lease[q]}
=============================================================================
