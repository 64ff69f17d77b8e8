--------------------------- MODULE LeaderElection ---------------------------
(***************************************************************************)
(* The election of internal/election/election.go and the loop of           *)
(* Scheduler.Start that campaigns, over the sessions and keys of etcd.     *)
(*                                                                         *)
(* etcd and its concurrency package are external: a session is a lease     *)
(* that its process keeps alive; election.Campaign puts a key under that   *)
(* lease and returns when the keys put before it are gone; a lease that    *)
(* expired takes its key along and can hold no other.  A process starts    *)
(* once: a restarted server is another member of Servers, with a session   *)
(* of its own (schedulerID and the session are made anew).                 *)
(***************************************************************************)
EXTENDS Faults

CONSTANT Servers

VARIABLES
    pc,         \* where the scheduler of each process is
    isLeader,   \* processes whose isLeader flag is set
    session,    \* the lease of each session, as etcd has it
    keys,       \* processes with a key under /mini-bk/election
    ahead       \* the earlier keys each candidate waits for

electionVars == <<pc, isLeader, session, keys, ahead>>

\* "new": not started.  "start": main is on the way to NewLeaderElection.
\* "campaign": about to call Campaign.  "candidate": in election.Campaign.
\* "leader": in <-session.Done().  "sleep": the two seconds after an error.
\* "tick": in runTickLoop.  "off": ended.
Pcs == {"new", "start", "campaign", "candidate", "leader", "sleep", "tick", "off"}

ElectionTypeOK ==
    /\ pc \in [Servers -> Pcs]
    /\ isLeader \subseteq Servers
    /\ session \in [Servers -> {"none", "live", "expired"}]
    /\ keys \subseteq Servers
    /\ ahead \in [Servers -> SUBSET Servers]

ElectionInit ==
    /\ pc = [s \in Servers |-> "new"]
    /\ isLeader = {}
    /\ session = [s \in Servers |-> "none"]
    /\ keys = {}
    /\ ahead = [s \in Servers |-> {}]

\* main: the session is made and Start runs the election loop; or it is not,
\* and the scheduler runs alone, as if there were no other.
NewLeaderElection(s, outcome) ==
    /\ pc[s] = "start" /\ outcome \in {"ok", "error"}
    /\ Attempt(outcome)
    /\ session' = [session EXCEPT ![s] = IF outcome = "ok" THEN "live" ELSE "none"]
    /\ pc' = [pc EXCEPT ![s] = IF outcome = "ok" THEN "campaign" ELSE "tick"]
    /\ UNCHANGED <<isLeader, keys, ahead>>

\* A key that is there already keeps its place.
PutKey(s) ==
    /\ keys' = keys \cup {s}
    /\ ahead' = IF s \in keys THEN ahead ELSE [ahead EXCEPT ![s] = keys]

\* Mutant: the earlier keys are not waited for.
CampaignAtOnce(s) ==
    /\ pc[s] = "campaign" /\ session[s] = "live"
    /\ keys' = keys \cup {s}
    /\ pc' = [pc EXCEPT ![s] = "candidate"]
    /\ UNCHANGED <<isLeader, session, ahead, faults>>

Campaign(s) ==
    /\ pc[s] = "campaign" /\ session[s] = "live"
    /\ PutKey(s)
    /\ pc' = [pc EXCEPT ![s] = "candidate"]
    /\ UNCHANGED <<isLeader, session, faults>>

\* The put fails: the lease of the session is gone (and stays so: the
\* LeaderElection keeps its first session), or no answer comes from etcd,
\* which may have the key.
CampaignFails(s) ==
    /\ pc[s] = "campaign"
    /\ \/ session[s] = "expired" /\ UNCHANGED <<keys, ahead, faults>>
       \/ session[s] = "live" /\ Fault /\ (PutKey(s) \/ UNCHANGED <<keys, ahead>>)
    /\ isLeader' = isLeader \ {s}
    /\ pc' = [pc EXCEPT ![s] = "sleep"]
    /\ UNCHANGED session

\* election.Campaign returns when no earlier key is left; it does not look
\* whether its own key is still there.
Elected(s) ==
    /\ pc[s] = "candidate" /\ ahead[s] = {}
    /\ isLeader' = isLeader \cup {s}
    /\ pc' = [pc EXCEPT ![s] = "leader"]
    /\ UNCHANGED <<session, keys, ahead, faults>>

\* Done is closed; Campaign returns an error, so Start sleeps.  Campaign has
\* no other return after an election: runTickLoop is not reached from here.
SessionDone(s) ==
    /\ pc[s] = "leader" /\ session[s] = "expired"
    /\ isLeader' = isLeader \ {s}
    /\ pc' = [pc EXCEPT ![s] = "sleep"]
    /\ UNCHANGED <<session, keys, ahead, faults>>

\* Mutant: an error ends the loop.
CampaignNoMore(s) ==
    /\ FALSE
    /\ UNCHANGED <<electionVars, faults>>

CampaignAgain(s) ==
    /\ pc[s] = "sleep"
    /\ pc' = [pc EXCEPT ![s] = "campaign"]
    /\ UNCHANGED <<isLeader, session, keys, ahead, faults>>

(***************************************************************************)
(* etcd.                                                                   *)
(***************************************************************************)

\* The lease ends and its key is deleted; the candidates behind it see that.
Revoke(s) ==
    /\ session[s] = "live"
    /\ session' = [session EXCEPT ![s] = "expired"]
    /\ keys' = keys \ {s}
    /\ ahead' = [q \in Servers |-> ahead[q] \ {s}]

\* The lease of a process that is gone is not kept alive.
OrphanExpires(s) ==
    /\ pc[s] = "off"
    /\ Revoke(s)
    /\ UNCHANGED <<pc, isLeader, faults>>

\* A process that lives is cut off from etcd for longer than the TTL.
SessionExpires(s) ==
    /\ pc[s] # "off"
    /\ Revoke(s)
    /\ Fault
    /\ UNCHANGED <<pc, isLeader>>

Crashed(s) ==
    /\ pc[s] \notin {"new", "off"}
    /\ pc' = [pc EXCEPT ![s] = "off"]
    /\ isLeader' = isLeader \ {s}

Crash(s) ==
    /\ Crashed(s)
    /\ Fault
    /\ UNCHANGED <<session, keys, ahead>>

\* A graceful end: Close revokes the lease of the session.
Shutdown(s) ==
    /\ Crashed(s)
    /\ IF session[s] = "live" THEN Revoke(s) ELSE UNCHANGED <<session, keys, ahead>>
    /\ UNCHANGED faults

ElectionStep(s) ==
    Campaign(s) \/ CampaignFails(s) \/ Elected(s) \/ SessionDone(s) \/ CampaignAgain(s)

-----------------------------------------------------------------------------
Leads(s) == s \in isLeader /\ session[s] = "live"

\* No two processes lead at once: a second one may still think it does, but
\* only while it has not noticed that its session is gone.
OneLeader == \A s, q \in Servers : Leads(s) /\ Leads(q) => s = q

\* A process that campaigns and has a session.
Running(s) == pc[s] \in {"campaign", "candidate", "sleep"} /\ session[s] = "live"

\* As long as somebody campaigns with a session, somebody leads in the end:
\* neither the key of a leader that died or was cut off nor a call that
\* failed stays in the way.
LeaderReplaced ==
    (\E s \in Servers : Running(s)) ~> (\E s \in Servers : Leads(s)) \/ ~(\E s \in Servers : Running(s))

\* docs/context.md: the one who wins the election executes the scheduling.
LeaderSchedules == \A s \in Servers : Leads(s) ~> pc[s] = "tick" \/ ~Leads(s)
=============================================================================
