--------------------------- MODULE ClusterProofs ----------------------------
(***************************************************************************)
(* For any set of servers and tasks and any number of faults: at most one  *)
(* process leads, and the claims in etcd keep two schedulers from running  *)
(* a task at once until the lease of the first claim is gone.              *)
(*                                                                         *)
(* Neither property is inductive.  That the leader is alone rests on the   *)
(* keys: of two keys one was put before the other and holds it back, and a *)
(* leader with a session has a key that nothing holds back.  That a task   *)
(* runs once rests on the claim a run with a lease still has in etcd.      *)
(***************************************************************************)
EXTENDS Cluster, TLAPS

\* Of two keys one waits for the other; the key of a live leader waits for none.
KeysInv ==
    /\ \A s \in keys : session[s] = "live"
    /\ \A s, q \in keys : s # q => s \in ahead[q] \/ q \in ahead[s]
    /\ \A s \in Servers : session[s] = "live" /\ pc[s] \in {"candidate", "leader"} => s \in keys
    /\ \A s \in isLeader : pc[s] = "leader"
    /\ \A s \in isLeader : session[s] = "live" => ahead[s] = {}
    /\ \A s \in Servers : pc[s] \in {"new", "start"} => session[s] = "none"

\* A run has its claim until the lease is gone; a lease is granted once.
ClaimsInv ==
    /\ \A t \in Tasks : \A s \in runs[t] : lease[s] # "expired" => claims[t] = s
    /\ \A s \in Servers : pc[s] = "new" => lease[s] = "none"

IInv == TypeOK /\ KeysInv /\ ClaimsInv

\* The two invariants give the properties.
LEMMA InvImplies == IInv => OneLeader /\ OneRunner
  <1>1. ASSUME IInv PROVE OneLeader
    BY <1>1 DEF IInv, TypeOK, ElectionTypeOK, KeysInv, OneLeader, Leads
  <1>2. ASSUME IInv PROVE OneRunner
    BY <1>2 DEF IInv, TypeOK, ClaimsInv, OneRunner
  <1> QED BY <1>1, <1>2

\* Before any process has started there is no key, no claim and no run.
LEMMA InitInv == Init => IInv
  BY ClusterAssumption, MaxFaultsAssumption
  DEF Init, ElectionInit, FaultsInit, IInv, TypeOK, ElectionTypeOK, FaultsTypeOK, Pcs, KeysInv,
      ClaimsInv

\* No step of the election or of etcd disturbs the keys.
LEMMA ElectionKeepsKeys ==
    ASSUME IInv, NEW s \in Servers,
           ElectionStep(s) \/ OrphanExpires(s) \/ SessionExpires(s) \/ Crash(s) \/ Shutdown(s)
           \/ \E outcome \in Outcomes : NewLeaderElection(s, outcome)
    PROVE  ElectionTypeOK' /\ FaultsTypeOK' /\ KeysInv'
  <1> USE DEF IInv, TypeOK, ElectionTypeOK, FaultsTypeOK, Pcs, KeysInv, Attempt, Fault
  <1> USE MaxFaultsAssumption
  <1>1. CASE Campaign(s)
    BY <1>1 DEF Campaign, PutKey
  <1>2. CASE CampaignFails(s)
    BY <1>2 DEF CampaignFails, PutKey
  <1>3. CASE Elected(s)
    BY <1>3 DEF Elected
  <1>4. CASE SessionDone(s)
    BY <1>4 DEF SessionDone
  <1>5. CASE CampaignAgain(s)
    BY <1>5 DEF CampaignAgain
  <1>6. CASE OrphanExpires(s)
    BY <1>6 DEF OrphanExpires, Revoke
  <1>7. CASE SessionExpires(s)
    BY <1>7 DEF SessionExpires, Revoke
  <1>8. CASE Crash(s)
    BY <1>8 DEF Crash, Crashed
  <1>9. CASE Shutdown(s)
    <2>1. CASE session[s] = "live"
      BY <1>9, <2>1 DEF Shutdown, Crashed, Revoke
    <2>2. CASE session[s] # "live"
      BY <1>9, <2>2 DEF Shutdown, Crashed
    <2> QED BY <2>1, <2>2
  <1>10. CASE \E outcome \in Outcomes : NewLeaderElection(s, outcome)
    <2> PICK outcome \in Outcomes : NewLeaderElection(s, outcome)
      BY <1>10
    <2>1. ElectionTypeOK' /\ FaultsTypeOK'
      BY DEF NewLeaderElection
    <2>2. KeysInv'
      BY DEF NewLeaderElection
    <2> QED BY <2>1, <2>2
  <1> QED BY <1>1, <1>2, <1>3, <1>4, <1>5, <1>6, <1>7, <1>8, <1>9, <1>10 DEF ElectionStep

\* A process that has started does not go back to before its start.
LEMMA NeverNewAgain ==
    ASSUME IInv, NEW s \in Servers, NEW q \in Servers, pc'[q] = "new",
           ElectionStep(s) \/ OrphanExpires(s) \/ SessionExpires(s) \/ Crash(s) \/ Shutdown(s)
           \/ \E outcome \in Outcomes : NewLeaderElection(s, outcome)
    PROVE  pc[q] = "new"
  BY DEF IInv, TypeOK, ElectionTypeOK, ElectionStep, Campaign, CampaignFails, Elected, SessionDone,
         CampaignAgain, OrphanExpires, SessionExpires, Crash, Shutdown, Crashed, NewLeaderElection

\* Steps that leave the claims alone keep what is said of them.
LEMMA ClaimsUntouched ==
    ASSUME IInv, UNCHANGED claimVars, \A q \in Servers : pc'[q] = "new" => pc[q] = "new"
    PROVE  /\ ClaimsInv'
           /\ (lease \in [Servers -> {"none", "live", "expired"}])'
           /\ (claims \in [Tasks -> Servers \cup {NoServer}])'
           /\ (copies \in [Tasks -> 0 .. MaxCopies])'
           /\ (delayed \subseteq Tasks)'
           /\ (cur \in [Servers -> Tasks \cup {NoTask}])'
           /\ (runs \in [Tasks -> SUBSET Servers])'
           /\ (failures \in [Tasks -> 0 .. MaxRetries])'
  BY DEF IInv, TypeOK, ClaimsInv, claimVars

\* Steps that leave the election alone keep what is said of it.
LEMMA ElectionUntouched ==
    ASSUME IInv, UNCHANGED electionVars
    PROVE  ElectionTypeOK' /\ KeysInv'
  BY DEF IInv, TypeOK, ElectionTypeOK, KeysInv, electionVars

\* Every step keeps the invariant.
LEMMA NextInv == IInv /\ [Next]_clusterVars => IInv'
  <1> SUFFICES ASSUME IInv, [Next]_clusterVars PROVE IInv'
    OBVIOUS
  <1> USE ClusterAssumption, MaxFaultsAssumption
  <1>1. ASSUME NEW s \in Servers,
               \/ ElectionStep(s) /\ UNCHANGED claimVars
               \/ (OrphanExpires(s) \/ SessionExpires(s)) /\ UNCHANGED claimVars
               \/ \E outcome \in Outcomes : NewLeaderElection(s, outcome) /\ UNCHANGED claimVars
        PROVE  IInv'
    <2>1. ElectionTypeOK' /\ FaultsTypeOK' /\ KeysInv'
      BY <1>1, ElectionKeepsKeys
    <2>2. \A q \in Servers : pc'[q] = "new" => pc[q] = "new"
      BY <1>1, NeverNewAgain
    <2> QED BY <1>1, <2>1, <2>2, ClaimsUntouched DEF IInv, TypeOK
  <1>2. ASSUME NEW s \in Servers, NEW outcome \in Outcomes, GrantLease(s, outcome)
        PROVE  IInv'
    <2>1. ElectionTypeOK' /\ FaultsTypeOK' /\ KeysInv'
      BY <1>2 DEF GrantLease, IInv, TypeOK, ElectionTypeOK, FaultsTypeOK, Pcs, KeysInv, Attempt, Fault
    <2>2. TypeOK'
      BY <1>2, <2>1 DEF GrantLease, IInv, TypeOK
    <2>3. ClaimsInv'
      BY <1>2 DEF GrantLease, IInv, TypeOK, ElectionTypeOK, ClaimsInv
    <2> QED BY <2>1, <2>2, <2>3 DEF IInv
  <1>3. ASSUME NEW s \in Servers, NEW t \in Tasks, Pop(s, t)
        PROVE  IInv'
    <2>1. TypeOK'
      BY <1>3, ElectionUntouched DEF Pop, IInv, TypeOK, FaultsTypeOK
    <2>2. ClaimsInv'
      BY <1>3 DEF Pop, IInv, ClaimsInv, electionVars
    <2> QED BY <1>3, <2>1, <2>2, ElectionUntouched DEF Pop, IInv
  <1>4. ASSUME NEW s \in Servers, PushBack(s)
        PROVE  IInv'
    <2>1. TypeOK'
      BY <1>4, ElectionUntouched DEF PushBack, IInv, TypeOK, FaultsTypeOK
    <2>2. ClaimsInv'
      BY <1>4 DEF PushBack, IInv, ClaimsInv, electionVars
    <2> QED BY <1>4, <2>1, <2>2, ElectionUntouched DEF PushBack, IInv
  <1>5. ASSUME NEW s \in Servers, NEW outcome \in Outcomes, ClaimTask(s, outcome)
        PROVE  IInv'
    <2>1. cur[s] \in Tasks
      BY <1>5 DEF ClaimTask, IInv, TypeOK
    <2>2. FaultsTypeOK'
      BY <1>5 DEF ClaimTask, IInv, TypeOK, FaultsTypeOK, Attempt, Fault
    <2>3. TypeOK'
      BY <1>5, <2>1, <2>2, ElectionUntouched DEF ClaimTask, IInv, TypeOK
    <2>4. ASSUME NEW t \in Tasks, NEW q \in runs'[t], lease'[q] # "expired"
          PROVE  claims'[t] = q
      <3>1. q \in Servers /\ lease' = lease
        BY <1>5, <2>3 DEF ClaimTask, TypeOK
      <3>2. CASE q \in runs[t]
        <4>1. claims[t] = q
          BY <2>4, <3>1, <3>2 DEF IInv, ClaimsInv
        <4>2. ~(t = cur[s] /\ Claimable(s))
          BY <3>1, <4>1 DEF Claimable
        <4> QED BY <1>5, <2>1, <4>1, <4>2 DEF ClaimTask, IInv, TypeOK
      <3>3. CASE q \notin runs[t]
        BY <1>5, <2>1, <2>4, <3>3 DEF ClaimTask, IInv, TypeOK
      <3> QED BY <3>2, <3>3
    <2>5. ClaimsInv'
      BY <1>5, <2>4 DEF ClaimTask, IInv, ClaimsInv, electionVars
    <2> QED BY <1>5, <2>3, <2>5, ElectionUntouched DEF ClaimTask, IInv
  <1>6. ASSUME NEW s \in Servers, NEW t \in Tasks, EndRun(s, t)
        PROVE  IInv'
    <2>1. TypeOK'
      BY <1>6, ElectionUntouched DEF EndRun, IInv, TypeOK, FaultsTypeOK
    <2>2. ClaimsInv'
      BY <1>6 DEF EndRun, IInv, TypeOK, ClaimsInv, electionVars
    <2> QED BY <1>6, <2>1, <2>2, ElectionUntouched DEF EndRun, IInv
  <1>7. ASSUME NEW s \in Servers, ClaimLeaseExpires(s)
        PROVE  IInv'
    <2>1. TypeOK'
      BY <1>7, ElectionUntouched DEF ClaimLeaseExpires, IInv, TypeOK, FaultsTypeOK
    <2>2. ClaimsInv'
      BY <1>7 DEF ClaimLeaseExpires, IInv, TypeOK, ClaimsInv, electionVars
    <2> QED BY <1>7, <2>1, <2>2, ElectionUntouched DEF ClaimLeaseExpires, IInv
  <1>8. ASSUME NEW s \in Servers, Ends(s)
        PROVE  IInv'
    <2>1. ElectionTypeOK' /\ FaultsTypeOK' /\ KeysInv'
      BY <1>8, ElectionKeepsKeys DEF Ends
    <2>2. \A q \in Servers : pc'[q] = "new" => pc[q] = "new"
      BY <1>8, NeverNewAgain DEF Ends
    <2>3. TypeOK'
      BY <1>8, <2>1 DEF Ends, IInv, TypeOK
    <2>4. ClaimsInv'
      BY <1>8, <2>2 DEF Ends, IInv, TypeOK, ClaimsInv
    <2> QED BY <2>1, <2>3, <2>4 DEF IInv
  <1>9. ASSUME NEW t \in Tasks, NEW n \in 1 .. Cardinality(Servers), MoveDelayed(t, n)
        PROVE  IInv'
    <2>1. TypeOK'
      BY <1>9, ElectionUntouched DEF MoveDelayed, IInv, TypeOK, FaultsTypeOK
    <2>2. ClaimsInv'
      BY <1>9 DEF MoveDelayed, IInv, ClaimsInv, electionVars
    <2> QED BY <1>9, <2>1, <2>2, ElectionUntouched DEF MoveDelayed, IInv
  <1>10. CASE UNCHANGED clusterVars
    BY <1>10, ClaimsUntouched, ElectionUntouched
    DEF clusterVars, electionVars, IInv, TypeOK, FaultsTypeOK
  <1> QED
    BY <1>1, <1>2, <1>3, <1>4, <1>5, <1>6, <1>7, <1>8, <1>9, <1>10
    DEF Next, StartServer, TickStep

\* Whatever fails and however many servers there are, at most one of them
\* leads (LeaderElection.Campaign and the sessions of etcd).
THEOREM LeaderIsAlone == Spec => []OneLeader
  BY InitInv, NextInv, InvImplies, PTL DEF Spec

\* However often a task is queued, dispatch runs it on two schedulers at once
\* only after the lease of a claim has run out (Scheduler.ClaimTask).
THEOREM ClaimIsExclusive == Spec => []OneRunner
  BY InitInv, NextInv, InvImplies, PTL DEF Spec

\* In every behaviour of the servers every variable has its type; no task is
\* retried more often than its limit.
THEOREM ClusterTypes == Spec => []TypeOK
  <1>1. IInv => TypeOK
    BY DEF IInv
  <1> QED BY <1>1, InitInv, NextInv, PTL DEF Spec
=============================================================================
