---------------------------- MODULE NodeManager ----------------------------
(***************************************************************************)
(* The life of agent nodes: internal/nodemanager/manager.go, called by the *)
(* gRPC server (Register, Heartbeat) and by the HTTP API (Drain, Uncordon),*)
(* with its offline checker (deployment without etcd) or its etcd watcher  *)
(* (deployment with etcd: etcdClient).  The scheduler places tasks on the  *)
(* nodes that are in the cache onlineNodes with status online.             *)
(*                                                                         *)
(* An agent registers once, under a new node ID, and heartbeats until it   *)
(* dies; one heartbeat and one administrator's request per node are        *)
(* handled at a time.  What m.mu protects is one step.  Labels and         *)
(* resource figures are left out.                                          *)
(***************************************************************************)
EXTENDS NodeStore

VARIABLES
    etcdClient,    \* whether the deployment has etcd; never changes
    nodeWatch,     \* the goroutine of StartNodeWatcher: "none" without etcd,
                   \* "starting", "open", or "ended" with its channel
    onlineNodes,   \* the cache: node ID -> node
    watchers,      \* node ID -> lease: live and holding the key ("keyed"),
                   \* live without it ("bare"), or "expired"
    etcdKeys,      \* nodes whose key /nodes/<id>/status exists
    deleted,       \* deletions of keys the watcher has yet to handle
    agents,        \* where each agent is
    hb,            \* the heartbeat being handled for each node
    admin,         \* the DrainNode or UncordonNode request being handled
    heard,         \* history: the server heard of the node in the last 30 s
    drained,       \* history: a drain returned without an error and with the
                   \* cached node drained; no uncordon was requested since
    touched        \* history: an administrator's request was made

etcdVars == <<etcdClient, nodeWatch, watchers, etcdKeys, deleted>>
nodeVars == <<nodeRows, faults, onlineNodes, etcdVars, agents, hb, admin,
              heard, drained, touched>>

NoNode == NoRow
Cached(n) == onlineNodes[n] # NoNode

\* A handler with nothing to do; the struct shared with the cache.
IdleHb == [pc |-> "idle", node |-> NoNode]
NoAdmin == [pc |-> "none", status |-> "none", node |-> NoNode]
Shared == [status |-> "shared", seen |-> "nil"]

NodesTypeOK ==
    /\ NodeStoreTypeOK /\ FaultsTypeOK
    /\ onlineNodes \in [Nodes -> Node \cup {NoNode}]
    /\ etcdClient \in BOOLEAN /\ nodeWatch \in {"none", "starting", "open", "ended"}
    /\ watchers \in [Nodes -> {"none", "keyed", "bare", "expired"}]
    /\ etcdKeys \subseteq Nodes /\ deleted \subseteq Nodes
    /\ agents \in [Nodes -> {"none", "lease", "cache", "up", "dead"}]
    /\ hb \in [Nodes -> [pc : {"idle", "lease", "keep", "recover", "store"},
                         node : Node \cup {NoNode}]]
    /\ admin \in [Nodes -> [pc : {"none", "read", "eval", "write"},
                            status : {"none", "drain", "online"},
                            node : Node \cup {NoNode, Shared}]]
    /\ heard \subseteq Nodes /\ drained \subseteq Nodes /\ touched \subseteq Nodes

\* What StartNodeWatcher leaves behind when a server starts.
NewWatch == IF etcdClient THEN "starting" ELSE "none"

NodesInit ==
    /\ NodeStoreInit /\ FaultsInit
    /\ onlineNodes = [n \in Nodes |-> NoNode]
    /\ etcdClient \in BOOLEAN /\ nodeWatch = NewWatch
    /\ watchers = [n \in Nodes |-> "none"]
    /\ etcdKeys = {} /\ deleted = {}
    /\ agents = [n \in Nodes |-> "none"]
    /\ hb = [n \in Nodes |-> IdleHb]
    /\ admin = [n \in Nodes |-> NoAdmin]
    /\ heard = {} /\ drained = {} /\ touched = {}

-----------------------------------------------------------------------------
(***************************************************************************)
(* Register: the row, the lease and the key, the cache.  The agent exits   *)
(* when it gets no answer.                                                 *)
(***************************************************************************)
SetAgent(n, pc) == agents' = [agents EXCEPT ![n] = pc]

\* Mutant: the error of Create is not checked.
RegisterUnchecked(n) ==
    /\ agents[n] = "none"
    /\ \E outcome \in Outcomes : CreateNode(n, NewNode, outcome)
    /\ SetAgent(n, IF etcdClient THEN "lease" ELSE "cache")
    /\ heard' = heard \cup {n}
    /\ UNCHANGED <<onlineNodes, etcdVars, hb, admin, drained, touched>>

Register(n) ==
    /\ agents[n] = "none"
    /\ \E outcome \in Outcomes :
         /\ CreateNode(n, NewNode, outcome)
         /\ SetAgent(n, IF outcome # "ok" THEN "dead" ELSE IF etcdClient THEN "lease" ELSE "cache")
    /\ heard' = heard \cup {n}
    /\ UNCHANGED <<onlineNodes, etcdVars, hb, admin, drained, touched>>

\* Mutant: the lease is not remembered.
RegisterLeaseForgotten(n) ==
    /\ agents[n] = "lease"
    /\ etcdKeys' = etcdKeys \cup {n}
    /\ SetAgent(n, "cache")
    /\ UNCHANGED <<etcdClient, nodeWatch, nodeRows, faults, onlineNodes, watchers, deleted, hb,
                   admin, heard, drained, touched>>

RegisterLease(n) ==
    /\ agents[n] = "lease"
    /\ \E outcome \in Outcomes :
         /\ Attempt(outcome)
         /\ etcdKeys' = IF outcome = "error" THEN etcdKeys ELSE etcdKeys \cup {n}
         /\ watchers' = IF outcome = "ok" THEN [watchers EXCEPT ![n] = "keyed"] ELSE watchers
         /\ SetAgent(n, IF outcome = "ok" THEN "cache" ELSE "dead")
    /\ UNCHANGED <<etcdClient, nodeWatch, nodeRows, onlineNodes, deleted, hb, admin, heard,
                   drained, touched>>

RegisterCache(n) ==
    /\ agents[n] = "cache"
    /\ onlineNodes' = [onlineNodes EXCEPT ![n] = NewNode]
    /\ \/ SetAgent(n, "up") /\ UNCHANGED faults
       \/ SetAgent(n, "dead") /\ Fault   \* the answer is lost
    /\ UNCHANGED <<nodeRows, etcdVars, hb, admin, heard, drained, touched>>

-----------------------------------------------------------------------------
(***************************************************************************)
(* Heartbeat.  A node in the cache becomes online, whatever its status     *)
(* was, and its lease is renewed or, without etcd and when that fails, its *)
(* row is.  A node that is not in the cache is put there as its row is.    *)
(***************************************************************************)
SetHb(n, pc, node) == hb' = [hb EXCEPT ![n] = [pc |-> pc, node |-> node]]

Heartbeat(n) ==
    /\ agents[n] = "up" /\ hb[n] = IdleHb
    /\ Cached(n)
    /\ onlineNodes' = [onlineNodes EXCEPT ![n] = [status |-> "online", seen |-> "fresh"]]
    /\ SetHb(n, IF etcdClient THEN "lease" ELSE "store", NoNode)
    /\ heard' = heard \cup {n}
    /\ UNCHANGED <<nodeRows, faults, etcdVars, agents, admin, drained, touched>>

\* A lease that is missing is granted again, without a key.
HeartbeatLease(n) ==
    /\ hb[n].pc = "lease"
    /\ \/ /\ watchers[n] # "none"
          /\ SetHb(n, "keep", NoNode)
          /\ UNCHANGED <<watchers, faults>>
       \/ /\ watchers[n] = "none"
          /\ watchers' = [watchers EXCEPT ![n] = "bare"]
          /\ SetHb(n, "keep", NoNode)
          /\ UNCHANGED faults
       \/ /\ watchers[n] = "none"
          /\ Fault
          /\ hb' = [hb EXCEPT ![n] = IdleHb]
          /\ UNCHANGED watchers
    /\ UNCHANGED <<etcdClient, nodeWatch, nodeRows, onlineNodes, etcdKeys, deleted, agents,
                   admin, heard, drained, touched>>

\* KeepAliveOnce.  A lease that markOffline forgot meanwhile has expired or,
\* when it is one that was granted again, may still be live.
HeartbeatKeepAlive(n) ==
    /\ hb[n].pc = "keep"
    /\ \/ /\ watchers[n] # "expired"
          /\ hb' = [hb EXCEPT ![n] = IdleHb]
          /\ UNCHANGED faults
       \/ /\ watchers[n] \in {"expired", "none"}
          /\ SetHb(n, "store", NoNode)
          /\ UNCHANGED faults
       \/ Fault /\ SetHb(n, "store", NoNode)
    /\ UNCHANGED <<nodeRows, onlineNodes, etcdVars, agents, admin, heard, drained, touched>>

\* A reading that fails ends the heartbeat.
HeartbeatRead(n) ==
    /\ agents[n] = "up" /\ hb[n] = IdleHb
    /\ ~Cached(n)
    /\ GetByNodeID(n) # NoRow
    /\ SetHb(n, "recover", GetByNodeID(n))
    /\ heard' = heard \cup {n}
    /\ UNCHANGED <<nodeRows, faults, onlineNodes, etcdVars, agents, admin, drained, touched>>

HeartbeatRecover(n) ==
    /\ hb[n].pc = "recover"
    /\ onlineNodes' = [onlineNodes EXCEPT ![n] = hb[n].node]
    /\ SetHb(n, "store", NoNode)
    /\ UNCHANGED <<nodeRows, faults, etcdVars, agents, admin, heard, drained, touched>>

HeartbeatStore(n) ==
    /\ hb[n].pc = "store"
    /\ \E outcome \in Outcomes : UpdateHeartbeat(n, outcome)
    /\ hb' = [hb EXCEPT ![n] = IdleHb]
    /\ UNCHANGED <<onlineNodes, etcdVars, agents, admin, heard, drained, touched>>

-----------------------------------------------------------------------------
(***************************************************************************)
(* Going offline.  The node's struct is marked, written and dropped from   *)
(* the cache with m.mu held; a request that still holds the struct keeps   *)
(* it as it was left.                                                      *)
(***************************************************************************)
Offline(node) == [node EXCEPT !.status = "offline"]

Evict(n) ==
    /\ \E outcome \in Outcomes : UpdateNode(n, Offline(onlineNodes[n]), outcome)
    /\ onlineNodes' = [onlineNodes EXCEPT ![n] = NoNode]
    /\ admin' = IF admin[n].node = Shared
                  THEN [admin EXCEPT ![n].node = Offline(onlineNodes[n])]
                  ELSE admin

\* The periodic check visits every node; the others are their own steps.
checkOfflineNodes(n) ==
    /\ ~etcdClient
    /\ Cached(n) /\ onlineNodes[n].seen = "old"
    /\ Evict(n)
    /\ UNCHANGED <<etcdVars, agents, hb, heard, drained, touched>>

\* The watch has no revision to start from: it sees what comes next.
NodeWatchOpens ==
    /\ nodeWatch = "starting"
    /\ nodeWatch' = "open"
    /\ UNCHANGED <<etcdClient, watchers, etcdKeys, deleted, nodeRows, faults, onlineNodes,
                   agents, hb, admin, heard, drained, touched>>

\* The watch is cancelled by etcd: the channel is closed, the loop ends, and
\* nothing opens another watch while the server runs.
NodeWatchEnds ==
    /\ Fault
    /\ nodeWatch = "open"
    /\ nodeWatch' = "ended"
    /\ deleted' = {}
    /\ UNCHANGED <<etcdClient, watchers, etcdKeys, nodeRows, onlineNodes, agents, hb, admin,
                   heard, drained, touched>>

\* Mutant: a deletion is ignored.
markOfflineIgnored(n) ==
    /\ n \in deleted
    /\ deleted' = deleted \ {n}
    /\ UNCHANGED <<etcdClient, nodeWatch, nodeRows, faults, onlineNodes, watchers, etcdKeys,
                   agents, hb, admin, heard, drained, touched>>

markOffline(n) ==
    /\ n \in deleted
    /\ deleted' = deleted \ {n}
    /\ \/ /\ Cached(n)
          /\ Evict(n)
          /\ watchers' = [watchers EXCEPT ![n] = "none"]
       \/ /\ ~Cached(n) /\ GetByNodeID(n) # NoRow
          /\ \E outcome \in Outcomes : UpdateNode(n, Offline(GetByNodeID(n)), outcome)
          /\ UNCHANGED <<onlineNodes, watchers, admin>>
    /\ UNCHANGED <<etcdClient, nodeWatch, etcdKeys, agents, hb, heard, drained, touched>>

-----------------------------------------------------------------------------
(***************************************************************************)
(* DrainNode and UncordonNode.  The cached struct is changed under m.mu    *)
(* and written to the database after m.mu is released, from the struct as  *)
(* it is when the statement's arguments are evaluated: a data race with    *)
(* heartbeats and evictions, in which the status that is read may be the   *)
(* one set by the request or the one that replaced it.                     *)
(***************************************************************************)
SetAdmin(n, pc, status, node) ==
    admin' = [admin EXCEPT ![n] = [pc |-> pc, status |-> status, node |-> node]]

SetStatus(n, status) ==
    /\ admin[n] = NoAdmin
    /\ Cached(n) \/ GetByNodeID(n) # NoRow
    /\ touched' = touched \cup {n}
    /\ IF Cached(n)
         THEN /\ onlineNodes' = [onlineNodes EXCEPT ![n].status = status]
              /\ SetAdmin(n, "eval", status, Shared)
         ELSE /\ SetAdmin(n, "read", status, NoNode)
              /\ UNCHANGED onlineNodes
    /\ drained' = IF status = "online" THEN drained \ {n} ELSE drained
    /\ UNCHANGED <<nodeRows, faults, etcdVars, agents, hb, heard>>

DrainNode(n) == SetStatus(n, "drain")

\* Mutant: the wrong status, cordon, is set.
UncordonNodeCordons(n) == SetStatus(n, "cordon")

UncordonNode(n) == SetStatus(n, "online")

AdminRead(n) ==
    /\ admin[n].pc = "read"
    /\ SetAdmin(n, "write", admin[n].status,
                [GetByNodeID(n) EXCEPT !.status = admin[n].status])
    /\ UNCHANGED <<nodeRows, faults, onlineNodes, etcdVars, agents, hb, heard, drained,
                   touched>>

AdminEval(n) ==
    /\ admin[n].pc = "eval"
    /\ LET node == IF admin[n].node = Shared THEN onlineNodes[n] ELSE admin[n].node IN
       \E status \in {admin[n].status, node.status} :
         SetAdmin(n, "write", admin[n].status, [node EXCEPT !.status = status])
    /\ UNCHANGED <<nodeRows, faults, onlineNodes, etcdVars, agents, hb, heard, drained,
                   touched>>

\* The history takes in a drain that is complete: what registrations and
\* heartbeats do to the node while the request is handled is not counted.
AdminWrite(n) ==
    /\ admin[n].pc = "write"
    /\ \E outcome \in Outcomes :
         /\ UpdateNode(n, admin[n].node, outcome)
         /\ drained' = IF /\ outcome = "ok" /\ admin[n].status = "drain"
                          /\ onlineNodes[n].status = "drain"
                         THEN drained \cup {n} ELSE drained
    /\ admin' = [admin EXCEPT ![n] = NoAdmin]
    /\ UNCHANGED <<onlineNodes, etcdVars, agents, hb, heard, touched>>

-----------------------------------------------------------------------------
(***************************************************************************)
(* The environment: agents die, 30 seconds pass without a heartbeat (a     *)
(* fault while the agent is up), leases expire when nobody renews them,    *)
(* the server restarts.                                                    *)
(***************************************************************************)
AgentDies(n) ==
    /\ agents[n] = "up"
    /\ SetAgent(n, "dead")
    /\ UNCHANGED <<nodeRows, faults, onlineNodes, etcdVars, hb, admin, heard, drained, touched>>

Aged(node) == IF node.seen = "fresh" THEN [node EXCEPT !.seen = "old"] ELSE node

Silence(n) ==
    /\ n \in heard /\ hb[n] = IdleHb
    /\ \/ agents[n] = "dead" /\ UNCHANGED faults
       \/ agents[n] = "up" /\ Fault
    /\ heard' = heard \ {n}
    /\ nodeRows' = [nodeRows EXCEPT ![n] = Aged(@)]
    /\ onlineNodes' = [onlineNodes EXCEPT ![n] = Aged(@)]
    /\ admin' = [admin EXCEPT ![n].node = Aged(@)]
    /\ UNCHANGED <<etcdVars, agents, hb, drained, touched>>

KeyDeleted(n) ==
    /\ n \in etcdKeys /\ agents[n] \in {"up", "dead"}
    /\ etcdKeys' = etcdKeys \ {n}
    /\ deleted' = IF nodeWatch = "open" THEN deleted \cup {n} ELSE deleted
    /\ watchers' = [watchers EXCEPT ![n] = IF @ = "keyed" THEN "expired" ELSE @]
    /\ UNCHANGED <<etcdClient, nodeWatch, nodeRows, onlineNodes, agents, hb, admin, heard,
                   drained, touched>>

LeaseExpires(n) ==
    /\ n \notin heard \/ watchers[n] # "keyed"
    /\ KeyDeleted(n)
    /\ UNCHANGED faults

\* KeepAliveOnce failed for 30 s while heartbeats arrived.
RenewalsFail(n) ==
    /\ n \in heard /\ watchers[n] = "keyed"
    /\ KeyDeleted(n)
    /\ Fault

BareLeaseExpires(n) ==
    /\ watchers[n] = "bare" /\ n \notin heard
    /\ watchers' = [watchers EXCEPT ![n] = "expired"]
    /\ UNCHANGED <<etcdClient, nodeWatch, nodeRows, faults, onlineNodes, etcdKeys, deleted,
                   agents, hb, admin, heard, drained, touched>>

\* An agent whose registration is under way gets an error and exits; the new
\* server's watch does not see earlier deletions.
Restart ==
    /\ Fault
    /\ onlineNodes' = [n \in Nodes |-> NoNode]
    /\ watchers' = [n \in Nodes |-> "none"]
    /\ nodeWatch' = NewWatch /\ deleted' = {}
    /\ agents' = [n \in Nodes |-> IF agents[n] \in {"lease", "cache"} THEN "dead" ELSE agents[n]]
    /\ hb' = [n \in Nodes |-> IdleHb]
    /\ admin' = [n \in Nodes |-> NoAdmin]
    /\ UNCHANGED <<etcdClient, nodeRows, etcdKeys, heard, drained, touched>>

RegisterStep(n) == RegisterLease(n) \/ RegisterCache(n)
HeartbeatStep(n) ==
    HeartbeatLease(n) \/ HeartbeatKeepAlive(n) \/ HeartbeatRecover(n) \/ HeartbeatStore(n)
AdminStep(n) == AdminRead(n) \/ AdminEval(n) \/ AdminWrite(n)

Expires(n) == (agents[n] = "dead" /\ Silence(n)) \/ LeaseExpires(n)

NodesNext ==
    \/ \E n \in Nodes :
         \/ Register(n) \/ Heartbeat(n) \/ HeartbeatRead(n)
         \/ RegisterStep(n) \/ HeartbeatStep(n) \/ AdminStep(n)
         \/ checkOfflineNodes(n) \/ markOffline(n)
         \/ DrainNode(n) \/ UncordonNode(n)
         \/ AgentDies(n) \/ Silence(n)
         \/ LeaseExpires(n) \/ RenewalsFail(n) \/ BareLeaseExpires(n)
    \/ NodeWatchOpens \/ NodeWatchEnds \/ Restart

NodesSpec == NodesInit /\ [][NodesNext]_nodeVars

(***************************************************************************)
(* Handlers finish, the checker's ticker goes on, the watcher handles what *)
(* it received as long as its channel is open, and time passes.  Agents,   *)
(* administrators and etcd's watch owe nothing.                            *)
(***************************************************************************)
FairNodesSpec ==
    /\ NodesSpec
    /\ \A n \in Nodes : /\ WF_nodeVars(RegisterStep(n))
                        /\ WF_nodeVars(HeartbeatStep(n))
                        /\ WF_nodeVars(AdminStep(n))
                        /\ WF_nodeVars(checkOfflineNodes(n))
                        /\ WF_nodeVars(markOffline(n))
                        /\ WF_nodeVars(Expires(n))

-----------------------------------------------------------------------------
\* FindByLabels and GetOnlineNodes: where the scheduler may place tasks.
Schedulable == {n \in Nodes : Cached(n) /\ IsSchedulable(onlineNodes[n])}

\* The scheduler places tasks only on nodes that have a row: the row of the
\* task names the node, and the API finds it there.
SchedulableHasRow == \A n \in Schedulable : nodeRows[n] # NoRow

\* As long as no call fails and no heartbeat is late, an agent that is up and
\* that no administrator touched can be given tasks: neither the checker, nor
\* the lease it renews, nor the watcher takes it out of the cache.
HeartbeatKeepsNode ==
    faults = 0 => \A n \in Nodes \ touched : agents[n] = "up" => n \in Schedulable

\* The node's death can be noticed: it has been heard of (checker), or its
\* key is there to expire and the watch is open (watcher).
Monitored(n) ==
    /\ Cached(n)
    /\ IF etcdClient THEN n \in etcdKeys /\ nodeWatch = "open"
                     ELSE onlineNodes[n].seen # "nil"

\* A monitored node whose agent died is taken out of scheduling and never
\* comes back, whatever requests, failed calls and restarts happen around it.
\* The one exception: etcd cancelled the watch and the server that lost it
\* was not restarted, so that nobody sees deletions any more.
DeadNodeLeaves ==
    \A n \in Nodes :
        agents[n] = "dead" /\ Monitored(n)
            ~> [](n \notin Schedulable) \/ [](nodeWatch = "ended")

(***************************************************************************)
(* Claims of the documentation that the code does not keep.                *)
(***************************************************************************)

\* After a drain no new task is scheduled to the node: one whose drain was
\* complete stays out of scheduling until it is uncordoned.
DrainedNotScheduled == drained \cap Schedulable = {}
=============================================================================
