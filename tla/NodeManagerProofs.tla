------------------------- MODULE NodeManagerProofs -------------------------
(***************************************************************************)
(* Proofs about NodeManager for every set of nodes and any number of       *)
(* faults, with and without etcd.                                          *)
(***************************************************************************)
EXTENDS NodeManager, TLAPS

(***************************************************************************)
(* The inductive invariant, node by node.                                  *)
(***************************************************************************)

\* The places from which a node is, or is about to be, put into the cache or
\* its row is written.
RowNeeded(n) ==
    \/ Cached(n) \/ agents[n] \in {"lease", "cache", "up"}
    \/ hb[n].pc = "recover" \/ admin[n].pc # "none"

\* Each handler has what it works on: a row, a copy of one, or the cached
\* struct.
HandlersInv(n) ==
    /\ RowNeeded(n) => nodeRows[n] # NoRow
    /\ hb[n].pc = "recover" => hb[n].node \in Node
    /\ admin[n].pc # "none" => admin[n].status \in {"drain", "online"}
    /\ admin[n].pc = "eval" => admin[n].node \in Node \cup {Shared}
    /\ admin[n].pc = "write" => admin[n].node \in Node
    /\ admin[n].node = Shared => Cached(n)

\* Without etcd there is neither a key nor a lease.
EtcdInv(n) == n \in etcdKeys \cup deleted \/ agents[n] = "lease" => etcdClient

\* Before the first fault, for a node that no administrator touched: it has
\* been heard of since it registered, its lease holds its key, no deletion is
\* on its way, and it is in the cache, online and not late, as it was put
\* there or as its last heartbeat left it.
KeptInv(n) ==
    faults = 0 /\ n \notin touched /\ agents[n] # "dead" =>
        /\ n \notin deleted /\ hb[n].pc # "recover"
        /\ agents[n] # "none" => n \in heard
        /\ agents[n] \in {"cache", "up"} /\ etcdClient => watchers[n] = "keyed"
        /\ agents[n] = "up" => onlineNodes[n].status = "online" /\ onlineNodes[n].seen # "old"

NodeInv(n) == HandlersInv(n) /\ EtcdInv(n) /\ KeptInv(n)

NodesInv == NodesTypeOK /\ \A n \in Nodes : NodeInv(n)

\* Nodes as values: a node is neither "no node" nor the shared struct, and
\* setting its status, ageing it or marking it offline gives a node.
LEMMA NodeValues ==
    /\ NewNode \in Node /\ NewNode.status = "online" /\ NewNode.seen = "nil"
    /\ NoNode \notin Node /\ Shared \notin Node /\ NoNode # Shared
    /\ Aged(NoNode) = NoNode /\ Aged(Shared) = Shared
    /\ \A node \in Node : /\ Aged(node) \in Node /\ Offline(node) \in Node
                          /\ [node EXCEPT !.seen = "fresh"] \in Node
                          /\ node.status \in {"online", "offline", "drain"}
    /\ \A node \in Node, s \in {"online", "offline", "drain"} :
          [node EXCEPT !.status = s] \in Node
    /\ [status |-> "online", seen |-> "fresh"] \in Node
  BY DEF NewNode, Node, NodeStatus, Seen, NoNode, NoRow, Shared, Aged, Offline

\* A call uses up the fault budget only while there is one; the first fault
\* leaves the budget different from zero.
LEMMA FaultsGrow ==
    ASSUME FaultsTypeOK
    PROVE  /\ Fault => FaultsTypeOK' /\ faults' # 0
           /\ \A outcome : Attempt(outcome) =>
                 FaultsTypeOK' /\ (faults' = faults \/ faults' # 0)
           /\ \A outcome : Attempt(outcome) /\ outcome # "ok" => faults' # 0
           /\ UNCHANGED faults => FaultsTypeOK'
  BY MaxFaultsAssumption DEF FaultsTypeOK, Fault, Attempt

\* The writes of the store leave a typed table; an existing row stays one.
LEMMA StoreWrites ==
    ASSUME NodeStoreTypeOK, FaultsTypeOK, NEW m \in Nodes, NEW outcome,
           \/ \E node \in Node : CreateNode(m, node, outcome) \/ UpdateNode(m, node, outcome)
           \/ UpdateHeartbeat(m, outcome)
    PROVE  /\ NodeStoreTypeOK' /\ FaultsTypeOK'
           /\ faults' = faults \/ faults' # 0
           /\ nodeRows[m] # NoRow => nodeRows'[m] # NoRow
           /\ \A n \in Nodes \ {m} : nodeRows'[n] = nodeRows[n]
  <1>1. FaultsTypeOK' /\ (faults' = faults \/ faults' # 0)
    BY FaultsGrow DEF CreateNode, UpdateNode, UpdateHeartbeat
  <1>2. ASSUME NEW node \in Node, nodeRows' = [nodeRows EXCEPT ![m] = node]
        PROVE  /\ NodeStoreTypeOK' /\ nodeRows'[m] # NoRow
               /\ \A n \in Nodes \ {m} : nodeRows'[n] = nodeRows[n]
    BY <1>2, NodeValues DEF NodeStoreTypeOK, NoNode
  <1>3. CASE UNCHANGED nodeRows
    BY <1>1, <1>3 DEF NodeStoreTypeOK
  <1>4. CASE \E node \in Node : CreateNode(m, node, outcome) \/ UpdateNode(m, node, outcome)
    BY <1>1, <1>2, <1>3, <1>4 DEF CreateNode, UpdateNode
  <1>5. CASE UpdateHeartbeat(m, outcome)
    <2>1. CASE nodeRows[m] # NoRow /\ nodeRows' = [nodeRows EXCEPT ![m].seen = "fresh"]
      <3>1. [nodeRows[m] EXCEPT !.seen = "fresh"] \in Node
        BY <2>1, NodeValues DEF NodeStoreTypeOK
      <3>2. nodeRows' = [nodeRows EXCEPT ![m] = [nodeRows[m] EXCEPT !.seen = "fresh"]]
        BY <2>1
      <3> QED
        BY <1>1, <1>2, <3>1, <3>2
    <2> QED
      BY <1>3, <1>5, <2>1 DEF UpdateHeartbeat
  <1> QED
    BY <1>4, <1>5

\* A step changes nothing of n.  A fault makes the last part of the invariant
\* vacuous.
Elsewhere(n) ==
    /\ nodeRows'[n] = nodeRows[n] /\ onlineNodes'[n] = onlineNodes[n]
    /\ watchers'[n] = watchers[n] /\ agents'[n] = agents[n]
    /\ hb'[n] = hb[n] /\ admin'[n] = admin[n]
    /\ n \in etcdKeys' <=> n \in etcdKeys
    /\ n \in deleted' <=> n \in deleted
    /\ n \in heard' <=> n \in heard
    /\ n \in touched' <=> n \in touched
    /\ UNCHANGED etcdClient
    /\ faults' = faults \/ faults' # 0

\* Such a step keeps the invariant of n.
LEMMA NodeElsewhere ==
    ASSUME NEW n \in Nodes, NodeInv(n), Elsewhere(n)
    PROVE  NodeInv(n)'
  <1>1. HandlersInv(n)'
    BY DEF NodeInv, HandlersInv, RowNeeded, Cached, Elsewhere
  <1>2. EtcdInv(n)'
    BY DEF NodeInv, EtcdInv, Elsewhere
  <1>3. KeptInv(n)'
    BY DEF NodeInv, KeptInv, Elsewhere
  <1> QED
    BY <1>1, <1>2, <1>3 DEF NodeInv

\* A step at m keeps the invariant if it keeps the types and the part of m
\* and leaves the other nodes alone.
LEMMA StepAt ==
    ASSUME NodesInv, NEW m \in Nodes, NodesTypeOK', NodeInv(m)',
           \A n \in Nodes \ {m} : Elsewhere(n)
    PROVE  NodesInv'
  BY NodeElsewhere DEF NodesInv

-----------------------------------------------------------------------------
(***************************************************************************)
(* Register.                                                               *)
(***************************************************************************)
\* The row comes first, then the lease, then the cache.
LEMMA RegisterKeeps ==
    ASSUME NodesInv, NEW m \in Nodes, Register(m) \/ RegisterLease(m) \/ RegisterCache(m)
    PROVE  NodesInv'
  <1>0. NodesTypeOK /\ NodeInv(m) /\ NodeStoreTypeOK /\ FaultsTypeOK
    BY DEF NodesInv, NodesTypeOK
  <1>1. CASE Register(m)
    <2>1. PICK outcome \in Outcomes :
            /\ CreateNode(m, NewNode, outcome)
            /\ agents' = [agents EXCEPT ![m] =
                  IF outcome # "ok" THEN "dead" ELSE IF etcdClient THEN "lease" ELSE "cache"]
      BY <1>1 DEF Register, SetAgent
    <2>2. /\ NodeStoreTypeOK' /\ FaultsTypeOK' /\ (faults' = faults \/ faults' # 0)
          /\ nodeRows[m] # NoRow => nodeRows'[m] # NoRow
          /\ \A n \in Nodes \ {m} : nodeRows'[n] = nodeRows[n]
      BY <1>0, <2>1, NodeValues, StoreWrites
    <2>3. outcome = "ok" => nodeRows'[m] # NoRow
      BY <1>0, <2>1, NodeValues DEF CreateNode, NodeStoreTypeOK, NoNode
    <2>4. NodesTypeOK'
      BY <1>0, <1>1, <2>1, <2>2 DEF Register, NodesTypeOK, etcdVars
    <2>5. NodeInv(m)'
      <3>1. HandlersInv(m)'
        BY <1>0, <1>1, <2>1, <2>2, <2>3
        DEF Register, NodesTypeOK, NodeInv, HandlersInv, RowNeeded, Cached, etcdVars
      <3>2. EtcdInv(m)' /\ KeptInv(m)'
        BY <1>0, <1>1, <2>1, <2>2
        DEF Register, NodesTypeOK, NodeInv, EtcdInv, KeptInv, etcdVars
      <3> QED
        BY <3>1, <3>2 DEF NodeInv
    <2>6. \A n \in Nodes \ {m} : Elsewhere(n)
      BY <1>0, <1>1, <2>1, <2>2 DEF Register, NodesTypeOK, Elsewhere, etcdVars
    <2> QED
      BY <2>4, <2>5, <2>6, StepAt
  <1>2. CASE RegisterLease(m)
    <2>1. PICK outcome \in Outcomes :
            /\ Attempt(outcome)
            /\ etcdKeys' = IF outcome = "error" THEN etcdKeys ELSE etcdKeys \cup {m}
            /\ watchers' = IF outcome = "ok" THEN [watchers EXCEPT ![m] = "keyed"] ELSE watchers
            /\ agents' = [agents EXCEPT ![m] = IF outcome = "ok" THEN "cache" ELSE "dead"]
      BY <1>2 DEF RegisterLease, SetAgent
    <2>2. FaultsTypeOK' /\ (faults' = faults \/ faults' # 0)
      BY <1>0, <2>1, FaultsGrow
    <2>3. NodesTypeOK'
      BY <1>0, <1>2, <2>1, <2>2 DEF RegisterLease, NodesTypeOK, NodeStoreTypeOK
    <2>4. NodeInv(m)'
      <3>1. HandlersInv(m)'
        BY <1>0, <1>2, <2>1
        DEF RegisterLease, NodesTypeOK, NodeInv, HandlersInv, RowNeeded, Cached
      <3>2. EtcdInv(m)' /\ KeptInv(m)'
        BY <1>0, <1>2, <2>1, <2>2 DEF RegisterLease, NodesTypeOK, NodeInv, EtcdInv, KeptInv
      <3> QED
        BY <3>1, <3>2 DEF NodeInv
    <2>5. \A n \in Nodes \ {m} : Elsewhere(n)
      BY <1>0, <1>2, <2>1, <2>2 DEF RegisterLease, NodesTypeOK, Elsewhere
    <2> QED
      BY <2>3, <2>4, <2>5, StepAt
  <1>3. CASE RegisterCache(m)
    <2>1. FaultsTypeOK' /\ (faults' = faults \/ faults' # 0)
      BY <1>0, <1>3, FaultsGrow DEF RegisterCache
    <2>2. PICK a \in {"up", "dead"} : agents' = [agents EXCEPT ![m] = a]
      BY <1>3 DEF RegisterCache, SetAgent
    <2>3. NodesTypeOK'
      BY <1>0, <1>3, <2>1, <2>2, NodeValues DEF RegisterCache, NodesTypeOK, NodeStoreTypeOK, etcdVars
    <2>4. NodeInv(m)'
      <3>1. HandlersInv(m)'
        BY <1>0, <1>3, <2>2, NodeValues
        DEF RegisterCache, NodesTypeOK, NodeInv, HandlersInv, RowNeeded, Cached
      <3>2. EtcdInv(m)' /\ KeptInv(m)'
        BY <1>0, <1>3, <2>1, <2>2, NodeValues
        DEF RegisterCache, NodesTypeOK, NodeInv, EtcdInv, KeptInv, etcdVars
      <3> QED
        BY <3>1, <3>2 DEF NodeInv
    <2>5. \A n \in Nodes \ {m} : Elsewhere(n)
      BY <1>0, <1>3, <2>1, <2>2 DEF RegisterCache, NodesTypeOK, Elsewhere, etcdVars
    <2> QED
      BY <2>3, <2>4, <2>5, StepAt
  <1> QED
    BY <1>1, <1>2, <1>3

(***************************************************************************)
(* Heartbeat.                                                              *)
(***************************************************************************)

\* A heartbeat makes a cached node online; one that is not cached is put back
\* as its row is.
LEMMA HeartbeatKeeps ==
    ASSUME NodesInv, NEW m \in Nodes, Heartbeat(m) \/ HeartbeatRead(m) \/ HeartbeatStep(m)
    PROVE  NodesInv'
  <1>0. NodesTypeOK /\ NodeInv(m) /\ NodeStoreTypeOK /\ FaultsTypeOK
    BY DEF NodesInv, NodesTypeOK
  <1>1. CASE Heartbeat(m)
    <2>1. NodesTypeOK'
      BY <1>0, <1>1, NodeValues, FaultsGrow
      DEF Heartbeat, SetHb, NodesTypeOK, NodeStoreTypeOK, etcdVars
    <2>2. HandlersInv(m)'
      BY <1>0, <1>1, NodeValues
      DEF Heartbeat, SetHb, NodesTypeOK, NodeInv, HandlersInv, RowNeeded, Cached
    <2>3. EtcdInv(m)' /\ KeptInv(m)'
      BY <1>0, <1>1 DEF Heartbeat, SetHb, NodesTypeOK, NodeInv, EtcdInv, KeptInv, etcdVars
    <2>4. \A n \in Nodes \ {m} : Elsewhere(n)
      BY <1>0, <1>1 DEF Heartbeat, SetHb, NodesTypeOK, Elsewhere, etcdVars
    <2> QED
      BY <2>1, <2>2, <2>3, <2>4, StepAt DEF NodeInv
  <1>2. CASE HeartbeatRead(m)
    <2>1. nodeRows[m] \in Node
      BY <1>0, <1>2 DEF HeartbeatRead, GetByNodeID, NodeStoreTypeOK
    <2>2. NodesTypeOK'
      BY <1>0, <1>2, <2>1, FaultsGrow
      DEF HeartbeatRead, GetByNodeID, SetHb, NodesTypeOK, NodeStoreTypeOK, etcdVars
    <2>3. HandlersInv(m)'
      BY <1>0, <1>2, <2>1
      DEF HeartbeatRead, GetByNodeID, SetHb, NodesTypeOK, NodeInv, HandlersInv, RowNeeded, Cached
    <2>4. EtcdInv(m)' /\ KeptInv(m)'
      BY <1>0, <1>2
      DEF HeartbeatRead, SetHb, NodesTypeOK, NodeInv, EtcdInv, KeptInv, etcdVars, Cached, NoNode, NoRow
    <2>5. \A n \in Nodes \ {m} : Elsewhere(n)
      BY <1>0, <1>2 DEF HeartbeatRead, SetHb, NodesTypeOK, Elsewhere, etcdVars
    <2> QED
      BY <2>2, <2>3, <2>4, <2>5, StepAt DEF NodeInv
  <1>3. CASE HeartbeatLease(m)
    <2>1. FaultsTypeOK' /\ (faults' = faults \/ faults' # 0)
      BY <1>0, <1>3, FaultsGrow DEF HeartbeatLease
    <2>2. PICK w \in {watchers[m], "bare"}, p \in {"keep", "idle"} :
            /\ watchers' = [watchers EXCEPT ![m] = w]
            /\ watchers[m] # "none" => w = watchers[m]
            /\ hb' = [hb EXCEPT ![m] = [pc |-> p, node |-> NoNode]]
      BY <1>0, <1>3 DEF HeartbeatLease, SetHb, NodesTypeOK, IdleHb
    <2>3. NodesTypeOK'
      BY <1>0, <1>3, <2>1, <2>2 DEF HeartbeatLease, NodesTypeOK, NodeStoreTypeOK
    <2>4. HandlersInv(m)'
      BY <1>0, <1>3, <2>2
      DEF HeartbeatLease, NodesTypeOK, NodeInv, HandlersInv, RowNeeded, Cached
    <2>5. EtcdInv(m)' /\ KeptInv(m)'
      BY <1>0, <1>3, <2>1, <2>2 DEF HeartbeatLease, NodesTypeOK, NodeInv, EtcdInv, KeptInv
    <2>6. \A n \in Nodes \ {m} : Elsewhere(n)
      BY <1>0, <1>3, <2>1, <2>2 DEF HeartbeatLease, NodesTypeOK, Elsewhere
    <2> QED
      BY <2>3, <2>4, <2>5, <2>6, StepAt DEF NodeInv
  <1>4. CASE HeartbeatKeepAlive(m)
    <2>1. FaultsTypeOK' /\ (faults' = faults \/ faults' # 0)
      BY <1>0, <1>4, FaultsGrow DEF HeartbeatKeepAlive
    <2>2. PICK p \in {"store", "idle"} : hb' = [hb EXCEPT ![m] = [pc |-> p, node |-> NoNode]]
      BY <1>4 DEF HeartbeatKeepAlive, SetHb, IdleHb
    <2>3. NodesTypeOK'
      BY <1>0, <1>4, <2>1, <2>2 DEF HeartbeatKeepAlive, NodesTypeOK, NodeStoreTypeOK, etcdVars
    <2>4. HandlersInv(m)'
      BY <1>0, <1>4, <2>2
      DEF HeartbeatKeepAlive, NodesTypeOK, NodeInv, HandlersInv, RowNeeded, Cached
    <2>5. EtcdInv(m)' /\ KeptInv(m)'
      BY <1>0, <1>4, <2>1, <2>2
      DEF HeartbeatKeepAlive, NodesTypeOK, NodeInv, EtcdInv, KeptInv, etcdVars
    <2>6. \A n \in Nodes \ {m} : Elsewhere(n)
      BY <1>0, <1>4, <2>1, <2>2 DEF HeartbeatKeepAlive, NodesTypeOK, Elsewhere, etcdVars
    <2> QED
      BY <2>3, <2>4, <2>5, <2>6, StepAt DEF NodeInv
  <1>5. CASE HeartbeatRecover(m)
    <2>1. hb[m].node \in Node
      BY <1>0, <1>5 DEF HeartbeatRecover, NodeInv, HandlersInv
    <2>2. NodesTypeOK'
      BY <1>0, <1>5, <2>1, FaultsGrow
      DEF HeartbeatRecover, SetHb, NodesTypeOK, NodeStoreTypeOK, etcdVars
    <2>3. HandlersInv(m)'
      BY <1>0, <1>5, <2>1, NodeValues
      DEF HeartbeatRecover, SetHb, NodesTypeOK, NodeInv, HandlersInv, RowNeeded, Cached
    <2>4. EtcdInv(m)' /\ KeptInv(m)'
      BY <1>0, <1>5 DEF HeartbeatRecover, SetHb, NodesTypeOK, NodeInv, EtcdInv, KeptInv, etcdVars
    <2>5. \A n \in Nodes \ {m} : Elsewhere(n)
      BY <1>0, <1>5 DEF HeartbeatRecover, SetHb, NodesTypeOK, Elsewhere, etcdVars
    <2> QED
      BY <2>2, <2>3, <2>4, <2>5, StepAt DEF NodeInv
  <1>6. CASE HeartbeatStore(m)
    <2>1. PICK outcome \in Outcomes : UpdateHeartbeat(m, outcome)
      BY <1>6 DEF HeartbeatStore
    <2>2. /\ NodeStoreTypeOK' /\ FaultsTypeOK' /\ (faults' = faults \/ faults' # 0)
          /\ nodeRows[m] # NoRow => nodeRows'[m] # NoRow
          /\ \A n \in Nodes \ {m} : nodeRows'[n] = nodeRows[n]
      BY <1>0, <2>1, StoreWrites
    <2>3. NodesTypeOK'
      BY <1>0, <1>6, <2>2 DEF HeartbeatStore, NodesTypeOK, etcdVars, IdleHb
    <2>4. HandlersInv(m)'
      BY <1>0, <1>6, <2>2
      DEF HeartbeatStore, NodesTypeOK, NodeInv, HandlersInv, RowNeeded, Cached, IdleHb
    <2>5. EtcdInv(m)' /\ KeptInv(m)'
      BY <1>0, <1>6, <2>2
      DEF HeartbeatStore, NodesTypeOK, NodeInv, EtcdInv, KeptInv, etcdVars, IdleHb
    <2>6. \A n \in Nodes \ {m} : Elsewhere(n)
      BY <1>0, <1>6, <2>2 DEF HeartbeatStore, NodesTypeOK, Elsewhere, etcdVars
    <2> QED
      BY <2>3, <2>4, <2>5, <2>6, StepAt DEF NodeInv
  <1> QED
    BY <1>1, <1>2, <1>3, <1>4, <1>5, <1>6 DEF HeartbeatStep

(***************************************************************************)
(* Going offline.                                                          *)
(***************************************************************************)

\* Evict takes a node out of the cache; a request that shares the struct keeps
\* a copy.
LEMMA EvictParts ==
    ASSUME NodesTypeOK, NEW m \in Nodes, NodeInv(m), Cached(m), Evict(m)
    PROVE  /\ NodeStoreTypeOK' /\ FaultsTypeOK' /\ (faults' = faults \/ faults' # 0)
           /\ nodeRows'[m] # NoRow
           /\ \A n \in Nodes \ {m} : nodeRows'[n] = nodeRows[n] /\ admin'[n] = admin[n]
           /\ onlineNodes' = [onlineNodes EXCEPT ![m] = NoNode]
           /\ admin' \in [Nodes -> [pc : {"none", "read", "eval", "write"},
                                    status : {"none", "drain", "online"},
                                    node : Node \cup {NoNode, Shared}]]
           /\ admin'[m].pc = admin[m].pc /\ admin'[m].status = admin[m].status
           /\ admin'[m].node # Shared
           /\ admin'[m].node = admin[m].node \/ admin'[m].node \in Node
  <1>0. onlineNodes[m] \in Node
    BY DEF NodesTypeOK, Cached
  <1>1. Offline(onlineNodes[m]) \in Node
    BY <1>0, NodeValues
  <1>2. PICK outcome \in Outcomes : UpdateNode(m, Offline(onlineNodes[m]), outcome)
    BY DEF Evict
  <1>3. nodeRows[m] # NoRow
    BY DEF NodeInv, HandlersInv, RowNeeded
  <1>4. /\ NodeStoreTypeOK' /\ FaultsTypeOK' /\ (faults' = faults \/ faults' # 0)
        /\ nodeRows'[m] # NoRow
        /\ \A n \in Nodes \ {m} : nodeRows'[n] = nodeRows[n]
    BY <1>1, <1>2, <1>3, StoreWrites DEF NodesTypeOK
  <1>5. /\ admin' \in [Nodes -> [pc : {"none", "read", "eval", "write"},
                                 status : {"none", "drain", "online"},
                                 node : Node \cup {NoNode, Shared}]]
        /\ admin'[m].pc = admin[m].pc /\ admin'[m].status = admin[m].status
        /\ admin'[m].node # Shared
        /\ admin'[m].node = admin[m].node \/ admin'[m].node \in Node
        /\ \A n \in Nodes \ {m} : admin'[n] = admin[n]
    <2>1. CASE admin[m].node = Shared
      <3>1. PICK node \in Node : admin' = [admin EXCEPT ![m].node = node]
        BY <1>1, <2>1 DEF Evict
      <3>2. node # Shared
        BY NodeValues
      <3> QED
        BY <3>1, <3>2 DEF NodesTypeOK
    <2>2. CASE admin[m].node # Shared
      BY <2>2 DEF Evict, NodesTypeOK
    <2> QED
      BY <2>1, <2>2
  <1> QED
    BY <1>4, <1>5 DEF Evict

\* Neither the checker nor the watcher finds a reason to evict a node whose
\* heartbeats arrive, before the first fault.
LEMMA OfflineKeeps ==
    ASSUME NodesInv, NEW m \in Nodes, checkOfflineNodes(m) \/ markOffline(m)
    PROVE  NodesInv'
  <1>0. NodesTypeOK /\ NodeInv(m) /\ NodeStoreTypeOK /\ FaultsTypeOK
    BY DEF NodesInv, NodesTypeOK
  <1>1. ~(faults = 0 /\ m \notin touched /\ agents[m] = "up")
    BY <1>0 DEF checkOfflineNodes, markOffline, NodeInv, KeptInv
  <1>2. CASE Cached(m) /\ Evict(m)
    <2>1. /\ UNCHANGED etcdClient /\ UNCHANGED nodeWatch /\ UNCHANGED etcdKeys
          /\ UNCHANGED agents /\ UNCHANGED hb
          /\ UNCHANGED heard /\ UNCHANGED touched /\ UNCHANGED drained
      BY DEF checkOfflineNodes, markOffline, etcdVars
    <2>2. /\ watchers' \in [Nodes -> {"none", "keyed", "bare", "expired"}]
          /\ m \notin deleted => watchers'[m] = watchers[m]
          /\ \A n \in Nodes \ {m} : watchers'[n] = watchers[n]
      BY <1>0 DEF checkOfflineNodes, markOffline, etcdVars, NodesTypeOK
    <2>3. /\ deleted' \subseteq deleted
          /\ \A n \in Nodes \ {m} : n \in deleted' <=> n \in deleted
      BY DEF checkOfflineNodes, markOffline, etcdVars
    <2>4. /\ NodeStoreTypeOK' /\ FaultsTypeOK' /\ (faults' = faults \/ faults' # 0)
          /\ nodeRows'[m] # NoRow
          /\ \A n \in Nodes \ {m} : nodeRows'[n] = nodeRows[n] /\ admin'[n] = admin[n]
          /\ onlineNodes' = [onlineNodes EXCEPT ![m] = NoNode]
          /\ admin' \in [Nodes -> [pc : {"none", "read", "eval", "write"},
                                   status : {"none", "drain", "online"},
                                   node : Node \cup {NoNode, Shared}]]
          /\ admin'[m].pc = admin[m].pc /\ admin'[m].status = admin[m].status
          /\ admin'[m].node # Shared
          /\ admin'[m].node = admin[m].node \/ admin'[m].node \in Node
      BY <1>0, <1>2, EvictParts
    <2>5. NodesTypeOK'
      BY <1>0, <2>1, <2>2, <2>3, <2>4 DEF NodesTypeOK
    <2>6. HandlersInv(m)'
      BY <1>0, <1>2, <2>1, <2>4 DEF NodesTypeOK, NodeInv, HandlersInv, RowNeeded
    <2>7. EtcdInv(m)' /\ KeptInv(m)'
      BY <1>0, <1>1, <2>1, <2>2, <2>3, <2>4 DEF NodesTypeOK, NodeInv, EtcdInv, KeptInv
    <2>8. \A n \in Nodes \ {m} : Elsewhere(n)
      BY <1>0, <2>1, <2>2, <2>3, <2>4 DEF NodesTypeOK, Elsewhere
    <2> QED
      BY <2>5, <2>6, <2>7, <2>8, StepAt DEF NodeInv
  <1>3. CASE /\ markOffline(m) /\ ~Cached(m) /\ GetByNodeID(m) # NoRow
             /\ \E outcome \in Outcomes : UpdateNode(m, Offline(GetByNodeID(m)), outcome)
             /\ UNCHANGED <<onlineNodes, watchers, admin>>
    <2>1. Offline(GetByNodeID(m)) \in Node /\ nodeRows[m] # NoRow
      BY <1>0, <1>3, NodeValues DEF GetByNodeID, NodeStoreTypeOK
    <2>2. /\ NodeStoreTypeOK' /\ FaultsTypeOK' /\ (faults' = faults \/ faults' # 0)
          /\ nodeRows'[m] # NoRow
          /\ \A n \in Nodes \ {m} : nodeRows'[n] = nodeRows[n]
      BY <1>0, <1>3, <2>1, StoreWrites
    <2>3. NodesTypeOK'
      BY <1>0, <1>3, <2>2 DEF markOffline, NodesTypeOK
    <2>4. HandlersInv(m)'
      BY <1>0, <1>3, <2>2 DEF markOffline, NodesTypeOK, NodeInv, HandlersInv, RowNeeded, Cached
    <2>5. EtcdInv(m)' /\ KeptInv(m)'
      BY <1>0, <1>3, <2>2 DEF markOffline, NodesTypeOK, NodeInv, EtcdInv, KeptInv
    <2>6. \A n \in Nodes \ {m} : Elsewhere(n)
      BY <1>0, <1>3, <2>2 DEF markOffline, NodesTypeOK, Elsewhere
    <2> QED
      BY <2>3, <2>4, <2>5, <2>6, StepAt DEF NodeInv
  <1> QED
    BY <1>2, <1>3 DEF checkOfflineNodes, markOffline

(***************************************************************************)
(* DrainNode and UncordonNode.                                             *)
(***************************************************************************)

\* A request works on a node that has a row, through the struct it shares
\* with the cache or through a copy.
LEMMA AdminKeeps ==
    ASSUME NodesInv, NEW m \in Nodes, DrainNode(m) \/ UncordonNode(m) \/ AdminStep(m)
    PROVE  NodesInv'
  <1>0. NodesTypeOK /\ NodeInv(m) /\ NodeStoreTypeOK /\ FaultsTypeOK
    BY DEF NodesInv, NodesTypeOK
  <1>1. CASE DrainNode(m) \/ UncordonNode(m)
    <2>1. PICK s \in {"drain", "online"} : SetStatus(m, s)
      BY <1>1 DEF DrainNode, UncordonNode
    <2>2. nodeRows[m] # NoRow
      BY <1>0, <2>1 DEF SetStatus, GetByNodeID, NodeInv, HandlersInv, RowNeeded
    <2>3. /\ touched' = touched \cup {m} /\ drained' \subseteq Nodes
          /\ UNCHANGED <<nodeRows, faults, etcdVars, agents, hb, heard>>
      BY <1>0, <2>1 DEF SetStatus, NodesTypeOK
    <2>4. /\ onlineNodes' \in [Nodes -> Node \cup {NoNode}]
          /\ Cached(m) => onlineNodes'[m] \in Node
          /\ \A n \in Nodes \ {m} : onlineNodes'[n] = onlineNodes[n]
      <3>1. CASE Cached(m)
        <4>1. [onlineNodes[m] EXCEPT !.status = s] \in Node
          <5>1. onlineNodes[m] \in Node /\ s \in {"online", "offline", "drain"}
            BY <1>0, <2>1, <3>1 DEF NodesTypeOK, Cached
          <5>2. \A node \in Node, t \in {"online", "offline", "drain"} :
                   [node EXCEPT !.status = t] \in Node
            BY NodeValues
          <5> QED BY ONLY <5>1, <5>2
        <4>2. onlineNodes' = [onlineNodes EXCEPT ![m] = [onlineNodes[m] EXCEPT !.status = s]]
          BY <2>1, <3>1 DEF SetStatus
        <4> QED
          BY <1>0, <4>1, <4>2 DEF NodesTypeOK
      <3>2. CASE ~Cached(m)
        BY <1>0, <2>1, <3>2 DEF SetStatus, NodesTypeOK
      <3> QED
        BY <3>1, <3>2
    <2>5. PICK p \in {"eval", "read"}, x \in {Shared, NoNode} :
            /\ admin' = [admin EXCEPT ![m] = [pc |-> p, status |-> s, node |-> x]]
            /\ p = "eval" => x = Shared
            /\ x = Shared => Cached(m)
      BY <2>1, NodeValues DEF SetStatus, SetAdmin
    <2>6. NodesTypeOK'
      BY <1>0, <2>3, <2>4, <2>5, FaultsGrow DEF NodesTypeOK, NodeStoreTypeOK, etcdVars
    <2>7. HandlersInv(m)'
      BY <1>0, <2>2, <2>3, <2>4, <2>5, NodeValues
      DEF NodesTypeOK, NodeInv, HandlersInv, RowNeeded, Cached
    <2>8. EtcdInv(m)' /\ KeptInv(m)'
      BY <1>0, <2>3 DEF NodesTypeOK, NodeInv, EtcdInv, KeptInv, etcdVars
    <2>9. \A n \in Nodes \ {m} : Elsewhere(n)
      BY <1>0, <2>3, <2>4, <2>5 DEF NodesTypeOK, Elsewhere, etcdVars
    <2> QED
      BY <2>6, <2>7, <2>8, <2>9, StepAt DEF NodeInv
  <1>2. CASE AdminRead(m) \/ AdminEval(m)
    <2>1. admin[m].status \in {"drain", "online"} /\ nodeRows[m] \in Node /\ nodeRows[m] # NoRow
      BY <1>0, <1>2
      DEF AdminRead, AdminEval, NodeInv, HandlersInv, RowNeeded, NodeStoreTypeOK
    <2>2. PICK x \in Node :
            admin' = [admin EXCEPT ![m] = [pc |-> "write", status |-> admin[m].status, node |-> x]]
      <3>1. CASE AdminRead(m)
        BY <2>1, <3>1, NodeValues DEF AdminRead, SetAdmin, GetByNodeID
      <3>2. CASE AdminEval(m)
        <4> DEFINE node == IF admin[m].node = Shared THEN onlineNodes[m] ELSE admin[m].node
        <4>1. node \in Node
          BY <1>0, <3>2 DEF AdminEval, NodeInv, HandlersInv, NodesTypeOK, Cached
        <4>2. PICK s \in {admin[m].status, node.status} :
                SetAdmin(m, "write", admin[m].status, [node EXCEPT !.status = s])
          BY <3>2 DEF AdminEval
        <4> HIDE DEF node
        <4>3. [node EXCEPT !.status = s] \in Node
          BY <2>1, <4>1, <4>2, NodeValues
        <4> QED
          BY <4>2, <4>3 DEF SetAdmin
      <3> QED
        BY <1>2, <3>1, <3>2
    <2>3. UNCHANGED <<nodeRows, faults, onlineNodes, etcdVars, agents, hb, heard, drained, touched>>
      BY <1>2 DEF AdminRead, AdminEval
    <2>4. NodesTypeOK'
      BY <1>0, <2>1, <2>2, <2>3, FaultsGrow DEF NodesTypeOK, NodeStoreTypeOK, etcdVars
    <2>5. HandlersInv(m)'
      BY <1>0, <2>1, <2>2, <2>3, NodeValues
      DEF NodesTypeOK, NodeInv, HandlersInv, RowNeeded, Cached
    <2>6. EtcdInv(m)' /\ KeptInv(m)'
      BY <1>0, <2>3 DEF NodesTypeOK, NodeInv, EtcdInv, KeptInv, etcdVars
    <2>7. \A n \in Nodes \ {m} : Elsewhere(n)
      BY <1>0, <2>2, <2>3 DEF NodesTypeOK, Elsewhere, etcdVars
    <2> QED
      BY <2>4, <2>5, <2>6, <2>7, StepAt DEF NodeInv
  <1>3. CASE AdminWrite(m)
    <2>1. admin[m].node \in Node
      BY <1>0, <1>3 DEF AdminWrite, NodeInv, HandlersInv
    <2>2. PICK outcome \in Outcomes : UpdateNode(m, admin[m].node, outcome)
      BY <1>3 DEF AdminWrite
    <2>3. /\ NodeStoreTypeOK' /\ FaultsTypeOK' /\ (faults' = faults \/ faults' # 0)
          /\ nodeRows[m] # NoRow => nodeRows'[m] # NoRow
          /\ \A n \in Nodes \ {m} : nodeRows'[n] = nodeRows[n]
      BY <1>0, <2>1, <2>2, StoreWrites
    <2>4. NodesTypeOK'
      BY <1>0, <1>3, <2>3 DEF AdminWrite, NodesTypeOK, etcdVars, NoAdmin
    <2>5. HandlersInv(m)'
      BY <1>0, <1>3, <2>3, NodeValues
      DEF AdminWrite, NodesTypeOK, NodeInv, HandlersInv, RowNeeded, Cached, NoAdmin
    <2>6. EtcdInv(m)' /\ KeptInv(m)'
      BY <1>0, <1>3, <2>3 DEF AdminWrite, NodesTypeOK, NodeInv, EtcdInv, KeptInv, etcdVars
    <2>7. \A n \in Nodes \ {m} : Elsewhere(n)
      BY <1>0, <1>3, <2>3 DEF AdminWrite, NodesTypeOK, Elsewhere, etcdVars
    <2> QED
      BY <2>4, <2>5, <2>6, <2>7, StepAt DEF NodeInv
  <1> QED
    BY <1>1, <1>2, <1>3 DEF AdminStep

(***************************************************************************)
(* The environment.                                                        *)
(***************************************************************************)

\* An agent's death and the passing of 30 seconds: silence ages what an agent
\* that is up left behind only by a fault.
LEMMA SilenceKeeps ==
    ASSUME NodesInv, NEW m \in Nodes, AgentDies(m) \/ Silence(m)
    PROVE  NodesInv'
  <1>0. NodesTypeOK /\ NodeInv(m) /\ NodeStoreTypeOK /\ FaultsTypeOK
    BY DEF NodesInv, NodesTypeOK
  <1>1. CASE AgentDies(m)
    <2>1. NodesTypeOK'
      BY <1>0, <1>1, FaultsGrow DEF AgentDies, SetAgent, NodesTypeOK, NodeStoreTypeOK, etcdVars
    <2>2. HandlersInv(m)'
      BY <1>0, <1>1
      DEF AgentDies, SetAgent, NodesTypeOK, NodeInv, HandlersInv, RowNeeded, Cached
    <2>3. EtcdInv(m)' /\ KeptInv(m)'
      BY <1>0, <1>1 DEF AgentDies, SetAgent, NodesTypeOK, NodeInv, EtcdInv, KeptInv, etcdVars
    <2>4. \A n \in Nodes \ {m} : Elsewhere(n)
      BY <1>0, <1>1 DEF AgentDies, SetAgent, NodesTypeOK, Elsewhere, etcdVars
    <2> QED
      BY <2>1, <2>2, <2>3, <2>4, StepAt DEF NodeInv
  <1>2. CASE Silence(m)
    <2>1. FaultsTypeOK' /\ (faults' = faults \/ faults' # 0)
          /\ (faults' = 0 => agents[m] = "dead")
      BY <1>0, <1>2, FaultsGrow DEF Silence
    <2>2. /\ Aged(nodeRows[m]) \in Node \cup {NoNode}
          /\ nodeRows[m] # NoRow => Aged(nodeRows[m]) # NoRow
      BY <1>0, NodeValues DEF NodeStoreTypeOK, NoNode
    <2>3. /\ Aged(onlineNodes[m]) \in Node \cup {NoNode}
          /\ onlineNodes[m] # NoNode <=> Aged(onlineNodes[m]) # NoNode
      <3>1. onlineNodes[m] \in Node \cup {NoNode}
        BY <1>0 DEF NodesTypeOK
      <3> QED
        BY <3>1, NodeValues
    <2>4. /\ Aged(admin[m].node) \in Node \cup {NoNode, Shared}
          /\ admin[m].node \in Node => Aged(admin[m].node) \in Node
          /\ Aged(admin[m].node) = Shared <=> admin[m].node = Shared
      <3>1. admin[m].node \in Node \cup {NoNode, Shared}
        BY <1>0 DEF NodesTypeOK
      <3> QED
        BY <3>1, NodeValues
    <2>5. /\ nodeRows' = [nodeRows EXCEPT ![m] = Aged(nodeRows[m])]
          /\ onlineNodes' = [onlineNodes EXCEPT ![m] = Aged(onlineNodes[m])]
          /\ admin' = [admin EXCEPT ![m].node = Aged(admin[m].node)]
          /\ heard' = heard \ {m}
          /\ UNCHANGED <<etcdClient, nodeWatch, watchers, etcdKeys, deleted, agents, hb, drained, touched>>
      BY <1>0, <1>2 DEF Silence, etcdVars, NodesTypeOK
    <2>6. NodesTypeOK'
      BY <1>0, <2>1, <2>2, <2>3, <2>4, <2>5 DEF NodesTypeOK, NodeStoreTypeOK, NoNode
    <2>7. HandlersInv(m)'
      BY <1>0, <2>2, <2>3, <2>4, <2>5
      DEF NodesTypeOK, NodeStoreTypeOK, NodeInv, HandlersInv, RowNeeded, Cached
    <2>8. EtcdInv(m)' /\ KeptInv(m)'
      BY <1>0, <2>1, <2>5 DEF NodeInv, EtcdInv, KeptInv
    <2>9. \A n \in Nodes \ {m} : Elsewhere(n)
      BY <1>0, <2>1, <2>5 DEF NodesTypeOK, NodeStoreTypeOK, Elsewhere
    <2> QED
      BY <2>6, <2>7, <2>8, <2>9, StepAt DEF NodeInv
  <1> QED
    BY <1>1, <1>2

\* A key disappears with a lease that nobody renewed; of a node that has been
\* heard of, only by a fault.
LEMMA LeaseKeeps ==
    ASSUME NodesInv, NEW m \in Nodes,
           LeaseExpires(m) \/ RenewalsFail(m) \/ BareLeaseExpires(m)
    PROVE  NodesInv'
  <1>0. NodesTypeOK /\ NodeInv(m) /\ NodeStoreTypeOK /\ FaultsTypeOK
    BY DEF NodesInv, NodesTypeOK
  <1>1. CASE LeaseExpires(m) \/ RenewalsFail(m)
    <2>1. FaultsTypeOK' /\ (faults' = faults \/ faults' # 0)
          /\ (faults' = 0 => faults = 0 /\ (m \notin heard \/ watchers[m] # "keyed"))
      BY <1>0, <1>1, FaultsGrow DEF LeaseExpires, RenewalsFail
    <2>2. KeyDeleted(m)
      BY <1>1 DEF LeaseExpires, RenewalsFail
    <2>3. NodesTypeOK'
      BY <1>0, <2>1, <2>2 DEF KeyDeleted, NodesTypeOK, NodeStoreTypeOK
    <2>4. HandlersInv(m)'
      BY <1>0, <2>2 DEF KeyDeleted, NodesTypeOK, NodeInv, HandlersInv, RowNeeded, Cached
    <2>5. EtcdInv(m)'
      BY <1>0, <2>2 DEF KeyDeleted, NodeInv, EtcdInv
    <2>6. KeptInv(m)'
      BY <1>0, <2>1, <2>2 DEF KeyDeleted, NodeInv, EtcdInv, KeptInv
    <2>7. \A n \in Nodes \ {m} : Elsewhere(n)
      BY <1>0, <2>1, <2>2 DEF KeyDeleted, NodesTypeOK, Elsewhere
    <2> QED
      BY <2>3, <2>4, <2>5, <2>6, <2>7, StepAt DEF NodeInv
  <1>2. CASE BareLeaseExpires(m)
    <2>1. NodesTypeOK'
      BY <1>0, <1>2, FaultsGrow DEF BareLeaseExpires, NodesTypeOK, NodeStoreTypeOK
    <2>2. HandlersInv(m)'
      BY <1>0, <1>2 DEF BareLeaseExpires, NodesTypeOK, NodeInv, HandlersInv, RowNeeded, Cached
    <2>3. EtcdInv(m)' /\ KeptInv(m)'
      BY <1>0, <1>2 DEF BareLeaseExpires, NodesTypeOK, NodeInv, EtcdInv, KeptInv
    <2>4. \A n \in Nodes \ {m} : Elsewhere(n)
      BY <1>0, <1>2 DEF BareLeaseExpires, NodesTypeOK, Elsewhere
    <2> QED
      BY <2>1, <2>2, <2>3, <2>4, StepAt DEF NodeInv
  <1> QED
    BY <1>1, <1>2

\* The node watch opens, or ends with a fault and with what it had received.
LEMMA WatchKeeps ==
    ASSUME NodesInv, NodeWatchOpens \/ NodeWatchEnds
    PROVE  NodesInv'
  <1>0. NodesTypeOK /\ NodeStoreTypeOK /\ FaultsTypeOK
    BY DEF NodesInv, NodesTypeOK
  <1>1. FaultsTypeOK' /\ (faults' = faults \/ faults' # 0)
    BY <1>0, FaultsGrow DEF NodeWatchOpens, NodeWatchEnds
  <1>2. /\ deleted' \subseteq deleted /\ nodeWatch' \in {"open", "ended"}
        /\ etcdClient' = etcdClient /\ nodeRows' = nodeRows /\ onlineNodes' = onlineNodes
        /\ watchers' = watchers /\ etcdKeys' = etcdKeys /\ agents' = agents /\ hb' = hb
        /\ admin' = admin /\ heard' = heard /\ drained' = drained /\ touched' = touched
    BY DEF NodeWatchOpens, NodeWatchEnds
  <1>3. NodesTypeOK'
    BY <1>0, <1>1, <1>2 DEF NodesTypeOK, NodeStoreTypeOK
  <1>4. ASSUME NEW n \in Nodes
        PROVE  NodeInv(n)'
    <2>1. NodeInv(n)
      BY DEF NodesInv
    <2>2. HandlersInv(n)'
      BY <1>2, <2>1 DEF NodeInv, HandlersInv, RowNeeded, Cached
    <2>3. EtcdInv(n)'
      BY <1>2, <2>1 DEF NodeInv, EtcdInv
    <2>4. KeptInv(n)'
      BY <1>1, <1>2, <2>1 DEF NodeInv, KeptInv
    <2> QED
      BY <2>2, <2>3, <2>4 DEF NodeInv
  <1> QED
    BY <1>3, <1>4 DEF NodesInv

\* A restart is a fault: it empties the cache and forgets leases, deletions
\* and requests, and leaves the rows.
LEMMA RestartKeeps ==
    ASSUME NodesInv, Restart
    PROVE  NodesInv'
  <1>0. NodesTypeOK /\ NodeStoreTypeOK /\ FaultsTypeOK
    BY DEF NodesInv, NodesTypeOK
  <1>1. FaultsTypeOK' /\ faults' # 0
    BY <1>0, FaultsGrow DEF Restart
  <1>2. /\ onlineNodes' = [n \in Nodes |-> NoNode] /\ watchers' = [n \in Nodes |-> "none"]
        /\ nodeWatch' \in {"none", "starting"}
        /\ deleted' = {} /\ hb' = [n \in Nodes |-> IdleHb] /\ admin' = [n \in Nodes |-> NoAdmin]
        /\ agents' = [n \in Nodes |-> IF agents[n] \in {"lease", "cache"} THEN "dead" ELSE agents[n]]
        /\ etcdClient' = etcdClient /\ nodeRows' = nodeRows /\ etcdKeys' = etcdKeys
        /\ heard' = heard /\ drained' = drained /\ touched' = touched
    BY DEF Restart, NewWatch
  <1>3. NodesTypeOK'
    BY <1>0, <1>1, <1>2 DEF NodesTypeOK, NodeStoreTypeOK, IdleHb, NoAdmin
  <1>4. ASSUME NEW n \in Nodes
        PROVE  NodeInv(n)'
    <2>1. NodeInv(n)
      BY DEF NodesInv
    <2>2. HandlersInv(n)'
      BY <1>0, <1>2, <2>1, NodeValues
      DEF NodesTypeOK, NodeInv, HandlersInv, RowNeeded, Cached, IdleHb, NoAdmin
    <2>3. EtcdInv(n)'
      BY <1>0, <1>2, <2>1 DEF NodesTypeOK, NodeInv, EtcdInv
    <2>4. KeptInv(n)'
      BY <1>1 DEF KeptInv
    <2> QED
      BY <2>2, <2>3, <2>4 DEF NodeInv
  <1> QED
    BY <1>3, <1>4 DEF NodesInv

-----------------------------------------------------------------------------
(***************************************************************************)
(* The theorems.                                                           *)
(***************************************************************************)

\* At the start there is no row, no node in the cache and no agent.
LEMMA NodesStart == NodesInit => NodesInv
  <1> SUFFICES ASSUME NodesInit PROVE NodesInv
    OBVIOUS
  <1>1. NodesTypeOK
    BY MaxFaultsAssumption
    DEF NodesInit, NewWatch, NodesTypeOK, NodeStoreInit, NodeStoreTypeOK, FaultsInit, FaultsTypeOK,
        IdleHb, NoAdmin, NoNode
  <1>2. ASSUME NEW n \in Nodes
        PROVE  NodeInv(n)
    BY NodeValues
    DEF NodesInit, NodeInv, HandlersInv, RowNeeded, Cached, EtcdInv, KeptInv, IdleHb, NoAdmin
  <1> QED
    BY <1>1, <1>2 DEF NodesInv

\* Every step keeps the invariant.
LEMMA NodesStep == NodesInv /\ [NodesNext]_nodeVars => NodesInv'
  <1> SUFFICES ASSUME NodesInv, [NodesNext]_nodeVars PROVE NodesInv'
    OBVIOUS
  <1>1. CASE UNCHANGED nodeVars
    <2>1. NodesTypeOK'
      BY <1>1 DEF NodesInv, NodesTypeOK, NodeStoreTypeOK, FaultsTypeOK, nodeVars, etcdVars
    <2>2. \A n \in Nodes : Elsewhere(n)
      BY <1>1 DEF Elsewhere, nodeVars, etcdVars
    <2> QED
      BY <2>1, <2>2, NodeElsewhere DEF NodesInv
  <1>2. ASSUME NEW m \in Nodes,
               \/ Register(m) \/ Heartbeat(m) \/ HeartbeatRead(m)
               \/ RegisterStep(m) \/ HeartbeatStep(m) \/ AdminStep(m)
               \/ checkOfflineNodes(m) \/ markOffline(m)
               \/ DrainNode(m) \/ UncordonNode(m)
               \/ AgentDies(m) \/ Silence(m)
               \/ LeaseExpires(m) \/ RenewalsFail(m) \/ BareLeaseExpires(m)
        PROVE  NodesInv'
    BY <1>2, RegisterKeeps, HeartbeatKeeps, OfflineKeeps, AdminKeeps, SilenceKeeps, LeaseKeeps
    DEF RegisterStep
  <1> QED
    BY <1>1, <1>2, WatchKeeps, RestartKeeps DEF NodesNext

\* The invariant holds in every reachable state.
LEMMA NodesInvariant == NodesSpec => []NodesInv
  BY NodesStart, NodesStep, PTL DEF NodesSpec

\* The variables keep their types, whatever fails.
THEOREM NodeTypes == NodesSpec => []NodesTypeOK
  <1>1. NodesInv => NodesTypeOK
    BY DEF NodesInv
  <1> QED
    BY <1>1, NodesInvariant, PTL

\* A node the scheduler may choose has a row, for any number of nodes, faults
\* and restarts: the row is written before the node is put into the cache
\* (Register), a heartbeat puts back only what it read, and nothing deletes
\* a row.
THEOREM PlacementHasRow == NodesSpec => []SchedulableHasRow
  <1>1. NodesInv => SchedulableHasRow
    BY DEF NodesInv, NodeInv, HandlersInv, RowNeeded, SchedulableHasRow, Schedulable
  <1> QED
    BY <1>1, NodesInvariant, PTL

\* Before the first failed call or late heartbeat, an agent that is up and
\* that no administrator touched is schedulable, with the checker as with the
\* watcher.
THEOREM HeartbeatsKeepNodes == NodesSpec => []HeartbeatKeepsNode
  <1>1. NodesInv => HeartbeatKeepsNode
    <2> SUFFICES ASSUME NodesInv, faults = 0, NEW n \in Nodes, n \notin touched, agents[n] = "up"
                 PROVE  n \in Schedulable
      BY DEF HeartbeatKeepsNode
    <2>1. onlineNodes[n].status = "online"
      BY DEF NodesInv, NodeInv, KeptInv
    <2>2. NoNode.status # "online"
      BY DEF NoNode, NoRow
    <2> QED
      BY <2>1, <2>2 DEF Schedulable, Cached, IsSchedulable
  <1> QED
    BY <1>1, NodesInvariant, PTL
=============================================================================
