----------------------------- MODULE NodeStore -----------------------------
(***************************************************************************)
(* The node entity of internal/model/node.go and the nodes table of        *)
(* PostgreSQL as internal/store/node_store.go uses it.  Of a node, its     *)
(* status and the age of LastHeartbeatAt matter: "nil", less than          *)
(* offlineAfter ago ("fresh") or more ("old").                             *)
(***************************************************************************)
EXTENDS Faults

CONSTANT Nodes   \* node IDs, one per registration (uuid.New)

VARIABLE nodeRows

NodeStatus == {"online", "offline", "drain", "cordon"}
Seen == {"nil", "fresh", "old"}

\* The status cordon is declared and nothing sets it.
Node == [status : NodeStatus \ {"cordon"}, seen : Seen]
NoRow == [status |-> "none", seen |-> "nil"]

NewNode == [status |-> "online", seen |-> "nil"]
IsSchedulable(node) == node.status = "online"

NodeStoreTypeOK == nodeRows \in [Nodes -> Node \cup {NoRow}]

NodeStoreInit == nodeRows = [n \in Nodes |-> NoRow]

GetByNodeID(n) == nodeRows[n]

CreateNode(n, node, outcome) ==
    /\ Attempt(outcome)
    /\ nodeRows' = IF outcome = "error" THEN nodeRows ELSE [nodeRows EXCEPT ![n] = node]

\* The whole row, LastHeartbeatAt included; no row, no effect.
UpdateNode(n, node, outcome) ==
    /\ Attempt(outcome)
    /\ nodeRows' = IF outcome = "error" \/ nodeRows[n] = NoRow
                     THEN nodeRows
                     ELSE [nodeRows EXCEPT ![n] = node]

\* The resources and the time of the heartbeat; the status is not written.
UpdateHeartbeat(n, outcome) ==
    /\ Attempt(outcome)
    /\ nodeRows' = IF outcome = "error" \/ nodeRows[n] = NoRow
                     THEN nodeRows
                     ELSE [nodeRows EXCEPT ![n].seen = "fresh"]
=============================================================================
