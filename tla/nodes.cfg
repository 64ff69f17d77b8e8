\* One node, with and without etcd, up to two faults.
SPECIFICATION FairNodesSpec
CONSTANTS
  Nodes = {n1}
  MaxFaults = 2
INVARIANTS
  NodesTypeOK
  SchedulableHasRow
  HeartbeatKeepsNode
PROPERTIES
  DeadNodeLeaves
CHECK_DEADLOCK FALSE
