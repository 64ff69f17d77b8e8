\* A heartbeat ends a drain.
SPECIFICATION NodesSpec
CONSTANTS
  Nodes = {n1}
  MaxFaults = 0
INVARIANTS
  DrainedNotScheduled
CHECK_DEADLOCK FALSE
