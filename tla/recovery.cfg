\* Two tasks, one slot, agents that owe nothing, one fault or crash.
SPECIFICATION FairTickSpec
CONSTANTS
  t1 = t1
  t2 = t2
  Tasks = {t1, t2}
  NoTask = NoTask
  MaxRetries = 0
  CPULimit <- MCCPULimit
  MemoryLimit <- MCMemoryLimit
  Priority <- MCPriority
  MaxFaults = 1
  Runs = {1, 2}
  NoRun = NoRun
  Nodes = {n1}
  NoNode = NoNode
  MaxConcurrent = 1
  TotalCPU = 2
  TotalMemory = 2
  NodeQueueCap = 1
  MaxCancels = 0
INVARIANTS
  RunningWithinSlots
PROPERTIES
  RunningEnds
  ReadyIsPopped
