\* One task, local and remote runs, one cancellation, one fault or crash.
SPECIFICATION Spec
CONSTANTS
  t1 = t1
  t2 = t2
  Tasks = {t1}
  NoTask = NoTask
  MaxRetries = 1
  CPULimit <- MCCPULimit
  MemoryLimit <- MCMemoryLimit
  Priority <- MCPriority
  MaxFaults = 1
  Runs = {1, 2}
  NoRun = NoRun
  Nodes = {n1}
  NoNode = NoNode
  MaxConcurrent = 1
  TotalCPU = 2
  TotalMemory = 2
  NodeQueueCap = 1
  MaxCancels = 1
INVARIANTS
  TypeOK
  SingleLife
  QueuedCopyIsCurrent
PROPERTIES
  Lifecycle
  KeptAlive
