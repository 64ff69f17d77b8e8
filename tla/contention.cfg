\* Two tasks that do not fit together, with retries and push-backs.
SPECIFICATION Spec
CONSTANTS
  t1 = t1
  t2 = t2
  Tasks = {t1, t2}
  NoTask = NoTask
  MaxRetries = 1
  CPULimit <- MCCPULimit
  MemoryLimit <- MCMemoryLimit
  Priority <- MCPriority
  MaxFaults = 0
  Runs = {1, 2}
  NoRun = NoRun
  Nodes = {}
  NoNode = NoNode
  MaxConcurrent = 2
  TotalCPU = 2
  TotalMemory = 2
  NodeQueueCap = 1
  MaxCancels = 0
INVARIANTS
  SingleLife
  RunningWithinResources
PROPERTIES
  KeptAlive
