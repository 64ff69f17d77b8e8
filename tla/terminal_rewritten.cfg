\* A terminal row is left again.
SPECIFICATION Spec
CONSTANTS
  t1 = t1
  t2 = t2
  Tasks = {t1}
  NoTask = NoTask
  MaxRetries = 1
  CPULimit <- MCCPULimit
  MemoryLimit <- MCMemoryLimit
  Priority <- MCPriority
  MaxFaults = 0
  Runs = {1, 2}
  NoRun = NoRun
  Nodes = {}
  NoNode = NoNode
  MaxConcurrent = 1
  TotalCPU = 2
  TotalMemory = 2
  NodeQueueCap = 1
  MaxCancels = 1
PROPERTIES
  TerminalIsFinal
