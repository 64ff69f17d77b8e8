\* Three changes in etcd, a listener's channel of one, one fault.
SPECIFICATION FairSpec
CONSTANTS
  Nodes = {n1, n2}
  NodeValues = {a}
  Params <- MCParams
  ParamValues = {0, 2, 3}
  Default <- MCDefault
  NoVal = NoVal
  Buffer = 1
  MaxEvents = 3
  MaxFaults = 1
INVARIANTS
  TypeOK
  CacheIsReplay
  ConsumerFollows
  ConfigCurrent
PROPERTIES
  CacheConverges
CHECK_DEADLOCK FALSE
