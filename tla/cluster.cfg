\* Three processes, one task, one retry, two faults.
SPECIFICATION FairSpec
CONSTANTS
  Servers = {s1, s2, s3}
  Tasks = {t1}
  NoTask = NoTask
  NoServer = NoServer
  MaxRetries = 1
  MaxCopies = 2
  MaxFaults = 2
INVARIANTS
  TypeOK
  OneLeader
  OneRunner
PROPERTIES
  LeaderReplaced
CHECK_DEADLOCK FALSE
