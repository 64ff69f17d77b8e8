\* Two requests of one client, a log of three lines that keeps two.
SPECIFICATION FairSpec
CONSTANTS
  Requests = {r1, r2}
  Uids = {r1, r2}
  None = None
  Limit = 1
  MaxLen = 2
  ReadCount = 1
  MaxLines = 3
  MaxFaults = 1
INVARIANTS
  TypeOK
  WithinLimit
  StreamComplete
PROPERTIES
  LimitLifted
  DuplicateOfTask
  StreamEnds
CHECK_DEADLOCK FALSE
