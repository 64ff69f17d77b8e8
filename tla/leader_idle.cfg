\* A leader does not schedule.
SPECIFICATION FairSpec
CONSTANTS
  Servers = {s1, s2}
  Tasks = {t1}
  NoTask = NoTask
  NoServer = NoServer
  MaxRetries = 0
  MaxCopies = 1
  MaxFaults = 0
PROPERTIES
  LeaderSchedules
CHECK_DEADLOCK FALSE
