\* Two days, two times of day, one host, three zones; a tick that fails or a stop.
SPECIFICATION FairSpec
CONSTANTS
  j1 = j1
  j2 = j2
  Jobs = {j1, j2}
  Hosts = {"host"}
  Times <- MCTimes
  Day = 3
  Zones <- MCZones
  Start = 3
  End = 8
  MaxFaults = 1
  NoJob = NoJob
  Never = Never
INVARIANT OneRunPerSlot
PROPERTY DueIsHandled
\* The clock stops at the end of the second day.
CHECK_DEADLOCK FALSE
