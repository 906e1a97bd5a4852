\* The same two jobs under fairness, with one failure or restart wherever it
\* falls; with and without a worker.
SPECIFICATION FairSpec
CONSTANTS
  j1 = j1
  j2 = j2
  h1 = h1
  h2 = h2
  NoJob = NoJob
  Jobs = {j1, j2}
  Hosts = {h1, h2}
  Requested <- MCRequested
  Cancellers = {c1}
  MaxJobs = 2
  WorkerModes = {TRUE, FALSE}
  MaxFaults = 1
  MaxCrashes = 1
PROPERTIES
  EveryJobEnds
  EveryHandoffAnswered
\* The service is idle once every job has ended.
CHECK_DEADLOCK FALSE
