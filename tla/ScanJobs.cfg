\* Two jobs, of two hosts and of one; either route; two cancels at a time; one
\* failure, wherever it falls; with and without a worker.
SPECIFICATION CancelSpec
CONSTANTS
  j1 = j1
  j2 = j2
  h1 = h1
  h2 = h2
  NoJob = NoJob
  Jobs = {j1, j2}
  Hosts = {h1, h2}
  Requested <- MCRequested
  Cancellers = {c1, c2}
  MaxJobs = 1
  WorkerModes = {TRUE, FALSE}
  MaxFaults = 1
  MaxCrashes = 0
SYMMETRY Symmetry
INVARIANTS
  OneScanAtATime
  CredentialsOnlyWhileQueued
  NoJobForgotten
PROPERTIES
  ImplementsLifecycle
  CancelStopsTheScan
\* The service is idle once every job has ended.
CHECK_DEADLOCK FALSE
