\* Two syncs, at once or one after the other.
SPECIFICATION FairSpec
CONSTANTS
  host = host
  finding = finding
  here = here
  there = there
  Machines = {host}
  Others = {finding}
  Data = {1, 2}
  Syncs = {here, there}
INVARIANT SyncedIsOnline
 
