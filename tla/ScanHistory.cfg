\* A package's finding, a kernel's that may be counted, a kernel's from a feed.
SPECIFICATION Spec
CONSTANTS
  user = user
  counted = counted
  kernel = kernel
  Findings = {user, counted, kernel}
  Fed = {kernel}
  Unfixed = {counted}
  Keep = 2
  MaxClock = 6
INVARIANTS
  HistoryAccounts
  FirstSeenIsWhenNew
PROPERTIES
  LatestSuccessKept
  OutageResolvesNothing
\* No scan is begun once the clock has reached its bound.
CHECK_DEADLOCK FALSE
