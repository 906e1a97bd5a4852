\* A kernel's finding from its distribution's feed, which does not answer.
SPECIFICATION Spec
CONSTANTS
  user = user
  counted = counted
  kernel = kernel
  Findings = {user, kernel}
  Fed = {kernel}
  Unfixed = {}
  Keep = 2
  MaxClock = 4
PROPERTIES
  FeedOutageResolvesNothing
\* No scan is begun once the clock has reached its bound.
CHECK_DEADLOCK FALSE
