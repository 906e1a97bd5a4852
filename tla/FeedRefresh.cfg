\* Two refreshes of a feed at once, and a scan.
SPECIFICATION FairSpec
CONSTANTS
  KEV = "kev"
  EPSS = "epss"
  None = None
  one = one
  other = other
  periodic = periodic
  route = route
  host = host
  Feeds = {"kev"}
  Cves = {one, other}
  Matched = {one}
  Values = {"listed"}
  Published <- MCPublished
  Refreshers = {periodic, route}
  EnrichFails = TRUE
  Scans = {host}
INVARIANT StatedIsHeld
PROPERTY Converges
