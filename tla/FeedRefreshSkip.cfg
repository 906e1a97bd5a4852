\* One refresh at a time, of both feeds, and a scan.
SPECIFICATION Spec
CONSTANTS
  KEV = "kev"
  EPSS = "epss"
  None = None
  one = one
  other = other
  periodic = periodic
  route = route
  host = host
  Feeds = {"kev", "epss"}
  Cves = {one, other}
  Matched = {one}
  Values = {"listed"}
  Published <- MCPublished
  Refreshers = {periodic}
  EnrichFails = FALSE
  Scans = {host}
PROPERTY SkippedIsCurrent
