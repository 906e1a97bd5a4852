\* Two hosts of one release and two advisories, whatever OSV says of them; any
\* request may fail and answers have up to two pages, the first perhaps empty.
SPECIFICATION LookupFairSpec
CONSTANTS
  h1 = h1
  h2 = h2
  deb = deb
  d12 = d12
  d13 = d13
  lib = lib
  libsrc = libsrc
  linux = linux
  v1 = v1
  v2 = v2
  Hosts = {h1, h2}
  Ecos = {deb}
  Families = {deb}
  Releases = {d12, d13}
  Packages = {lib, linux}
  Names = {lib, libsrc, linux}
  Vulns = {v1, v2}
  Kernel = {linux}
  KernelMatched = {deb}
  EcoOf <- MCEcoOf
  Installed <- MCInstalled
  NamesOf <- MCNamesOf
  ReleasesOf <- MCReleasesOf
  Wide <- MCWide
  Databases <- MCDatabases
  Family <- MCFamily
  MaxPages = 2
  NoHost = NoHost
INVARIANTS
  NothingMissed
  NotForeign
PROPERTY EveryLookupEnds
\* The job is over once every host is matched.
CHECK_DEADLOCK FALSE
