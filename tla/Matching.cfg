SPECIFICATION MCSpec
CONSTANTS
  Hosts <- MCHosts
  Installed <- MCInstalled
  Answers <- MCAnswers
  VersionRank <- MCVersionRank
  TextRank <- MCTextRank
  HintsOf <- MCHintsOf
  Characters = {126, 94, 48, 49, 97, 46, 45, 58}
  MaxLength = 2
  Start <- MCStart
  Varied <- MCVaried
  Series = {1, 2, 3, 4}
  Builds = {0, 1, 2}
  Systems <- MCSystems
  ImagesOf <- MCImagesOf
  ServedOf <- MCServedOf
  Cves = {"one", "two"}
  KevVerdicts <- MCKev
  MaxImages = 2
  Contents = {1, 2}
  Refreshers = {"schedule", "scan"}
  NoTag = NoTag
INVARIANTS OneFindingEach FixIsTheHosts OrderFree AskedWhole VersionOrdersTotal ScoredIfReadable
  SeriesDecides KernelAccounts CleanIsAssessed TagIsOfTable
PROPERTY NeverLower
CHECK_DEADLOCK FALSE
