SPECIFICATION MCSpec
CONSTANTS
  Usernames = {"ann"}
  Passwords = {"old"}
  None = "nobody"
  Admin = "ann"
  Requests = {q1, q2}
  Shell = sh
  SessionAbsolute = 4
  SessionIdle = 3
  TouchInterval = 2
  SetupCodeTTL = 1
  MaxSessions = 2
  MaxTokens = 1
  MaxTime = 4
  Clients = {"here", "there"}
  Typed = {"ann", "Ann", "bob"}
  Account <- MCAccount
  Threads = {q1, q2}
  FREE_ATTEMPTS = 1
  FREE_ATTEMPTS_PER_CLIENT = 2
  BASE_DELAY = 1
  MAX_DELAY = 2
  FORGET_AFTER = 1
  FloatExponent = 2
  MaxClock = 2
  MaxAttempts <- MCAttempts
  Jobs = {"first", "second"}
  Slots = {q1, q2}
  MaxTold = 2
  NoJob = NoJob
  Processes = {"server", "shell"}
  Nobody = Nobody
  Metadata <- MCMetadata
  Revisions <- MCRevisions
SYMMETRY MCSymmetry
INVARIANTS CodeUntilAccount WorkIsBounded EndToldOnce DoneIsHead
PROPERTIES SessionLifetime EndedStaysEnded
CHECK_DEADLOCK FALSE
