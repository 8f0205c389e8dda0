CONSTANTS
  NumBrowsers = 2
  NumCommands = 2
  FailureLimit = 0
  SpawnLimit = 1
  Crawls <- JoinedInTheMiddle
  CloseModes <- RelaxedOnly
  MemoryWatchdog = FALSE
  ReportsLeftovers = TRUE
  WritesMayFail = FALSE
SPECIFICATION Spec
INVARIANT LimitEnforced
CHECK_DEADLOCK FALSE
