CONSTANTS
  NumBrowsers = 1
  NumCommands = 3
  FailureLimit = 1
  SpawnLimit = 1
  Crawls <- PlainThenReset
  CloseModes <- BothModes
  MemoryWatchdog = TRUE
  ReportsLeftovers = FALSE
  WritesMayFail = TRUE
SPECIFICATION FairSpec
INVARIANTS
  TypeOK
  OneProcess
  ReplyIsOwn
  NoFalseSuccess
  FailedBrowserRetired
PROPERTIES
  CloseReturns
\* A crawl that was closed stops, and so does one whose user does nothing more.
CHECK_DEADLOCK FALSE
