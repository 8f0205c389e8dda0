CONSTANTS
  NumBrowsers = 2
  NumCommands = 2
  FailureLimit = 0
  SpawnLimit = 1
  Crawls <- JoinedInTheMiddle
  CloseModes <- RelaxedOnly
  MemoryWatchdog = FALSE
  ReportsLeftovers = TRUE
  WritesMayFail = FALSE
SPECIFICATION Spec
INVARIANTS
  FailureStopsCrawl
  OrderlyClose
  CallbacksOnce
\* A crawl that was closed stops.
CHECK_DEADLOCK FALSE
