CONSTANTS
  NumBrowsers = 1
  SpawnLimit = 2
  SpawnTimeout = 1
  Buffer = 2
  MaxVisits = 2
  MaxProcs = 3
  SeedTars = {TRUE, FALSE}
  ArchiveDirs = {TRUE}
  DumpMayFail = TRUE
  ProcessWatchdog = TRUE
  None = None
SPECIFICATION FairSpec
INVARIANTS
  ProfileKept
  UpMeansAlive
  CloseComplete
PROPERTIES
  OrphansCollected
\* A manager that was closed does nothing more.
CHECK_DEADLOCK FALSE
