SPECIFICATION FairSpec
CONSTANTS
  v1 = v1
  v2 = v2
  Visits = {v1, v2}
  NoVisit = NoVisit
  Conns = {"ext", "tm", "cmd"}
  Main = "main"
  Workloads <- Every
  Provider = "arrow"
  CacheSize = 1
  WritesMayFail = TRUE
CHECK_DEADLOCK FALSE
INVARIANTS
  TypeOK
  ReportedIsSaved
  NothingLostAtShutdown
  FinalizeAccounted
PROPERTIES
  KeepsPromise
  ShutdownSettles
  LeftoversReported
