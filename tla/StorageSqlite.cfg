SPECIFICATION FairSpec
CONSTANTS
  v1 = v1
  v2 = v2
  Visits = {v1, v2}
  NoVisit = NoVisit
  Conns = {"ext", "tm", "cmd"}
  Main = "main"
  Workloads <- Every
  Provider = "sqlite"
  CacheSize = 1
  WritesMayFail = FALSE
CHECK_DEADLOCK FALSE
INVARIANTS
  EitherWaySaved
  InterruptedIsMarked
  HandlersSurvive
PROPERTIES
  FinalizedReported
  ShutdownTerminates
