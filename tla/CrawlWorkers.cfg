CONSTANTS
  j1 = j1
  j2 = j2
  w1 = w1
  w2 = w2
  Jobs = {j1}
  Workers = {w1, w2}
  NoWorker = NoWorker
  NoJob = NoJob
  MaxRetries = 2
  Contents <- OneJob
  MaxCrashes = 1
  MaxSignals = 1
  MaxUnsaved = 2
  MaxAttempts = 4
SPECIFICATION FairSpec
INVARIANTS
  JobInOnePlace
  AttemptsBounded
  SomebodyStays
PROPERTIES
  EveryJobSettled
\* The crawl is over when every worker has left its loop.
CHECK_DEADLOCK FALSE
