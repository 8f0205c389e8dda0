SPECIFICATION Spec
CONSTANTS
  Sites <- MCSites
  CMPs <- MCCMPs
  Interactions = {0, 1, 2, 4}
  Modes <- MCModes
  Visits = 2
  Attempts = 1
INVARIANTS
  NothingInherited
  OkMeansRecorded
  NoFailureNoDrift
  BannersHoldWords
  
  
CHECK_DEADLOCK FALSE
