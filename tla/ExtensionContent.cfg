CONSTANTS
  Visits = 1
  Requests = {page, image}
  Background = {}
  WithContent = {page, image}
  Chunks = {c1}
  MaxTabs = 0
  MaxChunks = 2
  LDB_BATCH_SIZE = 2
  None = None
SPECIFICATION Spec
INVARIANTS
  ContentFound
CHECK_DEADLOCK FALSE
