CONSTANTS
  Visits = 2
  Requests = {page, beacon}
  Background = {beacon}
  WithContent = {page}
  Chunks = {c1}
  MaxTabs = 1
  MaxChunks = 1
  LDB_BATCH_SIZE = 2
  None = None
SPECIFICATION Spec
PROPERTIES
  StampedRight
  ResponseSaved
\* The crawl ends.
CHECK_DEADLOCK FALSE
