CONSTANTS
  Main = Main
  c1 = c1
  Children = {c1}
  Ext = Ext
  MaxRecords = 2
  MaxConns = 3
  None = None
  Garbage = Garbage
  Long <- MCLong
  Poison <- MCPoison
SPECIFICATION Spec
INVARIANTS
  LogComplete
PROPERTIES
  CloseEnds
\* A server that was closed does nothing more.
CHECK_DEADLOCK FALSE
