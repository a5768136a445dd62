SPECIFICATION Spec
CONSTANTS
  Clients <- SplitClients
  BufSize = 4
  PipeSize = 2
  ResSizes = {4, 5}
  NULL = NULL
INVARIANTS WellFormedIsServed
CHECK_DEADLOCK FALSE
