SPECIFICATION FairSpec
CONSTANTS
  Clients <- LeavingClients
  BufSize = 4
  PipeSize = 2
  ResSizes = {4, 5}
  NULL = NULL
PROPERTIES ClosedIsRemoved
CHECK_DEADLOCK FALSE
