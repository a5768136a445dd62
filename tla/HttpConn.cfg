SPECIFICATION FairSpec
CONSTANTS
  Clients <- MCClients
  BufSize = 4
  PipeSize = 2
  ResSizes = {4, 5}
  NULL = NULL
INVARIANTS TypeOK ResponsesInOrder CloseIsEarned NothingIsLeft
PROPERTIES AllAnswered ClosedIsRemoved
CHECK_DEADLOCK FALSE
