SPECIFICATION FairSpec
CONSTANTS
  Messages <- MCMessages
  DataSize = 2
  MaxMessages = 4
  NULL = NULL
INVARIANTS LockStep ReportsAreRight
PROPERTIES Implements AllPublished
CHECK_DEADLOCK FALSE
