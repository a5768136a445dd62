SPECIFICATION Spec
CONSTANTS
  NumPkt = 4
  InitAvail = 1
  InitThresh = 2
  MaxAhead = 2
  MaxDuplicate = 2
  MaxTimeouts = 2
  MaxCache = 0
  DupWindow = 2
INVARIANTS TypeOK QueuesAreTheRest AckedIsWritten NoStall CongestionOK
PROPERTIES FetchedEmptiesCache Implements
CHECK_DEADLOCK FALSE
