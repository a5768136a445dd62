SPECIFICATION KeptSpec
CONSTANTS
  NumPkt = 4
  InitAvail = 2
  InitThresh = 2
  MaxAhead = 2
  MaxDuplicate = 2
  MaxTimeouts = 2
  MaxCache = 0
  DupWindow = 0
PROPERTIES UploadEnds
CHECK_DEADLOCK FALSE
