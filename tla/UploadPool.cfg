SPECIFICATION Spec
CONSTANTS
  p = p
  q = q
  Peers <- MCPeers
  NumPkt = 6
  InitAvail = 4
  MaxWindow = 3
  MaxTimeouts = 2
  MaxConns = {1, 2}
INVARIANTS TypeOK LimitIsKept CountIsExact NoStall WholeChunksFollow
SYMMETRY MCSymmetry
CHECK_DEADLOCK FALSE
