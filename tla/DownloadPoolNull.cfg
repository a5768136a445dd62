SPECIFICATION Spec
CONSTANTS
  p = p
  q = q
  c1 = c1
  c2 = c2
  c3 = c3
  Peers <- MCPeers
  Chunks <- MCChunks
  HasChunks <- MCHas
  Owns <- MCOwns
  Requests <- MCRequests
  MaxHash = 3
  MaxTimeouts = 2
  MaxConns = {1}
  MaxGets = 2
INVARIANTS PacketsAreNotNull
CHECK_DEADLOCK FALSE
