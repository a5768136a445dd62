SPECIFICATION MCSpec
CONSTANTS
  p = p
  q = q
  c1 = c1
  c2 = c2
  c3 = c3
  Peers <- MCPeers
  Chunks <- MCChunks
  HasChunks <- MCHas
  Owns <- MCOwns
  Requests <- MCRequests
  MaxHash = 3
  MaxTimeouts = 2
  MaxConns = {1, 2}
  MaxGets = 2
INVARIANTS TypeOK TimerHasGet LimitIsKept ClaimsAreExclusive QuietWhenIdle
PROPERTIES FetchedStays EveryChunkIsFetched
CHECK_DEADLOCK FALSE
