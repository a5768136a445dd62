SPECIFICATION Spec
CONSTANTS
  NumNodes = 4
  INF = 9
  NULL = NULL
INVARIANTS LocallyShortest QueriesAreShortest NearestOwner
CHECK_DEADLOCK FALSE
