SPECIFICATION FairSpec
CONSTANTS
  Node = {1, 2, 3}
  Scenarios <- MCScenarios
  InitTTL = 2
  NULL = NULL
INVARIANTS
  TypeOK
  FloodIsReliable
  AgreedWhenQuiet
PROPERTIES
  OlderNeverWins
  TablesConverge
  CatchesUp
CHECK_DEADLOCK FALSE
