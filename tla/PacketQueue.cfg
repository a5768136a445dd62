SPECIFICATION Spec
CONSTANTS
  MaxSeq = 6
  MaxLen = 5
INVARIANTS OperatorsAreLoops
