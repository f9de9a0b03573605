SPECIFICATION Spec
CONSTANTS
  w1 = w1
  w2 = w2
  Workers = {w1, w2}
  LineChars = {"a", "b", "A", " ", "!", "'", "^", "$"}
  ItemChars = {"a", "b", "c", "A", "/"}
  Width = 3
  kMatchMaxLen = 14
  Lanes = 2
  MaxRegisters = 3
  IndexBits = 3
  ScoreBits = 12
  MayType <- MCMayType
  MayRead <- MCMayRead
INVARIANTS
  PositionsAreOptimal
CHECK_DEADLOCK FALSE
