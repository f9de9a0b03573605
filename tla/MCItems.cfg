SPECIFICATION Spec
CONSTANTS
  u1 = u1
  u2 = u2
  u3 = u3
  Junk = junk
  Texts <- MCTexts
  w1 = w1
  w2 = w2
  Workers <- MCWorkers
  InitialCap = 2
  NumBlocks = 7
  MaxItems = 3
SYMMETRY MCSymmetry
INVARIANTS
  RefsExact
  NoSharedWrite
PROPERTIES
  ImplementsItemStore
CHECK_DEADLOCK FALSE
