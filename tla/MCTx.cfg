SPECIFICATION Spec
CONSTANTS
  Values = {v1, v2}
  Default = empty
  Torn = torn
  MaxTick = 5
INVARIANTS
  BuffersDisjoint
  ReadStable
PROPERTIES
  ImplementsLatestValue
