SPECIFICATION PathSpec
INVARIANTS
  MergedOnce
  ParentFirst
PROPERTIES
  ReachesMaster
CHECK_DEADLOCK FALSE
