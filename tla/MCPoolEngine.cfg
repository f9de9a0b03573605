SPECIFICATION SpecEngine
CONSTANTS
  foo = foo
  bar = bar
  NoQuery = null
  Parent <- MCParent
  Children <- MCChildren
  Matches <- MCMatches
  Texts = {foo, bar}
  NumWorkers = 2
  ChunkSize = 1
  MaxItems = 2
  MaxQueries = 2
  MaxStarts = 1
  MaxStops = 0
  MaxFaults = 0
CONSTRAINT FewChanges
INVARIANTS
  TypeOK
  SnapshotConsistent
  NotProcessingMeansAnswer
PROPERTIES
  ImplementsEngine
  NeverOlder
CHECK_DEADLOCK FALSE
