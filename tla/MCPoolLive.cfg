SPECIFICATION Spec
CONSTANTS
  foo = foo
  bar = bar
  NoQuery = null
  Parent <- MCParent
  Children <- MCChildren
  Matches <- MCMatches
  Texts = {foo}
  NumWorkers = 2
  ChunkSize = 1
  MaxItems = 1
  MaxQueries = 2
  MaxStarts = 1
  MaxStops = 1
  MaxFaults = 1
PROPERTIES
  JobIsAnswered
  StopReturns
CHECK_DEADLOCK FALSE
