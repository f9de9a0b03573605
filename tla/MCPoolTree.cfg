SPECIFICATION SafeSpec
CONSTANTS
  foo = foo
  bar = bar
  NoQuery = null
  Parent <- MCParent
  Children <- MCChildren
  Matches <- MCMatches
  Texts = {foo}
  NumWorkers = 3
  ChunkSize = 1
  MaxItems = 1
  MaxQueries = 2
  MaxStarts = 1
  MaxStops = 0
  MaxFaults = 1
CONSTRAINT ItemOrQueries
INVARIANTS
  ResultsComplete
  QuiescentMeansAnswered
CHECK_DEADLOCK FALSE
