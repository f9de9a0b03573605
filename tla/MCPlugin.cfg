SPECIFICATION Spec
CONSTANTS
  NL = "nl"
  NoQuery = null
  foo = foo
  Output <- MCOutput
  Queries <- MCQueries
  Ranked <- MCRanked
  Texts = {foo}
  Heights = {1, 2}
  MaxItems = 3
  MaxInputs = 2
INVARIANTS
  ItemsAreOutput
PROPERTIES
  OutputShown
CHECK_DEADLOCK FALSE
