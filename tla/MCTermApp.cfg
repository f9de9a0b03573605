SPECIFICATION Spec
CONSTANTS
  NL = "nl"
  NoQuery = null
  Input <- MCInput
  Queries <- MCQueries
  Ranked <- MCRanked
  Keys = {"printable", "backspace", "ctrl-u", "ctrl-p", "ctrl-n", "tab", "enter", "escape"}
  MaxItems = 2
  Height = 2
  InitialBuffer = 1
  kMaxInputBufferSize = 2
  MaxKeys = 2
  MaxTroubles = 1
INVARIANTS
  ScreenFresh
  ItemsAreInput
PROPERTIES
  EnterTakesShown
  FinalAnswerShown
  SignalServed
CHECK_DEADLOCK FALSE
