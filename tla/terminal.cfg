SPECIFICATION FairSpec
CONSTANTS
  Kinds <- EveryKind
  Crossings <- Crossings1to4
  Cash = 10
  MinBid = 5
  Careful = TRUE
  MaxAsks = 2
INVARIANTS ScreenMatchesPrompt KeysActInTheirMode
PROPERTIES AnswerIsFound
CHECK_DEADLOCK FALSE
