SPECIFICATION FairSpec
CONSTANTS
  Kinds <- BidOnly
  Crossings <- OneCrossing
  Cash = 3
  MinBid = 5
  Careful = TRUE
  MaxAsks = 1
PROPERTY AnswerIsFound
CHECK_DEADLOCK FALSE
