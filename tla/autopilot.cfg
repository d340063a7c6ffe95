SPECIFICATION FairSpec
CONSTANTS
  None = None
  Board <- LargeBoard
  Suits <- FourSuits
  Districts <- TwoDistricts
  Price <- Prices
  Room <- Rooms
  Purses <- Wallets
  MaxWarps = 1
  MaxWild = 4
  Patience = 71
INVARIANTS PromotesSoon
PROPERTIES DebtEnds
CHECK_DEADLOCK FALSE
