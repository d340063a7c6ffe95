CONSTANTS
  NumPlayers = 2
  a = a
  b = b
  c = c
  None = None
  Squares <- Three
  Plots <- OnlyC
  Base <- UnitBase
  CapOf <- Caps
  StockWorth <- OneShare
  StartCash = 6
  Amounts = {1, 2}
  Rents = {7}
  Percents <- Hikes
  Bonuses <- Dividends
  Owners <- Unsold
  MaxBankruptcies = 1
  CleanTrades = TRUE
  MaxList = 2
  MaxDeals = 4
SPECIFICATION Spec
INVARIANTS Consistent AuctionSound NoAssertionFails
PROPERTIES BuyoutAffordable SolventOrOut DealAsAgreed KeepsPromise
CHECK_DEADLOCK FALSE
