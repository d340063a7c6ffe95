CONSTANTS
  Players <- TwoPlayers
  Sockets = {10, 11, 12}
  None = None
  First <- Seats
  Presents = TRUE
  MaxRequests = 2
  MaxAsides = 0
SPECIFICATION FairSpec
PROPERTIES BarrierByOwner WaitEnds
CHECK_DEADLOCK FALSE
