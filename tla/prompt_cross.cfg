CONSTANTS
  Players <- TwoPlayers
  Sockets = {10, 11}
  None = None
  First <- Seats
  Presents = FALSE
  MaxRequests = 2
  MaxAsides = 1
SPECIFICATION Spec
INVARIANTS OnlyTargetAnswers
CHECK_DEADLOCK FALSE
