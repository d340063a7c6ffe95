CONSTANTS
  Players <- TwoPlayers
  Sockets = {10, 11, 12}
  None = None
  First <- Seats
  Presents = FALSE
  MaxRequests = 2
  MaxAsides = 1
SPECIFICATION Spec
INVARIANTS PromptInHand AnswersItsPrompt SaveWhole
CHECK_DEADLOCK FALSE
