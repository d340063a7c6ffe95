SPECIFICATION FairSpec
CONSTANTS
  None = None
  Local <- OneAndAI
  Lobby = TRUE
  Settings <- TwoPlayers
  MaxBrowsers = 2
  MaxCreated = 1
INVARIANTS SlotsAgree
PROPERTIES KeepsSeat StartsFull RetiresWithLast SeatComesBack FullStarts
CHECK_DEADLOCK FALSE
