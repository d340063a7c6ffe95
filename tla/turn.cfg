CONSTANTS
  None = None
  Setups <- Games
SPECIFICATION FairSpec
INVARIANTS StepsAccounted OnlyCurrentPlayerActs StopsWhereHeStands OneContinuation
PROPERTIES KeepsRounds UndoRestores KeepsAsking
CHECK_DEADLOCK FALSE
