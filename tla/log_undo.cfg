CONSTANTS
  MaxPerStep = 2
  MaxSteps = 3
  MaxMessages = 8
SPECIFICATION Spec
INVARIANTS TypeOK
PROPERTIES FirstUndoExact NothingUndoneStays
CHECK_DEADLOCK FALSE
