SPECIFICATION FairSpec
CONSTANTS
  Reports = {r1, r2}
  Jobs = {j1}
  None = None
  MaxFaults = 2
  MaxCrashes = 1
INVARIANTS AllOrNothing ExportsHold
PROPERTIES Answered
CHECK_DEADLOCK FALSE
