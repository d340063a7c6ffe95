SPECIFICATION FairSpec
CONSTANTS
  MaxOutbound = 2
  MaxMessages = 3
  MaxAsks = 1
INVARIANTS SlotsExact InOrder
PROPERTIES Delivered WaitEnds
CHECK_DEADLOCK FALSE
