SPECIFICATION FairSpec
CONSTANTS
  Hops = 2
  MaxRecords = 1
  Slots = {c1}
  None = none
  MaxFaults = 1
CHECK_DEADLOCK FALSE
INVARIANT EndToEnd
PROPERTY Delivered
