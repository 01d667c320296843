SPECIFICATION Spec
CONSTANTS
  Hops = 1
  MaxRecords = 2
  Slots = {c1, c2}
  None = none
  MaxFaults = 2
SYMMETRY SlotSymmetry
CHECK_DEADLOCK FALSE
INVARIANTS StoredOnce AckedIsHeldOrGap FlushIsHonest TerminalHasAll
PROPERTY ImplementsDelivery
