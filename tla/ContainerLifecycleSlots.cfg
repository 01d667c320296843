SPECIFICATION Spec
CONSTANTS
  Clients = {"a", "b", "c"}
  Setups = {}
  Privileged = {"a", "b"}
  UidOf <- ThreeUids
  PidOf <- ThreePids
  Timeouts = {0}
  Invalid = invalid
  MaxClients = 2
  MaxOther = 1
  MaxUID = 1
  MaxPID = 1
  MaxFaults = 1
  AckBuffer = 1
CHECK_DEADLOCK FALSE
INVARIANTS SlotsAreExact
