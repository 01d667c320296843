SPECIFICATION Spec
CONSTANTS
  Clients = {"setup", "activity"}
  Setups = {"setup"}
  Privileged = {"setup"}
  UidOf <- TwoUids
  PidOf <- TwoPids
  Timeouts = {1}
  Invalid = invalid
  MaxClients = 3
  MaxOther = 2
  MaxUID = 2
  MaxPID = 2
  MaxFaults = 2
  AckBuffer = 1
CHECK_DEADLOCK FALSE
INVARIANTS TypeOK AcknowledgedIsProtected StopsOnlyWhenIdle ProtectionHasSession
