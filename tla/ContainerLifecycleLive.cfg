SPECIFICATION FairSpec
CONSTANTS
  Clients = {"setup"}
  Setups = {"setup"}
  Privileged = {"setup"}
  UidOf <- OneUid
  PidOf <- OnePid
  Timeouts = {0, 1}
  Invalid = invalid
  MaxClients = 1
  MaxOther = 1
  MaxUID = 1
  MaxPID = 1
  MaxFaults = 3
  AckBuffer = 1
CHECK_DEADLOCK FALSE
PROPERTIES DeadIsReleased IdleStops ShutdownCompletes
