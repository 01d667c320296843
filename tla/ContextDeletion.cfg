SPECIFICATION FairSpec
CONSTANTS
  Procs = {p1, p2}
  Contexts = {a}
  Secrets = {s}
  Envs = {e}
  None = none
  MaxFaults = 3
CHECK_DEADLOCK FALSE
INVARIANTS TypeOK PartialIsPending ReportIsTrue
PROPERTY PendingResolves
