SPECIFICATION Spec
CONSTANTS
  Callers = {c1, c2}
  Followers = {}
  Launcher = launcher
  Worker = worker
  Nobody = nobody
  Absent = absent
  Ops = {"cancel", "quiesce", "rm", "rmForce", "reconcile", "status"}
  MaxFaults = 1
SYMMETRY CallerSymmetry
CHECK_DEADLOCK FALSE
INVARIANT TerminalIsTornDown
