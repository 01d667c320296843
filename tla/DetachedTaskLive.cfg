SPECIFICATION FairSpec
CONSTANTS
  Callers = {c1, f1}
  Followers = {f1}
  Launcher = launcher
  Worker = worker
  Nobody = nobody
  Absent = absent
  Ops = {"cancel", "reconcile"}
  MaxFaults = 1
CHECK_DEADLOCK FALSE
PROPERTIES LaunchResolves DeadWorkerIsReported CancelCompletes
