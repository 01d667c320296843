SPECIFICATION FairSpec
CONSTANTS
  MaxConns = 3
  Tokens = {t1, t2, t3}
  Nil = nil
CHECK_DEADLOCK FALSE
INVARIANTS TypeOK CountIsExact IdleCutsNothing TimeoutOnce IdleHasTimer DistinctTokensStayIdle
PROPERTY IdleForwardEnds
