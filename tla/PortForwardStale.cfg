SPECIFICATION Spec
CONSTANTS
  MaxConns = 2
  Tokens = {zerobase}
  Nil = nil
CHECK_DEADLOCK FALSE
INVARIANT StayedIdle
