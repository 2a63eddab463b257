SPECIFICATION SpecIO
CONSTANTS
  t1 = t1
  t2 = t2
  Idle = Idle
  Thread <- Threads
  None = None
  MaxDepth = 1
SYMMETRY ThreadSymmetry
CHECK_DEADLOCK FALSE
INVARIANT CompletedIsNotAwaited
