SPECIFICATION Spec
CONSTANTS
  t1 = t1
  t2 = t2
  r0 = r0
  r1 = r1
  r2 = r2
  b0 = b0
  b1 = b1
  b2 = b2
  b3 = b3
  b4 = b4
  Thread <- TwoThreads
  Idle = Idle
  Region <- Regions
  Boot = r0
  Buffer <- Buffers
  Sectors = 2
  None = None
CHECK_DEADLOCK FALSE
INVARIANT DriveIdleOnRequest
