SPECIFICATION Spec
CONSTANTS
  t1 = t1
  t2 = t2
  t3 = t3
  Thread <- Threads
  None = None
  MaxDepth = 2
SYMMETRY ThreadSymmetry
INVARIANTS
  TypeOK
  DepthCounted
  MaskedUnlessRaced
  LockInv
CHECK_DEADLOCK FALSE
