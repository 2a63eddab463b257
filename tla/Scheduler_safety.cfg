SPECIFICATION Spec
CONSTANTS
  t1 = t1
  t2 = t2
  t3 = t3
  Thread <- ThreeThreads
  Idle = Idle
  None = None
  MaxProcesses = 3
  TickMod = 4
  SliceHz = 1
  Secs = {0, 3}
  Waits = {"buffer", "queue"}
SYMMETRY ThreadSymmetry
INVARIANTS
  TypeOK
  NoLostWakeup
  NoUseAfterCleanup
  RunningIsReady
  QueuesMatchStates
  IndInv
PROPERTIES
  PidsNotStolen
  SleepersOnTime
