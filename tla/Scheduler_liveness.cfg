SPECIFICATION FairSpec
CONSTANTS
  t1 = t1
  t2 = t2
  t3 = t3
  Thread <- TwoThreads
  Idle = Idle
  None = None
  MaxProcesses = 3
  TickMod = 2
  SliceHz = 1
  Secs = {1}
  Waits = {"buffer"}
PROPERTIES
  ParkedWakes
  IdleGivesWay
  IdleReaps
VIEW LiveState
