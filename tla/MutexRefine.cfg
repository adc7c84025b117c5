SPECIFICATION Spec
CONSTANTS
  lo = lo  mid = mid  hi = hi  top = top  idle = idle  m1 = m1  m2 = m2
  Thread <- MCThread
  Idle = idle
  NoThread = NoThread
  PrioMax = 4
  InitPrio <- MCInitPrio
  Mutexes <- MCMutex1
  NoMutex = NoMutex
  HoldMax = 2
  Timed = TRUE
  LockOrder = {}
  Features = {"resume", "ceiling", "exit", "delete", "detach"}
  SetPrios = {1}
INVARIANTS CleanEnd
PROPERTY ImplementsLock
CHECK_DEADLOCK FALSE
