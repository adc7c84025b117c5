SPECIFICATION Spec
CONSTANTS
  lo = lo  mid = mid  hi = hi  top = top  idle = idle  m1 = m1  m2 = m2
  Thread <- MCThread
  Idle = idle
  NoThread = NoThread
  PrioMax = 4
  InitPrio <- MCInitPrio
  Mutexes <- MCMutexes
  NoMutex = NoMutex
  HoldMax = 1
  Timed = FALSE
  LockOrder <- MCOrder
  Features = {"exit", "detach", "chprio"}
  SetPrios = {1}
INVARIANTS WaitersListed NobodyWaitsForFree OneList IInv
CHECK_DEADLOCK FALSE
