SPECIFICATION Spec
CONSTANTS
  lo = lo  mid = mid  hi = hi  top = top  idle = idle  m1 = m1  m2 = m2
  Thread <- MCThread4
  Idle = idle
  NoThread = NoThread
  PrioMax = 5
  InitPrio <- MCInitPrio4
  Mutexes <- MCMutexes
  NoMutex = NoMutex
  HoldMax = 2
  Timed = FALSE
  LockOrder <- MCOrder
  Features = {}
  SetPrios = {}
INVARIANTS WaitSorted ExactBoost Inherits HighestRuns
PROPERTY HandoverToHighest
