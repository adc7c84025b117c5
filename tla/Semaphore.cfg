SPECIFICATION Spec
CONSTANTS
  lo = lo  mid = mid  hi = hi  idle = idle
  Thread <- MCThread
  Idle = idle
  NoThread = NoThread
  PrioMax = 4
  InitPrio <- MCInitPrio
  Queue <- MCQueue
  FlagPrio = TRUE
  Timed = TRUE
  Forever = TRUE
  Features = {"isr", "resume", "reset", "vlimit", "detach"}
  ValueMax = 2
  InitValue = 1
INVARIANTS SemInv NobodyWaitsForUnits
PROPERTY ImplementsCounting
CHECK_DEADLOCK FALSE
