SPECIFICATION EventSpec
CONSTANTS
  lo = lo  hi = hi  idle = idle  b1 = b1  b2 = b2
  Thread <- MCThread
  Idle = idle
  NoThread = NoThread
  PrioMax = 3
  InitPrio <- MCInitPrio
  Queue <- MCQueue
  FlagPrio = FALSE
  Timed = TRUE
  Forever = TRUE
  Features = {"isr", "resume", "reset", "detach"}
  Bits = {b1, b2}
INVARIANTS EventInv ReceivedAsAsked
PROPERTY EventsAccounted SendReachesAll
CHECK_DEADLOCK FALSE
