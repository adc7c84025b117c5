SPECIFICATION Spec
CONSTANTS
  lo = lo  hi = hi  idle = idle  v1 = v1  v2 = v2  k1 = k1  k2 = k2
  Thread <- MCThread
  Idle = idle
  NoThread = NoThread
  PrioMax = 3
  InitPrio <- MCInitPrio
  Queue <- MCQueue
  FlagPrio = TRUE
  Timed = TRUE
  Forever = FALSE
  Features = {"isr", "resume", "reset", "urgent", "detach"}
  Blocks = {k1, k2}
  Null = Null
  Msg = {v1, v2}
  NoMsg = NoMsg
INVARIANTS QueueInv NoMessageForgotten NoRoomForgotten
PROPERTY ImplementsChannel
CHECK_DEADLOCK FALSE
