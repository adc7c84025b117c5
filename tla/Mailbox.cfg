SPECIFICATION Spec
CONSTANTS
  lo = lo  hi = hi  idle = idle  v1 = v1  v2 = v2
  Thread <- MCThread
  Idle = idle
  NoThread = NoThread
  PrioMax = 3
  InitPrio <- MCInitPrio
  Queue <- MCQueue
  FlagPrio = TRUE
  Timed = TRUE
  Forever = TRUE
  Features = {"isr", "resume", "reset", "urgent", "detach"}
  Msg = {v1, v2}
  NoMsg = NoMsg
  Size = 2
INVARIANTS MailboxInv NoWordForgotten NoRoomForgotten
PROPERTY ImplementsChannel
CHECK_DEADLOCK FALSE
