SPECIFICATION FairSpec
CONSTANTS
  w1 = w1  w2 = w2  c1 = c1  c2 = c2
  Works <- MCWorks
  NoWork = NoWork  Stray = Stray
  LowCleared <- MCLowCleared
  Clients <- MCClients
  TickMax = 6
  Delays = {1, 2}
  MaxLate = 1
  MaxCalls = 4
INVARIANTS WorkQueueInv SyncWaitsOut
PROPERTY ImplementsBag PendingServed WaitersReleased
