SPECIFICATION TimerSpec
CONSTANTS
  h1 = h1  s1 = s1  s2 = s2
  Timers <- MCTimers
  SoftTimers <- MCSoft
  NoTimer = NoTimer
  TickMax = 7
  Times = {0, 1, 2}
  MaxLate = 2
INVARIANTS TimerInv
PROPERTY OnTime NeverLost
SYMMETRY MCSymmetry
