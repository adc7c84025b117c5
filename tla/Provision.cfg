SPECIFICATION FairSpec
CONSTANTS
  worker = worker  shell = shell
  Callers <- MCCallers
  NoCaller = NoCaller
  Creds <- MCCreds
  LongPwds <- MCLong
  NoNet = NoNet
  NoCred = NoCred
  Default <- MCDefault
  MaxSessions = 2
  MaxAccepted = 2
  MaxShell = 2
INVARIANTS StationInv OneSender
PROPERTY ConnectedIsTheirs LatestTried
CHECK_DEADLOCK FALSE
