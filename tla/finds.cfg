SPECIFICATION FairGameSpec
CONSTANTS
  Phones = {h, g}
  Host = h
  MaxTries = 1
  Values = {2, 4}
  RoomNames = {"party"}
  None = None
  Null = Null
  Acceptor = Acceptor
  FindsToWin = 2
  MaxToggles = 0
  MaxStarts = 0
  MaxRenames = 0
  MaxFinds = 2
  MaxBreaks = 0
  HostMayStop = FALSE
INVARIANT OverHasWinner
 
CHECK_DEADLOCK FALSE
