SPECIFICATION FairGameSpec
CONSTANTS
  Phones = {h, g}
  Host = h
  MaxTries = 1
  Values = {2}
  RoomNames = {"party"}
  None = None
  Null = Null
  Acceptor = Acceptor
  FindsToWin = 1
  MaxToggles = 0
  MaxStarts = 0
  MaxRenames = 0
  MaxFinds = 3
  MaxBreaks = 0
  HostMayStop = FALSE
INVARIANTS EndedAnnounced FindsConserved
  
CHECK_DEADLOCK FALSE
