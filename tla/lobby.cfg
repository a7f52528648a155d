SPECIFICATION FairSpec
CONSTANTS
  Phones = {h, g}
  Host = h
  MaxTries = 1
  Values = {2}
  RoomNames = {"party"}
  None = None
  Null = Null
  Acceptor = Acceptor
  FindsToWin = 2
  MaxToggles = 1
  MaxStarts = 1
  MaxRenames = 0
  MaxFinds = 0
  MaxBreaks = 0
  HostMayStop = FALSE
INVARIANTS TypeOK StartReachesPlayers
PROPERTIES ConnectAnswered
CHECK_DEADLOCK FALSE
