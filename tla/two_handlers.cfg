SPECIFICATION LobbySpec
CONSTANTS
  Phones = {h}
  Host = h
  MaxTries = 3
  Values = {2}
  RoomNames = {"party"}
  None = None
  Null = Null
  Acceptor = Acceptor
  FindsToWin = 2
  MaxToggles = 0
  MaxStarts = 0
  MaxRenames = 0
  MaxFinds = 0
  MaxBreaks = 2
  HostMayStop = FALSE
INVARIANTS OneHandler
CHECK_DEADLOCK FALSE
