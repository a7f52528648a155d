SPECIFICATION LobbySpec
CONSTANTS
  Phones = {h}
  Host = h
  MaxTries = 3
  Values = {2}
  RoomNames = {"party"}
  None = None
  Null = Null
  Acceptor = Acceptor
  FindsToWin = 2
  MaxToggles = 0
  MaxStarts = 1
  MaxRenames = 0
  MaxFinds = 1
  MaxBreaks = 2
  HostMayStop = FALSE
INVARIANTS PlayerKept FindsConserved
CHECK_DEADLOCK FALSE
