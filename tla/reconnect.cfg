SPECIFICATION LobbySpec
CONSTANTS
  Phones = {h, g}
  Host = h
  MaxTries = 2
  Values = {2}
  RoomNames = {"party"}
  None = None
  Null = Null
  Acceptor = Acceptor
  FindsToWin = 1
  MaxToggles = 0
  MaxStarts = 1
  MaxRenames = 0
  MaxFinds = 1
  MaxBreaks = 1
  HostMayStop = FALSE
INVARIANTS OwnIdentity PlayerKept LobbyScoresZero
CHECK_DEADLOCK FALSE
