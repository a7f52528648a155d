SPECIFICATION FairLobbySpec
CONSTANTS
  Phones = {h, g}
  Host = h
  MaxTries = 1
  Values = {2}
  RoomNames = {"party"}
  None = None
  Null = Null
  Acceptor = Acceptor
  FindsToWin = 2
  MaxToggles = 0
  MaxStarts = 0
  MaxRenames = 0
  MaxFinds = 0
  MaxBreaks = 1
  HostMayStop = FALSE
PROPERTIES ResetHandled
CHECK_DEADLOCK FALSE
