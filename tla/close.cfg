SPECIFICATION FairLobbySpec
CONSTANTS
  Phones = {h, g}
  Host = h
  MaxTries = 2
  Values = {2}
  RoomNames = {"party"}
  None = None
  Null = Null
  Acceptor = Acceptor
  FindsToWin = 2
  MaxToggles = 0
  MaxStarts = 0
  MaxRenames = 1
  MaxFinds = 0
  MaxBreaks = 1
  HostMayStop = TRUE
  
PROPERTIES StopCompletes
CHECK_DEADLOCK FALSE
