SPECIFICATION GameSpec
CONSTANTS
  Phones = {h, g}
  Host = h
  MaxTries = 1
  Values = {2, 4}
  RoomNames = {"party"}
  None = None
  Null = Null
  Acceptor = Acceptor
  FindsToWin = 1
  MaxToggles = 0
  MaxStarts = 0
  MaxRenames = 0
  MaxFinds = 2
  MaxBreaks = 0
  HostMayStop = FALSE
INVARIANTS ResultsSorted
CHECK_DEADLOCK FALSE
