SPECIFICATION Spec
CONSTANTS
  Phones <- MCPhones
  MaxChecks <- MCChecks
  PoolSizes <- MCPoolSizes
  Detectors <- MCDetectors
  ServerDetectors <- MCServerDetectors
  SaveImages = TRUE
  Seen <- MCSeen
  MaxUpsets = 2
  None = None
  p1 = p1
  p2 = p2
  d1 = d1
  d2 = d2
  b1 = b1
  b2 = b2
  Boards <- MCBoards
  Shipped = b1
  Files <- MCFiles
  Buffered <- MCBuffered
INVARIANT TypeOK
PROPERTIES SavedKept  EveryCheckAnswered 
CHECK_DEADLOCK FALSE
