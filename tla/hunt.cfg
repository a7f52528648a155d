SPECIFICATION Spec
CONSTANTS
  MaxOps = 7
  MaxLosses = 1
  Order <- MCOrder
  Medium = "MEDIUM"
  Pictures <- MCPictures
  MaxFinds = 5
  MaxDraws = 2
  NoPicture = 0
INVARIANTS TypeOK Exclusive NullSessionExplained  PauseReleasesCamera DrawExplained OfferedNew
PROPERTIES  ForgottenWhenAllFound
CHECK_DEADLOCK FALSE
