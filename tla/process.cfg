SPECIFICATION Spec
CONSTANTS
  Remote <- MCRemote
  MaxSlots = 3
  MaxServers = 2
  MaxVisits = 2
  MaxFaults = 1
  MaxBreaks = 1
  MaxRefusals = 1
INVARIANTS TypeOK  IdOfRoom PortsFree AnnouncedOpen  
  
CHECK_DEADLOCK FALSE
