SPECIFICATION FairSpec
CONSTANTS
  s1 = s1  s2 = s2
  Sessions = {s1}
  Others = {s2}
  MaxSessions = 1
  MaxPending = 1
  MaxWire = 2
  MaxInput = 2
  MaxOutput = 2
  MaxPid = 2
  Leader = 2
INVARIANTS TypeOK Faithful 
PROPERTIES PlacesReturn
CHECK_DEADLOCK FALSE
