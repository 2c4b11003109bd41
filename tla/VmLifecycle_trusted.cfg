SPECIFICATION FairSpec
CONSTANTS
  Jailed = FALSE
  Restricted = FALSE
  ApiFlakes = TRUE
  MaxLaunch = 2
  MaxFaults = 2
PROPERTIES ChildrenReaped RefreshCatchesUp
CHECK_DEADLOCK FALSE
