SPECIFICATION Spec
CONSTANTS
  Jailed = TRUE
  Restricted = TRUE
  ApiFlakes = TRUE
  MaxLaunch = 3
  MaxFaults = 2
INVARIANTS TypeOK OneProcess IdentityCoherent InactiveIsQuiet UntouchedWhileAlive
PROPERTIES BootsPrepared
CHECK_DEADLOCK FALSE
