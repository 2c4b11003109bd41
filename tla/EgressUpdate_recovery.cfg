SPECIFICATION FairSpec
CONSTANTS
  VM = {v1}
  Policy = {p}
  Content = {c1, c2}
  Unbound = Unbound
  NoPolicy = NoPolicy
  Flaky <- NetworkFails
  Dropped = {"catalog", "start"}
INVARIANTS TypeOK GateIsPending RunningIsServed
PROPERTIES ChangeEnds
CHECK_DEADLOCK FALSE
