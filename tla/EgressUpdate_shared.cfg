SPECIFICATION Spec
CONSTANTS
  VM = {v1, v2}
  Policy = {p}
  Content = {c1, c2}
  Unbound = Unbound
  NoPolicy = NoPolicy
  Flaky = {"engine", "nft"}
  Dropped = {}
SYMMETRY Interchangeable
INVARIANTS NoStaleAccess
PROPERTIES PromiseKept
CHECK_DEADLOCK FALSE
