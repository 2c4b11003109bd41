SPECIFICATION Spec
CONSTANTS
  Vms = {v1, v2}
  Guests = {g1, g2}
  Gateways = {gw}
  Ports = {"proxy", "tcp"}
  Hosts = {"api", "lan"}
  Addrs = {"public", "private"}
  Policies <- MCPolicies
  Public = {"public"}
  Resolve <- MCResolve
  Requests <- MCRequests
  Conns = {c1, c2}
  Names = {1, 2}
  Permits = 1
  None = None
SYMMETRY Symmetric
INVARIANTS TypeOK RegistrationsFit PolicyHolds GuestCapacity
CHECK_DEADLOCK FALSE
