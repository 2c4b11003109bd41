SPECIFICATION Spec
CONSTANTS
  u1 = u1  u2 = u2  i1 = i1  i2 = i2  i3 = i3  c3 = c3  c1 = c1  c2 = c2  s1 = s1  s2 = s2
  t1 = t1  t2 = t2  f1 = f1  f2 = f2  None = None  Gone = Gone
  Users = {u1, u2}
  Root = u1
  Creds = {c1, c2, c3}
  Tickets = {t1}
  Flows = {f1}
  Shells = {s1, s2}
  Handlers = {i1, i2, i3}
  Sessions = 2
  MaxTickets = 1
  MaxFlows = 1
  MaxPassword = 1
SYMMETRY Symmetry
INVARIANTS TypeOK LastAdmin RevokedStays UsedOnce
PROPERTIES AsAsked
CHECK_DEADLOCK FALSE
