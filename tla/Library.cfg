SPECIFICATION Spec
CONSTANTS
  n1 = n1  n2 = n2  p1 = p1  a1 = a1  a2 = a2  i1 = i1  i2 = i2  r1 = r1  r2 = r2  d1 = d1  d2 = d2  e1 = e1  x = x  y = y
  None = None
  Uuids = {n1, n2}
  Plain = {p1}
  Aliases = {a1, a2}
  Contents = {x, y}
  Handlers = {i1, i2}
  Disks = {d1, d2}
  Extras = {e1}
  Requests = {r1, r2}
  MaxFaults = 2
SYMMETRY Symmetry
INVARIANTS TypeOK CatalogHolds DisksSurvive PurgedStayGone
PROPERTIES StepsWhole
CHECK_DEADLOCK FALSE
