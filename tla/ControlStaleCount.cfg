\* A late cleanup takes a resumed tunnel out of the count.
SPECIFICATION ControlSpec
CONSTANTS
  Sids = {s1}
  Subdomains = {d1, d2}
  Principals = {p1}
  Shapes = {http}
  HTTPShapes = {http}
  Conns = {c1, c2}
  Calls = {}
  Requests = {}
  Users = {u1}
  UserOf <- OneUser
  None = None
  MaxActiveTunnels = 2
  MaxRestarts = 0
CHECK_DEADLOCK FALSE
INVARIANT ServedIsCounted
