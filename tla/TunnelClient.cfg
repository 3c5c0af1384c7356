\* One client against the daemon: a fault, a restart, a rival for its label.
SPECIFICATION FairClientSpec
CONSTANTS
  Sids = {s1, s2, s3, s4, s5}
  Subdomains = {d1, d2, d3, d4, d5, d6}
  Principals = {p1}
  Shapes = {http}
  HTTPShapes = {http}
  Conns = {c1, c2, c3, c4, c5, c6}
  Calls = {k1}
  Requests = {}
  Users = {u1}
  UserOf <- OneUser
  Clients = {b1}
  PrincipalOf <- OneToken
  None = None
  MaxActiveTunnels = 1
  MaxRestarts = 1
  MaxFaults = 1
CHECK_DEADLOCK FALSE
INVARIANTS ClientTypeOK ServesItsTunnel
PROPERTIES TunnelKept Settles
