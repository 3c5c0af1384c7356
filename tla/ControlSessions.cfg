\* Three connections: fresh, resumed, racing and failing registrations, a restart, a public request.
SPECIFICATION ControlSpec
CONSTANTS
  Sids = {s1, s2, s3}
  Subdomains = {d1, d2}
  Principals = {p1}
  Shapes = {http}
  HTTPShapes = {http}
  Conns = {c1, c2, c3}
  Calls = {}
  Requests = {r1}
  Users = {u1}
  UserOf <- OneUser
  None = None
  MaxActiveTunnels = 2
  MaxRestarts = 1
CHECK_DEADLOCK FALSE
SYMMETRY ControlSymmetry
INVARIANTS NoGhostSession PeerTable PlacesHeld FreshTunnelsWithinPlan RequestReachesOwner
