\* Any caller, any order: index consistency, durability, stable identity.
SPECIFICATION ManagerSpec
CONSTANTS
  Sids = {s1, s2, s3}
  Subdomains = {d1, d2}
  Principals = {p1, p2}
  Shapes = {http}
  Conns = {c1}
  None = None
  MaxRestarts = 1
INVARIANTS ManagerTypeOK RouteIndex ActiveIffConnected DurableBacked
PROPERTIES IdentityStable ImplementsDirectory
