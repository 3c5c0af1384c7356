\* Two requests that meet at the client's stream limit, every early end of a request and a failing connection.
SPECIFICATION ProtocolSpec
CONSTANTS
  Reqs = {r1, r2}
  Upgrades = {r2}
  MaxStreams = 1
  Capacity = 1
  MaxErrors = 1
CHECK_DEADLOCK FALSE
INVARIANTS ProtocolTypeOK PendingIsServed NoOrphanWork
