\* The cancellation of one request takes the session and another request down.
SPECIFICATION ProtocolSpec
CONSTANTS
  Reqs = {r1, r2}
  Upgrades = {r2}
  MaxStreams = 2
  Capacity = 2
  MaxErrors = 1
CHECK_DEADLOCK FALSE
PROPERTY CancelIsScoped
