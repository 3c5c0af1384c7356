\* Token commands against validations, with and without renewal, and the remote validator.
SPECIFICATION TokenSpec
CONSTANTS
  Tokens = {t1}
  Validations = {v1, v2}
  Commands = {c1, c2}
  Daemon = Daemon
  None = None
  CacheTTL = 2
  TouchIntervals = {1, 4}
  MaxDelay = 1
  MaxRestarts = 1
CHECK_DEADLOCK FALSE
SYMMETRY TokenSymmetry
INVARIANT TokenTypeOK
PROPERTIES AcceptedWasActive UndoneOnlyInOverlap
