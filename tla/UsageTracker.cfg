\* Three requests for two places, a turn of the period, flushes that may fail and a crash.
SPECIFICATION FairUsageSpec
CONSTANTS
  Users = {u1}
  Reqs = {r1, r2, r3}
  MaxRequests = 2
  MaxBytesIn = 2
  MaxBytesOut = 1
  MaxSize = 1
  MaxPeriods = 2
  MaxCrashes = 1
CHECK_DEADLOCK FALSE
INVARIANTS UsageTypeOK ReservationsAreHeld RequestCap CountedOrDirty
PROPERTIES FlushKeepsTotals EventuallyDurable
