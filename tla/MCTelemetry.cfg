\* Sizes: small, half the buffer, and too large for it.
SPECIFICATION FlushSpec
CONSTANTS
  MaxSizeBytes = 4
  Sizes = {1, 2, 5}
  MaxEvents = 5
  MaxFlushes = 3
  MaxTime = 3
  Kinds = {"granted", "denied", "revoked"}
  Recorders = {r1, r2}
  Flushers = {f1, f2}
  MaxCounted = 3
  MaxMetricsFlushes = 3
INVARIANTS SizeIsAccounted DeliveredOnce OldestDropped MetricsAddUp
PROPERTY MakesNeededRoom
CHECK_DEADLOCK FALSE
