\* One unit is half a ticker interval; a grant of the default TTL lapses, is
\* listed, revoked, and outlives the retention within the clock's bound.
SPECIFICATION Spec
CONSTANTS
  GrantIds = {g1, g2}
  Readers = {r1}
  TTLs <- MCTTLs
  DefaultTTL = 3
  Interval = 2
  Retention = 2
  MaxTime = 8
INVARIANTS ExpiryIsTimely IInv
PROPERTIES StatesMoveOn StatusIsCurrent ForgetsOnlyOldExpired
SYMMETRY Symmetry
