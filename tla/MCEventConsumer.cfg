\* Two nodes, two events each, a channel of one; safety, refinement and
\* liveness, hence no symmetry.
SPECIFICATION FairSpec
CONSTANTS
  Nodes = {n1, n2}
  MaxSeq = 2
  QueueCap = 1
  MaxFailures = 1
  ServerCancels = TRUE
INVARIANTS TypeOK NothingLost HandledExactlyOnce IInv
PROPERTIES ImplementsDelivery StopEndsGoroutines EventsReachHandlers DrainedAfterClose
