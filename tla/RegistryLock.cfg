\* One request with one candidate, and the event loop.
SPECIFICATION FairSpec
CONSTANTS
  Requests = {r1}
  Candidates = 1
PROPERTY SortReturns
CHECK_DEADLOCK FALSE
