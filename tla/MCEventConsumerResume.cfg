SPECIFICATION Spec
CONSTANTS
  Nodes = {n1}
  MaxSeq = 2
  QueueCap = 2
  MaxFailures = 1
  ServerCancels = FALSE
PROPERTY ResumesAfterProcessed
