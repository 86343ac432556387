CONSTANTS
  q1 = q1
  q2 = q2
  Queries = {q1}
  Hints = {0, 1}
  PreWindow = 1
  PostWindow = 1
  Overhead = 1
  MaxBuffered = 2
  MaxChunks = 1
  MaxTime = 4
SPECIFICATION Spec
INVARIANT ChronologicalSnapshot
CHECK_DEADLOCK FALSE
