\* The documented retry of an upload after a crash.
CONSTANTS
  r1 = r1
  r2 = r2
  r3 = r3
  Requests = {r1, r2}
  Workers = {w1, w2}
  ContentOf <- MCContentOf
  ChunksOf <- MCChunksOf
  QueueLimit = 1
  FaultKinds = {"crash"}
  MaxFaults = 1
  NoJob = NoJob
SPECIFICATION FairSpec
CHECK_DEADLOCK FALSE
PROPERTIES RetryCompletes
