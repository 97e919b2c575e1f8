\* Every kind of fault, up to three of them.
CONSTANTS
  r1 = r1
  r2 = r2
  r3 = r3
  Requests = {r1, r2, r3}
  Workers = {w1, w2}
  ContentOf <- MCContentOf
  ChunksOf <- MCChunksOf
  QueueLimit = 1
  FaultKinds = {"crash", "refused", "timeout", "database", "eviction"}
  MaxFaults = 3
  NoJob = NoJob
SPECIFICATION Spec
CHECK_DEADLOCK FALSE
INVARIANTS TypeOK OneDocumentPerContent ChunksAllOrNothing CompleteIsSearchable AtMostOneJob NoOrphan
