\* Faults that leave no command half done: crashes, refused commands, evictions.
CONSTANTS
  r1 = r1
  r2 = r2
  r3 = r3
  Requests = {r1, r2, r3}
  Workers = {w1, w2}
  ContentOf <- MCContentOf
  ChunksOf <- MCChunksOf
  QueueLimit = 1
  FaultKinds = {"crash", "refused", "eviction"}
  MaxFaults = 2
  NoJob = NoJob
SPECIFICATION FairSpec
CHECK_DEADLOCK FALSE

PROPERTIES ImplementsLifecycle DocumentsTerminate
