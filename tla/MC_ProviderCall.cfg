CONSTANTS
  TunedIds = {"tuned"}
  Calls = {h1, h2}
  Registries <- Lists
  Latencies = {1}
  Headers = {4}
  MaxBatches = 1
  None = None
SPECIFICATION FairSpec
CHECK_DEADLOCK FALSE
INVARIANTS TypeOK CallsAccounted RetriesInTime
PROPERTIES CallsEnd
