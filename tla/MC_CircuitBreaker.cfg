\* Safety and liveness of the breaker: three callers, one of which may be lost.
CONSTANTS
  Callers = {c1, c2, c3}
  Streams = {c3}
  FailureThreshold = 2
  RecoveryTimeout = 0
  HalfOpenMaxCalls = 2
  MaxCrashes = 1
  GaugeClip = 0
SPECIFICATION FairSpec
INVARIANTS TypeOK HalfOpenHasDecider OpenIsStamped
PROPERTIES TripsInARow  HalfOpenResolves OpenIsTested
