\* The alert on the gauge of open breakers, with one caller at a time.
CONSTANTS
  Callers = {c1}
  Streams = {}
  FailureThreshold = 2
  RecoveryTimeout = 1
  HalfOpenMaxCalls = 1
  MaxCrashes = 0
  GaugeClip = 2
SPECIFICATION Spec
INVARIANTS AlertMeansOpen
