\* The documented limit on the calls that test a half-open circuit.
CONSTANTS
  Callers = {c1, c2, c3}
  Streams = {}
  FailureThreshold = 2
  RecoveryTimeout = 1
  HalfOpenMaxCalls = 1
  MaxCrashes = 0
  GaugeClip = 0
SPECIFICATION Spec
SYMMETRY Symmetry
INVARIANTS TestsInFlightBounded
