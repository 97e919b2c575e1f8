\* Limits of two, and more requests than either allows within the clock's range.
CONSTANTS
  Requests = {r1, r2, r3, r4}
  Limit = 2
  WindowTicks = 2
  MaxTokens = 1
  TokenInterval = 2
  MaxClock = 3
  MaxFaults = 1
SPECIFICATION Spec
SYMMETRY Symmetry
CHECK_DEADLOCK FALSE
INVARIANTS TypeOK WindowLimits BucketBalance
PROPERTIES RejectedForCause
