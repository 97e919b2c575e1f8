\* One run of each kind, and two streams that may meet on one of them.
CONSTANTS
  Blocking = {b}
  Deferred = {d}
  Compared = {c}
  Streams = {s1, s2}
  None = None
  Mock = Mock
  MaxFaults = 1
SPECIFICATION Spec
SYMMETRY Symmetry
CHECK_DEADLOCK FALSE
INVARIANTS TypeOK AnswersMatchEvidence DoneIsStored ComparisonsEnd AnswersAreQueued
PROPERTIES WholeAnswersOnly
