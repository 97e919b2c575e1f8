CONSTANTS
  Runs = {r1, r2}
  Seeded = {r1}
  Judges = {j}
  Raters = {u1, u2}
  Metrics <- GoodMetrics
  Ratings = {1, 4}
  None = None
  Absent = Absent
  Jobs = {f1, f2}
  Unfit = {}
SPECIFICATION LoopSpec
SYMMETRY Symmetry
CHECK_DEADLOCK FALSE
INVARIANTS TypeOK CalibrationAgrees TrainedOnce RegistryKeepsModels
PROPERTIES BadlyRatedNotTrained
