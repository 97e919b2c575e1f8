CONSTANTS
  c = c
  x = x
  u1 = u1
  u2 = u2
  Replicas = {p1, p2}
  Attempts = 2
  MaxTroubles = 1
  Creators = {c}
  Updaters = {u1, u2}
  Deleters = {d}
  Runners = {q}
  Unknown = {x}
  Name <- Names
  None = None
SPECIFICATION Spec
SYMMETRY Symmetry
CHECK_DEADLOCK FALSE
INVARIANTS TypeOK SchemaServed VersionsHaveConfigs UpdatesKept
