SPECIFICATION Spec

CONSTANTS
  Tiles = {t1, t2}
  Uncovered = {t2}
  Versions = {v1, v2}
  Workers = {w1, w2}
  Calls = {c1, c2, c3}
  Deployments <- SomeDeployments
  MaxCrashes = 1

INVARIANTS
  RegisteredIsWhole
  ServedIsRequested
  StampedeBounded

SYMMETRY Interchangeable

\* Nothing happens once every call has ended.
CHECK_DEADLOCK FALSE
