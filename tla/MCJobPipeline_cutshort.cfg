SPECIFICATION Spec

CONSTANTS
  Jobs = {j1}
  N = 2
  Workers = {w1}
  Clients = {c1}
  NoJob = NoJob
  Careful = TRUE
  MaxCrashes = 1
  MaxRedeliveries = 0
  MaxCalls = 1

INVARIANTS
  DoneHasEveryStep

SYMMETRY Interchangeable

\* Nothing happens once every job has ended and every bound is used up.
CHECK_DEADLOCK FALSE
