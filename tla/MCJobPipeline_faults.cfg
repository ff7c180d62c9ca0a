SPECIFICATION Spec

CONSTANTS
  Jobs = {j1}
  N = 3
  Workers = {w1, w2}
  Clients = {c1}
  NoJob = NoJob
  Careful = FALSE
  MaxCrashes = 1
  MaxRedeliveries = 1
  MaxCalls = 1

INVARIANTS
  InputsReady
  DoneMeansComplete

SYMMETRY Interchangeable

\* Nothing happens once every job has ended and every bound is used up.
CHECK_DEADLOCK FALSE
