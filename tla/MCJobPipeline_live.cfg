SPECIFICATION FairSpec

CONSTANTS
  Jobs = {j1, j2}
  N = 2
  Workers = {w1, w2}
  Clients = {c1}
  NoJob = NoJob
  Careful = TRUE
  MaxCrashes = 0
  MaxRedeliveries = 0
  MaxCalls = 1

INVARIANTS
  SettledStatus

PROPERTIES
  JobEnds
  OwnerHearsDone

\* Nothing happens once every job has ended and every bound is used up.
CHECK_DEADLOCK FALSE
