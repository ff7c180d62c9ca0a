SPECIFICATION Spec

CONSTANTS
  Jobs = {j1}
  N = 3
  Workers = {w1, w2}
  Clients = {c1, c2}
  NoJob = NoJob
  Careful = TRUE
  MaxCrashes = 2
  MaxRedeliveries = 0
  MaxCalls = 3

INVARIANTS
  SingleChain
  StepsInOrder
  DoneNoticeIsLast

PROPERTIES
  DoneStaysDone
  NoticeIsTrue
  ImplementsLifecycle

SYMMETRY Interchangeable

\* Nothing happens once every job has ended and every bound is used up.
CHECK_DEADLOCK FALSE
