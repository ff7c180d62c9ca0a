SPECIFICATION RowsSpec

CONSTANTS
  n1 = n1
  n2 = n2
  Numbers = {n1, n2}
  NoNumber = NoNumber
  Invalid = Invalid
  NoRow = NoRow
  Loaders = {l1, l2}
  Files <- SomeFiles
  MaxLoads = 3
  Procs = {p1, p2}
  Users = {u1, u2}
  Nobody = Nobody
  Granted <- SomeRights
  MaxRequests = 3
  MaxSessions = 3
  MaxKeys = 2
  MaxJobs = 1

INVARIANTS
  NeverVanishes
  NoGaps
  VersionsOrdered
  AuthenticatedInTime
  OwnerDecides

SYMMETRY Exchanges

\* Nothing happens once MaxLoads loads, or MaxRequests requests, have ended.
CHECK_DEADLOCK FALSE
