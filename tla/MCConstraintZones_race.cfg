SPECIFICATION ZonesSpec

CONSTANTS
  n1 = n1
  n2 = n2
  Numbers = {n1, n2}
  NoNumber = NoNumber
  Invalid = Invalid
  NoRow = NoRow
  Loaders = {l1, l2}
  Files <- SomeFiles
  MaxLoads = 2

INVARIANTS
  CurrentIsUnique

SYMMETRY Interchangeable

\* Nothing happens once MaxLoads loads have ended.
CHECK_DEADLOCK FALSE
