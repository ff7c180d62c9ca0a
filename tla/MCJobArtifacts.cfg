SPECIFICATION Spec

CONSTANTS
  Namespaces <- SiteOnly
  Tiles <- TwoTiles
  Runners = {r1, r2}
  MaxStops = 2

INVARIANTS
  NothingIsMissing
  GlbIsRegistered
  PackageIsCurrent

SYMMETRY Interchangeable

\* Nothing happens once the job is done.
CHECK_DEADLOCK FALSE
