SPECIFICATION OfficeSpec

CONSTANTS
  Ids = {i1}
  Steps = 2
  Fetches = {f1, f2}
  MaxRetries = 1
  Organisations = {o1, o2}
  NoOrganisation = NoOrganisation
  Deadlines = {2}
  Days = {0, 2, 4}
  NoDay = NoDay
  MaxEntries = 2
  Jobs = {j1}
  Users = {u1, u2}
  Workers = {w1, w2}
  NoUser = NoUser
  NoJob = NoJob
  MaxHooks = 2
  MaxEnds = 2
  MaxFaults = 1
  Width = 5
  TransitionWidth = 4
  TileSize = 6
  Lod2Max = 6
  Lod1Max = 9
  Lod0Max = 12
  RingStep <- MCRingStep
  SmoothingWindow = 3
  Radius = 6
  SmoothingCells = 3
  ProfileHalfWindow = 2
  MaxBackgroundPoints = 100
  Questions <- MCQuestions

INVARIANTS
  CallsAreNoted
  OnlyOwnerHears
  RevokedIsSilent
  
  TilesFit
  TerrainIsOne
  LinesHold
  BuildingsAreSolid
  LandscapeFits
  SitingIsSafe
  DataIsWhole
  OutputsAgree

PROPERTIES
  ListSettles
  EveryHookIsTried
  ReceivedIsKept

\* Nothing happens to the reports once their bounds are used up.
CHECK_DEADLOCK FALSE
