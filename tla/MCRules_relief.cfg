\* The merge of relief, over the inputs of MCRules.
CONSTANTS
  Width = 5
  TransitionWidth = 4
  TileSize = 6
  Lod2Max = 6
  Lod1Max = 9
  Lod0Max = 12
  RingStep <- MCRingStep
  SmoothingWindow = 3
  Radius = 6
  SmoothingCells = 3
  ProfileHalfWindow = 2
  MaxBackgroundPoints = 100
  Questions <- MCQuestions
SPECIFICATION RulesSpec
INVARIANT BestSourceIsSeen
