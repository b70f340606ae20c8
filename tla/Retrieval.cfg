SPECIFICATION Spec
CONSTANTS
  Main = main
  Callers = {main, other}
  Keys = {1, 2}
  MaxPolls = 1
  Routes <- MCRoutes
  LowPriority <- MCLowPriority
  AllowMissing = FALSE
  Chunk <- MCChunk
  Similar <- MCSimilar
  Gaps <- MCGaps
  Sources <- MCSources
  Score <- MCScore
  Manual <- MCManual
  HighScore = 82
  HighN = 3
  MediumScore = 77
  MediumN = 2
  GuidanceScore = 75
  AugmentCap = 4
  RefineCap = 3
INVARIANTS MandatoryDelivered ContextClean RefusedForCause InflightOwned
PROPERTIES RefineNeverWorsens AssembleEnds
CHECK_DEADLOCK FALSE
