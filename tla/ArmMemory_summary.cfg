SPECIFICATION Spec
CHECK_DEADLOCK FALSE
CONSTANTS
  DecayNum = 1
  DecayDen = 2
  ScoreUnit = 32
  PinnedId = 1
  RecencyReserve = 2
  SummaryLimit = 2
  SafetyMargin = 1
  MinSources = 2
  Arms = {"SUMMARY", "SINK"}
  SeedTokens <- FourSeeds
  FlaggedSeeds = {0}
  Budget = 8
  TighterBudgets = {4, 6}
  FallbackModes = {TRUE, FALSE}
  CandidateTokens = {1, 2, 5}
  MaxCycle = 5
  MaxClaims = 0
INVARIANTS LineageIsSound OriginStays
PROPERTIES ImplementsMemoryLife
