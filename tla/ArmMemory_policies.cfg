SPECIFICATION Spec
CHECK_DEADLOCK FALSE
CONSTANTS
  DecayNum = 1
  DecayDen = 2
  ScoreUnit = 32
  PinnedId = 1
  RecencyReserve = 2
  SummaryLimit = 1
  SafetyMargin = 0
  MinSources = 2
  Arms = {"FIFO", "SINK", "LRU", "HEAVY", "RANDOM", "FULL", "STATELESS"}
  SeedTokens <- ThreeSeeds
  FlaggedSeeds = {}
  Budget = 6
  TighterBudgets = {}
  FallbackModes = {TRUE}
  CandidateTokens = {1, 4}
  MaxCycle = 4
  MaxClaims = 1
INVARIANTS TypeOK NoInternalRefusal WindowIsContiguous
PROPERTIES EndsWithinBudget GivesUpOnlyWhenForced NoNeedlessEviction CitedNowOutlivesUncited ReserveBreaksLast RetiredIsFrozen
