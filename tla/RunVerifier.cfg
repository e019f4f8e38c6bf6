SPECIFICATION RunSpec
CHECK_DEADLOCK FALSE
CONSTANTS
  DecayNum = 1
  DecayDen = 2
  ScoreUnit = 8
  PinnedId = 1
  RecencyReserve = 2
  SummaryLimit = 1
  SafetyMargin = 0
  MinSources = 2
  Arms = {"SUMMARY"}
  SeedTokens <- ThreeSeeds
  FlaggedSeeds = {}
  Budget = 6
  TighterBudgets = {}
  FallbackModes = {TRUE}
  CandidateTokens = {3, 6}
  MaxCycle = 3
  MaxClaims = 1
  Claimed = {2}
  MaxOverlap = 1
  Checkpoints = {0, 2}
  Manners <- MCManners
  Verdicts = {"supported", "contradicted"}
  Analysis = {p1}
  Export = {p2}
  Canonical = TRUE
  Likeness <- MCLikeness
  ECHO_THRESHOLD = 8
  Questions <- TwoQuestions
  Ambiguous = {2}
  Importance <- Weights
INVARIANTS VerifierAccepts GraveyardIsWhatLeft ReferencesResolve
PROPERTIES NumbersAreSettled AnswersStay
