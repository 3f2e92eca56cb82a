CONSTANTS
  TotalPages = 12
  LayerCount = 6
  TokensPerPage = 2
  MaxTokens = 3
  HasMamba = TRUE
  Schedule <- MCSchedule
SPECIFICATION Spec
INVARIANTS NoStateOfEarlierRuns StatesAdvancedInOrder InputIsLastOutput KvWhereTokensAre CapacitySuffices
