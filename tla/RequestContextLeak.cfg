CONSTANTS
  TotalPages = 4
  LayerCount = 2
  TokensPerPage = 2
  MaxTokens = 4
  HasMamba = FALSE
SPECIFICATION Spec
INVARIANTS ResetReleasesPages
