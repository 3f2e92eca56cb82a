CONSTANTS
  TotalPages = 4
  LayerCount = 2
  TokensPerPage = 2
  MaxTokens = 5
  HasMamba = TRUE
SPECIFICATION Spec
INVARIANTS PagesAccounted SuccessIsBacked ResetLeavesNothing
PROPERTIES TokensStayInPlace RefusedOnlyWhenFull
