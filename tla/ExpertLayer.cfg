CONSTANTS
  Sigmoid <- MCSigmoid
  Configs <- MCConfigs
  Biases <- MCBiases
  Bindings <- MCBindings
  RouterRows <- MCRouterRows
  MaxTokens = 2
SPECIFICATION ExpertSpec
INVARIANTS OutputIsMixture RoutedToTheBest GroupLimited TraceIsOfThisRun
