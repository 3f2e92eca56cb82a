CONSTANTS
  kBlockWidth = 16
  OuterRows = 32
  InnerRows = 4
  kBlockTile = 4
  Descriptors <- ScaledDescriptors
  Decode <- MCDecode
  RoundTrip <- MCRoundTrip
  TensorScale <- MCTensorScale
  RowCounts = {1, 2}
  ScaledRowCounts = {1}
  Seeds = {1, 2}
SPECIFICATION LinearSpec
INVARIANTS ScaledMatchesReference
CHECK_DEADLOCK FALSE
