CONSTANTS
  kBlockWidth = 16
  OuterRows = 32
  InnerRows = 4
  kBlockTile = 4
  Descriptors <- MCDescriptors
  Decode <- MCDecode
  RoundTrip <- MCRoundTrip
  TensorScale <- MCTensorScale
  RowCounts = {2}
  ScaledRowCounts = {1, 2}
  Seeds = {1, 2}
SPECIFICATION LinearSpec
INVARIANTS SuccessIsProduct NothingLeaks FallbackServes UploadedScalesInPlace
PROPERTIES CallsReturn
CHECK_DEADLOCK FALSE
