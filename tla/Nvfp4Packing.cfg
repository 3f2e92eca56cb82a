CONSTANTS
  kBlockWidth = 4
  OuterRows = 2
  InnerRows = 2
  kBlockTile = 2
  kThreadsPerBlock = 4
  kInf = 9
  kLimit = 5
  kMinScale = 2
  Jobs <- MCJobs
SPECIFICATION Spec
INVARIANTS DeviceMatchesHost ScalesInPlace BuffersAccounted
PROPERTY WritesNeverCollide
CHECK_DEADLOCK FALSE
