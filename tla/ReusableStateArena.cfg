CONSTANTS
  ArenaBytes = 6
  SizeModulus = 64
  RequestSizes = {0, 2, 3}
  ForeignHandles <- MCForeignHandles
  MaxIds = 4
  MaxHolds = 2
SPECIFICATION Spec
INVARIANTS RefsMatchHolds BytesAccounted
PROPERTIES DeadHandlesStayDead
