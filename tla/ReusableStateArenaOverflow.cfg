CONSTANTS
  ArenaBytes = 3
  SizeModulus = 8
  RequestSizes = {2, 7}
  ForeignHandles = {}
  MaxIds = 3
  MaxHolds = 1
SPECIFICATION Spec
INVARIANTS CapacityRespected
