CONSTANTS
  Identities <- MCIdentities
  Fingerprint <- MCFingerprint
  ContextBytes <- MCContextBytes
  TokenBytes = 4
  KvBytesPerToken = 1
  MambaBytes = 1
  Conversations = {x, y}
  NoConversation = none
  MaxBytes = 19
  HasArena = TRUE
  ArenaBytes = 9
  SizeModulus = 64
  MaxStateIds = 4
  MaxStatesPerPrompt = 2
  MaxHeld = 2
  MaxTick = 6
SYMMETRY Symmetric
SPECIFICATION Spec
INVARIANTS HeadsMatchRoles IndexIsExact ReferencesOwned MatchIsForRequest BudgetKept PublicationTakesEffect
PROPERTIES ImplementsContract EvictsOldestAndOnlyIfNeeded
