CONSTANTS
  Identities <- MCIdentities
  Fingerprint <- MCFingerprint
  ContextBytes <- MCContextBytes
  TokenBytes = 4
  KvBytesPerToken = 1
  MambaBytes = 1
  Conversations = {x}
  NoConversation = none
  MaxBytes = 19
  HasArena = TRUE
  ArenaBytes = 7
  SizeModulus = 64
  MaxStateIds = 4
  MaxStatesPerPrompt = 2
  MaxHeld = 1
  MaxTick = 6
SPECIFICATION Spec
PROPERTIES CommittedHeadProbedFirst
