SPECIFICATION FairHostSpec
CONSTANTS
  p = p
  q = q
  a = a
  b = b
  Paths <- OnePath
  ValidPaths <- OnePath
  Derivable <- OnePath
  NoPath = NoPath
  TornKey = TornKey
  Byte <- MCByte
  Chunks <- MCChunks
  MAX_TRANSACTION_LEN = 2
  ABI_MAX_PARAMS = 2
  UINT8_MOD = 4
  LAST_SIG_CHUNK = 3
  PK_CHUNKS = 2
  Switches = {"enable_blind_signing", "enable_debug_smart_contract"}
  Faults = {"format", "sign"}
  NoDigest = NoDigest
  Keccak256 <- MCKeccak
  Decodes <- MCDecodes
  Written <- MCWritten
  Fields <- MCFields
  Transactions <- MCTransactions
  LosesAnswers = TRUE
  OthersSend = {}
INVARIANT
  ServedUntilLast
PROPERTIES
  HostFinishes
  SignatureReachesHost
