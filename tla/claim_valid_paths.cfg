SPECIFICATION Spec
CONSTANTS
  p = p
  q = q
  a = a
  b = b
  Paths <- MCPaths
  ValidPaths <- OnePath
  Derivable <- MCPaths
  NoPath = NoPath
  TornKey = TornKey
  Byte <- MCByte
  Chunks <- MCChunks
  MAX_TRANSACTION_LEN = 2
  ABI_MAX_PARAMS = 2
  UINT8_MOD = 4
  LAST_SIG_CHUNK = 2
  PK_CHUNKS = 2
  Switches = {"enable_blind_signing", "enable_debug_smart_contract"}
  Faults = {}
  NoDigest = NoDigest
  Keccak256 <- MCKeccak
  Decodes <- MCDecodes
  Written <- MCWritten
  Fields <- MCFields
INVARIANT
  ReviewsOnlyValidPaths
