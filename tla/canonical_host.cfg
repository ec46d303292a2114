SPECIFICATION Spec
CONSTANTS
  p = p
  q = q
  Paths <- MCPaths
  ValidPaths <- MCPaths
  Derivable <- MCPaths
  NoPath = NoPath
  TornKey = TornKey
  Byte <- Pieces
  Chunks <- MCChunks
  MAX_TRANSACTION_LEN = 2
  ABI_MAX_PARAMS = 2
  UINT8_MOD = 4
  LAST_SIG_CHUNK = 2
  PK_CHUNKS = 1
  Switches = {"enable_blind_signing", "enable_debug_smart_contract"}
  Faults = {"keccak", "sign", "verify"}
  NoDigest = NoDigest
  Keccak256 <- MCKeccak
  Decodes <- MCDecodes
  Written <- MCWritten
  Fields <- MCFields
  ADDRESS_LENGTH = 2
  MAX_FIELD_SIZE = 3
  WORD_SIZE = 2
  MAX_DATA_SIZE = 80
  SIZE_BYTES = 4
INVARIANT
  AnswersOwed
PROPERTIES
  KeepsPromise
  SignsATransaction
SYMMETRY PathSymmetry
