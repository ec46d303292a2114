SPECIFICATION Spec
CONSTANTS
  ADDRESS_LENGTH = 64
  MAX_FIELD_SIZE = 32
  WORD_SIZE = 8
  MAX_DATA_SIZE = 2048
  SIZE_BYTES = 4
  Inputs <- MCInputs
INVARIANTS
  TypeOK
  ReadsWithinInput
  StoredInOrder
  AcceptedIsWhole
  DecodesTransactions
CHECK_DEADLOCK FALSE
