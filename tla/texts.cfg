SPECIFICATION Spec
CONSTANTS
  MAX_DECIMAL_DIGITS = 40
  MAX_RESULT_LEN = 50
  DECIMALS = 18
  AMOUNT_LEN = 30
  G_AMOUNT_LEN = 35
  G_NONCE_LEN = 10
  Numbers <- ShownNumbers
  ADDRESS_SIZE = 2
  OutLens = {0, 1, 5, 6, 9}
  Addresses <- MCAddresses
  Shake256 <- MCShake256
  ABI_SELECTOR_SIZE = 4
  ABI_SLOT_SIZE = 64
  ABI_MAX_PARAMS = 16
  GROUP_SIZE = 8
  UI_BUFFER_SIZE = 140
  Calldatas <- MCCalldatas
INVARIANTS
  TypeOK
  RoundsKeepNumber
  DecimalIsExact
  AmountIsNotMisread
  FormattedIsChecksummed
  NothingBeforeChecksum
  ScreensTellCalldata
  WalkIsComplete
CHECK_DEADLOCK FALSE
