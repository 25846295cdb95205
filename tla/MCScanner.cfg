CONSTANTS
  MaxLength = 4
  MaxScans = 6
  Texts <- MCTexts
SPECIFICATION SSpec
INVARIANTS STypeOK TokensLexed
PROPERTIES LastRepeats ScanReturns
CHECK_DEADLOCK FALSE
