CONSTANTS
  a = a
  b = b
  f = f
  none = none
  main = main
  Name <- MCName
  Sources <- Operandless
  MaxReference = 40
SPECIFICATION PSpec
INVARIANTS NoNullUsed
CHECK_DEADLOCK FALSE
