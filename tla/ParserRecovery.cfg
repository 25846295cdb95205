CONSTANTS
  a = a
  b = b
  f = f
  none = none
  main = main
  Name <- MCName
  Sources <- TestSources
  MaxReference = 40
SPECIFICATION PSpec
INVARIANTS FunctionErrorsReported
CHECK_DEADLOCK FALSE
