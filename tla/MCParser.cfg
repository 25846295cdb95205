CONSTANTS
  a = a
  b = b
  f = f
  none = none
  main = main
  Name <- MCName
  Sources <- MCSources
  MaxReference = 40
SPECIFICATION FairPSpec
INVARIANTS  ReportsAsTested
PROPERTIES PTerminates
CHECK_DEADLOCK FALSE
