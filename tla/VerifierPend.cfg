CONSTANTS
  arg = arg
  fun = fun
  sub = sub
  main = main
  Name <- MCName
  Programs <- VerifierPrograms
  MaxEnvs = 12
SPECIFICATION VSpec
INVARIANTS NoPendConverted
CHECK_DEADLOCK FALSE
