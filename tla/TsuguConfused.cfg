CONSTANTS
  arg = arg
  fun = fun
  sub = sub
  get = get
  main = main
  Name <- MCName
  Programs <- ConfusedPrograms
  MaxEnvs = 12
  MaxCalls = 40
SPECIFICATION TSpec
INVARIANTS NumbersRead
CHECK_DEADLOCK FALSE
