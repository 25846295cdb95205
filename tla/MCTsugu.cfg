CONSTANTS
  arg = arg
  fun = fun
  sub = sub
  get = get
  main = main
  Name <- MCName
  Programs <- MCPrograms
  MaxEnvs = 12
  MaxCalls = 40
SPECIFICATION FairTSpec
INVARIANTS TTypeOK CodeSound BuilderConsistent InstancesBuilt
  AccessesDefined ChainsLexical ResultAsEvaluated NeverMisused AllButCyclesFreed
PROPERTIES CTerminates
CHECK_DEADLOCK FALSE
