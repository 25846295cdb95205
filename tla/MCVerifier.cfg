CONSTANTS
  arg = arg
  fun = fun
  sub = sub
  main = main
  Name <- MCName
  Programs <- MCPrograms
  MaxEnvs = 12
SPECIFICATION FairVSpec
INVARIANTS VTypeOK Lockstep LayoutExact ScopesLive Balanced ScopingExact
  RefsCounted InstancesExact OnlyNullAsserts CallsLinked
PROPERTIES VTerminates
CHECK_DEADLOCK FALSE
