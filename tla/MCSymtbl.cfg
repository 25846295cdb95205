CONSTANTS
  a = a
  b = b
  c = c
  d = d
  e = e
  Ident = {a, b, c, d, e}
  Member = {m1, m2}
  NoMember = NoMember
  Hash <- MCHash
  InitialBits = 2
  SearchLimit = 2
  MaxBits = 4
SPECIFICATION FairSpec
INVARIANTS ProbeInv RestoreInv BitsBounded
PROPERTIES ImplementsMap InsertReturns
