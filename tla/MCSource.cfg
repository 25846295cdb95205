CONSTANTS
  Chunk = 3
  Files <- MCFiles
SPECIFICATION FairSpec
INVARIANTS WritesInside WholeRead
PROPERTIES ReadEnds
CHECK_DEADLOCK FALSE
