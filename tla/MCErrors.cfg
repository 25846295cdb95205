CONSTANTS
  MaxLen = 7
  Formats <- MCFormats
  MaxErrors = 3
SPECIFICATION Spec
INVARIANTS InBuffer CutOnlyIfFull ListInOrder Released
