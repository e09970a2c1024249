CONSTANTS
  anywhere = anywhere
  Anywhere <- anywhere
  Byte = {0, 1, 2, 3}
  InitialSize = 10
  Cases <- SomeCases
  MaxAtom = 2
  MaxMatches = 4
  Lower <- SmallToLarge
  Alnum = {1, 2}
  Word = {1, 2}
  NewLine = 3
  Common = {0, 3}
  MaxFibers = 6
  MaxFastStack = 2
  ScanLimit = 8
  Threshold = 1
SPECIFICATION Spec
CHECK_DEADLOCK FALSE
INVARIANTS
  ListsEnd
  ListsComplete
  LongestSuffix
  NoneMissed
  NoneInvented
