CONSTANTS
  t1 = t1
  t2 = t2
  t3 = t3
  e1 = e1
  none = none
  Thread <- ThreeThreads
  MaxThreads = 2
  Rules <- MixedRules
  Entry <- OneEntry
  NoEntry <- none
  File <- SomeFiles
  Answers = {"continue", "abort"}
  MaxScans = 3
SPECIFICATION Spec
SYMMETRY ThreadSymmetry
CHECK_DEADLOCK FALSE
INVARIANTS
  SlotsExclusive
  FreeSlotsClean
  ReportsExact
