CONSTANTS
  r1 = r1
  r2 = r2
  r3 = r3
  RuleFile <- ThreeRuleFiles
  Clash <- ClashingPair
  File <- Files
  FilterLists <- Lists
  MaxScans = 2
  MaxEdits = 1
SPECIFICATION Spec
INVARIANTS
  ScannersLive
  EditsTakeEffect
  NothingLeaks
  MatchesAreTrue
