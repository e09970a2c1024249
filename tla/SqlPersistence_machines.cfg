CONSTANTS
  s1 = s1
  s2 = s2
  k1 = k1
  k2 = k2
  r1 = r1
  r2 = r2
  Scanner <- TwoScanners
  Key <- TwoKeys
  Rule <- TwoRules
  MaxSightings = 2
SPECIFICATION Spec
SYMMETRY MachineSymmetry
INVARIANTS
  NeverOvercounts
  SuccessIsRecorded
  ExactUnlessDisturbed
PROPERTIES
  MatchesStayListed
