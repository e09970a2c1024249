CONSTANTS
  File <- Files
  ClusterSize = 2
  LastCluster = 15
  MaxClustersToRead = 2
  Base = 4
  Word = 32
SPECIFICATION Spec
CHECK_DEADLOCK FALSE
INVARIANTS
  FragmentsExact
  ContentExact
