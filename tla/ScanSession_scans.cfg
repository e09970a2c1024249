CONSTANTS
  MaxScans = 2
  MaxFiles = 2
SPECIFICATION FairSpec
INVARIANTS
  ReadyMeansQuiet
  CancelHitsTheScan
  CancelStopsWithinOneFile
  TotalsAddUp
PROPERTIES
  ScansTakeTurns
  ScansEnd
  ReportResetsToggle
CHECK_DEADLOCK FALSE
