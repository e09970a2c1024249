CONSTANTS
  ClusterSize = 4
  RecordSize = 2
  BufferSize = 5
  Layout <- Layouts
  Sizes = {9, 12}
  BitmapBits = {5, 8}
  MaxRecords = 6
SPECIFICATION FairSpec
CHECK_DEADLOCK FALSE
INVARIANTS
  SlotInsideBuffer
  OwnRecordOnly
  EveryRecordDecoded
PROPERTIES
  Terminates
