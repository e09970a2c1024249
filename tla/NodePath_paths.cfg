CONSTANTS
  Record <- FourRecords
  MaxChanges = 2
  MaxDepth = 8
SPECIFICATION FairSpec
CHECK_DEADLOCK FALSE
INVARIANTS
  NobodyLost
  NoFalseAlarm
  OneChangeHarmless
  QuietVolumeExact
PROPERTIES
  WalksEnd
