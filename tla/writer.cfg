SPECIFICATION Spec
CONSTANTS
  Format = "tsrc"
  FixedLen = 1
  HeaderLen = 2
  DataLen = 3
  SeqMax = 2
  RecordCountMax = 2
  KeepSent <- Never
  Ticks = {1}
  Lens = {0, 1, 5}
  MaxRecords = 3
  MaxFaults = 1
  MaxLives = 2
  MaxTaken = 0
  MaxAnchor = 1
INVARIANTS SequenceDense RemainingTold OnlyFailureLeavesShort RecordsStored CountsUnique
PROPERTIES ImplementsLog
CHECK_DEADLOCK FALSE
