SPECIFICATION FairSpec
CONSTANTS
  Format = "fixed"
  FixedLen = 3
  HeaderLen = 0
  DataLen = 2
  SeqMax = 1
  RecordCountMax = 9
  KeepSent <- Always
  Ticks = {1}
  Lens = {3}
  MaxRecords = 2
  MaxFaults = 2
  MaxLives = 2
  MaxTaken = 1
  MaxAnchor = 2
INVARIANTS WriterInv NamesOrdered StorageBounded
PROPERTIES ClosedForGood CallsReturn
CHECK_DEADLOCK FALSE
