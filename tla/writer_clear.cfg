SPECIFICATION Spec
CONSTANTS
  Format = "fixed"
  FixedLen = 2
  HeaderLen = 0
  DataLen = 2
  SeqMax = 99
  RecordCountMax = 9
  KeepSent <- Always
  Ticks = {0, 1}
  Lens = {2}
  MaxRecords = 2
  MaxFaults = 0
  MaxLives = 1
  MaxTaken = 0
  MaxAnchor = 1
INVARIANTS SessionsApart
CHECK_DEADLOCK FALSE
