SPECIFICATION SystemSpec
CONSTANTS
  Format = "fixed"
  FixedLen = 2
  HeaderLen = 0
  DataLen = 3
  SeqMax = 3
  RecordCountMax = 9
  KeepSent <- Both
  Ticks = {1}
  Lens = {2}
  MaxRecords = 7
  MaxFaults = 0
  MaxLives = 1
  MaxTaken = 0
  MaxAnchor = 1
  BufLens = {2}
  GarbageLens = {2}
  Chunk = 2
  Live = TRUE
  MaxReadFaults = 0
  MaxDamaged = 3
  MaxCorrupted = 0
  CorruptValues = {0}
INVARIANTS DamageContained NothingInvented NoSilentGap
CHECK_DEADLOCK FALSE
