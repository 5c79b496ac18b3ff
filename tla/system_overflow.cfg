SPECIFICATION SystemSpec
CONSTANTS
  Format = "simple"
  FixedLen = 1
  HeaderLen = 2
  DataLen = 3
  SeqMax = 99
  RecordCountMax = 9
  KeepSent <- Keep
  Ticks = {1}
  Lens = {0, 1, 5}
  MaxRecords = 3
  MaxFaults = 0
  MaxLives = 1
  MaxTaken = 0
  MaxAnchor = 1
  BufLens = {1}
  GarbageLens = {0, 3}
  Chunk = 2
  Live = FALSE
  MaxReadFaults = 0
  MaxDamaged = 2
  MaxCorrupted = 0
  CorruptValues = {0}
INVARIANTS LossesReported
CHECK_DEADLOCK FALSE
