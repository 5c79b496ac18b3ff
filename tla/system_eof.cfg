SPECIFICATION FairSystemSpec
CONSTANTS
  Format = "simple"
  FixedLen = 1
  HeaderLen = 2
  DataLen = 3
  SeqMax = 3
  RecordCountMax = 9
  KeepSent <- Keep
  Ticks = {1}
  Lens = {1, 5}
  MaxRecords = 2
  MaxFaults = 0
  MaxLives = 1
  MaxTaken = 0
  MaxAnchor = 1
  BufLens = {1}
  GarbageLens = {0, 3}
  Chunk = 2
  Live = FALSE
  MaxReadFaults = 1
  MaxDamaged = 1
  MaxCorrupted = 1
  CorruptValues = {0, 3}
INVARIANTS ReadsBounded
PROPERTIES EofReached
CHECK_DEADLOCK FALSE
