SPECIFICATION SystemSpec
CONSTANTS
  Format = "tsrc"
  FixedLen = 1
  HeaderLen = 2
  DataLen = 3
  SeqMax = 99
  RecordCountMax = 2
  KeepSent <- Keep
  Ticks = {1}
  Lens = {0, 2}
  MaxRecords = 3
  MaxFaults = 1
  MaxLives = 2
  MaxTaken = 0
  MaxAnchor = 1
  BufLens = {1, 2}
  GarbageLens = {1, 2, 3}
  Chunk = 2
  Live = FALSE
  MaxReadFaults = 0
  MaxDamaged = 1
  MaxCorrupted = 0
  CorruptValues = {0}
INVARIANTS DamageContained LossNotOverstated MetaTold
CHECK_DEADLOCK FALSE
