SPECIFICATION SystemSpec
CONSTANTS
  Format = "simple"
  FixedLen = 1
  HeaderLen = 2
  DataLen = 3
  SeqMax = 99
  RecordCountMax = 9
  KeepSent <- Keep
  Ticks = {1}
  Lens = {0, 5}
  MaxRecords = 3
  MaxFaults = 0
  MaxLives = 1
  MaxTaken = 0
  MaxAnchor = 1
  BufLens = {1, 9}
  GarbageLens = {0, 3}
  Chunk = 2
  Live = FALSE
  MaxReadFaults = 1
  MaxDamaged = 2
  MaxCorrupted = 0
  CorruptValues = {0}
INVARIANTS InOrder DamageContained LossNotOverstated NoSilentGap PositionSound HeadersTold ItemsMarked
CHECK_DEADLOCK FALSE
