CONSTANTS
  NumLevels = 2
  MaxMemCompactLevel = 0
  L0Trigger = 1
  LevelBytes = 4
  LevelFactor = 2
  MaxFileSize = 6
  GrandparentLimit = 1
  ExpandLimit = 5
  HeaderSize = 3
  BlockSize = 8
  Keys = {1, 2}
  Batches <- Pairs
  Syncs <- Sometimes
  Snapshots = {}
  Readers = {}
  MemLimit = 1
  L0Stop = 1
  MaxGroup = 4
  MaxQueue = 2
  MaxWrites = 3
  MaxReads = 0
  MaxCrashes = 2
  CrashKinds = {"process", "machine"}
  MaxFaults = 1
  Faults = {"newlog", "append", "sync", "table", "manifest"}
SPECIFICATION Spec
INVARIANTS
  DiskIsRecoverable
  SequencesDistinct
  
PROPERTIES
  KeepsPromise
  WritesAreAnswered
CHECK_DEADLOCK FALSE
