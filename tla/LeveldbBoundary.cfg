CONSTANTS
  NumLevels = 3
  MaxMemCompactLevel = 0
  L0Trigger = 2
  LevelBytes = 1
  LevelFactor = 2
  MaxFileSize = 1
  GrandparentLimit = 1
  ExpandLimit = 5
  HeaderSize = 2
  BlockSize = 6
  Keys = {1}
  Batches <- Overwrites
  Syncs <- Never
  Snapshots = {s}
  Readers = {}
  MemLimit = 1
  L0Stop = 3
  MaxGroup = 2
  MaxQueue = 1
  MaxWrites = 3
  MaxReads = 1
  MaxCrashes = 0
  CrashKinds = {"process"}
  MaxFaults = 0
  Faults = {}
SPECIFICATION Spec
INVARIANTS
  EntriesNeverHop
CHECK_DEADLOCK FALSE
