CONSTANTS
  NumLevels = 4
  MaxMemCompactLevel = 1
  L0Trigger = 2
  LevelBytes = 2
  LevelFactor = 2
  MaxFileSize = 6
  GrandparentLimit = 1
  ExpandLimit = 5
  HeaderSize = 2
  BlockSize = 6
  Keys = {1, 2}
  Batches <- OneEach
  Syncs <- Never
  Snapshots = {s}
  Readers = {r}
  MemLimit = 1
  L0Stop = 3
  MaxGroup = 2
  MaxQueue = 1
  MaxWrites = 4
  MaxReads = 1
  MaxCrashes = 0
  CrashKinds = {"process"}
  MaxFaults = 0
  Faults = {}
SPECIFICATION Spec
INVARIANTS
  TypeOK
  NeededFilesExist
  LevelsHoldOlder
  WorkIsScheduled
PROPERTIES
  KeepsPromise
CHECK_DEADLOCK FALSE
