CONSTANTS
  Names = {a, b}
  Callbacks <- MCCallbacks
  NoCallback = none
  MaxPend = 0
  MaxReads = 2
  MaxQueue = 1
  MaxLive = 1
SPECIFICATION Spec
SYMMETRY Symmetry
INVARIANTS
  CellsShowRows
  UnclearedRequestsValid
  DuplicatesNeedLateSnapshot
PROPERTIES
  CrashNeedsClear
