CONSTANTS
  Names = {a}
  Callbacks <- MCCallbacks
  NoCallback = none
  MaxPend = 1
  MaxReads = 2
  MaxQueue = 1
  MaxLive = 0
SPECIFICATION Spec
INVARIANTS
  EmptyListSaysSo
