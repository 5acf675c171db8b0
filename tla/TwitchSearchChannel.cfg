\* Two streamers, three overlapping searches and a follow's read; no own writes.
CONSTANTS
  Names = {a, b}
  Callbacks <- MCCallbacks
  NoCallback = none
  MaxPend = 0
  MaxReads = 1
  MaxQueue = 1
  NoName = nobody
  MaxVisits = 1
  MaxRequests = 3
SPECIFICATION Spec
SYMMETRY Symmetry
INVARIANTS
  NoEmptyAdd
  ChannelSkewIsBounded
  SettledSearchAgrees
