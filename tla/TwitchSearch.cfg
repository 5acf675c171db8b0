\* One streamer: two overlapping searches, a follow at a time over two visits, two
\* accounts and a log out, with fairness.
CONSTANTS
  Names = {a}
  Callbacks <- MCCallbacks
  NoCallback = none
  MaxPend = 1
  MaxReads = 1
  MaxQueue = 2
  NoName = nobody
  MaxVisits = 2
  MaxRequests = 2
SPECIFICATION FairSpec
PROPERTIES
  RefusalNotReportedAsSuccess
  ShownFollowsAreOwned
  OverlapIsNotStale
  SpinnerStops
