\* One streamer: deletions, overlapping fetches and answers, with fairness.
CONSTANTS
  Names = {a}
  Callbacks <- MCCallbacks
  NoCallback = none
  MaxPend = 2
  MaxReads = 3
  MaxQueue = 2
  MaxLive = 1
SPECIFICATION FairSpec
INVARIANTS
  DeletedRowsGone
  ReadYourWrites
PROPERTIES
  AckMeansStored
  ClearedIsAnswered
  DeletionReported
