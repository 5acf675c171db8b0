\* Two BJs and a cell object reused for them: the list, the search and a log out
\* between them.
CONSTANTS
  Names = {a, b}
  Callbacks <- MCCallbacks
  NoCallback = none
  MaxPend = 1
  MaxReads = 1
  MaxQueue = 1
  Cells = {c1}
  NoCell = nocell
  NoName = nobody
  Found <- MCFound
  MaxLive = 2
  MaxSearches = 2
SPECIFICATION Spec
CONSTRAINT OneBusyScreen
VIEW View
SYMMETRY Symmetry
INVARIANTS
  SureLabelIsDeleted
  SettledSearchShown
PROPERTIES
  TrapNeedsClearOrLogOut
