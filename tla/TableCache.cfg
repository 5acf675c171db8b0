\* Three threads, four files, room for two tables, memory for five.
CONSTANTS
  Threads = {t1, t2, t3}
  Files = {f1, f2, f3, f4}
  Handles = {h1, h2, h3, h4, h5}
  Capacity = 2
  NoHandle = none
SPECIFICATION Spec
SYMMETRY Symmetry
INVARIANTS
  HandlesAreCounted
  ListsTellUse
  UsedIsFound
PROPERTIES
  SurplusWasInUse
