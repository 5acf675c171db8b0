\* Three keys, three entries spread over a run and two memtables, one write.
CONSTANTS
  Keys = {1, 2, 3}
  MaxSeq = 4
  Held = 3
  Layouts <- MCLayouts
SPECIFICATION Spec
INVARIANTS
  TypeOK
  ReverseStandsBefore
PROPERTIES
  IteratesSnapshot
  PrevOvershootsUnseen
