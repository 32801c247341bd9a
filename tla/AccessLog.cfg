SPECIFICATION Spec
CONSTANTS
  Cpus = {1}
  Size = 8
  Header = 2
  Lens = {3, 4}
  Garbage = {0, 2}
  MaxEvents = 3
  MaxStarts = 2
  MaxBlock = 2
  MaxLost = 1
INVARIANTS UnreadIntact DropsReported RowsOnceInOrder
PROPERTY FreeCompletes
CHECK_DEADLOCK FALSE
