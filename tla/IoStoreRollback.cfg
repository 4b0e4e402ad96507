CONSTANTS
  a = a
  b = b
  x = x
  y = y
  plain = plain
  rich = rich
  Path = {a, b}
  Export = {plain, rich}
  Body = {x, y}
  Absent = Absent
  ContainerId = ContainerId
  Length <- MCLength
  Origins <- GameOnly
  MinimumAppended = 0
  MaxEdits = 1
  MaxFaults = 1
SPECIFICATION Spec
PROPERTY
  FailedBatchesAreUndone
CHECK_DEADLOCK FALSE
