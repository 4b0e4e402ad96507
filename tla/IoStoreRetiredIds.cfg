CONSTANTS
  a = a
  b = b
  x = x
  y = y
  plain = plain
  rich = rich
  Path = {a, b}
  Export = {plain, rich}
  Body = {x, y}
  Absent = Absent
  ContainerId = ContainerId
  Length <- MCLength
  Origins <- GameOnly
  MinimumAppended = 0
  MaxEdits = 3
  MaxFaults = 0
SPECIFICATION Spec
INVARIANT
  IdsStayDistinct
CHECK_DEADLOCK FALSE
