CONSTANTS
  a = a
  b = b
  x = x
  y = y
  plain = plain
  rich = rich
  Path = {a, b}
  Export = {plain, rich}
  Body = {x, y}
  Absent = Absent
  ContainerId = ContainerId
  Length <- MCLength
  Origins <- MCOrigins
  MinimumAppended = 0
  MaxEdits = 3
  MaxFaults = 1
SPECIFICATION Spec
INVARIANTS
  InPlaceTypeOK
  RedirectsResolve
  StoreMatchesChunks
  WrapperMatchesBody
  DirectoryIsExact
  RuntimeFindsChunks
PROPERTIES
  ImplementsContainerStore
  OutcomeIsTrue
  UnhitEditsSucceed
  LossTakesTwoFaults
CHECK_DEADLOCK FALSE
