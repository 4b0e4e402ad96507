SPECIFICATION ToolsSpec
CHECK_DEADLOCK FALSE
CONSTANTS
  BlockName = {}
  Layouts <- MCLayouts
  Image <- MCImage
  Datum = {}
  Blob = {}
  MaxElements = 0
  Thread = {t1}
  MaxCalls = 0
  MaxChanges = 0
  MaxSegments = 2
  Unit = 2
  Xs <- MCXs
  Path = {a}
  MaxEdits = 0
  MaxLoads = 0
  MaxDepth = 0
PROPERTIES
  RangingKeepsPrimary
