SPECIFICATION ToolsSpec
CHECK_DEADLOCK FALSE
CONSTANTS
  Thread = {t1, t2}
  MaxCalls = 3
  MaxChanges = 1
  MaxSegments = 3
  Unit = 2
  Xs <- MCXs
  Path = {a, b}
  MaxEdits = 2
  MaxLoads = 3
  MaxDepth = 2
  BlockName = {"A"}
  Layouts <- MCLayouts
  Image <- MCImage
  Datum <- MCDatum
  Blob <- MCBlob
  MaxElements = 3
INVARIANTS
  BlockTypeOK
  LayoutIsOfTheCall
  GuidsDiffer
  FunctionTypeOK
  CurvesAreContinuous
  InputsFindTheirSegment
  CleanIsOnDisk
  NavIsOfThisTag
PROPERTIES
  ImplementsElementSeq
  EditsSpareTheOther
