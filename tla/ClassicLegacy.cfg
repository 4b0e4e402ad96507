SPECIFICATION Spec
CONSTANTS
  BlockName = {"A", "B"}
  BlockOrder <- MCBlockOrder
  Scripted = {"A"}
  Layouts <- MCLayouts
  Image <- MCImage
  Files <- LegacyFiles
  Datum = {}
  Blob <- MCBlob
  MaxElements = 2
INVARIANT SavedEditsReadBack
CHECK_DEADLOCK FALSE
