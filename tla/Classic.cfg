SPECIFICATION Spec
CONSTANTS
  BlockName = {"A", "B"}
  BlockOrder <- MCBlockOrder
  Scripted = {"A"}
  Layouts <- MCLayouts
  Image <- MCImage
  Files <- SoundFiles
  Datum = {}
  Blob <- MCBlob
  MaxElements = 2
INVARIANTS BodyTypeOK SavedEditsReadBack UntouchedIsByteExact
CHECK_DEADLOCK FALSE
