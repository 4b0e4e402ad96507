SPECIFICATION Spec
CONSTANTS
  root = root
  list = list
  a1 = a1
  a2 = a2
  b1 = b1
  x1 = x1
  x2 = x2
  Node = {root, a1, a2, b1, x1}
  Field = {"seats", "boarding"}
  Anchor = {"Root"}
  Optional = {}
  Positions <- MCPositions
  RootOf <- MCRootOf
  InitKids <- MCInitKids
  InitPlace <- MCInitPlace
  InitUsed <- MCInitUsed
  TypedIndices = {0, 1}
  MaxEdits = 1
  MaxHandles = 2
INVARIANTS NeverMisaddressed
CHECK_DEADLOCK FALSE
