SPECIFICATION NavigateSpec
CONSTANTS
  root = root
  list = list
  a1 = a1
  a2 = a2
  b1 = b1
  x1 = x1
  x2 = x2
  Node = {root, list, a1, a2, b1, x1, x2}
  Field = {"seats", "boarding", "dependencies"}
  Anchor = {"Root", "DependencyList"}
  Optional = {"DependencyList"}
  Positions <- MCPositions
  RootOf <- MCRootOf
  InitKids <- MCInitKids
  InitPlace <- MCInitPlace
  InitUsed <- MCInitUsed
  TypedIndices = {0, 1}
  MaxEdits = 2
  MaxHandles = 2
SYMMETRY Symmetry
INVARIANTS TypeOK NeverMisaddressed
PROPERTY SurvivesItsEdit
CHECK_DEADLOCK FALSE
