SPECIFICATION Spec
CONSTANTS
  Second = 1
  Epoch = 1
  Horizon = 4
  MaxInstances = 3
INVARIANTS
  Announced
  ViewedIsQuiet
  FiguresFit
PROPERTIES
  LineIsRecent
