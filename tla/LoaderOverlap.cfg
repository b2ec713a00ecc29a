SPECIFICATION Spec
CONSTANTS
  None = None
  Callers = {c1, c2}
  Images = {i1, i2}
  Bases = {b1, b2, b3}
  FlagSets <- MCFewFlagSets
  Fails = {"reserve", "sections", "map", "import", "protect"}
  LeftBehind = {"index"}
  Overlap = {"load"}
  MaxHandles = 2
SYMMETRY MCSymmetry
INVARIANTS
  HandlesAreLive
  NothingLeftBehind
CHECK_DEADLOCK FALSE
