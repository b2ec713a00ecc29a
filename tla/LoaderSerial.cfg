SPECIFICATION Spec
CONSTANTS
  None = None
  Callers = {c1}
  Images = {i1, i2}
  Bases = {b1, b2, b3, b4}
  FlagSets <- MCFlagSets
  Fails = {"reserve", "sections", "map", "import", "protect", "insert", "tls", "init", "count", "remove"}
  LeftBehind = {"index", "inverted", "tls"}
  Overlap = {}
  MaxHandles = 2
SYMMETRY MCSymmetry
INVARIANTS
  HandlesAreLive
  HoldersSeeInitialized
  CountIsExact
  NothingLeftBehind
  NoDanglingRegistration
  UncountedHeldOnce
  OneModulePerImage
CHECK_DEADLOCK FALSE
