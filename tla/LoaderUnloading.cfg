SPECIFICATION Spec
CONSTANTS
  None = None
  Callers = {c1, c2}
  Images = {i1}
  Bases = {b1, b2}
  FlagSets <- MCFewFlagSets
  Fails = {}
  LeftBehind = {}
  Overlap = {"load", "unload"}
  MaxHandles = 2
PROPERTIES
  NoReferenceToUnloading
CHECK_DEADLOCK FALSE
