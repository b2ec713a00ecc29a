SPECIFICATION Spec
CONSTANTS
  Entries = {e1, e2, e3}
  Natives = {n1, n2}
  Blocks = {b1, b2, b3, b4}
  Bases = {1, 2, 3, 4}
  None = None
  Versions <- MCVersions
  Overlap = {"free"}
  Faults = {"ddag", "index", "shared"}
  MaxLoads = 1
SYMMETRY MCSymmetry
INVARIANTS RegisteredOnce RingsAreWhole CountsMatch FastFailsOnCycleOnly
CHECK_DEADLOCK FALSE
