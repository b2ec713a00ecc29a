SPECIFICATION Spec
CONSTANTS
  Threads = {t1, t2}
  Files = {f1, f2}
  Handles = {h1, h2}
  Bases = {b1, b2}
  Entries = {e1, e2, e3, e4}
  None = None
  Overlap = {}
  Faults = {"load"}
SYMMETRY MCSymmetry
INVARIANTS HandleMeansItsModule CopiesAreEntered
CHECK_DEADLOCK FALSE
