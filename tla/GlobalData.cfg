SPECIFICATION Spec
CONSTANTS
  c1 = c1
  c2 = c2
  r1 = r1
  r2 = r2
  Copies = {c1, c2, r1, r2}
  Version <- MCVersion
  Addresses = {a1, a2}
  None = None
  Systems <- MCSystems
  Sections <- MCSections
  Root <- MCRoot
  Entry <- MCEntry
  Capacity = 1
  Faults = {"create", "map", "open", "view"}
SYMMETRY MCSymmetry
INVARIANTS OneBlock BlockBehindTheName SearchStaysInside FindsNtdlls
CHECK_DEADLOCK FALSE
