SPECIFICATION Spec
CONSTANTS
  Threads <- MCThreads
  Main = 1
  Initial = {1, 2}
  Plain = {3}
  m1 = m1
  m2 = m2
  Modules = {m1}
  ZeroLength = {}
  Indices <- MCIndices
  Blocks <- MCBlocks
  None = None
  Overlap = {"exit_load"}
  Faults = {}
  MaxStarts = 2
  MaxLoads = 1
INVARIANT CorrectedCountPositive
CHECK_DEADLOCK FALSE
