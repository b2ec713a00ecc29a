SPECIFICATION Spec
CONSTANTS
  Threads <- MCThreads
  Main = 1
  Initial = {1, 2}
  Plain = {3}
  m1 = m1
  m2 = m2
  Modules <- MCModules
  ZeroLength = {}
  Indices <- MCIndices
  Blocks <- MCBlocks
  None = None
  Overlap = {}
  Faults = {}
  MaxStarts = 2
  MaxLoads = 2
INVARIANTS TypeOK RecordMatchesTeb UnrecordedHasNoVector EveryThreadHasItsData DataOwnedOnce CountIsExact NtdllVectorUntouched
SYMMETRY MCSymmetry
CHECK_DEADLOCK FALSE
