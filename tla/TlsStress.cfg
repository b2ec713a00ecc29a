SPECIFICATION FairSpec
CONSTANTS
  Threads <- MCThreads
  Main = 1
  Initial = {1}
  Plain = {}
  m1 = m1
  m2 = m2
  Modules <- MCModules
  ZeroLength = {}
  Indices = {128}
  Blocks = {1, 2}
  None = None
  Overlap = {"start_load", "exit_load", "start_exit"}
  Faults = {"oom", "kernel", "kill"}
  MaxStarts = 2
  MaxLoads = 2
INVARIANT IndexBelongsToOneModule
PROPERTIES StartsFinish LoadsFinish
CHECK_DEADLOCK FALSE
