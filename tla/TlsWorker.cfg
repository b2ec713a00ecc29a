SPECIFICATION FairSpec
CONSTANTS
  Threads = {t1, t2, t3}
  None = None
  Faults = {"259"}
INVARIANTS NoLostWakeup
PROPERTIES KeepsPromise FreedEventually WorkerReturns
CHECK_DEADLOCK FALSE
