SPECIFICATION Spec
CONSTANTS
  Bases <- MCBases
  Sizes <- MCSizes
  NtdllBase = 3
  NtdllSize = 1
  MaxCount = 3
  Free <- MCFree
  ProtectFailures = {"rw", "ro"}
INVARIANTS TypeOK TableSorted NtdllStaysFirst OverflowOnlyWhenFull FlaggedAreRegistered NoStaleEntry
PROPERTY OthersUntouched
CHECK_DEADLOCK FALSE
