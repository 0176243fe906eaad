\* An X553 after a run that was killed.
CONSTANTS
  Device = "X553"
  NWords = 1
  MacLoc = 0
  AltMacLoc = 0
  MacLen = 1
  MaxAttempts = 2
  HwAttempts = 2
  MaxRuns = 2
  MaxFwUses = 0
  MaxFaults = 0
SPECIFICATION Spec
INVARIANT StaleBitsCleared
CHECK_DEADLOCK FALSE
