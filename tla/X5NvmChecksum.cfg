\* An X553 one command of which is refused.
CONSTANTS
  Device = "X553"
  NWords = 1
  MacLoc = 0
  AltMacLoc = 0
  MacLen = 1
  MaxAttempts = 2
  HwAttempts = 2
  MaxRuns = 1
  MaxFwUses = 0
  MaxFaults = 1
SPECIFICATION Spec
INVARIANT SuccessIsChecksum
CHECK_DEADLOCK FALSE
