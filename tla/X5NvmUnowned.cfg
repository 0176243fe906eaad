\* An X553 whose firmware wants the NVM once.
CONSTANTS
  Device = "X553"
  NWords = 2
  MacLoc = 0
  AltMacLoc = 1
  MacLen = 1
  MaxAttempts = 2
  HwAttempts = 2
  MaxRuns = 1
  MaxFwUses = 1
  MaxFaults = 0
SPECIFICATION Spec
INVARIANT SuccessHoldsBit
CHECK_DEADLOCK FALSE
