\* An X550 whose firmware wants the NVM once.
CONSTANTS
  Device = "X550"
  NWords = 1
  MacLoc = 0
  AltMacLoc = 0
  MacLen = 1
  MaxAttempts = 2
  HwAttempts = 2
  MaxRuns = 1
  MaxFwUses = 1
  MaxFaults = 0
SPECIFICATION Spec
INVARIANT FirmwareMarked
CHECK_DEADLOCK FALSE
