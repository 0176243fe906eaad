\* An X550 with a quiet firmware.
CONSTANTS
  Device = "X550"
  NWords = 2
  MacLoc = 0
  AltMacLoc = 1
  MacLen = 1
  MaxAttempts = 2
  HwAttempts = 2
  MaxRuns = 1
  MaxFwUses = 0
  MaxFaults = 0
SPECIFICATION Spec
INVARIANT UndisturbedWriteSucceeds
CHECK_DEADLOCK FALSE
