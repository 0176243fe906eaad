\* Two tools on one NIC.
CONSTANTS
  Tools = {t1, t2}
  MaxAttempts = 2
  HwAttempts = 2
  MaxBursts = 2
  MaxReads = 2
  MaxRuns = 1
  MaxFwUses = 2
SPECIFICATION Spec
INVARIANT OneDriver
CHECK_DEADLOCK FALSE
