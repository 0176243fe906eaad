\* One tool that updates the checksum while the firmware may want the NVM.
CONSTANTS
  Tools = {t1}
  MaxAttempts = 2
  HwAttempts = 2
  MaxBursts = 2
  MaxReads = 2
  MaxRuns = 2
  MaxFwUses = 2
SPECIFICATION Spec
PROPERTY ChecksumUnderOneAcquire
CHECK_DEADLOCK FALSE
