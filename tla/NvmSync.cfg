\* One tool and the firmware; the tool may be killed and started again.
CONSTANTS
  Tools = {t1}
  MaxAttempts = 2
  HwAttempts = 2
  MaxBursts = 2
  MaxReads = 2
  MaxRuns = 2
  MaxFwUses = 2
SPECIFICATION FairSpec
INVARIANTS TypeOK SyncExclusive AccessExclusive WriteLeavesNothing
PROPERTIES FirmwareBitKept CommandEnds FirmwareServed ArbiterSpec
CHECK_DEADLOCK FALSE
