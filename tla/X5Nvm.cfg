\* An X553 whose firmware wants the NVM; the tool is killed and restarted.
CONSTANTS
  Device = "X553"
  NWords = 1
  MacLoc = 0
  AltMacLoc = 0
  MacLen = 1
  MaxAttempts = 2
  HwAttempts = 2
  MaxRuns = 2
  MaxFwUses = 1
  MaxFaults = 1
SPECIFICATION FairSpec
INVARIANTS TypeOK SyncExclusive FirmwareMarked MailboxOwned UpdateCommitted LeavesNoMore
PROPERTY RunEnds
CHECK_DEADLOCK FALSE
