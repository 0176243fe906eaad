\* Three runs on one chip; each may be killed or lose power at any write.
CONSTANTS
  NumWords = 8
  HardwareUsage = 3
  Tries = 2
  LockNum = 2
  Bits <- MCBits
  MacWords <- MCMacWords
  Images <- MCImages
  LockFiles <- MCLockFiles
  MaxRuns = 3
SPECIFICATION FairSpec
INVARIANTS TypeOK SuccessIsProgrammed Resumable MacPlaced WritingOff
PROPERTIES LockedAsListed RunEnds StoreSpec
CHECK_DEADLOCK FALSE
