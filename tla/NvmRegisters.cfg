\* Two runs on either NIC, any of which may be killed; a burst is two dwords.
CONSTANTS
  Words = 4
  BurstWords = 2
  ChecksumReg = 3
  SectorWords = 2
  MaxPolls = 2
  MaxRuns = 2
SPECIFICATION FairSpec
INVARIANTS TypeOK ReadsTruth Programmed
PROPERTIES OwnWords RunEnds
CHECK_DEADLOCK FALSE
