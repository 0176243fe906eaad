\* Bursts that are shorter than the checksum's offset: the checksum word is
\* in the second one, as word 63 is with a BURST_SIZE of 8, 16 or 32.
CONSTANTS
  WordSize = 8
  BurstSize = 2
  LineWords = 2
  ChecksumReg = 3
  MacLen = 2
  SectorWords = 6
  MaxRuns = 1
SPECIFICATION Spec
INVARIANT ChecksumMatches
CHECK_DEADLOCK FALSE
