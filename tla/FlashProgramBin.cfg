\* A BIN file with a MAC address.
CONSTANTS
  WordSize = 8
  BurstSize = 4
  LineWords = 2
  ChecksumReg = 3
  MacLen = 2
  SectorWords = 6
  MaxRuns = 1
SPECIFICATION Spec
INVARIANT BinMacInjected
CHECK_DEADLOCK FALSE
