\* Two runs, any of which may be killed; bursts that hold the checksum word.
CONSTANTS
  WordSize = 8
  BurstSize = 4
  LineWords = 2
  ChecksumReg = 3
  MacLen = 2
  SectorWords = 6
  MaxRuns = 2
SPECIFICATION Spec
INVARIANTS TypeOK ProgrammedExactly ChecksumMatches ChecksumCommits MethodTested
CHECK_DEADLOCK FALSE
