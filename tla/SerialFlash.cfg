\* Two runs, one of which may be killed at any edge of a line.
SPECIFICATION FairSpec
CONSTANTS
  Words = 4
  PageWords = 2
  MaxPolls = 2
  MaxCalls = 3
  MaxRuns = 2
INVARIANTS TypeOK SuccessIsTrue
PROPERTIES ValuesInPlace CallEnds
CHECK_DEADLOCK FALSE
