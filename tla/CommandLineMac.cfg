\* A MAC address whose first character is no digit, in a program run.
CONSTANTS
  MaxDevices = 2
  MaxParams = 3
  Typed = {0, 1, 2, 65538}
  MaxNics = 2
SPECIFICATION Spec
INVARIANT MarkMeansNoMac
CHECK_DEADLOCK FALSE
