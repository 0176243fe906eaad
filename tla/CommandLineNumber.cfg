\* A number that becomes another one in 16 bits.
CONSTANTS
  MaxDevices = 2
  MaxParams = 3
  Typed = {0, 1, 2, 65538}
  MaxNics = 2
SPECIFICATION Spec
INVARIANT ActsOnTyped
CHECK_DEADLOCK FALSE
