\* A device that is shown and whose number is refused.
CONSTANTS
  MaxDevices = 2
  MaxParams = 3
  Typed = {0, 1, 2, 65538}
  MaxNics = 2
SPECIFICATION Spec
INVARIANT ChoicesAccepted
CHECK_DEADLOCK FALSE
