\* Up to three PCI devices, up to four parameters, NIC numbers around the
\* limits and one that is 2 in 16 bits.
CONSTANTS
  MaxDevices = 3
  MaxParams = 4
  Typed = {0, 1, 2, 4, 65538}
  MaxNics = 2
SPECIFICATION Spec
INVARIANTS TypeOK ActsOnShown WritesAsAsked
CHECK_DEADLOCK FALSE
