\* Two bits tell a merged bit from a requested one, a second register the
\* target from the status register.
SPECIFICATION BusFairSpec
CONSTANTS
  Registers = {stat, led}
  Status = stat
  Bits = {b0, b1}
INVARIANTS
  BusTypeOK
  RequestedBitsSet
PROPERTIES
  UndisturbedWriteMerges
  AccessEnds
