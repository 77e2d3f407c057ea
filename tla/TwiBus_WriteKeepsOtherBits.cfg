SPECIFICATION BusSpec
CONSTANTS
  Registers = {stat, led}
  Status = stat
  Bits = {b0, b1}
PROPERTIES
  WriteKeepsOtherBits
