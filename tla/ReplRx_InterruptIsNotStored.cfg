SPECIFICATION Spec
CONSTANTS
  Size = 3
  Byte = {nul, ctrlC, key1C, a}
  NullByte = nul
  CtrlC = ctrlC
  SafeModeKey = key1C
  NoByte = noByte
  MaxPacket = 2
PROPERTIES
  InterruptIsNotStored
