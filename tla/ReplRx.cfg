\* A ring of 3 slots holds 2 bytes, so a packet of 2 fills it from empty and overflows it otherwise.
SPECIFICATION FairSpec
CONSTANTS
  Size = 3
  Byte = {nul, ctrlC, key1C, a}
  NullByte = nul
  CtrlC = ctrlC
  SafeModeKey = key1C
  NoByte = noByte
  MaxPacket = 2
INVARIANTS
  TypeOK
  ReaderHoldsOldest
PROPERTIES
  FifoSpec
  ReadReturns
