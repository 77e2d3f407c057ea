SPECIFICATION Spec
CONSTANTS
  Size = 3
  TxBufferLen = 2
  DefaultMtu = 1
  MaxMtu = 2
  HvnQueueSize = 2
  MaxRaw = 2
  MaxPrinted = 3
PROPERTIES
  EmptyMeansAllSent
