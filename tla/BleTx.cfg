\* Safety and liveness.  4 slots hold 3 bytes, one more than tx_buffer, and 7
\* printed bytes are a lap with bytes before and after it.
SPECIFICATION FairSpec
CONSTANTS
  Size = 4
  TxBufferLen = 2
  DefaultMtu = 1
  MaxMtu = 2
  HvnQueueSize = 2
  MaxRaw = 2
  MaxPrinted = 7
INVARIANTS
  TypeOK
  InOrderOrLapped
  RingHoldsLatest
PROPERTIES
  LapsOnlyAtZero
  CallsReturn
