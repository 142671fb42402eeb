CONSTANTS
  NumHarts = 1
  MaxSources = 2
  WordBits = 3
  PrioLimit = 2
  IrqLines = {1, 2}
  MayUse <- OneDriver
  BusIrq = 1
  KbdIrq = 2
  RunDelay = 2
  ReportSize = 2
  QueueMax = 2
  MaxKeys = 3
  MaxTx = 1
SPECIFICATION I2cSpec
INVARIANT I2cInv
PROPERTIES
  ReadsWhole
  KeysGetRead
  TransfersEnd
CHECK_DEADLOCK FALSE
