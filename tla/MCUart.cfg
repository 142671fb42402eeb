CONSTANTS
  NumHarts = 1
  MaxSources = 2
  WordBits = 3
  PrioLimit = 2
  IrqLines = {1, 2}
  MayUse <- DriverUse
  UartIrq = 1
  FifoSize = 2
  MaxBytes = 3
SPECIFICATION UartSpec
INVARIANTS
  UartInv
  BytesInOrder
  DeliverableIsVisible
  VisibleIsDeliverable
  ScanFindsBest
PROPERTIES
  OnlyGuestAcknowledges
  PlicSpec
