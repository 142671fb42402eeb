CONSTANTS
  NumHarts = 1
  MaxSources = 1
  WordBits = 2
  PrioLimit = 2
  IrqLines = {1}
  MayUse <- OneDriver
  BlkIrq = 1
  IdxMod = 6
  Sizes = {6}
  TableSize = 6
  Heads = {0, 3}
  Shapes <- OneShape
  Images <- OneSector
  UnitsPerSector = 2
  Values = {0, 1}
  HandlerSubmits = TRUE
SPECIFICATION BlkSpec
PROPERTIES
  AnswersAreCollected
CHECK_DEADLOCK FALSE
