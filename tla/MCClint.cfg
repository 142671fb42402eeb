CONSTANTS
  NumHarts = 1
  WordMod = 32
  Giga = 2
  Freq = 4
  StartNs = 1
  MaxNs = 2
  Times <- GuestTimes
  MaxWrites = 2
SPECIFICATION ClintSpec
PROPERTIES
  LinesSettle
CHECK_DEADLOCK FALSE
