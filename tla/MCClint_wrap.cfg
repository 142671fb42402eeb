CONSTANTS
  NumHarts = 1
  WordMod = 32
  Giga = 2
  Freq = 4
  StartNs = 7
  MaxNs = 9
  Times <- GuestTimes
  MaxWrites = 1
SPECIFICATION ClintSpec
PROPERTIES
  TimeKeepsPace
CHECK_DEADLOCK FALSE
