SPECIFICATION RvjitSpec
CONSTANTS
  XLEN = 8
  RamBase = 64
  RamSize = 16
  DevStart = 4
  DevSize = 16
  DevWord = 90
  UpperShift = 2
  NumRegs = 5
  HostCount = 3
  MaxInst = 3
  Zero = 0
  HostJunk = 77
  Val <- MCVal
  Ops <- MCOps
  Apply <- ApplyOp
  HostRegs <- MCHostRegs
  Entries <- MCEntries
  Program <- MCProgram
INVARIANTS AllocInv CleanIsSaved TranslationAgrees
PROPERTIES FileSpec
CHECK_DEADLOCK FALSE
