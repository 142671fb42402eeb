SPECIFICATION IsaSpec
CONSTANTS
  XLEN = 8
  RamBase = 64
  RamSize = 16
  DevStart = 4
  DevSize = 16
  DevWord = 90
  UpperShift = 2
  TestHarts <- MCHarts
INVARIANTS ImmediatesAsDrawn LutHidesNothing CompressedMeansExpansion ArithmeticFits
CHECK_DEADLOCK FALSE
