CONSTANTS
  Base = 1
  Top = 4
  PageSize = 2
  NumSlots = 2
  NumSets = 1
  PcCap = 1
  MaxInstructions = 3
  ArenaFuncs = 1
  Programs <- MCMemories
  TrapPc = 1
  Writable = {1, 2, 3}
  Stored = {"op", "illegal"}
  MaxWrites = 3
  MaxBlocks = 3
SPECIFICATION JitSpec
INVARIANT CacheInv
PROPERTIES
  InterpretsMemory
  BlocksMatchMemory
CHECK_DEADLOCK FALSE
