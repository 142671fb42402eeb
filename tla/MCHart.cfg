CONSTANTS
  Irqs = {5, 7}
  Excs <- MCExcs
  AddrLimit = 8
  Lines = {5, 7}
  Jumps = {4}
  CsrWrites <- TrapWrites
  BootStates <- MCBoot
  Quirks = {}
SPECIFICATION HartFairSpec
INVARIANTS
  HartInv
PROPERTIES
  ReturnResumes
  SleepEnds
  InterruptsAreTaken
