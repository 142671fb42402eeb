CONSTANTS
  Irqs = {5, 7}
  Excs <- MCExcs
  AddrLimit = 8
  Lines = {5}
  Jumps = {4}
  CsrWrites <- GateWrites
  BootStates <- ZeroedBoot
  Quirks = {"fetch", "fcsr"}
SPECIFICATION HartSpec
PROPERTIES
  MachineStateIsConfined
