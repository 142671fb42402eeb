------------------------------ MODULE MCRvjit -------------------------------
(* Words of eight bits: a register holds 0 .. 255, RAM cells hold one bit. *)
EXTENDS Rvjit

MCHostRegs == <<RAX, RDI, R8>>
MCVal == 0 .. Mod - 1

MCEntry(x1, x2, x3, x4) ==
  [gpr |-> [g \in 0 .. NumRegs - 1 |-> CASE g = 0 -> 0 [] g = 1 -> x1 [] g = 2 -> x2
                                         [] g = 3 -> x3 [] g = 4 -> x4],
   pc |-> 32, ram |-> [a \in RamBase .. RamBase + RamSize - 1 |-> a % 2],
   dev |-> <<>>, resv |-> NoReservation, junk |-> 0, exc |-> "none"]

(* x1 is an address in the RAM, x4 one of the device. *)
MCEntries == {MCEntry(66, 255, 128, 5), MCEntry(71, 3, 240, 9)}

Inst(op, rd, rs1, rs2, imm) ==
  [op |-> op, rd |-> rd, rs1 |-> rs1, rs2 |-> rs2, imm |-> imm % Mod]

RegInsts(regs) == {Inst(op, r[1], r[2], r[3], 0) : op \in RType, r \in regs}
ImmInsts(regs) ==
  {Inst(op, r[1], r[2], 0, imm) :
     op \in {"ADDI", "XORI", "ORI", "ANDI", "SLTI", "SLTIU", "ADDIW"}, r \in regs, imm \in {-3, 0, 6}}
  \cup {Inst(op, r[1], r[2], 0, imm) : op \in ShiftsI, r \in regs, imm \in {0, 5}}
  \cup {Inst(op, r[1], r[2], 0, imm) : op \in {"SLLIW", "SRLIW", "SRAIW"}, r \in regs, imm \in {0, 3}}
StoreInsts(regs) == {Inst(op, 0, r[1], r[2], imm) : op \in Stores, r \in regs, imm \in {-2, 1}}

MCProgram ==
  <<RegInsts({<<3, 2, 4>>, <<2, 2, 3>>, <<3, 2, 3>>, <<2, 2, 2>>, <<2, 0, 3>>,
              <<2, 3, 0>>, <<0, 1, 2>>, <<2, 0, 0>>})
      \cup ImmInsts({<<2, 3>>, <<3, 3>>, <<2, 0>>})
      \cup StoreInsts({<<1, 3>>, <<4, 2>>, <<1, 0>>, <<0, 2>>}),
    {Inst(op, 4, 3, 2, 0) : op \in {"ADD", "SUBW", "SLL", "SRA", "SLT"}}
      \cup {Inst("ADDI", 1, 1, 0, 1), Inst("SLTU", 4, 0, 3, 0)}
      \cup StoreInsts({<<1, 2>>}),
    {Inst("XOR", 1, 3, 4, 0), Inst("MUL", 2, 3, 4, 0), Inst("SB", 0, 4, 3, 1),
     Inst("SH", 0, 1, 3, 1)},
    {Inst("SUB", 4, 1, 2, 0), Inst("SD", 0, 1, 4, -2)}>>

MCOps == {Operation(i) : i \in {j \in UNION {MCProgram[n] : n \in DOMAIN MCProgram} :
                                   j.op \notin Stores}}
=============================================================================
