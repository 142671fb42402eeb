-------------------------------- MODULE Rv64 --------------------------------
(***************************************************************************)
(* What the interpreter's instruction functions compute: RV64I, M, A, C,   *)
(* Zba, Zbb, Zbc, Zbs and CBO.ZERO (src/src/sets/), with the memory they   *)
(* go through (src/src/mmio.cpp, src/include/memory_map.hpp).              *)
(*                                                                         *)
(* The machine word is scaled: XLEN bits stand for the 64 of a uint64_t,   *)
(* a half for an int32_t, a quarter for a short and an eighth for a byte,  *)
(* and so do the masks of shift amounts.  A word is a natural number below *)
(* 2^XLEN; the C++ conversions are Trunc (to a narrower unsigned type),    *)
(* Signed (the value of a signed type) and Sext (back to a uint64_t).      *)
(*                                                                         *)
(* A hart is a record: gpr, pc, the RAM, the writes its device got, the    *)
(* LR reservation, junk (what an uninitialized local holds) and exc, the   *)
(* exception ExecReturn reports.                                           *)
(***************************************************************************)
EXTENDS Integers, Sequences, FiniteSets, Bitwise, FiniteSetsExt, SequencesExt

CONSTANTS
  XLEN,        \* bits of a word (64)
  RamBase,     \* first address of the RAM (0x80000000)
  RamSize,     \* memsize, in bytes
  DevStart,    \* first address of the one device
  DevSize,     \* its bytes
  DevWord,     \* what the device answers to a read
  UpperShift   \* the 12 of C.LUI

INT == XLEN \div 2
SHORT == XLEN \div 4
BYTE == XLEN \div 8
Mod == 2^XLEN
RamEnd == RamBase + RamSize

ASSUME WordAssumption == XLEN % 8 = 0 /\ XLEN > 0
ASSUME LayoutAssumption ==
  /\ RamBase \in Nat /\ RamSize \in Nat /\ RamEnd < Mod
  /\ DevStart \in Nat /\ DevStart + DevSize <= RamBase

Trunc(x, n) == x % 2^n
Signed(x, n) == LET t == x % 2^n IN IF t >= 2^(n - 1) THEN t - 2^n ELSE t
Sext(x, n) == Signed(x, n) % Mod
Shl(x, s) == (x * 2^s) % Mod
Shr(x, s) == x \div 2^s
Sar(x, s, n) == (Signed(x, n) \div 2^s) % Mod
Bit(x, i) == (x \div 2^i) % 2
Neg(x) == Mod - 1 - x                \* ~x
Bool(p) == IF p THEN 1 ELSE 0

-----------------------------------------------------------------------------
(* Memory.  Sizes are bytes: 1, 2, 4, 8. *)

(* The test mmio.cpp makes before it goes to the RAM; vaddr + size wraps. *)
InDram(a, sz) == a >= RamBase /\ (a + sz) % Mod <= RamEnd

(* A write reaches the device below the last place a read reaches. *)
DevWrites(a, sz) == a >= DevStart /\ a < DevStart + DevSize - sz
DevReads(a, sz) == a >= DevStart /\ a < DevStart + DevSize - sz + 1

read_dram_fast(ram, a, sz) ==
  MapThenSumSet(LAMBDA i : ram[a + i] * 2^(BYTE * i), 0 .. sz - 1)

store(ram, a, sz, v) ==
  [x \in DOMAIN ram |-> IF x \in a .. a + sz - 1
                        THEN Shr(v, BYTE * (x - a)) % 2^BYTE ELSE ram[x]]

NoReservation == [valid |-> FALSE, vaddr |-> 0, size |-> 0]

amo_check_reservation(h, va) ==
  IF h.resv.valid /\ h.resv.vaddr >= va /\ va <= h.resv.vaddr + h.resv.size
  THEN [h EXCEPT !.resv.valid = FALSE]
  ELSE h

Raise(h, exc) == [h EXCEPT !.exc = exc]

(* A range test that wrapped lets the access through: a write ends the     *)
(* emulator in MemoryRegion::ptr, a read reads the emulator's own memory.  *)
mmio_write(h, a, sz, v) ==
  CASE InDram(a, sz) /\ a >= RamEnd -> Raise(h, "OUT_OF_RANGE")
    [] InDram(a, sz) /\ a < RamEnd ->
         [amo_check_reservation(h, a) EXCEPT !.ram = store(@, a, sz, v)]
    [] ~InDram(a, sz) /\ DevWrites(a, sz) ->
         [amo_check_reservation(h, a) EXCEPT
            !.dev = Append(@, <<a, sz, v>>)]
    [] OTHER -> Raise(h, "STORE_ACCESS_FAULT")

mmio_read(h, a, sz) ==
  CASE InDram(a, sz) /\ a >= RamEnd -> [exc |-> "OUT_OF_RANGE", val |-> 0]
    [] InDram(a, sz) /\ a < RamEnd ->
         [exc |-> "none", val |-> read_dram_fast(h.ram, a, sz)]
    [] ~InDram(a, sz) /\ DevReads(a, sz) ->
         [exc |-> "none", val |-> Trunc(DevWord, BYTE * sz)]
    [] OTHER -> [exc |-> "LOAD_ACCESS_FAULT", val |-> 0]

-----------------------------------------------------------------------------
(* Register-register and register-immediate arithmetic of rv64i.cpp. *)

OP32 == {"ADDW", "SUBW", "SLLW", "SRLW", "SRAW"}
exec_OP32(op, a, b) ==
  LET x == Trunc(a, INT)
      y == Trunc(b, INT)
      s == y % INT
  IN CASE op = "ADDW" -> Sext(x + y, INT)
       [] op = "SUBW" -> Sext(x - y, INT)
       [] op = "SLLW" -> Sext(Shl(x, s), INT)
       [] op = "SRLW" -> Sext(Shr(x, s), INT)
       [] op = "SRAW" -> Sar(x, s, INT)

OPIMM32 == {"ADDIW", "SLLIW", "SRLIW", "SRAIW"}
exec_OPIMM32(op, a, imm) ==
  LET x == Trunc(a, INT)
  IN CASE op = "ADDIW" -> Sext(x + imm, INT)
       [] op = "SLLIW" -> Sext(Shl(x, imm), INT)
       [] op = "SRLIW" -> Sext(Shr(x, imm), INT)
       [] op = "SRAIW" -> Sar(x, imm, INT)

OP == {"ADD", "SUB", "XOR", "OR", "AND", "SLL", "SRL", "SRA", "SLT", "SLTU"}
exec_OP(op, a, b) ==
  CASE op = "ADD" -> (a + b) % Mod
    [] op = "SUB" -> (a - b) % Mod
    [] op = "XOR" -> a ^^ b
    [] op = "OR" -> a | b
    [] op = "AND" -> a & b
    [] op = "SLL" -> Shl(a, b % XLEN)
    [] op = "SRL" -> Shr(a, b % XLEN)
    [] op = "SRA" -> Sar(a, b % XLEN, XLEN)
    [] op = "SLT" -> Bool(Signed(a, XLEN) < Signed(b, XLEN))
    [] op = "SLTU" -> Bool(a < b)

OPIMM == {"ADDI", "XORI", "ORI", "ANDI", "SLLI", "SRLI", "SRAI", "SLTI", "SLTIU"}
exec_OPIMM(op, a, imm) ==
  CASE op = "ADDI" -> (a + imm) % Mod
    [] op = "XORI" -> a ^^ imm
    [] op = "ORI" -> a | imm
    [] op = "ANDI" -> a & imm
    [] op = "SLLI" -> Shl(a, imm)
    [] op = "SRLI" -> Shr(a, imm)
    [] op = "SRAI" -> Sar(a, imm, XLEN)
    [] op = "SLTI" -> Bool(Signed(a, XLEN) < Signed(imm, XLEN))
    [] op = "SLTIU" -> Bool(a < imm)

-----------------------------------------------------------------------------
(* rv64m.cpp.  C++ division truncates toward zero. *)

Abs(x) == IF x < 0 THEN -x ELSE x
Quot(a, b) == LET q == Abs(a) \div Abs(b) IN IF (a < 0) = (b < 0) THEN q ELSE -q
Rem(a, b) == a - b * Quot(a, b)
IntMin(n) == -(2^(n - 1))

MULDIV32 == {"MULW", "DIVW", "DIVUW", "REMW", "REMUW"}

(* Slip: the quotient of unsigned words is not sign-extended. *)
exec_MULDIV32_slip(op, a, b) ==
  LET x == Signed(a, INT)
      y == Signed(b, INT)
      ux == Trunc(a, INT)
      uy == Trunc(b, INT)
      overflow == x = IntMin(INT) /\ y = -1
  IN CASE op = "MULW" -> Sext(x * y, INT)
       [] op = "DIVW" -> IF y = 0 THEN Mod - 1 ELSE IF overflow THEN x % Mod ELSE Quot(x, y) % Mod
       [] op = "DIVUW" -> IF uy = 0 THEN Mod - 1 ELSE ux \div uy
       [] op = "REMW" -> IF y = 0 THEN Sext(a, INT) ELSE IF overflow THEN 0 ELSE Rem(x, y) % Mod
       [] op = "REMUW" -> IF uy = 0 THEN a ELSE Sext(ux % uy, INT)

exec_MULDIV32(op, a, b) ==
  LET x == Signed(a, INT)
      y == Signed(b, INT)
      ux == Trunc(a, INT)
      uy == Trunc(b, INT)
      overflow == x = IntMin(INT) /\ y = -1
  IN CASE op = "MULW" -> Sext(x * y, INT)
       [] op = "DIVW" -> IF y = 0 THEN Mod - 1
                         ELSE IF x = 0 THEN 0
                         ELSE IF overflow THEN x % Mod ELSE Quot(x, y) % Mod
       [] op = "DIVUW" -> IF uy = 0 THEN Mod - 1
                          ELSE IF ux = 0 THEN 0 ELSE Sext(ux \div uy, INT)
       [] op = "REMW" -> IF y = 0 THEN Sext(a, INT)
                         ELSE IF overflow THEN 0 ELSE Rem(x, y) % Mod
       [] op = "REMUW" -> IF uy = 0 THEN a ELSE Sext(ux % uy, INT)

MULOPS == {"MUL", "MULH", "MULHSU", "MULHU"}
exec_MUL(op, a, b) ==
  CASE op = "MUL" -> (a * b) % Mod
    [] op = "MULH" -> ((Signed(a, XLEN) * Signed(b, XLEN)) \div Mod) % Mod
    [] op = "MULHSU" -> ((Signed(a, XLEN) * b) \div Mod) % Mod
    [] op = "MULHU" -> (a * b) \div Mod

DIVOPS == {"DIV", "DIVU", "REM", "REMU"}

exec_DIV(op, a, b) ==
  LET x == Signed(a, XLEN)
      y == Signed(b, XLEN)
      overflow == a = 2^(XLEN - 1) /\ b = Mod - 1
  IN CASE op = "DIV" -> IF b = 0 THEN Mod - 1
                        ELSE IF a = 0 THEN 0
                        ELSE IF overflow THEN a ELSE Quot(x, y) % Mod
       [] op = "DIVU" -> IF b = 0 THEN Mod - 1 ELSE IF a = 0 THEN 0 ELSE a \div b
       [] op = "REM" -> IF b = 0 THEN a ELSE IF overflow THEN 0 ELSE Rem(x, y) % Mod
       [] op = "REMU" -> IF b = 0 THEN a ELSE a % b

-----------------------------------------------------------------------------
(* The bit-manipulation extensions. *)

ZBA == {"ADD_UW", "SH1ADD", "SH2ADD", "SH3ADD",
        "SH1ADD_UW", "SH2ADD_UW", "SH3ADD_UW"}
exec_SLLI_UW(a, b) == Shl(Trunc(a, INT), b % XLEN)   \* b as in RORI, see exec_ROT
exec_ZBA(op, a, b) ==
  LET n == CASE op = "ADD_UW" -> 0
             [] op \in {"SH1ADD", "SH1ADD_UW"} -> 1
             [] op \in {"SH2ADD", "SH2ADD_UW"} -> 2
             [] op \in {"SH3ADD", "SH3ADD_UW"} -> 3
      x == IF op \in {"SH1ADD", "SH2ADD", "SH3ADD"} THEN a ELSE Trunc(a, INT)
  IN (b + Shl(x, n)) % Mod

exec_LOGIC_N(op, a, b) ==
  CASE op = "ANDN" -> a & Neg(b)
    [] op = "ORN" -> a | Neg(b)
    [] op = "XNOR" -> Neg(a ^^ b)

(* The bit scans; n is XLEN, or INT for the W forms. *)
OnesOf(x, n) == {i \in 0 .. n - 1 : Bit(x, i) = 1}
exec_CLZ(a, n) == n - 1 - Max(OnesOf(a, n) \cup {-1})
exec_CTZ(a, n) == Min(OnesOf(a, n) \cup {n})
exec_CPOP(a, n) == Cardinality(OnesOf(a, n))

exec_MINMAX(op, a, b) ==
  LET less == IF op \in {"MAX", "MIN"} THEN Signed(a, XLEN) < Signed(b, XLEN)
                                       ELSE a < b
  IN IF less = (op \in {"MIN", "MINU"}) THEN a ELSE b

exec_EXT(op, a) ==
  CASE op = "SEXT_B" -> Sext(a, BYTE)
    [] op = "SEXT_H" -> Sext(a, SHORT)
    [] op = "ZEXT_H" -> Trunc(a, SHORT)

(* A shift by the full width is undefined; x86 shifts by zero, and or-ing  *)
(* the word or zero to itself gives the same.  The immediate forms get     *)
(* funct7 in their immediate, which the x86 shift masks away.  RORIW works *)
(* on the 64-bit copy of the low half and stores it as it is.              *)
exec_ROT(op, a, b) ==
  LET s == b % XLEN
      t == b % INT
      x == Trunc(a, INT)
  IN CASE op = "ROL" -> Shl(a, s) | Shr(a, XLEN - s)
       [] op = "ROLW" -> Sext(Shl(x, t) | Shr(x, INT - t), INT)
       [] op \in {"ROR", "RORI"} -> Shr(a, s) | Shl(a, XLEN - s)
       [] op = "RORIW" -> Shr(x, t) | Shl(x, INT - t)
       [] op = "RORW" -> Sext(Shr(x, t) | Shl(x, INT - t), INT)

ByteOf(x, i) == Shr(x, BYTE * i) % 2^BYTE
exec_ORC_B(a) ==
  MapThenSumSet(LAMBDA i : IF ByteOf(a, i) = 0 THEN 0 ELSE (2^BYTE - 1) * 2^(BYTE * i), 0 .. 7)
exec_REV8(a) == MapThenSumSet(LAMBDA i : ByteOf(a, i) * 2^(BYTE * (7 - i)), 0 .. 7)

XorOver(S, f(_)) == FoldSet(LAMBDA i, acc : acc ^^ f(i), 0, S)
exec_CLMUL(a, b) == XorOver(OnesOf(b, XLEN), LAMBDA i : Shl(a, i))
exec_CLMULH(a, b) == XorOver(OnesOf(b, XLEN) \ {0}, LAMBDA i : Shr(a, XLEN - i))
exec_CLMULR(a, b) == XorOver(OnesOf(b, XLEN), LAMBDA i : Shr(a, XLEN - 1 - i))

exec_ZBS(op, a, b) ==
  LET bit == 2^(b % XLEN)
  IN CASE op \in {"BCLR", "BCLRI"} -> a & Neg(bit)
       [] op \in {"BEXT", "BEXTI"} -> Bit(a, b % XLEN)
       [] op \in {"BINV", "BINVI"} -> a ^^ bit
       [] op \in {"BSET", "BSETI"} -> a | bit

-----------------------------------------------------------------------------
(* Instructions on a hart.  inst is [op, rd, rs1, rs2, imm]. *)

Rs1(h, inst) == h.gpr[inst.rs1]
Rs2(h, inst) == h.gpr[inst.rs2]
Advance(h, n) == [h EXCEPT !.pc = (@ + n) % Mod]
Write(h, rd, v, n) == Advance([h EXCEPT !.gpr[rd] = v], n)

Loads == {"LB", "LH", "LW", "LD", "LBU", "LHU", "LWU"}
LoadSize(op) == CASE op \in {"LB", "LBU"} -> 1 [] op \in {"LH", "LHU"} -> 2
                  [] op \in {"LW", "LWU"} -> 4 [] op = "LD" -> 8
(* A load of sz bytes from a into rd by an instruction of n bytes. *)
Load(h, rd, a, sz, signed, n) ==
  LET r == mmio_read(h, a, sz)
  IN IF r.exc # "none" THEN Raise(h, r.exc)
     ELSE Write(h, rd, IF signed THEN Sext(r.val, BYTE * sz) ELSE r.val, n)
exec_LD_LWU(h, inst) ==
  Load(h, inst.rd, (Rs1(h, inst) + inst.imm) % Mod, LoadSize(inst.op), FALSE, 4)
exec_LOAD(h, inst) ==
  Load(h, inst.rd, (Rs1(h, inst) + inst.imm) % Mod, LoadSize(inst.op),
       inst.op \in {"LB", "LH", "LW"}, 4)

Stores == {"SB", "SH", "SW", "SD"}
StoreSize(op) == CASE op = "SB" -> 1 [] op = "SH" -> 2 [] op = "SW" -> 4 [] op = "SD" -> 8
Store(h, a, sz, v, n) ==
  LET w == mmio_write(h, a, sz, v) IN IF w.exc = "none" THEN Advance(w, n) ELSE w
exec_SD(h, inst) == Store(h, (Rs1(h, inst) + inst.imm) % Mod, 8, Rs2(h, inst), 4)
exec_STORE(h, inst) ==
  Store(h, (Rs1(h, inst) + inst.imm) % Mod, StoreSize(inst.op), Rs2(h, inst), 4)

Branches == {"BEQ", "BNE", "BLT", "BGE", "BLTU", "BGEU"}
Taken(op, a, b) ==
  CASE op = "BEQ" -> a = b
    [] op = "BNE" -> a # b
    [] op = "BLT" -> Signed(a, XLEN) < Signed(b, XLEN)
    [] op = "BGE" -> Signed(a, XLEN) >= Signed(b, XLEN)
    [] op = "BLTU" -> a < b
    [] op = "BGEU" -> a >= b
Jump(h, target) ==
  IF target % 2 # 0 THEN Raise(h, "INST_ADDR_MISALIGNED") ELSE [h EXCEPT !.pc = target]
exec_BRANCH(h, inst) ==
  IF Taken(inst.op, Rs1(h, inst), Rs2(h, inst))
  THEN Jump(h, (h.pc + inst.imm) % Mod)
  ELSE Advance(h, 4)

exec_JAL(h, inst) ==
  LET j == Jump(h, (h.pc + inst.imm) % Mod)
  IN IF j.exc = "none" THEN [j EXCEPT !.gpr[inst.rd] = (h.pc + 4) % Mod] ELSE j
exec_JALR(h, inst) ==
  LET target == 2 * (((Rs1(h, inst) + inst.imm) % Mod) \div 2)
  IN [Jump(h, target) EXCEPT !.gpr[inst.rd] = (h.pc + 4) % Mod]
exec_UPPER(h, inst) ==
  Write(h, inst.rd, (inst.imm + (IF inst.op = "AUIPC" THEN h.pc ELSE 0)) % Mod, 4)

-----------------------------------------------------------------------------
(* rv64a.cpp.  The success code of SC is one byte written over an          *)
(* uninitialized local, all of which then goes to rd.                      *)

ScCode(h, code, bits) == Trunc(2^BYTE * Shr(h.junk, BYTE) + code, bits)

AMO_SC(h, inst, sz, v) ==
  LET va == Rs1(h, inst)
      w == mmio_write(h, va, sz, v)
      reserved == h.resv.valid /\ h.resv.vaddr = va /\ h.resv.size = sz
      done == [(IF reserved THEN w ELSE h) EXCEPT !.resv.valid = FALSE]
  IN IF reserved /\ w.exc # "none" THEN w
     ELSE Write(done, inst.rd, ScCode(h, IF reserved THEN 0 ELSE 1, BYTE * sz), 4)

AMO_LR(h, inst, sz) ==
  LET va == Rs1(h, inst)
      r == mmio_read(h, va, sz)
      held == [h EXCEPT !.resv = [valid |-> TRUE, vaddr |-> va, size |-> sz]]
  IN IF r.exc # "none" THEN Raise(h, r.exc)
     ELSE Write(held, inst.rd, Sext(r.val, BYTE * sz), 4)

exec_LRSC_D(h, inst) ==
  IF inst.op = "LR_D" THEN AMO_LR(h, inst, 8) ELSE AMO_SC(h, inst, 8, Rs2(h, inst))
exec_LRSC_W(h, inst) ==
  IF inst.op = "LR_W" THEN AMO_LR(h, inst, 4)
  ELSE AMO_SC(h, inst, 4, Trunc(Rs2(h, inst), INT))

Lesser(a, b, less) == IF less THEN a ELSE b
AmoFunc(f, a, b, n) ==
  CASE f = "AMOSWAP" -> b
    [] f = "AMOADD" -> (a + b) % 2^n
    [] f = "AMOXOR" -> a ^^ b
    [] f = "AMOAND" -> a & b
    [] f = "AMOOR" -> a | b
    [] f = "AMOMIN" -> Lesser(a, b, Signed(a, n) < Signed(b, n))
    [] f = "AMOMAX" -> Lesser(b, a, Signed(a, n) < Signed(b, n))
    [] f = "AMOMINU" -> Lesser(a, b, a < b)
    [] f = "AMOMAXU" -> Lesser(b, a, a < b)
AmoFuncs == {"AMOSWAP", "AMOADD", "AMOXOR", "AMOAND", "AMOOR",
             "AMOMIN", "AMOMAX", "AMOMINU", "AMOMAXU"}

(* Read, modify and write sz bytes; the old value goes to rd. *)
AMO(h, inst, sz) ==
  LET va == Rs1(h, inst)
      r == mmio_read(h, va, sz)
      new == AmoFunc(inst.amo, r.val, Trunc(Rs2(h, inst), BYTE * sz), BYTE * sz)
      w == mmio_write(h, va, sz, new)
  IN IF r.exc # "none" THEN Raise(h, r.exc)
     ELSE IF w.exc # "none" THEN w
     ELSE Write(w, inst.rd, Sext(r.val, BYTE * sz), 4)
exec_AMO_D(h, inst) == AMO(h, inst, 8)
exec_AMO_W(h, inst) == AMO(h, inst, 4)

(* zicboz.cpp: the block goes to RAM without mmio.write (and so without    *)
(* amo_check_reservation); below the RAM every byte is written, and a      *)
(* fault of one of them is dropped.                                        *)
CboBlock == 8
exec_cbo_zero(h, inst) ==
  LET a == CboBlock * (Rs1(h, inst) \div CboBlock)
      drop(g) == [g EXCEPT !.exc = "none"]
  IN CASE a >= RamEnd -> Raise(h, "OUT_OF_RANGE")
       [] a >= RamBase /\ a < RamEnd ->
            Advance([h EXCEPT !.ram = [x \in DOMAIN @ |->
                       IF x \in a .. a + CboBlock - 1 THEN 0 ELSE @[x]]], 4)
       [] OTHER -> Advance(FoldLeft(LAMBDA g, i : drop(mmio_write(g, a + i, 1, 0)),
                                    h, [i \in 1 .. CboBlock |-> i - 1]), 4)

-----------------------------------------------------------------------------
(* rv64c.cpp.  rd, rs1 and rs2 are the registers the functions index: the  *)
(* three-bit fields with eight added.                                      *)

exec_C_ADDI4SPN(h, inst) == Write(h, inst.rd, (h.gpr[2] + inst.imm) % Mod, 2)
exec_C_LW(h, inst) == Load(h, inst.rd, (Rs1(h, inst) + inst.imm) % Mod, 4, TRUE, 2)
exec_C_LD(h, inst) == Load(h, inst.rd, (Rs1(h, inst) + inst.imm) % Mod, 8, FALSE, 2)
exec_C_SW(h, inst) == Store(h, (Rs1(h, inst) + inst.imm) % Mod, 4, Rs2(h, inst), 2)
exec_C_SD(h, inst) == Store(h, (Rs1(h, inst) + inst.imm) % Mod, 8, Rs2(h, inst), 2)

exec_C_IMM(h, inst) ==
  LET x == h.gpr[inst.rd]
  IN CASE inst.op = "C_NOP" -> Advance(h, 2)
       [] inst.op = "C_ADDI" -> Write(h, inst.rd, (x + inst.imm) % Mod, 2)
       [] inst.op = "C_ADDIW" -> Write(h, inst.rd, Sext(x + inst.imm, INT), 2)
       [] inst.op = "C_LI" -> Write(h, inst.rd, inst.imm, 2)
exec_C_LUI_ADDI16SP(h, inst) ==
  Write(h, inst.rd, IF inst.rd = 2 THEN (h.gpr[2] + inst.imm) % Mod
                                   ELSE Shl(inst.imm, UpperShift), 2)
exec_C_SHIFT_ANDI(h, inst) ==
  LET x == h.gpr[inst.rd]
  IN Write(h, inst.rd, CASE inst.op = "C_SRLI" -> Shr(x, inst.imm)
                         [] inst.op = "C_SRAI" -> Sar(x, inst.imm, XLEN)
                         [] inst.op = "C_ANDI" -> x & inst.imm, 2)
exec_C_ALU(h, inst) ==
  LET x == h.gpr[inst.rd]
      y == Rs2(h, inst)
  IN Write(h, inst.rd, CASE inst.op = "C_SUB" -> (x - y) % Mod
                         [] inst.op = "C_XOR" -> x ^^ y
                         [] inst.op = "C_OR" -> x | y
                         [] inst.op = "C_AND" -> x & y
                         [] inst.op = "C_SUBW" -> Sext(x - y, INT)
                         [] inst.op = "C_ADDW" -> Sext(x + y, INT), 2)
exec_C_J(h, inst) == [h EXCEPT !.pc = (@ + inst.imm) % Mod]
exec_C_BEQZ(h, inst) == IF Rs1(h, inst) = 0 THEN exec_C_J(h, inst) ELSE Advance(h, 2)
exec_C_BNEZ(h, inst) == IF Rs1(h, inst) # 0 THEN exec_C_J(h, inst) ELSE Advance(h, 2)
exec_C_SLLI(h, inst) == Write(h, inst.rd, Shl(h.gpr[inst.rd], inst.imm), 2)
exec_C_LWSP(h, inst) == Load(h, inst.rd, (h.gpr[2] + inst.imm) % Mod, 4, TRUE, 2)
exec_C_LDSP(h, inst) == Load(h, inst.rd, (h.gpr[2] + inst.imm) % Mod, 8, FALSE, 2)
exec_C_JR(h, inst) == [h EXCEPT !.pc = 2 * (h.gpr[inst.rd] \div 2)]
exec_C_MV(h, inst) == Write(h, inst.rd, Rs2(h, inst), 2)
exec_C_JALR(h, inst) ==
  [h EXCEPT !.pc = 2 * (h.gpr[inst.rd] \div 2), !.gpr[1] = (h.pc + 2) % Mod]
exec_C_ADD(h, inst) == Write(h, inst.rd, (h.gpr[inst.rd] + Rs2(h, inst)) % Mod, 2)
exec_C_SWSP(h, inst) == Store(h, (h.gpr[2] + inst.imm) % Mod, 4, Rs2(h, inst), 2)
exec_C_SDSP(h, inst) == Store(h, (h.gpr[2] + inst.imm) % Mod, 8, Rs2(h, inst), 2)

compressed_inst(h, inst) ==
  CASE inst.op = "C_ADDI4SPN" -> exec_C_ADDI4SPN(h, inst)
    [] inst.op = "C_LW" -> exec_C_LW(h, inst)
    [] inst.op = "C_LD" -> exec_C_LD(h, inst)
    [] inst.op = "C_SW" -> exec_C_SW(h, inst)
    [] inst.op = "C_SD" -> exec_C_SD(h, inst)
    [] inst.op \in {"C_NOP", "C_ADDI", "C_ADDIW", "C_LI"} -> exec_C_IMM(h, inst)
    [] inst.op \in {"C_LUI", "C_ADDI16SP"} -> exec_C_LUI_ADDI16SP(h, inst)
    [] inst.op \in {"C_SRLI", "C_SRAI", "C_ANDI"} -> exec_C_SHIFT_ANDI(h, inst)
    [] inst.op \in {"C_SUB", "C_XOR", "C_OR", "C_AND", "C_SUBW", "C_ADDW"} ->
         exec_C_ALU(h, inst)
    [] inst.op = "C_J" -> exec_C_J(h, inst)
    [] inst.op = "C_BEQZ" -> exec_C_BEQZ(h, inst)
    [] inst.op = "C_BNEZ" -> exec_C_BNEZ(h, inst)
    [] inst.op = "C_SLLI" -> exec_C_SLLI(h, inst)
    [] inst.op = "C_LWSP" -> exec_C_LWSP(h, inst)
    [] inst.op = "C_LDSP" -> exec_C_LDSP(h, inst)
    [] inst.op = "C_JR" -> exec_C_JR(h, inst)
    [] inst.op = "C_MV" -> exec_C_MV(h, inst)
    [] inst.op = "C_JALR" -> exec_C_JALR(h, inst)
    [] inst.op = "C_ADD" -> exec_C_ADD(h, inst)
    [] inst.op = "C_SWSP" -> exec_C_SWSP(h, inst)
    [] inst.op = "C_SDSP" -> exec_C_SDSP(h, inst)
CompressedOps ==
  {"C_ADDI4SPN", "C_LW", "C_LD", "C_SW", "C_SD", "C_NOP", "C_ADDI", "C_ADDIW",
   "C_LI", "C_LUI", "C_ADDI16SP", "C_SRLI", "C_SRAI", "C_ANDI", "C_SUB", "C_XOR",
   "C_OR", "C_AND", "C_SUBW", "C_ADDW", "C_J", "C_BEQZ", "C_BNEZ", "C_SLLI",
   "C_LWSP", "C_LDSP", "C_JR", "C_MV", "C_JALR", "C_ADD", "C_SWSP", "C_SDSP"}

-----------------------------------------------------------------------------
(* One instruction: tick clears x0, runs the function, and adds            *)
(* increase_pc; after an exception the caller traps.                       *)
RegOp(op, a, b) ==
  CASE op \in OP -> exec_OP(op, a, b)
    [] op \in OP32 -> exec_OP32(op, a, b)
    [] op \in MULDIV32 -> exec_MULDIV32(op, a, b)
    [] op \in MULOPS -> exec_MUL(op, a, b)
    [] op \in DIVOPS -> exec_DIV(op, a, b)

single_inst(h0, inst) ==
  LET h == [h0 EXCEPT !.gpr[0] = 0]
      op == inst.op
  IN CASE op \in OP \cup OP32 \cup MULDIV32 \cup MULOPS \cup DIVOPS ->
            Write(h, inst.rd, RegOp(op, Rs1(h, inst), Rs2(h, inst)), 4)
       [] op \in OPIMM -> Write(h, inst.rd, exec_OPIMM(op, Rs1(h, inst), inst.imm), 4)
       [] op \in OPIMM32 -> Write(h, inst.rd, exec_OPIMM32(op, Rs1(h, inst), inst.imm), 4)
       [] op \in {"LD", "LWU"} -> exec_LD_LWU(h, inst)
       [] op \in Loads \ {"LD", "LWU"} -> exec_LOAD(h, inst)
       [] op = "SD" -> exec_SD(h, inst)
       [] op \in Stores \ {"SD"} -> exec_STORE(h, inst)
       [] op \in Branches -> exec_BRANCH(h, inst)
       [] op = "JAL" -> exec_JAL(h, inst)
       [] op = "JALR" -> exec_JALR(h, inst)
       [] op \in {"LUI", "AUIPC"} -> exec_UPPER(h, inst)
       [] op \in {"LR_D", "SC_D"} -> exec_LRSC_D(h, inst)
       [] op \in {"LR_W", "SC_W"} -> exec_LRSC_W(h, inst)
       [] op = "AMO_D" -> exec_AMO_D(h, inst)
       [] op = "AMO_W" -> exec_AMO_W(h, inst)
       [] op = "CBO_ZERO" -> exec_cbo_zero(h, inst)
       [] op \in CompressedOps -> compressed_inst(h, inst)
=============================================================================
