-------------------------------- MODULE Rvjit -------------------------------
(***************************************************************************)
(* The translator: the code emitters of src/src/sets/rv64i.cpp, the x86-64 *)
(* encoders they call (src/include/rvjit/rvjit_x86_64.hpp) and what the    *)
(* emitted code does when it runs.                                         *)
(*                                                                         *)
(* While a block is being collected every instruction is first interpreted *)
(* (hart) and then translated (code); entry is the hart at the block's     *)
(* first instruction, so that running the block from entry must give hart. *)
(*                                                                         *)
(* Emitted code is a sequence of host instructions.  One is a record: w,   *)
(* its operand width; op, its opcode; reg and rm, the ModRM fields with    *)
(* their REX bits; imm, an immediate or, for a jump, the number of         *)
(* instructions it skips; base, index and disp, a memory operand.          *)
(***************************************************************************)
EXTENDS Rv64, JitAlloc

CONSTANTS
  HostRegs,   \* the array of JIT_Emitter::reset: host register numbers
  HostJunk,   \* what a host register holds that nobody has written
  Entries,    \* the harts a block may start with
  Program     \* for every place of the run, the instructions that may be there

VARIABLES
  entry,      \* the hart at the first instruction of the block
  hart,       \* the hart now
  code,       \* block.bytes, without the epilogue
  gap,        \* the block holds an instruction listed under Gap
  place       \* instructions run so far, an index of Program

jitVars == <<em, count, entry, hart, code, gap, place>>

RAX == 0
RCX == 1
RDX == 2
RSI == 6
RDI == 7
R8 == 8
R12 == 12
R13 == 13
R14 == 14
CallerSaved == {RAX, RCX, RDX, RSI, RDI} \cup 8 .. 11

-----------------------------------------------------------------------------
(* Encoders.  They take a char: x0's 0xFF is -1, which sets no REX bit and *)
(* has 7, that is RDI, in its low three bits.                              *)
Reg(r) == IF r = NoReg THEN RDI ELSE r

Plain == [w |-> XLEN, op |-> 0, reg |-> 0, rm |-> 0, imm |-> 0,
          base |-> 0, index |-> NoReg, disp |-> 0]
(* A register to a register, and an operation of the opcode extension.     *)
RR(w, op, dest, source) ==
  <<[Plain EXCEPT !.w = w, !.op = op, !.rm = Reg(dest), !.reg = Reg(source)]>>
RI(w, op, ext, dest, imm) ==
  <<[Plain EXCEPT !.w = w, !.op = op, !.rm = Reg(dest), !.reg = ext, !.imm = imm]>>
RM(w, op, reg, base, index, disp) ==
  <<[Plain EXCEPT !.w = w, !.op = op, !.reg = reg,
                  !.base = base, !.index = index, !.disp = disp]>>

sub_rr(d, s) == RR(XLEN, "29", d, s)
sub_rr32(d, s) == RR(INT, "29", d, s)
sub_rimm32(d, imm) == RI(XLEN, "81", 5, d, imm)
add_rr(d, s) == RR(XLEN, "01", d, s)
add_rimm32(d, imm) == RI(XLEN, "81", 0, d, imm)
add_r32imm32(d, imm) == RI(INT, "81", 0, d, imm)
add_rr32(d, s) == RR(INT, "01", d, s)
xor_rr(d, s) == RR(XLEN, "31", d, s)
xor_rimm32(d, imm) == RI(XLEN, "81", 6, d, imm)
or_rr(d, s) == RR(XLEN, "09", d, s)
or_rimm32(d, imm) == RI(XLEN, "81", 1, d, imm)
and_rr(d, s) == RR(XLEN, "21", d, s)
and_rimm32(d, imm) == RI(XLEN, "81", 4, d, imm)
mov(d, s) == RR(XLEN, "89", d, s)
mov_imm32(d, imm) == RI(XLEN, "C7", 0, d, imm)
mov_imm64(d, imm) == RI(XLEN, "B8", 0, d, imm)
mov_m8r8(s, base, index, disp) == RM(BYTE, "88m", s, base, index, disp)
mov_m16r16(s, base, index, disp) == RM(SHORT, "89m", s, base, index, disp)
mov_m32r32(s, base, index, disp) == RM(INT, "89m", s, base, index, disp)
mov_mr(s, base, index, disp) == RM(XLEN, "89m", s, base, index, disp)
mov_rm(d, base, index, disp) == RM(XLEN, "8Bm", d, base, index, disp)
movsxd(d, s) == RR(XLEN, "63", s, d)
shl_rc(d, s) == mov(RCX, s) \o RI(XLEN, "D3", 4, d, 0)
shl_rimm8(d, imm) == RI(XLEN, "C1", 4, d, imm)
shr_rc(d, s) == mov(RCX, s) \o RI(XLEN, "D3", 5, d, 0)
shr_rimm8(d, imm) == RI(XLEN, "C1", 5, d, imm)
sar_rc(d, s) == mov(RCX, s) \o RI(XLEN, "D3", 7, d, 0)
sar_rimm8(d, imm) == RI(XLEN, "C1", 7, d, imm)
shl_rc32(d, s) == mov(RCX, s) \o RI(INT, "D3", 4, d, 0)
shl_r32imm8(d, imm) == RI(INT, "C1", 4, d, imm)
shr_rc32(d, s) == mov(RCX, s) \o RI(INT, "D3", 5, d, 0)
shr_r32imm8(d, imm) == RI(INT, "C1", 5, d, imm)
sar_rc32(d, s) == mov(RCX, s) \o RI(INT, "D3", 7, d, 0)
sar_r32imm8(d, imm) == RI(INT, "C1", 7, d, imm)
cmp(d, s) == RR(XLEN, "39", d, s)
cmp_rm(d, base, index, disp) == RM(XLEN, "3Bm", d, base, index, disp)
setl(d) == RI(BYTE, "0F9C", 0, d, 0)
setb(d) == RI(BYTE, "0F92", 0, d, 0)
jbe8(rel) == RI(XLEN, "76", 0, 0, rel)
jmp8(rel) == RI(XLEN, "EB", 0, 0, rel)
movzx(d, s) == RR(XLEN, "0FB6", s, d)
push(r) == RI(XLEN, "50", 0, r, 0)
pop(r) == RI(XLEN, "58", 0, r, 0)
ret == RI(XLEN, "C3", 0, 0, 0)
call(r) == RI(XLEN, "FF", 2, r, 0)

(* A forward jump over body, once its label is realized behind it. *)
realize_label(body) == Len(body)

-----------------------------------------------------------------------------
(* What the host does with an instruction.  Pointers are numbers that the  *)
(* code only moves around: a memory operand is in the array its base       *)
(* register points to, and displacements into the context and the GPRs     *)
(* count words.  m is the host: registers, the hart it works on, the       *)
(* operands of the last compare, the stack, and what is still jumped over. *)
CtxPtr == 1
RegsPtr == 2
RamPtr == 3
HartPtr == 4
JIT_HartContext == [regs |-> 0, ram |-> 1, memsize |-> 3, hart |-> 5]

CtxWord(disp) ==
  CASE disp = JIT_HartContext.regs -> RegsPtr
    [] disp = JIT_HartContext.ram -> RamPtr
    [] disp = JIT_HartContext.memsize -> RamSize
    [] disp = JIT_HartContext.hart -> HartPtr

SetReg(m, d, w, v) ==
  [m EXCEPT !.r[d] = IF w = BYTE THEN 2^BYTE * (@ \div 2^BYTE) + (v % 2^BYTE)
                     ELSE v % 2^w]

MemWord(m, x) ==
  IF m.r[x.base] = CtxPtr THEN CtxWord(x.disp) ELSE m.h.gpr[x.disp]

StoreMem(m, x) ==
  LET v == m.r[x.reg] % 2^x.w
  IN IF m.r[x.base] = RamPtr
     THEN [m EXCEPT !.h.ram = store(@, (RamBase + m.r[x.index]) % Mod, x.w \div BYTE, v)]
     ELSE [m EXCEPT !.h.gpr[x.disp] = v]

(* The two-operand group, and the opcodes that the extensions of 81 name. *)
Arith(w, op, a, b) ==
  CASE op = "01" -> a + b
    [] op = "09" -> (a % 2^w) | (b % 2^w)
    [] op = "21" -> (a % 2^w) & (b % 2^w)
    [] op = "29" -> a - b
    [] op = "31" -> (a % 2^w) ^^ (b % 2^w)
    [] op = "89" -> b
Extension == [n \in {0, 1, 4, 5, 6} |->
  CASE n = 0 -> "01" [] n = 1 -> "09" [] n = 4 -> "21" [] n = 5 -> "29" [] n = 6 -> "31"]

(* The shift group masks its count with the operand width. *)
Shift(w, ext, a, n) ==
  LET x == a % 2^w
  IN CASE ext = 4 -> Shl(x, n % w)
       [] ext = 5 -> Shr(x, n % w)
       [] ext = 7 -> Signed(x, w) \div 2^(n % w)

(* jit_slow_sb, sh, sw, sd: the first argument is the hart, then address   *)
(* and value; sz is in the pointer the caller loaded into RAX.  An address *)
(* no device has is ignored.  The callee may leave anything in the         *)
(* registers it need not save.                                             *)
jit_slow(m, sz) ==
  LET a == (m.r[RSI] + RamBase) % Mod
  IN [m EXCEPT !.h.dev = IF DevReads(a, sz)
                         THEN Append(@, <<a, sz, m.r[RDX]>>) ELSE @,
               !.r = [i \in DOMAIN @ |-> IF i \in CallerSaved THEN HostJunk ELSE @[i]]]

HostStep(m, x) ==
  LET op == x.op
      a == m.r[x.rm]
      b == m.r[x.reg]
      top == Len(m.stack)
      jump(taken) == [m EXCEPT !.skip = IF taken THEN x.imm ELSE 0]
  IN IF m.skip > 0 THEN [m EXCEPT !.skip = @ - 1]
     ELSE
     CASE op \in {"01", "09", "21", "29", "31", "89"} ->
            SetReg(m, x.rm, x.w, Arith(x.w, op, a, b))
       [] op = "81" -> SetReg(m, x.rm, x.w, Arith(x.w, Extension[x.reg], a, x.imm))
       [] op \in {"C7", "B8"} -> SetReg(m, x.rm, x.w, x.imm)
       [] op = "D3" -> SetReg(m, x.rm, x.w, Shift(x.w, x.reg, a, m.r[RCX]))
       [] op = "C1" -> SetReg(m, x.rm, x.w, Shift(x.w, x.reg, a, x.imm))
       [] op = "63" -> SetReg(m, x.reg, XLEN, Sext(a, INT))
       [] op = "0FB6" -> SetReg(m, x.reg, XLEN, a % 2^BYTE)
       [] op = "39" -> [m EXCEPT !.cmp = <<a, b>>]
       [] op = "3Bm" -> [m EXCEPT !.cmp = <<b, MemWord(m, x)>>]
       [] op = "0F9C" ->
            SetReg(m, x.rm, BYTE, Bool(Signed(m.cmp[1], XLEN) < Signed(m.cmp[2], XLEN)))
       [] op = "0F92" -> SetReg(m, x.rm, BYTE, Bool(m.cmp[1] < m.cmp[2]))
       [] op = "8Bm" -> SetReg(m, x.reg, XLEN, MemWord(m, x))
       [] op \in {"88m", "89m"} -> StoreMem(m, x)
       [] op = "76" -> jump(m.cmp[1] <= m.cmp[2])
       [] op = "EB" -> jump(TRUE)
       [] op = "50" -> [m EXCEPT !.stack = Append(@, a)]
       [] op = "58" ->
            [m EXCEPT !.r[x.rm] = m.stack[top], !.stack = SubSeq(@, 1, top - 1)]
       [] op = "FF" -> jit_slow(m, m.r[RAX])
       [] op = "C3" -> m

(* A call of the finished block with the context of hart h. *)
Call(h) ==
  [r |-> [i \in 0 .. 15 |-> IF i = RDI THEN CtxPtr ELSE HostJunk - i],
   h |-> h, cmp |-> <<0, 0>>, stack |-> <<>>, skip |-> 0]
Run(program, h) == FoldLeft(HostStep, Call(h), program)

-----------------------------------------------------------------------------
(* Block entry and exit, and the moves of the allocator. *)
rvjit_emit_prologue ==
  push(R12) \o push(R13) \o push(R14) \o mov(R12, RDI)
  \o mov_rm(R13, R12, NoReg, JIT_HartContext.regs)
  \o mov_rm(R14, R12, NoReg, JIT_HartContext.ram)

StoreBack(e) ==
  LET dirty == SetToSortSeq((e.allocated \cap e.dirty) \ {0}, <)
  IN FoldLeft(LAMBDA c, g : c \o mov_mr(HostRegs[e.host_reg[g]], R13, NoReg, g),
              <<>>, dirty)
Epilogue(e) == StoreBack(e) \o pop(R14) \o pop(R13) \o pop(R12) \o ret

(* What rvjit_alloc_reg emits on the way from e to the allocation of g. *)
AllocMoves(e, g, locked) ==
  LET n == rvjit_alloc_reg(e, g, locked)
      i == n.host_reg[g]
      spilled == e.vreg[i]
  IN IF g = 0 \/ g \in e.allocated THEN <<>>
     ELSE (IF i \in e.used /\ spilled \in e.dirty
           THEN mov_mr(HostRegs[i], R13, NoReg, spilled) ELSE <<>>)
          \o mov_rm(HostRegs[i], R13, NoReg, g)

HostReg(e, g) == IF g = 0 THEN NoReg ELSE HostRegs[e.host_reg[g]]

-----------------------------------------------------------------------------
(* The emitters.  o holds the host registers d, a and b of rd, rs1 and     *)
(* rs2, whether rd is also rs1 or rs2, whether rs1 or rs2 is x0, and imm.  *)

Copy(o) == IF o.sameA THEN <<>> ELSE mov(o.d, o.a)

(* rs2 is set aside when rd overwrites it. *)
ViaRcx(o, emit(_, _)) ==
  IF o.sameB THEN mov(RCX, o.b) \o Copy(o) \o emit(o.d, RCX)
             ELSE Copy(o) \o emit(o.d, o.b)
Sum(o, emit(_, _)) ==
  CASE ~o.sameA /\ ~o.sameB -> mov(o.d, o.a) \o emit(o.d, o.b)
    [] o.sameA -> emit(o.d, o.b)
    [] ~o.sameA /\ o.sameB -> emit(o.d, o.a)
Difference(o, emit(_, _)) ==
  IF o.sameA THEN emit(o.d, o.b) ELSE ViaRcx(o, emit)
Widen(o) == movsxd(o.d, o.d)
Clear(r) == xor_rr(r, r)
ClearZero(r, zero) == IF zero THEN Clear(r) ELSE <<>>

execjit_ADD(o) == Sum(o, add_rr)
execjit_ADDW(o) == Sum(o, add_rr32) \o Widen(o)
execjit_SUB_slip(o) == Sum(o, sub_rr)     \* slip: as if it were commutative
execjit_SUB(o) == Difference(o, sub_rr)
execjit_SUBW(o) == Difference(o, sub_rr32) \o Widen(o)
execjit_XOR(o) == ViaRcx(o, xor_rr)
execjit_OR(o) == ViaRcx(o, or_rr)
execjit_AND(o) == IF o.zeroA \/ o.zeroB THEN Clear(o.d) ELSE ViaRcx(o, and_rr)
execjit_SLL(o) == ViaRcx(o, shl_rc)
execjit_SLLW(o) == ViaRcx(o, shl_rc32) \o Widen(o)
execjit_SRL(o) == ViaRcx(o, shr_rc)
execjit_SRLW(o) == ViaRcx(o, shr_rc32) \o Widen(o)
execjit_SRA(o) == ViaRcx(o, sar_rc)
execjit_SRAW(o) == ViaRcx(o, sar_rc32) \o Widen(o)
execjit_SLT(o) ==
  ClearZero(o.a, o.zeroA) \o ClearZero(o.b, o.zeroB)
  \o cmp(o.a, o.b) \o setl(o.d) \o movzx(o.d, o.d)
execjit_SLTU(o) ==
  ClearZero(o.a, o.zeroA) \o ClearZero(o.b, o.zeroB)
  \o cmp(o.a, o.b) \o setb(o.d) \o movzx(o.d, o.d)

execjit_ADDI(o) == Copy(o) \o add_rimm32(o.d, o.imm)
execjit_ADDIW(o) == Copy(o) \o add_r32imm32(o.d, o.imm) \o Widen(o)
execjit_XORI(o) == Copy(o) \o xor_rimm32(o.d, o.imm)
execjit_ORI(o) == Copy(o) \o or_rimm32(o.d, o.imm)
execjit_ANDI(o) ==
  IF o.zeroA \/ o.imm = 0 THEN Clear(o.d) ELSE Copy(o) \o and_rimm32(o.d, o.imm)
execjit_SLLI(o) == Copy(o) \o shl_rimm8(o.d, o.imm % XLEN)
execjit_SLLIW(o) == Copy(o) \o shl_r32imm8(o.d, o.imm % INT) \o Widen(o)
execjit_SRLI(o) == Copy(o) \o shr_rimm8(o.d, o.imm % XLEN)
execjit_SRLIW(o) == Copy(o) \o shr_r32imm8(o.d, o.imm % INT) \o Widen(o)
execjit_SRAI(o) == Copy(o) \o sar_rimm8(o.d, o.imm % XLEN)
execjit_SRAIW(o) == Copy(o) \o sar_r32imm8(o.d, o.imm % INT) \o Widen(o)
execjit_SLTI(o) ==
  ClearZero(o.a, o.zeroA) \o mov_imm64(RCX, o.imm) \o cmp(o.a, RCX)
  \o setl(o.d) \o movzx(o.d, o.d)
execjit_SLTIU(o) ==
  ClearZero(o.a, o.zeroA) \o mov_imm64(RCX, o.imm) \o cmp(o.a, RCX)
  \o setb(o.d) \o movzx(o.d, o.d)

conversion_tbl(op, o) ==
  CASE op = "ADD" -> execjit_ADD(o)
    [] op = "ADDW" -> execjit_ADDW(o)
    [] op = "SUB" -> execjit_SUB(o)
    [] op = "SUBW" -> execjit_SUBW(o)
    [] op = "XOR" -> execjit_XOR(o)
    [] op = "OR" -> execjit_OR(o)
    [] op = "AND" -> execjit_AND(o)
    [] op = "SLL" -> execjit_SLL(o)
    [] op = "SLLW" -> execjit_SLLW(o)
    [] op = "SRL" -> execjit_SRL(o)
    [] op = "SRLW" -> execjit_SRLW(o)
    [] op = "SRA" -> execjit_SRA(o)
    [] op = "SRAW" -> execjit_SRAW(o)
    [] op = "SLT" -> execjit_SLT(o)
    [] op = "SLTU" -> execjit_SLTU(o)
    [] op = "ADDI" -> execjit_ADDI(o)
    [] op = "ADDIW" -> execjit_ADDIW(o)
    [] op = "XORI" -> execjit_XORI(o)
    [] op = "ORI" -> execjit_ORI(o)
    [] op = "ANDI" -> execjit_ANDI(o)
    [] op = "SLLI" -> execjit_SLLI(o)
    [] op = "SLLIW" -> execjit_SLLIW(o)
    [] op = "SRLI" -> execjit_SRLI(o)
    [] op = "SRLIW" -> execjit_SRLIW(o)
    [] op = "SRAI" -> execjit_SRAI(o)
    [] op = "SRAIW" -> execjit_SRAIW(o)
    [] op = "SLTI" -> execjit_SLTI(o)
    [] op = "SLTIU" -> execjit_SLTIU(o)
RType == OP \cup OP32
IType == OPIMM \cup OPIMM32
Translated == RType \cup IType \cup Stores

(* The emitters that are told of x0 instead of being bypassed. *)
Unoptimized == {"AND", "SLT", "SLTU", "ANDI", "SLTI", "SLTIU"}

Operands(e, i) ==
  [d |-> HostReg(e, i.rd), a |-> HostReg(e, i.rs1), b |-> HostReg(e, i.rs2),
   sameA |-> i.rd = i.rs1, sameB |-> i.rd = i.rs2,
   zeroA |-> i.rs1 = 0, zeroB |-> i.rs2 = 0, imm |-> i.imm]

(* inst_emit_r_type and inst_emit_i_type: allocation, then a bypass for x0 *)
(* (or an immediate of zero), or the emitter.                              *)
RTypeCode(e, i) ==
  LET e1 == rvjit_alloc_reg(e, i.rd, {})
      l1 == {HostOf(e1, i.rd)}
      e2 == rvjit_alloc_reg(e1, i.rs1, l1)
      l2 == {HostOf(e2, i.rs1), HostOf(e2, i.rd)}
      o == Operands(rvjit_alloc_reg(e2, i.rs2, l2), i)
      bypass == i.op \notin Unoptimized
  IN AllocMoves(e, i.rd, {}) \o AllocMoves(e1, i.rs1, l1) \o AllocMoves(e2, i.rs2, l2)
     \o CASE bypass /\ o.zeroA /\ o.zeroB -> Clear(o.d)
          [] bypass /\ o.zeroA /\ ~o.zeroB -> mov(o.d, o.b)
          [] bypass /\ ~o.zeroA /\ o.zeroB -> mov(o.d, o.a)
          [] ~bypass \/ (~o.zeroA /\ ~o.zeroB) -> conversion_tbl(i.op, o)

ITypeCode(e, i) ==
  LET e1 == rvjit_alloc_reg(e, i.rd, {})
      l1 == {HostOf(e1, i.rd)}
      o == Operands(rvjit_alloc_reg(e1, i.rs1, l1), i)
      bypass == i.op \notin Unoptimized
  IN AllocMoves(e, i.rd, {}) \o AllocMoves(e1, i.rs1, l1)
     \o CASE bypass /\ o.zeroA /\ i.imm = 0 -> Clear(o.d)
          [] bypass /\ o.zeroA /\ i.imm # 0 -> mov_imm32(o.d, i.imm)
          [] bypass /\ ~o.zeroA /\ i.imm = 0 -> mov(o.d, o.a)
          [] ~bypass \/ (~o.zeroA /\ i.imm # 0) -> conversion_tbl(i.op, o)

(* The translated store: the address relative to the RAM picks the fast    *)
(* path or a call; a null register is replaced by a cleared RAX.           *)
fast_mov(sz, s) ==
  CASE sz = 1 -> mov_m8r8(s, R14, RCX, 0)
    [] sz = 2 -> mov_m16r16(s, R14, RCX, 0)
    [] sz = 4 -> mov_m32r32(s, R14, RCX, 0)
    [] sz = 8 -> mov_mr(s, R14, RCX, 0)

jit_store(o, sz) ==
  LET slow == push(RDI) \o push(RSI) \o push(RAX) \o push(RDX)
              \o (IF o.zeroB THEN Clear(RDX) ELSE mov(RDX, o.b))
              \o mov(RSI, RCX)
              \o mov_rm(RDI, R12, NoReg, JIT_HartContext.hart)
              \o mov_imm64(RAX, sz) \o call(RAX)
              \o pop(RDX) \o pop(RAX) \o pop(RSI) \o pop(RDI)
      quick == IF o.zeroB
               THEN push(RAX) \o Clear(RAX) \o fast_mov(sz, RAX) \o pop(RAX)
               ELSE fast_mov(sz, o.b)
      slowEnd == slow \o jmp8(realize_label(quick))
  IN mov(RCX, o.a) \o add_rimm32(RCX, o.imm)
     \o sub_rimm32(RCX, RamBase \div 2) \o sub_rimm32(RCX, RamBase \div 2)
     \o cmp_rm(RCX, R12, NoReg, JIT_HartContext.memsize)
     \o jbe8(realize_label(slowEnd)) \o slowEnd \o quick

execjit_STORE(op, o) ==
  CASE op = "SB" -> jit_store(o, 1)
    [] op = "SH" -> jit_store(o, 2)
    [] op = "SW" -> jit_store(o, 4)
    [] op = "SD" -> jit_store(o, 8)

STypeCode(e, i) ==
  LET e1 == rvjit_alloc_reg(e, i.rs1, {})
      l1 == {HostOf(e1, i.rs1)}
      e2 == rvjit_alloc_reg(e1, i.rs2, l1)
  IN AllocMoves(e, i.rs1, {}) \o AllocMoves(e1, i.rs2, l1)
     \o execjit_STORE(i.op, Operands(e2, i))

Translate(e, i) ==
  CASE i.op \in Stores -> STypeCode(e, i)
    [] i.op \notin Stores /\ i.rd = 0 -> <<>>
    [] i.op \in RType /\ i.rd # 0 -> RTypeCode(e, i)
    [] i.op \in IType /\ i.rd # 0 -> ITypeCode(e, i)

-----------------------------------------------------------------------------
(* The cases in which the emitted code is known to differ from the         *)
(* interpreter: x0 has no host register, and its number 0xFF is encoded as *)
(* RDI; the bypass for x0 moves the other source whatever the operation    *)
(* is; and a called function need not keep R8 to R11, which concerns the   *)
(* stores to a device.  h is the hart that executed the instruction.       *)
Shifts == {"SLL", "SRL", "SRA"}
ShiftsI == {"SLLI", "SRLI", "SRAI"}
Compares == {"SLT", "SLTU", "SLTI", "SLTIU"}

Gap(e, h, i) ==
  LET live == {g \in e.allocated : HostReg(e, g) = RDI}
      calls == (h.gpr[i.rs1] + i.imm - RamBase) % Mod > RamSize
      far == \E g \in e.allocated : HostReg(e, g) >= R8
      zero1 == i.rs1 = 0
      zero2 == i.rs2 = 0
  IN /\ i.op \in Stores \/ i.rd # 0
     /\ \/ i.op \in OP32 /\ zero1 # zero2
        \/ i.op \in {"SUB"} \cup Shifts /\ zero1 /\ ~zero2
        \/ i.op \in OPIMM32 /\ i.imm = 0 /\ ~zero1
        \/ i.op \in (OPIMM32 \ {"ADDIW"}) \cup ShiftsI /\ zero1 /\ i.imm # 0
        \/ /\ i.op \in Compares
           /\ zero1 \/ (zero2 /\ i.op \in OP)
           /\ live \notin SUBSET ({i.rd} \ {i.rs1, i.rs2})
        \/ i.op \in Stores /\ (zero1 \/ (calls /\ far))

(* The allocator as it is once instruction i has its registers. *)
Placed(e, i) ==
  CASE i.op \in Stores -> inst_emit_s_type(e, i.rs1, i.rs2)
    [] i.op \in RType -> AllocRType(e, i.rd, i.rs1, i.rs2)
    [] i.op \in IType -> AllocRType(e, i.rd, i.rs1, 0)

(* The operations of the translated instructions, for JitAlloc. *)
Operation(i) == [op |-> i.op, imm |-> i.imm]
ApplyOp(o, a, b) ==
  CASE o.op \in OPIMM -> exec_OPIMM(o.op, a, o.imm)
    [] o.op \in OPIMM32 -> exec_OPIMM32(o.op, a, o.imm)
    [] OTHER -> RegOp(o.op, a, b)

NewBlock(gpr) ==
  /\ em' = reset([i \in Hosts |-> HostJunk], gpr)
  /\ count' = 0
  /\ code' = rvjit_emit_prologue
  /\ gap' = FALSE
  /\ entry' = hart'

RvjitInit ==
  /\ entry \in Entries
  /\ hart = entry
  /\ em = reset([i \in Hosts |-> HostJunk], entry.gpr)
  /\ count = 0
  /\ code = rvjit_emit_prologue
  /\ gap = FALSE
  /\ place = 1

(* The interpreted instruction joins the block. *)
Collect(i) ==
  /\ i.op \in Translated
  /\ single_inst(hart, i).exc = "none"
  /\ hart' = single_inst(hart, i)
  /\ CASE i.op \in Stores -> EmitStore(i.rs1, i.rs2)
       [] i.op \notin Stores /\ i.rd = 0 -> EmitNothing
       [] i.op \in RType /\ i.rd # 0 -> EmitCompute(Operation(i), i.rd, i.rs1, i.rs2)
       [] i.op \in IType /\ i.rd # 0 -> EmitCompute(Operation(i), i.rd, i.rs1, 0)
  /\ code' = code \o Translate(em, i)
  /\ gap' = (gap \/ Gap(Placed(em, i), hart, i))
  /\ place' = place + 1
  /\ UNCHANGED entry

(* One that cannot be translated, or for which there is no room, ends it. *)
CloseBlock(i) ==
  /\ i.op \notin Translated \/ count = MaxInst
  /\ single_inst(hart, i).exc = "none"
  /\ hart' = single_inst(hart, i)
  /\ NewBlock([hart'.gpr EXCEPT ![0] = 0])
  /\ place' = place + 1

(* An exception drops it. *)
stopBlock(i) ==
  /\ single_inst(hart, i).exc # "none"
  /\ hart' = [hart EXCEPT !.gpr[0] = 0]
  /\ NewBlock(hart'.gpr)
  /\ place' = place + 1

RvjitNext ==
  /\ place <= Len(Program)
  /\ \E i \in Program[place] : Collect(i) \/ CloseBlock(i) \/ stopBlock(i)

RvjitSpec == RvjitInit /\ [][RvjitNext]_jitVars

-----------------------------------------------------------------------------
(* Running the code collected so far, closed by the epilogue, from the     *)
(* hart the block was entered with gives the hart the interpreter reached: *)
(* registers, memory and device accesses in order.  The host's stack and   *)
(* the registers it must keep are as before, and the pc that tick adds the *)
(* size of the block to is the interpreter's.  The reservation is left     *)
(* out: translated stores do not clear it.                                 *)
TranslationAgrees ==
  LET start == Call(entry)
      m == Run(code \o Epilogue(em), entry)
  IN ~gap =>
       /\ \A g \in Guest \ {0} : m.h.gpr[g] = hart.gpr[g]
       /\ m.h.ram = hart.ram /\ m.h.dev = hart.dev
       /\ m.stack = <<>> /\ \A i \in 12 .. 15 : m.r[i] = start.r[i]
       /\ hart.pc = (entry.pc + 4 * count) % Mod
=============================================================================
