------------------------------- MODULE MCIsa --------------------------------
(***************************************************************************)
(* The instruction sets against the ISA.  The state is a halfword that     *)
(* runs over all its values, in 256 independent walks: an encoding for the *)
(* decoder, and a pair of eight-bit words for the arithmetic.              *)
(*                                                                         *)
(* What the ISA says is written down here in its own terms: immediates as  *)
(* the manual draws them, compressed instructions by their expansion,      *)
(* division and products by the identities they satisfy.                   *)
(***************************************************************************)
EXTENDS Rv64, Decode

CONSTANTS TestHarts   \* harts to run instructions on

VARIABLES hi, lo

isaVars == <<hi, lo>>

IsaInit == hi \in 0 .. 255 /\ lo = 0
IsaNext == lo < 255 /\ lo' = lo + 1 /\ UNCHANGED hi
IsaSpec == IsaInit /\ [][IsaNext]_isaVars

Half == 256 * hi + lo

-----------------------------------------------------------------------------
(* dests lists the immediate bits that instruction bits from, from - 1 ... *)
(* hold, as in the manual's drawings.                                      *)
Drawn(w, from, dests) ==
  MapThenSumSet(LAMBDA k : w[from - k + 1] * 2^dests[k], DOMAIN dests)

(* A 32-bit word with the probe as its upper, or as its lower half. *)
Upper == [i \in 0 .. 31 |-> IF i < 16 THEN (i % 3) % 2 ELSE Bits(Half, 16)[i - 16]]
Lower == [i \in 0 .. 31 |-> IF i < 16 THEN Bits(Half, 16)[i] ELSE (i % 3) % 2]

(* The immediates of the 32-bit formats are those that the manual draws.   *)
ImmediatesAsDrawn ==
  \A w \in {Upper, Lower} :
    /\ imm_I(w) = sext(Drawn(w, 31, <<11, 10, 9, 8, 7, 6, 5, 4, 3, 2, 1, 0>>), 12)
    /\ imm_S(w) = sext(Drawn(w, 31, <<11, 10, 9, 8, 7, 6, 5>>)
                       + Drawn(w, 11, <<4, 3, 2, 1, 0>>), 12)
    /\ imm_B(w) = sext(Drawn(w, 31, <<12, 10, 9, 8, 7, 6, 5>>)
                       + Drawn(w, 11, <<4, 3, 2, 1, 11>>), 13)
    /\ imm_J(w) = sext(Drawn(w, 31, <<20, 10, 9, 8, 7, 6, 5, 4, 3, 2, 1, 11,
                                      19, 18, 17, 16, 15, 14, 13, 12>>), 21)
    /\ imm_U(w) = sext(Drawn(w, 31, <<19, 18, 17, 16, 15, 14, 13, 12, 11, 10,
                                      9, 8, 7, 6, 5, 4, 3, 2, 1, 0>>), 20)
    /\ shamt64(w) = get_bits(w, 25, 20) /\ shamt(w) = get_bits(w, 24, 20)

-----------------------------------------------------------------------------
(* No entry of the look-up table hides another: where two registered       *)
(* patterns share a slot, a word that fits the one that was dropped fits   *)
(* the one that stayed.  So a word that some pattern fits is decoded,      *)
(* although the hash leaves out rd and rs1.  A state looks at the patterns *)
(* of one opcode, of seven bits.                                           *)
LutHidesNothing == Half < 128 =>
  \A p \in {r \in Instructions32 : get_bits(r.fix, 6, 0) = Half} :
    \A q \in Instructions32 \ {p} :
      SameSlot(p, q, HASH_MASK) /\ ~MoreSpecific(p, q) =>
        \A i \in DOMAIN q.fix : IF i \in DOMAIN p.fix THEN p.fix[i] = q.fix[i]
                                                      ELSE i \in HASH_MASK

-----------------------------------------------------------------------------
(* The expansion of a compressed instruction, by quadrant and funct3, with *)
(* the immediate at its full width, that of LUI in its units.              *)
X(op, rd, rs1, rs2, imm) == [op |-> op, rd |-> rd, rs1 |-> rs1, rs2 |-> rs2, imm |-> imm]
Prime(w, from) == 8 + get_bits(w, from, from - 2)

ImmCI(w) == sext(Drawn(w, 12, <<5>>) + Drawn(w, 6, <<4, 3, 2, 1, 0>>), 6)
Amount(w) == ImmCI(w) % 64
OffW(w) == Drawn(w, 12, <<5, 4, 3>>) + Drawn(w, 6, <<2, 6>>)
OffD(w) == Drawn(w, 12, <<5, 4, 3>>) + Drawn(w, 6, <<7, 6>>)
OffB(w) == sext(Drawn(w, 12, <<8, 4, 3>>) + Drawn(w, 6, <<7, 6, 2, 1, 5>>), 9)

Quadrant0(w, f3) ==
  CASE f3 = 0 -> X("ADDI", Prime(w, 4), 2, 0, Drawn(w, 12, <<5, 4, 9, 8, 7, 6, 2, 3>>))
    [] f3 = 2 -> X("LW", Prime(w, 4), Prime(w, 9), 0, OffW(w))
    [] f3 = 3 -> X("LD", Prime(w, 4), Prime(w, 9), 0, OffD(w))
    [] f3 = 6 -> X("SW", 0, Prime(w, 9), Prime(w, 4), OffW(w))
    [] f3 = 7 -> X("SD", 0, Prime(w, 9), Prime(w, 4), OffD(w))
Quadrant1(w, f3) ==
  LET rd == get_bits(w, 11, 7)
      r == Prime(w, 9)
      alu == 2 * w[12] * 2 + get_bits(w, 6, 5)
  IN CASE f3 = 0 -> X("ADDI", rd, rd, 0, ImmCI(w))
       [] f3 = 1 -> X("ADDIW", rd, rd, 0, ImmCI(w))
       [] f3 = 2 -> X("ADDI", rd, 0, 0, ImmCI(w))
       [] f3 = 3 /\ rd = 2 ->
            X("ADDI", 2, 2, 0, sext(Drawn(w, 12, <<9>>) + Drawn(w, 6, <<4, 6, 8, 7, 5>>), 10))
       [] f3 = 3 /\ rd # 2 -> X("LUI", rd, 0, 0, ImmCI(w))
       [] f3 = 4 /\ get_bits(w, 11, 10) = 0 -> X("SRLI", r, r, 0, Amount(w))
       [] f3 = 4 /\ get_bits(w, 11, 10) = 1 -> X("SRAI", r, r, 0, Amount(w))
       [] f3 = 4 /\ get_bits(w, 11, 10) = 2 -> X("ANDI", r, r, 0, ImmCI(w))
       [] f3 = 4 /\ get_bits(w, 11, 10) = 3 ->
            X(<<"SUB", "XOR", "OR", "AND", "SUBW", "ADDW">>[alu + 1], r, r, Prime(w, 4), 0)
       [] f3 = 5 -> X("JAL", 0, 0, 0, sext(Drawn(w, 12, <<11, 4, 9, 8, 10, 6, 7, 3, 2, 1, 5>>), 12))
       [] f3 = 6 -> X("BEQ", 0, r, 0, OffB(w))
       [] f3 = 7 -> X("BNE", 0, r, 0, OffB(w))
Quadrant2(w, f3) ==
  LET rd == get_bits(w, 11, 7)
      rs2 == get_bits(w, 6, 2)
  IN CASE f3 = 0 -> X("SLLI", rd, rd, 0, Amount(w))
       [] f3 = 2 -> X("LW", rd, 2, 0, Drawn(w, 12, <<5>>) + Drawn(w, 6, <<4, 3, 2, 7, 6>>))
       [] f3 = 3 -> X("LD", rd, 2, 0, Drawn(w, 12, <<5>>) + Drawn(w, 6, <<4, 3, 8, 7, 6>>))
       [] f3 = 4 /\ rs2 = 0 -> X("JALR", w[12], rd, 0, 0)
       [] f3 = 4 /\ rs2 # 0 -> X("ADD", rd, IF w[12] = 1 THEN rd ELSE 0, rs2, 0)
       [] f3 = 6 -> X("SW", 0, 2, rs2, Drawn(w, 12, <<5, 4, 3, 2, 7, 6>>))
       [] f3 = 7 -> X("SD", 0, 2, rs2, Drawn(w, 12, <<5, 4, 3, 8, 7, 6>>))

(* Encodings the ISA reserves, EBREAK and the floating-point accesses.     *)
Excluded(w) ==
  LET f3 == get_bits(w, 15, 13)
      q == get_bits(w, 1, 0)
      rd == get_bits(w, 11, 7)
  IN \/ q = 3 \/ (q \in {0, 2} /\ f3 \in {1, 5}) \/ (q = 0 /\ f3 = 4)
     \/ q = 0 /\ f3 = 0 /\ get_bits(w, 12, 5) = 0
     \/ q = 1 /\ f3 = 1 /\ rd = 0
     \/ q = 1 /\ f3 = 3 /\ get_bits(w, 6, 2) = 0 /\ w[12] = 0
     \/ q = 1 /\ f3 = 4 /\ get_bits(w, 12, 10) = 7 /\ w[6] = 1
     \/ q = 2 /\ f3 \in {2, 3} /\ rd = 0
     \/ q = 2 /\ f3 = 4 /\ rd = 0 /\ get_bits(w, 6, 2) = 0

Expansion(w) ==
  LET f3 == get_bits(w, 15, 13)
  IN CASE get_bits(w, 1, 0) = 0 -> Quadrant0(w, f3)
       [] get_bits(w, 1, 0) = 1 -> Quadrant1(w, f3)
       [] get_bits(w, 1, 0) = 2 -> Quadrant2(w, f3)

(* What an instruction of two bytes does that expands to x. *)
RunTwoBytes(h, x) ==
  LET r == single_inst(h, x)
      straight == r.exc = "none" /\ x.op \notin {"JAL", "JALR"}
                  /\ (x.op \in Branches => ~Taken(x.op, h.gpr[x.rs1], h.gpr[x.rs2]))
  IN [r EXCEPT !.pc = IF straight THEN (h.pc + 2) % Mod ELSE @,
               !.gpr = [g \in DOMAIN @ |-> CASE g = 0 -> 0
                          [] g # 0 /\ x.op = "JALR" /\ g = x.rd -> (h.pc + 2) % Mod
                          [] OTHER -> @[g]]]

(* An immediate at the width of the words that instructions run on here. *)
Scaled(inst) ==
  [inst EXCEPT !.imm = IF inst.op \in {"C_SRLI", "C_SRAI", "C_SLLI", "SRLI", "SRAI", "SLLI"}
                       THEN @ % XLEN
                       ELSE IF inst.op = "LUI" THEN Shl(@ % Mod, UpperShift) ELSE @ % Mod]

(* Every compressed instruction is decoded and means its expansion: its    *)
(* pattern wins its slot, all bits of its scattered immediate are put      *)
(* together and sign-extended right, and on registers, memory, device and  *)
(* pc it does what its expansion does, its short register numbers being    *)
(* extended.                                                               *)
CompressedMeansExpansion ==
  LET w == Bits(Half, 16)
  IN ~Excluded(w) =>
       LET d == decode_inst_slow(w)
           x == Expansion(w)
       IN /\ d.imm = x.imm
          /\ \A h \in TestHarts :
               LET r == single_inst(h, Scaled(d))
               IN [r EXCEPT !.gpr[0] = 0] = RunTwoBytes(h, Scaled(x))

-----------------------------------------------------------------------------
(* Quotient and remainder of a by b, for every a and b.  q and r are what  *)
(* the instructions give, as numbers.                                      *)
Divides(a, b, q, r) ==
  /\ a = b * q + r
  /\ Abs(r) < Abs(b) /\ (r = 0 \/ (r < 0) = (a < 0))

(* The result of a word instruction is its low half, sign-extended. *)
Extended(r) == r = Sext(r, INT)

(* Division and remainder fit each other, on full words and on half words, *)
(* whose results are sign-extended, with the results the ISA fixes for a   *)
(* zero divisor and for overflow.  The one exception: REMUW by zero gives  *)
(* the dividend as it is, where the ISA wants its low half extended.       *)
DivisionFits ==
  LET s(op) == Signed(exec_DIV(op, hi, lo), XLEN)
      u(op) == exec_DIV(op, hi, lo)
      w(op) == exec_MULDIV32(op, hi, lo)
      sw(op) == Signed(w(op), XLEN)
      a == Signed(hi, XLEN)
      b == Signed(lo, XLEN)
      aw == Signed(hi, INT)
      bw == Signed(lo, INT)
  IN /\ IF lo = 0 THEN s("DIV") = -1 /\ s("REM") = a
        ELSE IF a = IntMin(XLEN) /\ b = -1 THEN s("DIV") = a /\ s("REM") = 0
        ELSE Divides(a, b, s("DIV"), s("REM"))
     /\ IF lo = 0 THEN u("DIVU") = Mod - 1 /\ u("REMU") = hi
        ELSE Divides(hi, lo, u("DIVU"), u("REMU"))
     /\ IF bw = 0 THEN sw("DIVW") = -1 /\ sw("REMW") = aw
        ELSE IF aw = IntMin(INT) /\ bw = -1 THEN sw("DIVW") = aw /\ sw("REMW") = 0
        ELSE Divides(aw, bw, sw("DIVW"), sw("REMW"))
     /\ IF bw = 0 THEN sw("DIVUW") = -1 /\ w("REMUW") = hi
        ELSE /\ Extended(w("DIVUW")) /\ Extended(w("REMUW"))
             /\ Divides(Trunc(hi, INT), Trunc(lo, INT),
                        Trunc(w("DIVUW"), INT), Trunc(w("REMUW"), INT))

(* The high and low halves of a product make the double-width product: of  *)
(* signed, unsigned and mixed factors, and of polynomials over GF(2).  The *)
(* product of words is the low half of it, extended.                       *)
ProductsFit ==
  LET a == Signed(hi, XLEN)
      b == Signed(lo, XLEN)
      low == exec_MUL("MUL", hi, lo)
      whole(op) == exec_MUL(op, hi, lo) * Mod + low
      poly == MapThenSumSet(LAMBDA k :
                (Cardinality({i \in 0 .. XLEN - 1 : k - i \in 0 .. XLEN - 1
                                /\ Bit(hi, i) = 1 /\ Bit(lo, k - i) = 1}) % 2) * 2^k,
                0 .. 2 * XLEN - 2)
  IN /\ whole("MULH") = (a * b) % Mod^2
     /\ whole("MULHSU") = (a * lo) % Mod^2
     /\ whole("MULHU") = hi * lo
     /\ Extended(exec_MULDIV32("MULW", hi, lo))
     /\ Trunc(exec_MULDIV32("MULW", hi, lo), INT) = Trunc(low, INT)
     /\ exec_CLMULH(hi, lo) * Mod + exec_CLMUL(hi, lo) = poly
     /\ exec_CLMULR(hi, lo) = Trunc(Shr(poly, XLEN - 1), XLEN)

(* The bit instructions, bit by bit, the word and the immediate forms too; *)
(* an immediate is any number here, of which the index is the low part.    *)
(* The one exception: RORIW rotates the low half, but leaves in the upper  *)
(* half what was rotated out of it, where the ISA wants the sign.          *)
BitOpsFit ==
  LET bits(x) == [i \in 0 .. XLEN - 1 |-> Bit(x, i)]
      s == lo % XLEN
      t == lo % INT
      scans(x, n) ==
        LET clz == exec_CLZ(hi, n)
            ctz == exec_CTZ(hi, n)
        IN /\ x # 0 => x \div 2^(n - 1 - clz) = 1 /\ x % 2^ctz = 0 /\ Bit(x, ctz) = 1
           /\ x = 0 => clz = n /\ ctz = n
           /\ exec_CPOP(hi, n) + exec_CPOP(Neg(hi), n) = n
           /\ exec_CPOP(hi, n) = exec_CPOP(x \div 2, n) + (x % 2)
  IN /\ bits(exec_ROT("ROL", hi, lo)) = [i \in 0 .. XLEN - 1 |-> Bit(hi, (i - s) % XLEN)]
     /\ \A op \in {"ROR", "RORI"} :
          bits(exec_ROT(op, hi, lo)) = [i \in 0 .. XLEN - 1 |-> Bit(hi, (i + s) % XLEN)]
     /\ Extended(exec_ROT("ROLW", hi, lo)) /\ Extended(exec_ROT("RORW", hi, lo))
     /\ \A i \in 0 .. INT - 1 :
          /\ Bit(exec_ROT("ROLW", hi, lo), i) = Bit(hi, (i - t) % INT)
          /\ \A op \in {"RORW", "RORIW"} : Bit(exec_ROT(op, hi, lo), i) = Bit(hi, (i + t) % INT)
     /\ Shr(exec_ROT("RORIW", hi, lo), INT) = Shr(Trunc(hi, INT), t)
     /\ scans(hi, XLEN) /\ scans(Trunc(hi, INT), INT)
     /\ exec_REV8(exec_REV8(hi)) = hi
     /\ exec_ORC_B(hi) & hi = hi /\ exec_ORC_B(exec_ORC_B(hi)) = exec_ORC_B(hi)
     /\ exec_MINMAX("MIN", hi, lo) + exec_MINMAX("MAX", hi, lo) = hi + lo
     /\ Signed(exec_MINMAX("MIN", hi, lo), XLEN) <= Signed(exec_MINMAX("MAX", hi, lo), XLEN)
     /\ exec_MINMAX("MINU", hi, lo) <= exec_MINMAX("MAXU", hi, lo)
     /\ exec_LOGIC_N("ANDN", hi, lo) + (hi & lo) = hi
     /\ exec_LOGIC_N("ORN", hi, lo) = Neg(exec_LOGIC_N("ANDN", lo, hi))
     /\ exec_LOGIC_N("XNOR", hi, lo) = exec_LOGIC_N("ORN", hi, lo) & exec_LOGIC_N("ORN", lo, hi)
     /\ \A n \in 1 .. 3 :
          /\ exec_ZBA(<<"SH1ADD", "SH2ADD", "SH3ADD">>[n], hi, lo) = (hi * 2^n + lo) % Mod
          /\ exec_ZBA(<<"SH1ADD_UW", "SH2ADD_UW", "SH3ADD_UW">>[n], hi, lo)
               = ((hi % 2^INT) * 2^n + lo) % Mod
     /\ exec_ZBA("ADD_UW", hi, lo) = ((hi % 2^INT) + lo) % Mod
     /\ bits(exec_SLLI_UW(hi, lo))
          = [i \in 0 .. XLEN - 1 |-> IF i - s \in 0 .. INT - 1 THEN Bit(hi, i - s) ELSE 0]
     /\ \A i \in 0 .. XLEN - 1 :
          /\ Bit(exec_EXT("SEXT_B", hi), i) = Bit(hi, Min({i, BYTE - 1}))
          /\ Bit(exec_EXT("SEXT_H", hi), i) = Bit(hi, Min({i, SHORT - 1}))
     /\ exec_EXT("ZEXT_H", hi) = hi % 2^SHORT
     /\ \A i \in 0 .. XLEN - 1 :
          /\ \A op \in {"BSET", "BSETI"} :
               Bit(exec_ZBS(op, hi, lo), i) = IF i = s THEN 1 ELSE Bit(hi, i)
          /\ \A op \in {"BCLR", "BCLRI"} :
               Bit(exec_ZBS(op, hi, lo), i) = IF i = s THEN 0 ELSE Bit(hi, i)
          /\ \A op \in {"BINV", "BINVI"} :
               (Bit(exec_ZBS(op, hi, lo), i) = Bit(hi, i)) <=> (i # s)
     /\ \A op \in {"BEXT", "BEXTI"} :
          exec_ZBS(op, hi, lo) = 1 <=> exec_ZBS("BSET", hi, lo) = hi

(* A hart with register 3 at address a, lo in register 4, and the bytes of *)
(* hi from address a on.                                                   *)
AtomicHart(a) ==
  [(CHOOSE h \in TestHarts : TRUE) EXCEPT
     !.gpr = [g \in DOMAIN @ |-> CASE g = 3 -> a [] g = 4 -> lo [] OTHER -> 0],
     !.ram = store(@, a, 8, hi), !.junk = lo]
AtomicInst(op, f) == [op |-> op, rd |-> 5, rs1 |-> 3, rs2 |-> 4, imm |-> 0, amo |-> f]

(* An AMO gives the old value, sign-extended, and leaves the result of its *)
(* operation in the bytes of its size and nowhere else.  LR and SC: a      *)
(* store-conditional of the reserved address and size stores, one of       *)
(* another size does not, and neither does a second one.  CBO.ZERO clears  *)
(* the block around an address.  The one exception: rd of an SC gets the   *)
(* success code in its lowest byte, and above it, at the size of the       *)
(* access, what the uninitialised local held, here lo.                     *)
AtomicsFit ==
  LET a == RamBase + 4
      h == AtomicHart(a)
      old(n) == Trunc(hi, n)
      arg(n) == Trunc(lo, n)
      new(f, n) ==
        CASE f = "AMOSWAP" -> arg(n)
          [] f = "AMOADD" -> (hi + lo) % 2^n
          [] f = "AMOXOR" -> Trunc(exec_OP("XOR", hi, lo), n)
          [] f = "AMOAND" -> Trunc(exec_OP("AND", hi, lo), n)
          [] f = "AMOOR" -> Trunc(exec_OP("OR", hi, lo), n)
          [] f = "AMOMINU" -> Min({old(n), arg(n)})
          [] f = "AMOMAXU" -> Max({old(n), arg(n)})
          [] f = "AMOMIN" -> Min({Signed(hi, n), Signed(lo, n)}) % 2^n
          [] f = "AMOMAX" -> Max({Signed(hi, n), Signed(lo, n)}) % 2^n
      run(op, f) == single_inst(h, AtomicInst(op, f))
      held == single_inst(h, AtomicInst("LR_W", ""))
      stored == single_inst(held, AtomicInst("SC_W", ""))
      other == single_inst(held, AtomicInst("SC_D", ""))
      again == single_inst(stored, AtomicInst("SC_W", ""))
      code(c, n) == ((lo - (lo % 2^BYTE)) + c) % 2^n
      zeroed == single_inst(h, AtomicInst("CBO_ZERO", ""))
  IN /\ \A f \in AmoFuncs :
          LET d == run("AMO_D", f)
              w == run("AMO_W", f)
          IN /\ d.gpr[5] = hi /\ d.ram = store(h.ram, a, 8, new(f, XLEN))
             /\ w.gpr[5] = Sext(hi, INT) /\ w.ram = store(h.ram, a, 4, new(f, INT))
     /\ \A x \in DOMAIN h.ram :
          zeroed.ram[x] = IF x \div CboBlock = a \div CboBlock THEN 0 ELSE h.ram[x]
     /\ held.gpr[5] = Sext(hi, INT) /\ held.ram = h.ram
     /\ stored.ram = store(h.ram, a, 4, lo) /\ stored.gpr[5] = code(0, INT)
     /\ other.ram = h.ram /\ other.gpr[5] = code(1, XLEN)
     /\ again.ram = stored.ram /\ again.gpr[5] = code(1, INT)

-----------------------------------------------------------------------------
(* Registers with addresses in the RAM, of the device, and outside. *)
MCHarts ==
  {[gpr |-> [g \in 0 .. 31 |-> CASE g = 0 -> 0 [] g = 2 -> 60 + k [] g = 8 -> 66 + k
                                 [] g = 9 -> 255 [] g = 10 -> 0
                                 [] OTHER -> (37 * g + 90 * k) % 256],
    pc |-> 32, ram |-> [a \in RamBase .. RamBase + RamSize - 1 |-> a % 2],
    dev |-> <<>>, resv |-> NoReservation, junk |-> 0, exc |-> "none"] : k \in {0, 4}}

(* The arithmetic of the extensions is that of the ISA: the instructions   *)
(* that share an operation fit each other and the mathematical result, at  *)
(* every operand, the edges of the width included, and at full width also  *)
(* for the word forms.  Where the code departs from the ISA (REMUW by      *)
(* zero, RORIW, the code of an SC) this states what it gives instead.      *)
ArithmeticFits == DivisionFits /\ ProductsFit /\ BitOpsFit /\ AtomicsFit
=============================================================================
