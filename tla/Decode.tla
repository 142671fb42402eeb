------------------------------- MODULE Decode -------------------------------
(***************************************************************************)
(* The instruction decoder (src/include/decode.hpp, src/src/decode.cpp):   *)
(* the patterns that the instruction sets register, the look-up tables     *)
(* built from them, and the fields and immediates of an instruction.       *)
(*                                                                         *)
(* An instruction word is the function from bit numbers to 0 and 1: its    *)
(* value does not fit TLC's integers.                                      *)
(***************************************************************************)
EXTENDS Integers, Sequences, FiniteSets, FiniteSetsExt, SequencesExt

Bits(h, n) == [i \in 0 .. n - 1 |-> (h \div 2^i) % 2]

sext(v, n) == IF v >= 2^(n - 1) THEN v - 2^n ELSE v
get_bits(w, hi, lo) == MapThenSumSet(LAMBDA i : w[i] * 2^(i - lo), lo .. hi)

d_rd(w) == get_bits(w, 11, 7)
d_rs1(w) == get_bits(w, 19, 15)
d_rs2(w) == get_bits(w, 24, 20)
d_c_rd(w) == get_bits(w, 4, 2)
d_c_rs1(w) == get_bits(w, 9, 7)
d_c_rs2(w) == get_bits(w, 6, 2)

imm_I(w) == sext(get_bits(w, 31, 20), 12)
imm_S(w) == sext(get_bits(w, 11, 7) + get_bits(w, 31, 25) * 2^5, 12)
imm_B(w) ==
  sext(get_bits(w, 11, 8) * 2 + get_bits(w, 30, 25) * 2^5
       + get_bits(w, 7, 7) * 2^11 + get_bits(w, 31, 31) * 2^12, 13)
(* In units of 2^12, which the mask of imm_U leaves. *)
imm_U(w) == sext(get_bits(w, 31, 12), 20)
(* Slip: bit 11 of a jump is taken from where a branch has it. *)
imm_J_slip(w) ==
  sext(get_bits(w, 30, 21) * 2 + get_bits(w, 7, 7) * 2^11
       + get_bits(w, 19, 12) * 2^12 + get_bits(w, 31, 31) * 2^20, 21)

imm_J(w) ==
  sext(get_bits(w, 30, 21) * 2 + get_bits(w, 20, 20) * 2^11
       + get_bits(w, 19, 12) * 2^12 + get_bits(w, 31, 31) * 2^20, 21)
shamt(w) == imm_I(w) % 2^5
shamt64(w) == imm_I(w) % 2^6

d_c_uimm(w) ==
  get_bits(w, 10, 7) * 2^6 + get_bits(w, 12, 11) * 2^4
  + get_bits(w, 5, 5) * 2^3 + get_bits(w, 6, 6) * 2^2
d_c_uimm_cl(w) ==
  get_bits(w, 6, 6) * 2^2 + get_bits(w, 12, 10) * 2^3 + get_bits(w, 5, 5) * 2^6
d_c_uimm_cl1(w) ==
  get_bits(w, 6, 6) * 2^7 + get_bits(w, 12, 10) * 2^3 + get_bits(w, 5, 5) * 2^6
d_c_uimm_arith(w) == get_bits(w, 6, 2) + get_bits(w, 12, 12) * 2^5
d_c_nzimm(w) == sext(d_c_uimm_arith(w), 6)
d_c_nzimm_9(w) ==
  sext(w[6] * 2^4 + w[2] * 2^5 + w[5] * 2^6 + w[3] * 2^7 + w[4] * 2^8 + w[12] * 2^9, 10)
(* Slip: bits 8 and 9 of the offset are exchanged. *)
d_c_j_imm_slip(w) ==
  sext(get_bits(w, 5, 3) * 2 + w[11] * 2^4 + w[2] * 2^5 + w[7] * 2^6 + w[6] * 2^7
       + w[10] * 2^8 + w[9] * 2^9 + w[8] * 2^10 + w[12] * 2^11, 12)

d_c_j_imm(w) ==
  sext(get_bits(w, 5, 3) * 2 + w[11] * 2^4 + w[2] * 2^5 + w[7] * 2^6 + w[6] * 2^7
       + w[9] * 2^8 + w[10] * 2^9 + w[8] * 2^10 + w[12] * 2^11, 12)
d_c_b_imm(w) ==
  sext(get_bits(w, 4, 3) * 2 + get_bits(w, 11, 10) * 2^3 + w[2] * 2^5
       + get_bits(w, 6, 5) * 2^6 + w[12] * 2^8, 9)
d_c_uimm_lwsp(w) == get_bits(w, 6, 4) * 2^2 + w[12] * 2^5 + get_bits(w, 3, 2) * 2^6
d_c_uimm_ldsp(w) ==
  get_bits(w, 6, 5) * 2^3 + w[12] * 2^5 + get_bits(w, 3, 2) * 2^6 + w[4] * 2^8
d_c_uimm_swsp(w) == get_bits(w, 12, 9) * 2^2 + w[7] * 2^6 + w[8] * 2^7
d_c_uimm_sdsp(w) == get_bits(w, 12, 10) * 2^3 + w[7] * 2^6 + w[8] * 2^7 + w[9] * 2^8

-----------------------------------------------------------------------------
(* register_instr: the bits a mask fixes, given as fields <<hi, lo, v>>.   *)
Pattern(op, fields) ==
  [op |-> op,
   fix |-> [i \in UNION {f[2] .. f[1] : f \in fields} |->
              LET f == CHOOSE g \in fields : i \in g[2] .. g[1]
              IN (f[3] \div 2^(i - f[2])) % 2]]

(* The shapes of the registered masks; a row is a name and field values. *)
R(opc, rows) == {Pattern(r[1], {<<31, 25, r[2]>>, <<14, 12, r[3]>>, <<6, 0, opc>>}) : r \in rows}
SH(opc, rows) == {Pattern(r[1], {<<31, 26, r[2]>>, <<14, 12, r[3]>>, <<6, 0, opc>>}) : r \in rows}
C12(opc, rows) == {Pattern(r[1], {<<31, 20, r[2]>>, <<14, 12, r[3]>>, <<6, 0, opc>>}) : r \in rows}
I(opc, rows) == {Pattern(r[1], {<<14, 12, r[2]>>, <<6, 0, opc>>}) : r \in rows}
U(rows) == {Pattern(r[1], {<<6, 0, r[2]>>}) : r \in rows}
E(rows) == {Pattern(r[1], {<<31, 20, r[2]>>, <<19, 0, 115>>}) : r \in rows}
A(f3, rows) == {Pattern(r[1], {<<31, 27, r[2]>>, <<14, 12, f3>>, <<6, 0, 47>>}) : r \in rows}
M4(fmt, rows) == {Pattern(r[1], {<<26, 25, fmt>>, <<6, 0, r[2]>>}) : r \in rows}
F7(rows) == {Pattern(r[1], {<<31, 25, r[2]>>, <<6, 0, 83>>}) : r \in rows}
F12(rows) == {Pattern(r[1], {<<31, 25, r[2]>>, <<24, 20, r[3]>>, <<6, 0, 83>>}) : r \in rows}

init_rv64i ==
  R(51, {<<"ADD", 0, 0>>, <<"SUB", 32, 0>>, <<"XOR", 0, 4>>, <<"OR", 0, 6>>,
      <<"AND", 0, 7>>, <<"SLL", 0, 1>>, <<"SRL", 0, 5>>, <<"SRA", 32, 5>>,
      <<"SLT", 0, 2>>, <<"SLTU", 0, 3>>})
  \cup R(59, {<<"ADDW", 0, 0>>, <<"SUBW", 32, 0>>, <<"SLLW", 0, 1>>,
      <<"SRLW", 0, 5>>, <<"SRAW", 32, 5>>})
  \cup I(19, {<<"ADDI", 0>>, <<"XORI", 4>>, <<"ORI", 6>>, <<"ANDI", 7>>,
      <<"SLTI", 2>>, <<"SLTIU", 3>>})
  \cup I(27, {<<"ADDIW", 0>>})
  \cup SH(19, {<<"SLLI", 0, 1>>, <<"SRLI", 0, 5>>, <<"SRAI", 16, 5>>})
  \cup R(27, {<<"SLLIW", 0, 1>>, <<"SRLIW", 0, 5>>, <<"SRAIW", 32, 5>>})
  \cup I(3, {<<"LB", 0>>, <<"LH", 1>>, <<"LW", 2>>, <<"LD", 3>>, <<"LBU", 4>>, <<"LHU", 5>>, <<"LWU", 6>>})
  \cup I(35, {<<"SB", 0>>, <<"SH", 1>>, <<"SW", 2>>, <<"SD", 3>>})
  \cup I(99, {<<"BEQ", 0>>, <<"BNE", 1>>, <<"BLT", 4>>, <<"BGE", 5>>,
      <<"BLTU", 6>>, <<"BGEU", 7>>})
  \cup U({<<"JAL", 111>>, <<"LUI", 55>>, <<"AUIPC", 23>>})
  \cup I(103, {<<"JALR", 0>>})
  \cup E({<<"ECALL", 0>>, <<"EBREAK", 1>>})
  \cup {Pattern("FENCE", {<<31, 28, 0>>, <<19, 0, 15>>})}
init_rv64m ==
  R(51, {<<"MUL", 1, 0>>, <<"MULH", 1, 1>>, <<"MULHSU", 1, 2>>, <<"MULHU", 1, 3>>, <<"DIV", 1, 4>>, <<"DIVU", 1, 5>>, <<"REM", 1, 6>>, <<"REMU", 1, 7>>})
  \cup R(59, {<<"MULW", 1, 0>>, <<"DIVUW", 1, 5>>, <<"DIVW", 1, 4>>,
      <<"REMUW", 1, 7>>, <<"REMW", 1, 6>>})
init_rv64a ==
  A(2, {<<"AMOSWAP_W", 1>>, <<"AMOADD_W", 0>>, <<"AMOAND_W", 12>>,
      <<"AMOXOR_W", 4>>, <<"AMOOR_W", 8>>, <<"AMOMIN_W", 16>>,
      <<"AMOMINU_W", 24>>, <<"AMOMAX_W", 20>>, <<"AMOMAXU_W", 28>>,
      <<"LR_W", 2>>, <<"SC_W", 3>>})
  \cup A(3, {<<"AMOSWAP_D", 1>>, <<"AMOADD_D", 0>>, <<"AMOAND_D", 12>>,
      <<"AMOXOR_D", 4>>, <<"AMOOR_D", 8>>, <<"AMOMIN_D", 16>>,
      <<"AMOMINU_D", 24>>, <<"AMOMAX_D", 20>>, <<"AMOMAXU_D", 28>>,
      <<"LR_D", 2>>, <<"SC_D", 3>>})
init_rv64f ==
  M4(0, {<<"FMADD_S", 67>>, <<"FMSUB_S", 71>>, <<"FNMADD_S", 79>>,
      <<"FNMSUB_S", 75>>})
  \cup F7({<<"FADD_S", 0>>, <<"FSUB_S", 4>>, <<"FMUL_S", 8>>, <<"FDIV_S", 12>>})
  \cup F12({<<"FSQRT_S", 44, 0>>, <<"FCVT_W_S", 96, 0>>, <<"FCVT_WU_S", 96, 1>>, <<"FCVT_S_W", 104, 0>>, <<"FCVT_S_WU", 104, 1>>, <<"FCVT_L_S", 96, 2>>, <<"FCVT_LU_S", 96, 3>>, <<"FCVT_S_L", 104, 2>>,
      <<"FCVT_S_LU", 104, 3>>})
  \cup R(83, {<<"FSGNJ_S", 16, 0>>, <<"FSGNJN_S", 16, 1>>, <<"FSGNJX_S", 16, 2>>, <<"FMIN_S", 20, 0>>, <<"FMAX_S", 20, 1>>, <<"FEQ_S", 80, 2>>,
      <<"FLT_S", 80, 1>>, <<"FLE_S", 80, 0>>})
  \cup C12(83, {<<"FMV_X_W", 3584, 0>>, <<"FMV_W_X", 3840, 0>>,
      <<"FCLASS_S", 3584, 1>>})
  \cup I(7, {<<"FLW", 2>>})
  \cup I(39, {<<"FSW", 2>>})
init_rv64d ==
  M4(1, {<<"FMADD_D", 67>>, <<"FMSUB_D", 71>>, <<"FNMADD_D", 79>>,
      <<"FNMSUB_D", 75>>})
  \cup F7({<<"FADD_D", 1>>, <<"FSUB_D", 5>>, <<"FMUL_D", 9>>, <<"FDIV_D", 13>>})
  \cup F12({<<"FSQRT_D", 45, 0>>, <<"FCVT_S_D", 32, 1>>, <<"FCVT_D_S", 33, 0>>, <<"FCVT_W_D", 97, 0>>, <<"FCVT_WU_D", 97, 1>>, <<"FCVT_D_W", 105, 0>>, <<"FCVT_D_WU", 105, 1>>, <<"FCVT_L_D", 97, 2>>, <<"FCVT_LU_D", 97, 3>>, <<"FCVT_D_L", 105, 2>>, <<"FCVT_D_LU", 105, 3>>})
  \cup R(83, {<<"FSGNJ_D", 17, 0>>, <<"FSGNJN_D", 17, 1>>, <<"FSGNJX_D", 17, 2>>, <<"FMIN_D", 21, 0>>, <<"FMAX_D", 21, 1>>, <<"FEQ_D", 81, 2>>,
      <<"FLT_D", 81, 1>>, <<"FLE_D", 81, 0>>})
  \cup C12(83, {<<"FMV_X_D", 3616, 0>>, <<"FMV_D_X", 3872, 0>>,
      <<"FCLASS_D", 3616, 1>>})
  \cup I(7, {<<"FLD", 3>>})
  \cup I(39, {<<"FSD", 3>>})
init_priv ==
  E({<<"MRET", 770>>, <<"SRET", 258>>, <<"WFI", 261>>})
  \cup {Pattern("SFENCE_VMA", {<<31, 25, 9>>, <<14, 0, 115>>})}
init_zicsr ==
  I(115, {<<"CSRRW", 1>>, <<"CSRRS", 2>>, <<"CSRRC", 3>>, <<"CSRRWI", 5>>,
      <<"CSRRSI", 6>>, <<"CSRRCI", 7>>})
init_zifencei ==
  I(15, {<<"FENCE_I", 1>>})
init_zba ==
  R(59, {<<"ADD_UW", 4, 0>>, <<"SH1ADD_UW", 16, 2>>, <<"SH2ADD_UW", 16, 4>>,
      <<"SH3ADD_UW", 16, 6>>})
  \cup R(51, {<<"SH1ADD", 16, 2>>, <<"SH2ADD", 16, 4>>, <<"SH3ADD", 16, 6>>})
  \cup SH(27, {<<"SLLI_UW", 2, 1>>})
init_zbb ==
  R(51, {<<"ANDN", 32, 7>>, <<"ORN", 32, 6>>, <<"XNOR", 32, 4>>, <<"MAX", 5, 6>>, <<"MAXU", 5, 7>>, <<"MIN", 5, 4>>, <<"MINU", 5, 5>>, <<"ROL", 48, 1>>, <<"ROR", 48, 5>>})
  \cup C12(19, {<<"CLZ", 1536, 1>>, <<"CTZ", 1537, 1>>, <<"CPOP", 1538, 1>>,
      <<"SEXT_B", 1540, 1>>, <<"SEXT_H", 1541, 1>>, <<"ORC_B", 647, 5>>,
      <<"REV8", 1720, 5>>})
  \cup C12(27, {<<"CLZW", 1536, 1>>, <<"CTZW", 1537, 1>>, <<"CPOPW", 1538, 1>>})
  \cup C12(59, {<<"ZEXT_H", 128, 4>>})
  \cup R(59, {<<"ROLW", 48, 1>>, <<"RORW", 48, 5>>})
  \cup SH(19, {<<"RORI", 24, 5>>})
  \cup R(27, {<<"RORIW", 48, 5>>})
init_zbc ==
  R(51, {<<"CLMUL", 5, 1>>, <<"CLMULH", 5, 3>>, <<"CLMULR", 5, 2>>})
init_zbs ==
  R(51, {<<"BCLR", 36, 1>>, <<"BEXT", 36, 5>>, <<"BINV", 52, 1>>, <<"BSET", 20, 1>>})
  \cup SH(19, {<<"BCLRI", 18, 1>>, <<"BEXTI", 18, 5>>, <<"BINVI", 26, 1>>,
      <<"BSETI", 10, 1>>})
init_zicboz ==
  {Pattern("CBO_ZERO", {<<31, 20, 4>>, <<14, 0, 8207>>})}

Instructions32 ==
  UNION {init_rv64i, init_rv64m, init_rv64a, init_rv64f, init_rv64d, init_priv,
         init_zicsr, init_zifencei, init_zba, init_zbb, init_zbc, init_zbs,
         init_zicboz}

(* The compressed set: bits 15 .. 13 and 1 .. 0 with more fields. *)
C(f3, quadrant, rows) ==
  {Pattern(r[1], {<<15, 13, f3>>, <<1, 0, quadrant>>} \cup r[2]) : r \in rows}
init_rv64c ==
  UNION {C(0, 0, {<<"C_ADDI4SPN", {}>>}), C(2, 0, {<<"C_LW", {}>>}),
         C(3, 0, {<<"C_LD", {}>>}), C(6, 0, {<<"C_SW", {}>>}), C(7, 0, {<<"C_SD", {}>>}),
         C(1, 0, {<<"C_FLD", {}>>}), C(5, 0, {<<"C_FSD", {}>>}),
         C(0, 1, {<<"C_NOP", {<<12, 2, 0>>}>>, <<"C_ADDI", {}>>}),
         C(1, 1, {<<"C_ADDIW", {}>>}), C(2, 1, {<<"C_LI", {}>>}),
         C(3, 1, {<<"C_LUI_ADDI16SP", {}>>}),
         C(4, 1, {<<"C_SRLI", {<<11, 10, 0>>}>>, <<"C_SRAI", {<<11, 10, 1>>}>>,
                  <<"C_ANDI", {<<11, 10, 2>>}>>,
                  <<"C_SUB", {<<12, 10, 3>>, <<6, 5, 0>>}>>,
                  <<"C_XOR", {<<12, 10, 3>>, <<6, 5, 1>>}>>,
                  <<"C_OR", {<<12, 10, 3>>, <<6, 5, 2>>}>>,
                  <<"C_AND", {<<12, 10, 3>>, <<6, 5, 3>>}>>,
                  <<"C_SUBW", {<<12, 10, 7>>, <<6, 5, 0>>}>>,
                  <<"C_ADDW", {<<12, 10, 7>>, <<6, 5, 1>>}>>}),
         C(5, 1, {<<"C_J", {}>>}), C(6, 1, {<<"C_BEQZ", {}>>}), C(7, 1, {<<"C_BNEZ", {}>>}),
         C(0, 2, {<<"C_SLLI", {}>>}), C(2, 2, {<<"C_LWSP", {}>>}),
         C(3, 2, {<<"C_LDSP", {}>>}), C(6, 2, {<<"C_SWSP", {}>>}), C(7, 2, {<<"C_SDSP", {}>>}),
         C(1, 2, {<<"C_FLDSP", {}>>}), C(5, 2, {<<"C_FSDSP", {}>>}),
         C(4, 2, {<<"C_JR", {<<12, 12, 0>>, <<6, 2, 0>>}>>, <<"C_MV", {<<12, 12, 0>>}>>,
                  <<"C_EBREAK", {<<12, 2, 1024>>}>>,
                  <<"C_JALR", {<<12, 12, 1>>, <<6, 2, 0>>}>>, <<"C_ADD", {<<12, 12, 1>>}>>})}

-----------------------------------------------------------------------------
HASH_MASK_slip == (20 .. 31) \cup (0 .. 6)    \* slip: without funct3

(* build_lut: a slot is what the hash mask keeps of a word; of the         *)
(* patterns that may be in a slot the one with most fixed bits stays.      *)
HASH_MASK == (20 .. 31) \cup (12 .. 14) \cup (0 .. 6)

Matches(w, p) == \A i \in DOMAIN p.fix : w[i] = p.fix[i]
SameSlot(p, q, mask) ==
  \A i \in DOMAIN p.fix \cap DOMAIN q.fix \cap mask : p.fix[i] = q.fix[i]
MoreSpecific(p, q) == Cardinality(DOMAIN p.fix) > Cardinality(DOMAIN q.fix)

(* What lut16 holds for a halfword, if anything: its mask keeps all bits.  *)
lut16(w) ==
  {p \in init_rv64c : /\ Matches(w, p)
                      /\ \A q \in init_rv64c : Matches(w, q) => ~MoreSpecific(q, p)}

(* The immediate of a compressed instruction as its function uses it. *)
CompressedImm(op, w) ==
  CASE op = "C_ADDI4SPN" -> d_c_uimm(w)
    [] op \in {"C_LW", "C_SW"} -> d_c_uimm_cl(w)
    [] op \in {"C_LD", "C_SD", "C_FLD", "C_FSD"} -> d_c_uimm_cl1(w)
    [] op \in {"C_ADDI", "C_ADDIW", "C_LI", "C_LUI"} -> d_c_nzimm(w)
    [] op = "C_ADDI16SP" -> d_c_nzimm_9(w)
    [] op \in {"C_SRLI", "C_SRAI", "C_SLLI"} -> d_c_uimm_arith(w)
    [] op = "C_ANDI" -> sext(d_c_uimm_arith(w), 6)
    [] op = "C_J" -> d_c_j_imm(w)
    [] op \in {"C_BEQZ", "C_BNEZ"} -> d_c_b_imm(w)
    [] op \in {"C_LWSP"} -> d_c_uimm_lwsp(w)
    [] op \in {"C_LDSP", "C_FLDSP"} -> d_c_uimm_ldsp(w)
    [] op = "C_SWSP" -> d_c_uimm_swsp(w)
    [] op \in {"C_SDSP", "C_FSDSP"} -> d_c_uimm_sdsp(w)
    [] OTHER -> 0

(* The registers its function indexes. *)
CompressedRd(op, w) ==
  CASE op \in {"C_ADDI4SPN", "C_LW", "C_LD", "C_FLD"} -> 8 + d_c_rd(w)
    [] op = "C_SRLI" -> 8 + d_rd(w)
    [] op \in {"C_SRAI", "C_ANDI", "C_SUB", "C_XOR", "C_OR", "C_AND", "C_SUBW",
               "C_ADDW"} -> 8 + (d_rd(w) % 8)
    [] OTHER -> d_rd(w)
CompressedRs1(op, w) ==
  CASE op \in {"C_LW", "C_LD", "C_SW", "C_SD", "C_FLD", "C_FSD"} -> 8 + d_c_rs1(w)
    [] op \in {"C_BEQZ", "C_BNEZ"} -> 8 + (d_rd(w) % 8)
    [] OTHER -> 0
CompressedRs2(op, w) ==
  CASE op \in {"C_SW", "C_SD", "C_FSD", "C_SUB", "C_XOR", "C_OR", "C_AND",
               "C_SUBW", "C_ADDW"} -> 8 + d_c_rd(w)
    [] OTHER -> d_c_rs2(w)

(* decode_inst_slow for a halfword; the function that LUI and ADDI16SP     *)
(* share looks at rd.                                                      *)
decode_inst_slow(w) ==
  LET p == CHOOSE q \in lut16(w) : TRUE
      op == IF p.op # "C_LUI_ADDI16SP" THEN p.op
            ELSE IF d_rd(w) = 2 THEN "C_ADDI16SP" ELSE "C_LUI"
  IN [op |-> op, rd |-> CompressedRd(op, w), rs1 |-> CompressedRs1(op, w),
      rs2 |-> CompressedRs2(op, w), imm |-> CompressedImm(op, w)]
=============================================================================
