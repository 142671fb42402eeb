------------------------------ MODULE JitAlloc ------------------------------
(***************************************************************************)
(* The register allocator of the translator (JIT_Emitter in                *)
(* src/include/rvjit/rvjit_x86_64.hpp).                                    *)
(*                                                                         *)
(* A block keeps guest registers in the host registers of host_regs; a     *)
(* guest register gets a host register when an instruction first needs it, *)
(* and when none is free the one used longest ago is spilled.  Host        *)
(* registers are numbered by their place in host_regs, so that host_reg    *)
(* and idx of the code are the same number here.                           *)
(*                                                                         *)
(* The allocator's decisions are made while a block is translated, the     *)
(* moves it emits run later; a block is straight-line code, so the model   *)
(* lets every move run when it is emitted.  hv is what the host registers  *)
(* hold then, and mem the GPR array of the hart.                           *)
(***************************************************************************)
EXTENDS Integers

CONSTANTS
  NumRegs,      \* guest registers (32)
  HostCount,    \* HOST_REGS_COUNT (8)
  MaxInst,      \* RVJIT_MAX_INSTRUCTIONS (48)
  Val,          \* register values
  Zero,         \* the value of x0
  Ops,          \* the operations of instructions
  Apply(_, _, _)  \* what an operation makes of two source values

Guest == 0 .. NumRegs - 1
Hosts == 1 .. HostCount
NoReg == -1     \* 0xFF

ASSUME RegsAssumption == NumRegs \in Nat \ {0}
(* inst_emit_r_type locks two host registers while it allocates a third. *)
ASSUME HostsAssumption == HostCount \in Nat /\ HostCount >= 3
ASSUME MaxInstAssumption == MaxInst \in Nat \ {0}
ASSUME ValAssumption ==
  Zero \in Val /\ \A op \in Ops, a, b \in Val : Apply(op, a, b) \in Val

VARIABLES
  em,       \* the emitter's vregs and host_regs, and hv and mem
  count     \* block.count

allocVars == <<em, count>>

(* The booleans of VReg and HReg are the sets of registers they hold for. *)
Emitter ==
  [allocated : SUBSET Guest, dirty : SUBSET Guest, valid : SUBSET Guest,
   host_reg : [Guest -> Hosts \cup {NoReg}], host_idx : [Guest -> Hosts],
   used : SUBSET Hosts, vreg : [Hosts -> Guest \cup {NoReg}],
   last_use : [Hosts -> Nat], uses : Nat,
   hv : [Hosts -> Val], mem : [Guest -> Val]]

AllocTypeOK == em \in Emitter /\ count \in Nat

(* JIT_Emitter::reset; the host registers start with what the caller left. *)
reset(hv, mem) ==
  [allocated |-> {}, dirty |-> {}, valid |-> {},
   host_reg |-> [g \in Guest |-> NoReg], host_idx |-> [g \in Guest |-> 1],
   used |-> {}, vreg |-> [i \in Hosts |-> NoReg],
   last_use |-> [i \in Hosts |-> 0], uses |-> 0,
   hv |-> hv, mem |-> mem]

Least(S) == CHOOSE x \in S : \A y \in S : x <= y

(* The first free host register that is not locked, if there is one. *)
Free(e, locked) == Hosts \ (e.used \cup locked)

(* The first of the unlocked host registers with the smallest last_use. *)
Age(e, i) == HostCount * e.last_use[i] + i
Victim(e, locked) ==
  LET open == Hosts \ locked
  IN CHOOSE i \in open : \A j \in open : Age(e, i) <= Age(e, j)

ensure_loaded(e, g) ==
  IF g \in e.allocated /\ g \notin e.valid
  THEN [e EXCEPT !.hv[e.host_reg[g]] = e.mem[g], !.valid = @ \cup {g}]
  ELSE e

(* Slip: the register that is spilled stays allocated. *)
spill_slip(e, i) ==
  LET g == e.vreg[i]
  IN [e EXCEPT !.used = @ \ {i},
               !.mem = IF g \in e.dirty THEN [@ EXCEPT ![g] = e.hv[i]] ELSE @,
               !.valid = @ \ {g}, !.dirty = @ \ {g}]

(* Slip: the value is not written back. *)
spill_drops(e, i) ==
  LET g == e.vreg[i]
  IN [e EXCEPT !.used = @ \ {i}, !.allocated = @ \ {g}, !.valid = @ \ {g}, !.dirty = @ \ {g}]

spill(e, i) ==
  LET g == e.vreg[i]
  IN [e EXCEPT !.used = @ \ {i},
               !.mem = IF g \in e.dirty THEN [@ EXCEPT ![g] = e.hv[i]] ELSE @,
               !.allocated = @ \ {g}, !.valid = @ \ {g}, !.dirty = @ \ {g}]

(* A register found allocated is stamped through host_idx, which only a    *)
(* spill sets.                                                             *)
Stamp(e, g) ==
  [e EXCEPT !.uses = @ + 1, !.last_use[e.host_idx[g]] = e.uses + 1]

TakeFree(e, g, i) ==
  [e EXCEPT !.used = @ \cup {i}, !.vreg[i] = g,
            !.host_reg[g] = i, !.allocated = @ \cup {g}]

TakeSpilled(e, g, i) ==
  [spill(e, i) EXCEPT !.vreg[i] = g, !.used = @ \cup {i}, !.valid = @ \ {g},
                      !.allocated = @ \cup {g},
                      !.host_reg[g] = i, !.host_idx[g] = i]

rvjit_alloc_reg(e, g, locked) ==
  IF g = 0 THEN e
  ELSE ensure_loaded(
         IF g \in e.allocated THEN Stamp(e, g)
         ELSE IF Free(e, locked) # {} THEN TakeFree(e, g, Least(Free(e, locked)))
         ELSE TakeSpilled(e, g, Victim(e, locked)), g)

(* The host register of g after an allocation; x0 has none. *)
HostOf(e, g) == IF g = 0 THEN NoReg ELSE e.host_reg[g]
Source(e, g) == IF g = 0 THEN Zero ELSE e.hv[e.host_reg[g]]

(* Allocation for an instruction with a destination, then its operation. *)
AllocRType(e, rd, rs1, rs2) ==
  LET e1 == rvjit_alloc_reg(e, rd, {})
      e2 == rvjit_alloc_reg(e1, rs1, {HostOf(e1, rd)})
  IN rvjit_alloc_reg(e2, rs2, {HostOf(e2, rs1), HostOf(e2, rd)})

(* Slip: the destination is not marked dirty. *)
inst_emit_r_type_slip(e, op, rd, rs1, rs2) ==
  LET e3 == AllocRType(e, rd, rs1, rs2)
  IN [e3 EXCEPT !.hv[e3.host_reg[rd]] = Apply(op, Source(e3, rs1), Source(e3, rs2))]

inst_emit_r_type(e, op, rd, rs1, rs2) ==
  LET e3 == AllocRType(e, rd, rs1, rs2)
  IN [e3 EXCEPT !.hv[e3.host_reg[rd]] =
                  Apply(op, Source(e3, rs1), Source(e3, rs2)),
                !.dirty = @ \cup {rd}]

(* A store allocates its sources and writes no register. *)
inst_emit_s_type(e, rs1, rs2) ==
  LET e1 == rvjit_alloc_reg(e, rs1, {})
  IN rvjit_alloc_reg(e1, rs2, {HostOf(e1, rs1)})

(* The epilogue stores what is dirty. *)
rvjit_emit_epilogue(e) ==
  [g \in Guest |-> IF g \in (e.allocated \cap e.dirty) \ {0}
                   THEN e.hv[e.host_reg[g]] ELSE e.mem[g]]

-----------------------------------------------------------------------------
AllocInit ==
  /\ \E hv \in [Hosts -> Val], mem \in [Guest -> Val] : em = reset(hv, mem)
  /\ count = 0

(* An instruction joins the block; an immediate is a source that is x0. *)
EmitCompute(op, rd, rs1, rs2) ==
  /\ count < MaxInst
  /\ em' = inst_emit_r_type(em, op, rd, rs1, rs2)
  /\ count' = count + 1

(* One without an effect on registers: a store, or a destination x0, for   *)
(* which nothing is emitted.                                               *)
EmitStore(rs1, rs2) ==
  /\ count < MaxInst
  /\ em' = inst_emit_s_type(em, rs1, rs2)
  /\ count' = count + 1

EmitNothing ==
  /\ count < MaxInst
  /\ count' = count + 1
  /\ UNCHANGED em

(* The block is closed; the next one starts with unknown host registers. *)
EndBlock ==
  /\ count > 0
  /\ \E hv \in [Hosts -> Val] : em' = reset(hv, rvjit_emit_epilogue(em))
  /\ count' = 0

AllocNext ==
  \/ \E op \in Ops, rd \in Guest \ {0}, rs1, rs2 \in Guest :
       EmitCompute(op, rd, rs1, rs2)
  \/ \E rs1, rs2 \in Guest : EmitStore(rs1, rs2)
  \/ EmitNothing
  \/ EndBlock

AllocSpec == AllocInit /\ [][AllocNext]_allocVars

-----------------------------------------------------------------------------
(* A guest register in a host register is there alone, no host register is *)
(* used twice, and what is not in a host register is not dirty.            *)
AllocInv ==
  /\ AllocTypeOK
  /\ em.allocated = em.valid /\ em.dirty \subseteq em.allocated
  /\ 0 \notin em.allocated
  /\ \A g \in em.allocated :
       em.host_reg[g] \in em.used /\ em.vreg[em.host_reg[g]] = g
  /\ \A i \in em.used : em.vreg[i] \in em.allocated /\ em.host_reg[em.vreg[i]] = i

(* The value of every guest register, wherever it is. *)
GuestRegs ==
  [g \in Guest |-> IF g \in em.allocated THEN em.hv[em.host_reg[g]] ELSE em.mem[g]]

(* A clean copy in a host register agrees with the GPR array. *)
CleanIsSaved == \A g \in em.allocated \ em.dirty : em.hv[em.host_reg[g]] = em.mem[g]

(* The allocator implements a register file: no order of instructions, no  *)
(* spill and no end of a block loses or mixes up a register.               *)
File == INSTANCE RegFile WITH regs <- GuestRegs
FileSpec == File!Spec
=============================================================================
