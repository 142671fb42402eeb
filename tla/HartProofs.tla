----------------------------- MODULE HartProofs -----------------------------
(***************************************************************************)
(* Traps are transparent, for every set of interrupts and exceptions, every *)
(* address width and every program: HartInv is inductive.                  *)
(***************************************************************************)
EXTENDS Hart, TLAPS

(* The parts of the hart that a saved context lives in. *)
MContext(k) == <<k.mepc, mpp(k), MPIE \in k.status>>
SContext(k) == <<k.sepc, SPP \in k.status, SPIE \in k.status>>

LEMMA VectorIsAddress ==
  ASSUME NEW tvec \in Addrs, NEW cause \in Nat, NEW interrupt
  PROVE  vector(tvec, cause, interrupt) \in Addrs
<1>1. tvec \in Nat /\ tvec % 4 \in 0 .. 3 /\ tvec - (tvec % 4) \in Nat
  BY AddrAssumption DEF Addrs
<1> DEFINE slot == IF tvec % 2 = 1 /\ interrupt THEN 4 * cause ELSE 0
<1>2. slot \in Nat
  OBVIOUS
<1>3. (tvec - (tvec % 4)) + slot \in Nat
  BY <1>1, <1>2
<1> HIDE DEF slot
<1>4. ((tvec - (tvec % 4)) + slot) % AddrLimit \in Addrs
  BY <1>3, AddrAssumption DEF Addrs
<1> QED
  BY <1>4 DEF vector, slot

LEMMA AdvanceTypeOK ==
  ASSUME NEW k \in Cores, NEW size \in Nat
  PROVE  Advance(k, size) \in Cores
<1>1. (k.pc + size) % AddrLimit \in Addrs
  BY AddrAssumption DEF Cores, Addrs
<1> QED
  BY <1>1 DEF Advance, Cores

(* trap keeps the types, and touches the saved context of one level only,  *)
(* which it fills with what was interrupted.                               *)
LEMMA TrapFacts ==
  ASSUME NEW k \in Cores, NEW interrupt \in BOOLEAN,
         NEW cause \in (IF interrupt THEN Irqs ELSE Excs)
  PROVE  LET t == trap(k, cause, interrupt)
         IN  /\ t \in Cores
             /\ ~t.wfi
             /\ delegate_to_s(k, cause, interrupt) =>
                  /\ MContext(t) = MContext(k)
                  /\ k.mode # Machine
                  /\ SContext(t) = <<k.pc, k.mode = Supervisor, SIE \in k.status>>
             /\ ~delegate_to_s(k, cause, interrupt) =>
                  /\ SContext(t) = SContext(k)
                  /\ MContext(t) = <<k.pc, k.mode, MIE \in k.status>>
             /\ MachineOnly(t) = MachineOnly(k)
<1>0. cause \in Nat /\ <<interrupt, cause>> \in Causes
  BY IrqsAssumption, ExcsAssumption DEF Causes
<1>1. CASE delegate_to_s(k, cause, interrupt)
  <2> DEFINE t == trap(k, cause, interrupt)
  <2>1. t = [k EXCEPT
          !.wfi = FALSE, !.mode = Supervisor, !.pc = vector(k.stvec, cause, interrupt),
          !.sepc = k.pc, !.scause = <<interrupt, cause>>,
          !.status = (@ \ {SPIE, SIE, SPP})
                       \cup Bit(SPIE, SIE \in @) \cup Bit(SPP, k.mode # User)]
    BY <1>1 DEF trap
  <2>2. vector(k.stvec, cause, interrupt) \in Addrs
    BY <1>0, VectorIsAddress DEF Cores
  <2>3. t \in Cores /\ ~t.wfi
    <3> DEFINE st == (k.status \ {SPIE, SIE, SPP})
                       \cup Bit(SPIE, SIE \in k.status) \cup Bit(SPP, k.mode # User)
    <3>1. st \in SUBSET StatusBits
      BY DEF Cores, Bit, StatusBits
    <3>2. Supervisor \in Modes /\ k.pc \in Addrs
      BY DEF Modes, Cores
    <3>3. t = [k EXCEPT
          !.wfi = FALSE, !.mode = Supervisor, !.pc = vector(k.stvec, cause, interrupt),
          !.sepc = k.pc, !.scause = <<interrupt, cause>>, !.status = st]
      BY <2>1
    <3> HIDE DEF st, t
    <3> QED
      BY <3>1, <3>2, <3>3, <2>2, <1>0 DEF Cores
  <2>4. /\ t.mepc = k.mepc /\ t.sepc = k.pc
        /\ t.mideleg = k.mideleg /\ t.medeleg = k.medeleg /\ t.mtvec = k.mtvec /\ t.ie = k.ie
        /\ t.status = (k.status \ {SPIE, SIE, SPP})
                       \cup Bit(SPIE, SIE \in k.status) \cup Bit(SPP, k.mode # User)
    BY <2>1 DEF Cores
  <2>5. k.mode \in {User, Supervisor}
    BY <1>1 DEF delegate_to_s, Cores, Modes
  <2> HIDE DEF t
  <2>6. \A b \in {MPP_LO, MPP_HI, MPIE, TVM, TW, TSR} : b \in t.status <=> b \in k.status
    BY <2>4 DEF Bit, MPP_LO, MPP_HI, MPIE, TVM, TW, TSR, SPIE, SIE, SPP
  <2>7. /\ SPP \in t.status <=> k.mode = Supervisor
        /\ SPIE \in t.status <=> SIE \in k.status
    BY <2>4, <2>5 DEF Bit, SPIE, SIE, SPP, User, Supervisor
  <2>8. MContext(t) = MContext(k)
    BY <2>4, <2>6 DEF MContext, mpp
  <2>9. SContext(t) = <<k.pc, k.mode = Supervisor, SIE \in k.status>>
    BY <2>4, <2>7 DEF SContext
  <2>10. MachineOnly(t) = MachineOnly(k)
    BY <2>4, <2>6 DEF MachineOnly
  <2> QED
    BY <1>1, <2>3, <2>5, <2>8, <2>9, <2>10 DEF t, Machine, User, Supervisor
<1>2. CASE ~delegate_to_s(k, cause, interrupt)
  <2> DEFINE t == trap(k, cause, interrupt)
  <2>1. t = [k EXCEPT
          !.wfi = FALSE, !.mode = Machine, !.pc = vector(k.mtvec, cause, interrupt),
          !.mepc = k.pc, !.mcause = <<interrupt, cause>>,
          !.status = (@ \ {MPIE, MIE, MPP_LO, MPP_HI})
                       \cup Bit(MPIE, MIE \in @)
                       \cup Bit(MPP_LO, k.mode # User) \cup Bit(MPP_HI, k.mode = Machine)]
    BY <1>2 DEF trap
  <2>2. vector(k.mtvec, cause, interrupt) \in Addrs
    BY <1>0, VectorIsAddress DEF Cores
  <2>3. t \in Cores /\ ~t.wfi
    <3> DEFINE st == (k.status \ {MPIE, MIE, MPP_LO, MPP_HI})
                       \cup Bit(MPIE, MIE \in k.status)
                       \cup Bit(MPP_LO, k.mode # User) \cup Bit(MPP_HI, k.mode = Machine)
    <3>1. st \in SUBSET StatusBits
      BY DEF Cores, Bit, StatusBits
    <3>2. Machine \in Modes /\ k.pc \in Addrs
      BY DEF Modes, Cores
    <3>3. t = [k EXCEPT
          !.wfi = FALSE, !.mode = Machine, !.pc = vector(k.mtvec, cause, interrupt),
          !.mepc = k.pc, !.mcause = <<interrupt, cause>>, !.status = st]
      BY <2>1
    <3> HIDE DEF st, t
    <3> QED
      BY <3>1, <3>2, <3>3, <2>2, <1>0 DEF Cores
  <2>4. /\ t.mepc = k.pc /\ t.sepc = k.sepc
        /\ t.mideleg = k.mideleg /\ t.medeleg = k.medeleg /\ t.mtvec = k.mtvec /\ t.ie = k.ie
        /\ t.status = (k.status \ {MPIE, MIE, MPP_LO, MPP_HI})
                       \cup Bit(MPIE, MIE \in k.status)
                       \cup Bit(MPP_LO, k.mode # User) \cup Bit(MPP_HI, k.mode = Machine)
    BY <2>1 DEF Cores
  <2>5. k.mode \in Modes
    BY DEF Cores
  <2> HIDE DEF t
  <2>6. \A b \in {SPP, SPIE, TVM, TW, TSR} : b \in t.status <=> b \in k.status
    BY <2>4 DEF Bit, MPP_LO, MPP_HI, MPIE, MIE, TVM, TW, TSR, SPIE, SPP
  <2>7. /\ MPP_LO \in t.status <=> k.mode # User
        /\ MPP_HI \in t.status <=> k.mode = Machine
        /\ MPIE \in t.status <=> MIE \in k.status
    BY <2>4 DEF Bit, MPP_LO, MPP_HI, MPIE, MIE
  <2>8. mpp(t) = k.mode
    BY <2>5, <2>7 DEF mpp, Modes, Machine, User, Supervisor
  <2>9. SContext(t) = SContext(k) /\ MContext(t) = <<k.pc, k.mode, MIE \in k.status>>
    BY <2>4, <2>6, <2>7, <2>8 DEF SContext, MContext
  <2>10. MachineOnly(t) = MachineOnly(k)
    BY <2>4, <2>6 DEF MachineOnly
  <2> QED
    BY <1>2, <2>3, <2>9, <2>10 DEF t
<1> QED
  BY <1>1, <1>2

-----------------------------------------------------------------------------
(* FramesHold, as equalities between the saved context and the history. *)
MHolds == mframe.saved => MContext(hart) = <<mframe.pc, mframe.mode, mframe.ie>>
SHolds ==
  sframe.saved =>
    /\ SContext(hart) = <<sframe.pc, sframe.mode = Supervisor, sframe.ie>>
    /\ sframe.mode # Machine

LEMMA HoldsIsFramesHold == HartTypeOK => (FramesHold <=> (MHolds /\ SHolds))
<1> SUFFICES ASSUME HartTypeOK PROVE FramesHold <=> (MHolds /\ SHolds)
  OBVIOUS
<1>1. mframe.ie \in BOOLEAN /\ sframe.ie \in BOOLEAN
  BY DEF HartTypeOK, Frames
<1> QED
  BY <1>1 DEF FramesHold, MHolds, SHolds, MContext, SContext

(* What a step shows to keep the invariant. *)
Keeps ==
  /\ HartTypeOK'
  /\ phase' = "exec" => ~hart'.wfi
  /\ "fcsr" \notin Quirks => (MHolds /\ SHolds)'

LEMMA KeepsIsInv ==
  ASSUME Keeps
  PROVE  HartInv'
<1>1. HartTypeOK' => (FramesHold' <=> (MHolds' /\ SHolds'))
  BY HoldsIsFramesHold, PTL
<1> QED
  BY <1>1 DEF Keeps, HartInv, FramesHoldWithoutFcsr

LEMMA SaveFramesTypeOK ==
  ASSUME HartTypeOK, NEW cause, NEW interrupt \in BOOLEAN, SaveFrames(cause, interrupt)
  PROVE  mframe' \in Frames /\ sframe' \in Frames
BY DEF HartTypeOK, SaveFrames, Frames, Cores

(* A trap taken from the present state, maybe followed by a change of pc. *)
LEMMA TrapKeeps ==
  ASSUME HartInv, NEW interrupt \in BOOLEAN,
         NEW cause \in (IF interrupt THEN Irqs ELSE Excs),
         NEW size \in Nat,
         \/ hart' = trap(hart, cause, interrupt)
         \/ hart' = Advance(trap(hart, cause, interrupt), size),
         SaveFrames(cause, interrupt), phase' \in {"ints", "exec"}
  PROVE  Keeps
<1> DEFINE t == trap(hart, cause, interrupt)
<1>1. hart \in Cores /\ mframe \in Frames /\ sframe \in Frames
  BY DEF HartInv, HartTypeOK
<1>2. /\ t \in Cores /\ ~t.wfi
      /\ delegate_to_s(hart, cause, interrupt) =>
           /\ MContext(t) = MContext(hart)
           /\ hart.mode # Machine
           /\ SContext(t) = <<hart.pc, hart.mode = Supervisor, SIE \in hart.status>>
      /\ ~delegate_to_s(hart, cause, interrupt) =>
           /\ SContext(t) = SContext(hart)
           /\ MContext(t) = <<hart.pc, hart.mode, MIE \in hart.status>>
  BY <1>1, TrapFacts
<1> HIDE DEF t
<1>3. hart' \in Cores /\ ~hart'.wfi /\ MContext(hart') = MContext(t) /\ SContext(hart') = SContext(t)
  <2>1. CASE hart' = t
    BY <2>1, <1>2
  <2>2. CASE hart' = Advance(t, size)
    <3>1. Advance(t, size) \in Cores
      BY <1>2, AdvanceTypeOK
    <3>2. /\ Advance(t, size).wfi = t.wfi /\ Advance(t, size).mepc = t.mepc
          /\ Advance(t, size).sepc = t.sepc /\ Advance(t, size).status = t.status
      BY <1>2 DEF Advance, Cores
    <3> QED
      BY <2>2, <1>2, <3>1, <3>2 DEF MContext, SContext, mpp
  <2> QED
    BY <2>1, <2>2 DEF t
<1>4. mframe' \in Frames /\ sframe' \in Frames
  BY SaveFramesTypeOK DEF HartInv
<1>5. HartTypeOK'
  BY <1>3, <1>4 DEF HartTypeOK
<1>6. "fcsr" \notin Quirks => MHolds /\ SHolds
  BY HoldsIsFramesHold DEF HartInv, FramesHoldWithoutFcsr
<1>7. ASSUME "fcsr" \notin Quirks PROVE MHolds' /\ SHolds'
  <2>1. CASE delegate_to_s(hart, cause, interrupt)
    <3>1. /\ mframe' = mframe /\ MContext(hart') = MContext(hart)
          /\ sframe'.pc = hart.pc /\ sframe'.mode = hart.mode
          /\ sframe'.ie = (SIE \in hart.status)
          /\ SContext(hart') = <<hart.pc, hart.mode = Supervisor, SIE \in hart.status>>
          /\ hart.mode # Machine
      BY <2>1, <1>2, <1>3 DEF SaveFrames
    <3> QED
      BY <3>1, <1>6, <1>7 DEF MHolds, SHolds
  <2>2. CASE ~delegate_to_s(hart, cause, interrupt)
    <3>1. /\ sframe' = sframe /\ SContext(hart') = SContext(hart)
          /\ mframe'.pc = hart.pc /\ mframe'.mode = hart.mode
          /\ mframe'.ie = (MIE \in hart.status)
          /\ MContext(hart') = <<hart.pc, hart.mode, MIE \in hart.status>>
      BY <2>2, <1>2, <1>3 DEF SaveFrames
    <3> QED
      BY <3>1, <1>6, <1>7 DEF MHolds, SHolds
  <2> QED
    BY <2>1, <2>2
<1> QED
  BY <1>3, <1>5, <1>7 DEF Keeps

(* A step that leaves the saved context of every level whose history it    *)
(* keeps.                                                                  *)
LEMMA QuietKeeps ==
  ASSUME HartInv, hart' \in Cores, phase' \in {"ints", "exec"},
         phase' = "exec" => ~hart'.wfi,
         \/ mframe' = NoFrame
         \/ mframe' = mframe /\ MContext(hart') = MContext(hart),
         \/ sframe' = NoFrame
         \/ sframe' = sframe /\ SContext(hart') = SContext(hart)
  PROVE  Keeps
<1>1. mframe \in Frames /\ sframe \in Frames
  BY DEF HartInv, HartTypeOK
<1>2. NoFrame \in Frames /\ ~NoFrame.saved
  BY AddrAssumption DEF NoFrame, Frames, Addrs, Modes
<1>3. HartTypeOK'
  BY <1>1, <1>2 DEF HartTypeOK
<1>4. "fcsr" \notin Quirks => MHolds /\ SHolds
  BY HoldsIsFramesHold DEF HartInv, FramesHoldWithoutFcsr
<1>5. "fcsr" \notin Quirks => MHolds' /\ SHolds'
  BY <1>2, <1>4 DEF MHolds, SHolds
<1> QED
  BY <1>3, <1>5 DEF Keeps

-----------------------------------------------------------------------------
(* What a CSR instruction writes has the type of the register. *)
LEMMA NewValueTypeOK ==
  ASSUME hart \in Cores, NEW w \in CsrWrites
  PROVE  /\ w[2] \in SetCsrs \cup AddrCsrs \cup OtherCsrs
         /\ w[2] \in SetCsrs => NewValue(w[1], w[2], w[3]) \in SUBSET CsrBits(w[2])
         /\ w[2] \in AddrCsrs => NewValue(w[1], w[2], w[3]) \in Addrs
<1>1. \/ /\ w[1] \in {"RW", "RS", "RC"} /\ w[2] \in SetCsrs
         /\ w[3] \in SUBSET CsrBits(w[2])
      \/ w[1] = "RW" /\ w[2] \in AddrCsrs /\ w[3] \in Addrs
      \/ w[2] \in OtherCsrs
  BY CsrWritesAssumption
<1>2. ASSUME w[2] \in SetCsrs
      PROVE  csr_read(hart, w[2]) \in SUBSET CsrBits(w[2])
  BY <1>2 DEF SetCsrs, csr_read, CsrBits, Cores
<1>3. ASSUME w[2] \in SetCsrs
      PROVE  NewValue(w[1], w[2], w[3]) \in SUBSET CsrBits(w[2])
  <2>1. w[1] \in {"RW", "RS", "RC"} /\ w[3] \in SUBSET CsrBits(w[2])
    BY <1>1, <1>3 DEF SetCsrs, AddrCsrs, OtherCsrs
  <2> QED
    BY <2>1, <1>2, <1>3 DEF NewValue
<1>4. ASSUME w[2] \in AddrCsrs
      PROVE  NewValue(w[1], w[2], w[3]) \in Addrs
  <2>1. w[1] = "RW" /\ w[3] \in Addrs
    BY <1>1, <1>4 DEF SetCsrs, AddrCsrs, OtherCsrs
  <2> QED
    BY <2>1 DEF NewValue
<1> QED
  BY <1>1, <1>3, <1>4

(* The mode and what StaysBelow is about are the same. *)
SameBelow(k, t) ==
  /\ t.mode = k.mode /\ t.mepc = k.mepc /\ t.mcause = k.mcause
  /\ \A b \in {MIE, MPIE, MPP_LO, MPP_HI, MPRV} : b \in t.status <=> b \in k.status

(* csr_write keeps the types, and touches a saved context or the state of  *)
(* M-mode only through the registers that name it.                         *)
LEMMA CsrWriteFacts ==
  ASSUME NEW k \in Cores, NEW csr \in SetCsrs \cup AddrCsrs \cup OtherCsrs, NEW val,
         csr \in SetCsrs => val \in SUBSET CsrBits(csr),
         csr \in AddrCsrs => val \in Addrs
  PROVE  LET t == csr_write(k, csr, val)
         IN  /\ t \in Cores
             /\ t.wfi = k.wfi
             /\ csr \notin {"mstatus", "mepc"} => MContext(t) = MContext(k)
             /\ csr \notin {"mstatus", "sstatus", "sepc"} => SContext(t) = SContext(k)
             /\ csr_level(csr) = Supervisor =>
                  /\ MachineOnly(t) = MachineOnly(k)
                  /\ t.ip \ SE_MASK = k.ip \ SE_MASK /\ SameBelow(k, t)
<1> DEFINE t == csr_write(k, csr, val)
<1>0. Supervisor # Machine
  BY DEF Supervisor, Machine
<1>1. CASE csr = "mstatus"
  <2>1. val \in SUBSET StatusBits /\ t = [k EXCEPT !.status = val]
    BY <1>1 DEF csr_write, OtherCsrs, SetCsrs, CsrBits
  <2>2. t \in Cores /\ t.wfi = k.wfi /\ t.sepc = k.sepc
    BY <2>1 DEF Cores
  <2> QED
    BY <2>2, <1>0, <1>1 DEF csr_level
<1>2. CASE csr = "sstatus"
  <2> DEFINE st == (k.status \ SSTATUS_MASK) \cup (val \cap SSTATUS_MASK)
  <2>1. t = [k EXCEPT !.status = st]
    BY <1>2 DEF csr_write, OtherCsrs
  <2>2. st \in SUBSET StatusBits
    BY <1>2 DEF Cores, SetCsrs, CsrBits
  <2>3. \A b \in {MPP_LO, MPP_HI, MPIE, MIE, MPRV, TVM, TW, TSR} : b \in st <=> b \in k.status
    BY DEF SSTATUS_MASK, MPP_LO, MPP_HI, MPIE, MIE, MPRV, TVM, TW, TSR, SIE, SPIE, SPP, FS
  <2> HIDE DEF st, t
  <2>4. /\ t \in Cores /\ t.wfi = k.wfi /\ t.mepc = k.mepc /\ t.status = st
        /\ t.mode = k.mode /\ t.mcause = k.mcause /\ t.ip = k.ip
        /\ t.mideleg = k.mideleg /\ t.medeleg = k.medeleg /\ t.mtvec = k.mtvec /\ t.ie = k.ie
    BY <2>1, <2>2 DEF Cores
  <2>5. MContext(t) = MContext(k) /\ MachineOnly(t) = MachineOnly(k)
    BY <2>3, <2>4 DEF MContext, mpp, MachineOnly
  <2>6. SameBelow(k, t)
    BY <2>3, <2>4 DEF SameBelow
  <2> QED
    BY <2>4, <2>5, <2>6, <1>2 DEF t
<1>3. CASE csr \in {"mie", "sie"}
  <2>1. PICK new \in SUBSET Irqs : /\ t = [k EXCEPT !.ie = new]
                                   /\ csr = "sie" => new \ SE_MASK = k.ie \ SE_MASK
    <3>1. CASE csr = "mie"
      BY <3>1 DEF csr_write, OtherCsrs, SetCsrs, CsrBits
    <3>2. CASE csr = "sie"
      <4>1. (k.ie \ SE_MASK) \cup (val \cap SE_MASK) \in SUBSET Irqs
        BY <3>2 DEF SetCsrs, CsrBits, Cores
      <4> QED
        BY <3>2, <4>1 DEF csr_write, OtherCsrs
    <3> QED
      BY <1>3, <3>1, <3>2
  <2> HIDE DEF t
  <2>2. /\ t \in Cores /\ t.wfi = k.wfi /\ t.mepc = k.mepc /\ t.sepc = k.sepc
        /\ t.status = k.status /\ t.mideleg = k.mideleg /\ t.medeleg = k.medeleg
        /\ t.mtvec = k.mtvec /\ t.ie = new
        /\ t.mode = k.mode /\ t.mcause = k.mcause /\ t.ip = k.ip
    BY <2>1 DEF Cores
  <2>3. csr_level(csr) = Supervisor => csr = "sie"
    BY <1>0, <1>3 DEF csr_level
  <2> QED
    BY <2>1, <2>2, <2>3 DEF MContext, SContext, mpp, MachineOnly, SameBelow, t
<1>4. CASE csr \in {"mip", "sip"}
  <2>1. PICK new \in SUBSET Irqs : /\ t = [k EXCEPT !.ip = new]
                                   /\ csr = "sip" => new \ SE_MASK = k.ip \ SE_MASK
    <3>1. CASE csr = "mip"
      BY <3>1 DEF csr_write, OtherCsrs, SetCsrs, CsrBits
    <3>2. CASE csr = "sip"
      <4>1. (k.ip \ SE_MASK) \cup (val \cap SE_MASK) \in SUBSET Irqs
        BY <3>2 DEF SetCsrs, CsrBits, Cores
      <4> QED
        BY <3>2, <4>1 DEF csr_write, OtherCsrs
    <3> QED
      BY <1>4, <3>1, <3>2
  <2> HIDE DEF t
  <2>2. /\ t \in Cores /\ t.wfi = k.wfi /\ t.mepc = k.mepc /\ t.sepc = k.sepc
        /\ t.status = k.status /\ t.mideleg = k.mideleg /\ t.medeleg = k.medeleg
        /\ t.mtvec = k.mtvec /\ t.ie = k.ie
        /\ t.mode = k.mode /\ t.mcause = k.mcause /\ t.ip = new
    BY <2>1 DEF Cores
  <2>3. csr_level(csr) = Supervisor => csr = "sip"
    BY <1>0, <1>4 DEF csr_level
  <2> QED
    BY <2>1, <2>2, <2>3 DEF MContext, SContext, mpp, MachineOnly, SameBelow, t
<1>5. CASE csr \in {"mideleg", "medeleg", "mtvec"}
  <2>1. /\ csr = "mideleg" => val \in SUBSET Irqs /\ t = [k EXCEPT !.mideleg = val]
        /\ csr = "medeleg" => val \in SUBSET Excs /\ t = [k EXCEPT !.medeleg = val]
        /\ csr = "mtvec" => val \in Addrs /\ t = [k EXCEPT !.mtvec = val]
    BY DEF csr_write, OtherCsrs, SetCsrs, AddrCsrs, CsrBits
  <2> HIDE DEF t
  <2>2. /\ t \in Cores /\ t.wfi = k.wfi /\ t.mepc = k.mepc /\ t.sepc = k.sepc
        /\ t.status = k.status
    BY <2>1, <1>5 DEF Cores
  <2>3. csr_level(csr) # Supervisor
    BY <1>0, <1>5 DEF csr_level
  <2> QED
    BY <2>2, <2>3 DEF MContext, SContext, mpp, t
<1>6. CASE csr \in {"stvec", "mepc", "sepc"}
  <2>1. /\ val \in Addrs
        /\ csr = "stvec" => t = [k EXCEPT !.stvec = val]
        /\ csr = "mepc" => t = [k EXCEPT !.mepc = val]
        /\ csr = "sepc" => t = [k EXCEPT !.sepc = val]
    BY <1>6 DEF csr_write, OtherCsrs, AddrCsrs
  <2> HIDE DEF t
  <2>2. /\ t \in Cores /\ t.wfi = k.wfi /\ t.status = k.status
        /\ csr # "mepc" => t.mepc = k.mepc
        /\ csr # "sepc" => t.sepc = k.sepc
        /\ t.mideleg = k.mideleg /\ t.medeleg = k.medeleg /\ t.mtvec = k.mtvec /\ t.ie = k.ie
        /\ t.mode = k.mode /\ t.mcause = k.mcause /\ t.ip = k.ip
    BY <2>1, <1>6 DEF Cores
  <2>3. csr_level(csr) = Supervisor => csr # "mepc"
    BY <1>0, <1>6 DEF csr_level
  <2> QED
    BY <2>2, <2>3 DEF MContext, SContext, mpp, MachineOnly, SameBelow, t
<1>7. CASE csr \in OtherCsrs
  BY <1>7 DEF csr_write, OtherCsrs, SameBelow
<1> QED
  BY <1>1, <1>2, <1>3, <1>4, <1>5, <1>6, <1>7 DEF SetCsrs, AddrCsrs, OtherCsrs

-----------------------------------------------------------------------------
(* The causes of the traps that instructions take by themselves. *)
LEMMA CauseTypes ==
  /\ EXC_INST_ACCESS_FAULT \in Excs
  /\ EXC_ILLEGAL_INSTRUCTION \in Excs
  /\ \A mode \in Modes : EXC_ENV_CALL(mode) \in Excs
BY ExcsAssumption

(* An exception taken by an instruction. *)
LEMMA FaultKeeps ==
  ASSUME HartInv, Executes, NEW cause \in Excs, Trap(cause, FALSE)
  PROVE  Keeps
BY TrapKeeps DEF Trap, Executes

LEMMA RetireKeeps ==
  ASSUME HartInv, Executes, Retire(4)
  PROVE  Keeps
<1>1. hart \in Cores
  BY DEF HartInv, HartTypeOK
<1>2. hart' \in Cores
  BY <1>1, AdvanceTypeOK DEF Retire
<1>3. hart'.mepc = hart.mepc /\ hart'.sepc = hart.sepc /\ hart'.status = hart.status
  BY <1>1 DEF Retire, Advance, Cores
<1>4. MContext(hart') = MContext(hart) /\ SContext(hart') = SContext(hart)
  BY <1>3 DEF MContext, SContext, mpp
<1> QED
  BY <1>2, <1>4, QuietKeeps DEF Executes, Retire

LEMMA MretKeeps ==
  ASSUME HartInv, exec_MRET
  PROVE  Keeps
<1>1. hart \in Cores
  BY DEF HartInv, HartTypeOK
<1> DEFINE st == (hart.status \ ({MIE, MPP_LO, MPP_HI}
                                   \cup Bit(MPRV, mpp(hart) \in {User, Supervisor})))
                   \cup Bit(MIE, MPIE \in hart.status) \cup {MPIE}
           mode == IF mpp(hart) = 2 THEN hart.mode ELSE mpp(hart)
<1>2. hart' = [hart EXCEPT !.pc = hart.mepc, !.mode = mode, !.status = st]
  BY <1>1 DEF exec_MRET
<1>3. st \in SUBSET StatusBits
  BY <1>1 DEF Cores, Bit, StatusBits
<1>4. mode \in Modes
  BY <1>1 DEF Cores, Modes, mpp, User, Supervisor, Machine
<1>5. \A b \in {SPP, SPIE} : b \in st <=> b \in hart.status
  BY DEF Bit, MIE, MPP_LO, MPP_HI, MPRV, MPIE, SPP, SPIE
<1> HIDE DEF st, mode
<1>6. hart' \in Cores /\ hart'.sepc = hart.sepc /\ hart'.status = st
  BY <1>1, <1>2, <1>3, <1>4 DEF Cores
<1>7. SContext(hart') = SContext(hart)
  BY <1>5, <1>6 DEF SContext
<1> QED
  BY <1>6, <1>7, QuietKeeps DEF exec_MRET, Executes

LEMMA SretKeeps ==
  ASSUME HartInv, exec_SRET
  PROVE  Keeps
<1>1. hart \in Cores
  BY DEF HartInv, HartTypeOK
<1>2. CASE ~LegalSret
  BY <1>2, FaultKeeps, CauseTypes DEF exec_SRET, Illegal
<1>3. CASE LegalSret
  <2> DEFINE st == (hart.status \ ({SIE, SPP} \cup Bit(MPRV, SPP \in hart.status)))
                     \cup Bit(SIE, SPIE \in hart.status) \cup {SPIE}
             mode == IF SPP \in hart.status THEN Supervisor ELSE User
  <2>1. hart' = [hart EXCEPT !.pc = hart.sepc, !.mode = mode, !.status = st]
    BY <1>1, <1>3 DEF exec_SRET
  <2>2. st \in SUBSET StatusBits
    BY <1>1 DEF Cores, Bit, StatusBits
  <2>3. mode \in Modes
    BY DEF Modes
  <2>4. \A b \in {MPP_LO, MPP_HI, MPIE} : b \in st <=> b \in hart.status
    BY DEF Bit, SIE, SPP, MPRV, SPIE, MPP_LO, MPP_HI, MPIE
  <2> HIDE DEF st, mode
  <2>5. hart' \in Cores /\ hart'.mepc = hart.mepc /\ hart'.status = st
    BY <1>1, <2>1, <2>2, <2>3 DEF Cores
  <2>6. MContext(hart') = MContext(hart)
    BY <2>4, <2>5 DEF MContext, mpp
  <2> QED
    BY <1>3, <2>5, <2>6, QuietKeeps DEF exec_SRET, Executes
<1> QED
  BY <1>2, <1>3

LEMMA WfiKeeps ==
  ASSUME HartInv, exec_WFI
  PROVE  Keeps
<1>1. hart \in Cores
  BY DEF HartInv, HartTypeOK
<1>2. CASE TW \in hart.status
  BY <1>2, FaultKeeps, CauseTypes DEF exec_WFI, Illegal
<1>3. CASE TW \notin hart.status
  <2> DEFINE k == Advance(hart, 4)
  <2>1. k \in Cores
    BY <1>1, AdvanceTypeOK
  <2>2. k.mepc = hart.mepc /\ k.sepc = hart.sepc /\ k.status = hart.status
    BY <1>1 DEF Advance, Cores
  <2>3. hart' = [k EXCEPT !.wfi = (k.wfi \/ hart.ip \cap hart.ie = {})]
    BY <1>3, <2>1 DEF exec_WFI
  <2> HIDE DEF k
  <2>4. /\ hart' \in Cores /\ hart'.mepc = k.mepc /\ hart'.sepc = k.sepc
        /\ hart'.status = k.status
    BY <2>1, <2>3 DEF Cores
  <2>5. MContext(hart') = MContext(hart) /\ SContext(hart') = SContext(hart)
    BY <2>2, <2>4 DEF MContext, SContext, mpp
  <2> QED
    BY <1>3, <2>4, <2>5, QuietKeeps DEF exec_WFI, Executes
<1> QED
  BY <1>2, <1>3

LEMMA CsrKeeps ==
  ASSUME HartInv, ExecCsr
  PROVE  Keeps
<1>1. hart \in Cores
  BY DEF HartInv, HartTypeOK
<1>2. PICK w \in CsrWrites : exec_CSR(w[1], w[2], w[3])
  BY DEF ExecCsr
<1>3. CASE ~csr_accessible(w[2])
  BY <1>2, <1>3, FaultKeeps, CauseTypes DEF exec_CSR, Illegal, ExecCsr
<1>4. CASE csr_accessible(w[2])
  <2> DEFINE t == csr_write(hart, w[2], NewValue(w[1], w[2], w[3]))
  <2>1. /\ t \in Cores
        /\ w[2] \notin {"mstatus", "mepc"} => MContext(t) = MContext(hart)
        /\ w[2] \notin {"mstatus", "sstatus", "sepc"} => SContext(t) = SContext(hart)
    BY <1>1, NewValueTypeOK, CsrWriteFacts
  <2>2. /\ hart' = Advance(t, 4)
        /\ mframe' = IF w[2] \in {"mstatus", "mepc"} THEN NoFrame ELSE mframe
        /\ sframe' = IF w[2] \in {"mstatus", "sstatus", "sepc"} THEN NoFrame ELSE sframe
    BY <1>2, <1>4 DEF exec_CSR
  <2> HIDE DEF t
  <2>3. hart' \in Cores
    BY <2>1, <2>2, AdvanceTypeOK
  <2>4. hart'.mepc = t.mepc /\ hart'.sepc = t.sepc /\ hart'.status = t.status
    BY <2>1, <2>2 DEF Advance, Cores
  <2>5. MContext(hart') = MContext(t) /\ SContext(hart') = SContext(t)
    BY <2>4 DEF MContext, SContext, mpp
  <2> QED
    BY <2>1, <2>2, <2>3, <2>5, QuietKeeps DEF ExecCsr, Executes
<1> QED
  BY <1>3, <1>4

(* With FCSR accesses while the unit is off, the types are all that holds. *)
LEMMA FcsrKeeps ==
  ASSUME HartInv, FcsrOff
  PROVE  Keeps
<1>1. hart \in Cores /\ mframe \in Frames /\ sframe \in Frames
  BY DEF HartInv, HartTypeOK
<1> DEFINE once == trap(hart, EXC_ILLEGAL_INSTRUCTION, FALSE)
           twice == trap(once, EXC_ILLEGAL_INSTRUCTION, FALSE)
<1>2. once \in Cores
  BY <1>1, TrapFacts, CauseTypes
<1> HIDE DEF once
<1>3. twice \in Cores
  BY <1>2, TrapFacts, CauseTypes
<1> HIDE DEF twice
<1>4. hart' = Advance(twice, 4) \/ hart' = Advance(once, 4)
  BY DEF FcsrOff, once, twice
<1>5. hart' \in Cores
  BY <1>2, <1>3, <1>4, AdvanceTypeOK
<1>6. SaveFrames(EXC_ILLEGAL_INSTRUCTION, FALSE)
  BY DEF FcsrOff
<1>7. mframe' \in Frames /\ sframe' \in Frames
  BY <1>6, SaveFramesTypeOK DEF HartInv
<1> QED
  BY <1>5, <1>7 DEF FcsrOff, Keeps, HartTypeOK, Executes

LEMMA HartInductive == HartInv /\ [HartNext]_hartVars => HartInv'
<1> SUFFICES ASSUME HartInv, [HartNext]_hartVars PROVE Keeps
  BY KeepsIsInv
<1>0. hart \in Cores
  BY DEF HartInv, HartTypeOK
<1>1. CASE check_ints
  <2>1. PICK irq \in Takeable(hart) : Trap(irq, TRUE)
    BY <1>1 DEF check_ints
  <2>2. irq \in Irqs
    BY <1>0, <2>1 DEF Takeable, m_pending, s_pending, Cores
  <2> QED
    BY <1>1, <2>1, <2>2, TrapKeeps DEF Trap, check_ints
<1>2. CASE TickSleeps
  <2>1. /\ hart' = [hart EXCEPT !.wfi = ~int_local_pending(hart)]
        /\ UNCHANGED <<phase, mframe, sframe>> /\ phase = "ints"
    BY <1>2 DEF TickSleeps
  <2>2. (~int_local_pending(hart)) \in BOOLEAN
    BY DEF int_local_pending
  <2>3. hart' \in Cores /\ hart'.mepc = hart.mepc /\ hart'.sepc = hart.sepc
        /\ hart'.status = hart.status
    BY <1>0, <2>1, <2>2 DEF Cores
  <2>4. MContext(hart') = MContext(hart) /\ SContext(hart') = SContext(hart)
    BY <2>3 DEF MContext, SContext, mpp
  <2> QED
    BY <2>1, <2>3, <2>4, QuietKeeps
<1>3. CASE TickProceeds
  <2>1. ~hart.wfi
    BY <1>3 DEF TickProceeds
  <2> QED
    BY <1>0, <1>3, <2>1, QuietKeeps DEF TickProceeds
<1>4. CASE Instruction
  <2>1. CASE ExecRetires
    BY <2>1, RetireKeeps DEF ExecRetires
  <2>2. CASE ExecJumps
    <3>1. PICK target \in Jumps : hart' = [hart EXCEPT !.pc = target]
      BY <2>2 DEF ExecJumps
    <3>2. target \in Addrs
      BY AddrAssumption
    <3>3. hart' \in Cores /\ hart'.mepc = hart.mepc /\ hart'.sepc = hart.sepc
          /\ hart'.status = hart.status
      BY <1>0, <3>1, <3>2 DEF Cores
    <3>4. MContext(hart') = MContext(hart) /\ SContext(hart') = SContext(hart)
      BY <3>3 DEF MContext, SContext, mpp
    <3> QED
      BY <2>2, <3>3, <3>4, QuietKeeps DEF ExecJumps, Executes
  <2>3. CASE ExecFaults
    BY <2>3, FaultKeeps DEF ExecFaults
  <2>4. CASE exec_ECALL
    BY <1>0, <2>4, FaultKeeps, CauseTypes DEF exec_ECALL, Cores
  <2>5. CASE exec_MRET
    BY <2>5, MretKeeps
  <2>6. CASE exec_SRET
    BY <2>6, SretKeeps
  <2>7. CASE exec_SFENCE_VMA
    BY <2>7, FaultKeeps, RetireKeeps, CauseTypes DEF exec_SFENCE_VMA, Illegal
  <2>8. CASE exec_WFI
    BY <2>8, WfiKeeps
  <2>9. CASE ExecCsr
    BY <2>9, CsrKeeps
  <2>10. CASE FetchFault
    BY <2>10, TrapKeeps, CauseTypes DEF FetchFault, Executes
  <2>11. CASE FcsrOff
    BY <2>11, FcsrKeeps
  <2> QED
    BY <1>4, <2>1, <2>2, <2>3, <2>4, <2>5, <2>6, <2>7, <2>8, <2>9, <2>10, <2>11
    DEF Instruction
<1>5. CASE DeviceDrivesIp
  <2>1. PICK new \in SUBSET Irqs : hart' = [hart EXCEPT !.ip = new]
    <3>1. PICK irq \in Lines, on \in BOOLEAN :
            hart' = [hart EXCEPT !.ip = IF on THEN @ \cup {irq} ELSE @ \ {irq}]
      BY <1>5 DEF DeviceDrivesIp
    <3>2. (IF on THEN hart.ip \cup {irq} ELSE hart.ip \ {irq}) \in SUBSET Irqs
      BY <1>0, IrqsAssumption DEF Cores
    <3> QED
      BY <3>1, <3>2
  <2>2. hart' \in Cores /\ hart'.mepc = hart.mepc /\ hart'.sepc = hart.sepc
        /\ hart'.status = hart.status /\ hart'.wfi = hart.wfi
    BY <1>0, <2>1 DEF Cores
  <2>3. MContext(hart') = MContext(hart) /\ SContext(hart') = SContext(hart)
    BY <2>2 DEF MContext, SContext, mpp
  <2> QED
    BY <1>5, <2>2, <2>3, QuietKeeps DEF DeviceDrivesIp, HartInv, HartTypeOK
<1>6. CASE UNCHANGED hartVars
  BY <1>0, <1>6, QuietKeeps DEF hartVars, HartInv, HartTypeOK
<1> QED
  BY <1>1, <1>2, <1>3, <1>4, <1>5, <1>6 DEF HartNext, tick

LEMMA HartInitInv == HartInit => HartInv
<1> SUFFICES ASSUME HartInit PROVE HartInv
  OBVIOUS
<1>1. hart \in Cores /\ phase = "ints" /\ mframe = NoFrame /\ sframe = NoFrame
  BY BootAssumption DEF HartInit
<1>2. NoFrame \in Frames /\ ~NoFrame.saved
  BY AddrAssumption DEF NoFrame, Frames, Addrs, Modes
<1> QED
  BY <1>1, <1>2 DEF HartInv, HartTypeOK, FramesHoldWithoutFcsr, FramesHold

(* Whatever interrupts, exceptions, CSR instructions and returns happen,   *)
(* the registers have their types, the hart runs no instruction while it   *)
(* sleeps, and as long as FCSR is not touched with the unit off, the saved *)
(* context of each level is the one that its last trap interrupted.        *)
THEOREM HartInvHolds == HartSpec => []HartInv
<1>1. HartInit => HartInv
  BY HartInitInv
<1>2. HartInv /\ [HartNext]_hartVars => HartInv'
  BY HartInductive
<1> QED
  BY <1>1, <1>2, PTL DEF HartSpec

-----------------------------------------------------------------------------
(* What exec_MRET and a legal exec_SRET restore, in a state where the      *)
(* saved contexts hold.                                                    *)
ResumesStep ==
  /\ exec_MRET /\ mframe.saved =>
       /\ hart'.pc = mframe.pc /\ hart'.mode = mframe.mode
       /\ MIE \in hart'.status <=> mframe.ie
  /\ exec_SRET /\ LegalSret /\ sframe.saved =>
       /\ hart'.pc = sframe.pc /\ hart'.mode = sframe.mode
       /\ SIE \in hart'.status <=> sframe.ie

LEMMA ResumesFromFrames ==
  ASSUME HartInv, FramesHold
  PROVE  ResumesStep
<1>1. hart \in Cores /\ mframe \in Frames /\ sframe \in Frames
  BY DEF HartInv, HartTypeOK
<1>2. ASSUME exec_MRET, mframe.saved
      PROVE  /\ hart'.pc = mframe.pc /\ hart'.mode = mframe.mode
             /\ MIE \in hart'.status <=> mframe.ie
  <2>1. /\ hart.mepc = mframe.pc /\ mpp(hart) = mframe.mode
        /\ MPIE \in hart.status <=> mframe.ie
    BY <1>2 DEF FramesHold
  <2>2. mpp(hart) # 2
    BY <1>1, <2>1 DEF Frames, Modes, User, Supervisor, Machine
  <2> DEFINE st == (hart.status \ ({MIE, MPP_LO, MPP_HI}
                                     \cup Bit(MPRV, mpp(hart) \in {User, Supervisor})))
                     \cup Bit(MIE, MPIE \in hart.status) \cup {MPIE}
  <2>3. hart' = [hart EXCEPT !.pc = hart.mepc, !.mode = mpp(hart), !.status = st]
    BY <1>1, <1>2, <2>2 DEF exec_MRET
  <2>4. MIE \in st <=> MPIE \in hart.status
    BY DEF Bit, MIE, MPIE, MPP_LO, MPP_HI, MPRV
  <2> HIDE DEF st
  <2>5. hart'.pc = hart.mepc /\ hart'.mode = mpp(hart) /\ hart'.status = st
    BY <1>1, <2>3 DEF Cores
  <2> QED
    BY <2>1, <2>4, <2>5
<1>3. ASSUME exec_SRET, LegalSret, sframe.saved
      PROVE  /\ hart'.pc = sframe.pc /\ hart'.mode = sframe.mode
             /\ SIE \in hart'.status <=> sframe.ie
  <2>1. /\ hart.sepc = sframe.pc /\ sframe.mode # Machine
        /\ SPP \in hart.status <=> sframe.mode = Supervisor
        /\ SPIE \in hart.status <=> sframe.ie
    BY <1>3 DEF FramesHold
  <2>2. sframe.mode = IF SPP \in hart.status THEN Supervisor ELSE User
    BY <1>1, <2>1 DEF Frames, Modes, User, Supervisor, Machine
  <2> DEFINE st == (hart.status \ ({SIE, SPP} \cup Bit(MPRV, SPP \in hart.status)))
                     \cup Bit(SIE, SPIE \in hart.status) \cup {SPIE}
             mode == IF SPP \in hart.status THEN Supervisor ELSE User
  <2>3. hart' = [hart EXCEPT !.pc = hart.sepc, !.mode = mode, !.status = st]
    BY <1>1, <1>3 DEF exec_SRET
  <2>4. SIE \in st <=> SPIE \in hart.status
    BY DEF Bit, SIE, SPP, SPIE, MPRV
  <2> HIDE DEF st, mode
  <2>5. hart'.pc = hart.sepc /\ hart'.mode = mode /\ hart'.status = st
    BY <1>1, <2>3 DEF Cores
  <2> QED
    BY <2>1, <2>2, <2>4, <2>5 DEF mode
<1> QED
  BY <1>2, <1>3 DEF ResumesStep

(* While FCSR is not touched with the unit off, traps are transparent: a   *)
(* return whose context software has not replaced resumes what the trap    *)
(* interrupted.                                                            *)
THEOREM TrapsAreTransparent ==
  ASSUME "fcsr" \notin Quirks
  PROVE  HartSpec => ReturnResumes
<1>1. HartInv /\ [HartNext]_hartVars => [ResumesStep]_hartVars
  <2> SUFFICES ASSUME HartInv, [HartNext]_hartVars PROVE ResumesStep
    OBVIOUS
  <2> QED
    BY ResumesFromFrames DEF HartInv, FramesHoldWithoutFcsr
<1> QED
  BY <1>1, HartInvHolds, PTL DEF HartSpec, ReturnResumes, ResumesStep

-----------------------------------------------------------------------------
(* What a step outside M-mode leaves alone, and how it gets into M-mode. *)
Confined ==
  hart.mode # Machine =>
    /\ MachineOnly(hart') = MachineOnly(hart)
    /\ phase' # phase => hart'.ip \ SE_MASK = hart.ip \ SE_MASK
    /\ \/ StaysBelow(hart, hart')
       \/ EntersHandler(hart, hart') /\ (FcsrOff \/ SavesContext(hart, hart'))
       \/ exec_MRET /\ MretBelow(hart, hart')

(* A step that keeps these fields is confined. *)
LEMMA FieldsConfined ==
  ASSUME NEW k, NEW t,
         t.mideleg = k.mideleg, t.medeleg = k.medeleg, t.mtvec = k.mtvec, t.ie = k.ie,
         t.mode = k.mode, t.mepc = k.mepc, t.mcause = k.mcause, t.status = k.status
  PROVE  /\ MachineOnly(t) = MachineOnly(k)
         /\ k.mode # Machine => StaysBelow(k, t)
BY DEF MachineOnly, StaysBelow

LEMMA MachineOnlyFields ==
  ASSUME NEW k, NEW t,
         t.mideleg = k.mideleg, t.medeleg = k.medeleg, t.mtvec = k.mtvec, t.ie = k.ie,
         \A b \in {TVM, TW, TSR} : b \in t.status <=> b \in k.status
  PROVE  MachineOnly(t) = MachineOnly(k)
BY DEF MachineOnly

LEMMA AdvanceConfined ==
  ASSUME NEW k \in Cores, NEW size \in Nat
  PROVE  LET t == Advance(k, size)
         IN  /\ MachineOnly(t) = MachineOnly(k) /\ t.ip = k.ip
             /\ k.mode # Machine => StaysBelow(k, t)
<1> DEFINE t == Advance(k, size)
<1>1. /\ t.mideleg = k.mideleg /\ t.medeleg = k.medeleg /\ t.mtvec = k.mtvec
      /\ t.ie = k.ie /\ t.status = k.status /\ t.ip = k.ip
      /\ t.mode = k.mode /\ t.mepc = k.mepc /\ t.mcause = k.mcause
  BY DEF Advance, Cores
<1> HIDE DEF t
<1>2. MachineOnly(t) = MachineOnly(k) /\ (k.mode # Machine => StaysBelow(k, t))
  BY <1>1, FieldsConfined
<1> QED
  BY <1>1, <1>2 DEF t

(* A trap taken below M-mode, up to its address: to S-mode it stays below, *)
(* to M-mode it saves the context and arrives at the handler.              *)
ArrivesAt(k, t) ==
  /\ t.mode = Machine /\ MIE \notin t.status
  /\ MPRV \in t.status <=> MPRV \in k.status
  /\ t.pc = vector(k.mtvec, t.mcause[2], t.mcause[1])

LEMMA TrapConfined ==
  ASSUME NEW k \in Cores, NEW interrupt \in BOOLEAN,
         NEW cause \in (IF interrupt THEN Irqs ELSE Excs)
  PROVE  LET t == trap(k, cause, interrupt)
         IN  /\ t \in Cores /\ MachineOnly(t) = MachineOnly(k) /\ t.ip = k.ip
             /\ t.mtvec = k.mtvec
             /\ delegate_to_s(k, cause, interrupt) => StaysBelow(k, t)
             /\ ~delegate_to_s(k, cause, interrupt) => ArrivesAt(k, t) /\ SavesContext(k, t)
<1> DEFINE t == trap(k, cause, interrupt)
<1>1. t \in Cores /\ MachineOnly(t) = MachineOnly(k)
  BY TrapFacts
<1>2. CASE delegate_to_s(k, cause, interrupt)
  <2> DEFINE st == (k.status \ {SPIE, SIE, SPP})
                     \cup Bit(SPIE, SIE \in k.status) \cup Bit(SPP, k.mode # User)
  <2>1. t = [k EXCEPT
          !.wfi = FALSE, !.mode = Supervisor, !.pc = vector(k.stvec, cause, interrupt),
          !.sepc = k.pc, !.scause = <<interrupt, cause>>, !.status = st]
    BY <1>2 DEF trap
  <2>2. \A b \in {MIE, MPIE, MPP_LO, MPP_HI, MPRV} : b \in st <=> b \in k.status
    BY DEF Bit, MPP_LO, MPP_HI, MPIE, MIE, MPRV, SPIE, SIE, SPP
  <2> HIDE DEF st, t
  <2>3. /\ t.mode = Supervisor /\ t.mepc = k.mepc /\ t.mcause = k.mcause /\ t.status = st
        /\ t.ip = k.ip /\ t.mtvec = k.mtvec
    BY <2>1 DEF Cores
  <2>4. StaysBelow(k, t)
    BY <2>2, <2>3 DEF StaysBelow, Supervisor, Machine
  <2> QED
    BY <1>1, <1>2, <2>3, <2>4 DEF t
<1>3. CASE ~delegate_to_s(k, cause, interrupt)
  <2> DEFINE st == (k.status \ {MPIE, MIE, MPP_LO, MPP_HI})
                     \cup Bit(MPIE, MIE \in k.status)
                     \cup Bit(MPP_LO, k.mode # User) \cup Bit(MPP_HI, k.mode = Machine)
  <2>1. t = [k EXCEPT
          !.wfi = FALSE, !.mode = Machine, !.pc = vector(k.mtvec, cause, interrupt),
          !.mepc = k.pc, !.mcause = <<interrupt, cause>>, !.status = st]
    BY <1>3 DEF trap
  <2>2. MIE \notin st /\ (MPRV \in st <=> MPRV \in k.status)
    BY DEF Bit, MPP_LO, MPP_HI, MPIE, MIE, MPRV
  <2>3. MContext(t) = <<k.pc, k.mode, MIE \in k.status>>
    BY <1>3, TrapFacts
  <2> HIDE DEF st, t
  <2>4. /\ t.mode = Machine /\ t.mcause = <<interrupt, cause>> /\ t.status = st
        /\ t.ip = k.ip /\ t.mtvec = k.mtvec /\ t.pc = vector(k.mtvec, cause, interrupt)
    BY <2>1 DEF Cores
  <2>5. t.mcause[2] = cause /\ t.mcause[1] = interrupt
    BY <2>4
  <2>6. ArrivesAt(k, t)
    BY <2>2, <2>4, <2>5 DEF ArrivesAt
  <2>7. SavesContext(k, t)
    BY <2>3 DEF MContext, SavesContext
  <2> QED
    BY <1>1, <1>3, <2>4, <2>6, <2>7 DEF t
<1> QED
  BY <1>2, <1>3

(* An instruction or nothing later, the handler has been entered. *)
LEMMA ArrivesIsEnters ==
  ASSUME NEW k \in Cores, NEW t \in Cores, ArrivesAt(k, t)
  PROVE  /\ EntersHandler(k, t)
         /\ \A size \in {2, 4} :
              /\ EntersHandler(k, Advance(t, size))
              /\ SavesContext(k, t) => SavesContext(k, Advance(t, size))
<1>1. t.pc \in Nat /\ t.pc < AddrLimit
  BY AddrAssumption DEF Cores, Addrs
<1>2. t.pc = (t.pc + 0) % AddrLimit
  BY <1>1, AddrAssumption
<1>3. EntersHandler(k, t)
  BY <1>2 DEF EntersHandler, ArrivesAt
<1>4. ASSUME NEW size \in {2, 4}
      PROVE  /\ EntersHandler(k, Advance(t, size))
             /\ SavesContext(k, t) => SavesContext(k, Advance(t, size))
  <2> DEFINE u == Advance(t, size)
  <2>1. /\ u.mode = t.mode /\ u.status = t.status /\ u.mcause = t.mcause /\ u.mepc = t.mepc
        /\ u.pc = (t.pc + size) % AddrLimit
    BY DEF Advance, Cores
  <2> HIDE DEF u
  <2>2. EntersHandler(k, u)
    BY <2>1 DEF EntersHandler, ArrivesAt
  <2>3. SavesContext(k, t) => SavesContext(k, u)
    BY <2>1 DEF SavesContext, mpp
  <2> QED
    BY <2>2, <2>3 DEF u
<1> QED
  BY <1>3, <1>4

(* Every trap that an instruction or an interrupt takes is confined. *)
LEMMA TrapStepConfined ==
  ASSUME hart \in Cores, NEW interrupt \in BOOLEAN,
         NEW cause \in (IF interrupt THEN Irqs ELSE Excs), Trap(cause, interrupt)
  PROVE  Confined
<1> DEFINE t == trap(hart, cause, interrupt)
<1>1. /\ t \in Cores /\ MachineOnly(t) = MachineOnly(hart) /\ t.ip = hart.ip
      /\ delegate_to_s(hart, cause, interrupt) => StaysBelow(hart, t)
      /\ ~delegate_to_s(hart, cause, interrupt) => ArrivesAt(hart, t) /\ SavesContext(hart, t)
  BY TrapConfined
<1>2. hart' = t
  BY DEF Trap
<1> HIDE DEF t
<1> QED
  BY <1>1, <1>2, ArrivesIsEnters DEF Confined

LEMMA IllegalConfined ==
  ASSUME hart \in Cores, Illegal
  PROVE  Confined
BY TrapStepConfined, CauseTypes DEF Illegal

LEMMA MretConfined ==
  ASSUME hart \in Cores, exec_MRET
  PROVE  Confined
<1> DEFINE st == (hart.status \ ({MIE, MPP_LO, MPP_HI}
                                   \cup Bit(MPRV, mpp(hart) \in {User, Supervisor})))
                   \cup Bit(MIE, MPIE \in hart.status) \cup {MPIE}
           mode == IF mpp(hart) = 2 THEN hart.mode ELSE mpp(hart)
<1>1. hart' = [hart EXCEPT !.pc = hart.mepc, !.mode = mode, !.status = st]
  BY DEF exec_MRET
<1>2. /\ \A b \in {TVM, TW, TSR} : b \in st <=> b \in hart.status
      /\ MPP_LO \notin st /\ MPP_HI \notin st /\ (MPRV \in st => MPRV \in hart.status)
  BY DEF Bit, MIE, MPP_LO, MPP_HI, MPRV, MPIE, TVM, TW, TSR
<1> HIDE DEF st
<1>3. /\ hart'.mideleg = hart.mideleg /\ hart'.medeleg = hart.medeleg
      /\ hart'.mtvec = hart.mtvec /\ hart'.ie = hart.ie /\ hart'.status = st
      /\ hart'.ip = hart.ip /\ hart'.pc = hart.mepc /\ hart'.mepc = hart.mepc
      /\ hart'.mcause = hart.mcause /\ hart'.mode = mode
  <2> HIDE DEF mode
  <2> QED
    BY <1>1 DEF Cores
<1>4. mpp(hart') = User
  BY <1>2, <1>3 DEF mpp, User
<1>5. MretBelow(hart, hart')
  BY <1>2, <1>3, <1>4 DEF MretBelow
<1>6. MachineOnly(hart') = MachineOnly(hart)
  BY <1>2, <1>3, MachineOnlyFields
<1> QED
  BY <1>3, <1>5, <1>6 DEF Confined

LEMMA SretConfined ==
  ASSUME hart \in Cores, exec_SRET
  PROVE  Confined
<1>1. CASE ~LegalSret
  BY <1>1, IllegalConfined DEF exec_SRET
<1>2. CASE LegalSret
  <2> DEFINE st == (hart.status \ ({SIE, SPP} \cup Bit(MPRV, SPP \in hart.status)))
                     \cup Bit(SIE, SPIE \in hart.status) \cup {SPIE}
             mode == IF SPP \in hart.status THEN Supervisor ELSE User
  <2>1. hart' = [hart EXCEPT !.pc = hart.sepc, !.mode = mode, !.status = st]
    BY <1>2 DEF exec_SRET
  <2>2. /\ \A b \in {TVM, TW, TSR} : b \in st <=> b \in hart.status
        /\ \A b \in {MIE, MPIE, MPP_LO, MPP_HI} : b \in st <=> b \in hart.status
        /\ MPRV \in st => MPRV \in hart.status
    BY DEF Bit, SIE, SPP, MPRV, SPIE, TVM, TW, TSR, MIE, MPIE, MPP_LO, MPP_HI
  <2>3. mode # Machine
    BY DEF User, Supervisor, Machine
  <2> HIDE DEF st, mode
  <2>4. /\ hart'.mideleg = hart.mideleg /\ hart'.medeleg = hart.medeleg
        /\ hart'.mtvec = hart.mtvec /\ hart'.ie = hart.ie /\ hart'.status = st
        /\ hart'.ip = hart.ip /\ hart'.mepc = hart.mepc
        /\ hart'.mcause = hart.mcause /\ hart'.mode = mode
    BY <2>1 DEF Cores
  <2>5. StaysBelow(hart, hart')
    BY <2>2, <2>3, <2>4 DEF StaysBelow
  <2>6. MachineOnly(hart') = MachineOnly(hart)
    BY <2>2, <2>4, MachineOnlyFields
  <2> QED
    BY <2>4, <2>5, <2>6 DEF Confined
<1> QED
  BY <1>1, <1>2

(* Outside M-mode the accessible registers are the ones of S-mode. *)
LEMMA CsrConfined ==
  ASSUME hart \in Cores, ExecCsr
  PROVE  Confined
<1> SUFFICES ASSUME hart.mode # Machine PROVE Confined
  BY DEF Confined
<1>1. PICK w \in CsrWrites : exec_CSR(w[1], w[2], w[3])
  BY DEF ExecCsr
<1>2. CASE ~csr_accessible(w[2])
  BY <1>1, <1>2, IllegalConfined DEF exec_CSR
<1>3. CASE csr_accessible(w[2])
  <2>1. csr_level(w[2]) = Supervisor
    BY <1>3 DEF csr_accessible, csr_level, Cores, Modes, User, Supervisor, Machine
  <2> DEFINE t == csr_write(hart, w[2], NewValue(w[1], w[2], w[3]))
  <2>2. /\ t \in Cores /\ MachineOnly(t) = MachineOnly(hart)
        /\ t.ip \ SE_MASK = hart.ip \ SE_MASK /\ SameBelow(hart, t)
    BY <2>1, NewValueTypeOK, CsrWriteFacts
  <2>3. hart' = Advance(t, 4)
    BY <1>1, <1>3 DEF exec_CSR
  <2> HIDE DEF t
  <2>4. MachineOnly(hart') = MachineOnly(t) /\ hart'.ip = t.ip
    BY <2>2, <2>3, AdvanceConfined
  <2>5. StaysBelow(hart, hart')
    <3>1. /\ hart'.mode = t.mode /\ hart'.mepc = t.mepc /\ hart'.mcause = t.mcause
          /\ hart'.status = t.status
      BY <2>2, <2>3 DEF Advance, Cores
    <3> QED
      BY <2>2, <3>1 DEF SameBelow, StaysBelow
  <2> QED
    BY <2>2, <2>4, <2>5 DEF Confined
<1> QED
  BY <1>2, <1>3

(* The second trap of FcsrOff goes where the first went: to S-mode again,  *)
(* or within the M-mode handler, where it overwrites the saved context.    *)
LEMMA FcsrConfined ==
  ASSUME hart \in Cores, FcsrOff
  PROVE  Confined
<1> SUFFICES ASSUME hart.mode # Machine PROVE Confined
  BY DEF Confined
<1> DEFINE illegal == EXC_ILLEGAL_INSTRUCTION
           once == trap(hart, illegal, FALSE)
           twice == trap(once, illegal, FALSE)
<1>0. illegal \in Excs /\ FALSE \in BOOLEAN
  BY CauseTypes
<1>1. /\ once \in Cores /\ MachineOnly(once) = MachineOnly(hart) /\ once.ip = hart.ip
      /\ once.mtvec = hart.mtvec
      /\ delegate_to_s(hart, illegal, FALSE) => StaysBelow(hart, once)
      /\ ~delegate_to_s(hart, illegal, FALSE) => ArrivesAt(hart, once)
  <2> HIDE DEF illegal
  <2> QED
    BY <1>0, TrapConfined
<1>2. hart' = Advance(twice, 4) \/ hart' = Advance(once, 4)
  BY DEF FcsrOff
<1> HIDE DEF once
<1>3. /\ twice \in Cores /\ MachineOnly(twice) = MachineOnly(once) /\ twice.ip = once.ip
      /\ delegate_to_s(once, illegal, FALSE) => StaysBelow(once, twice)
      /\ ~delegate_to_s(once, illegal, FALSE) => ArrivesAt(once, twice)
  <2> HIDE DEF illegal
  <2> QED
    BY <1>0, <1>1, TrapConfined
<1>4. once.medeleg = hart.medeleg
  BY <1>1 DEF MachineOnly
<1> HIDE DEF twice, illegal
<1>5. MachineOnly(hart') = MachineOnly(hart) /\ hart'.ip = hart.ip
  BY <1>1, <1>2, <1>3, AdvanceConfined
<1>6. CASE delegate_to_s(hart, illegal, FALSE)
  <2>1. StaysBelow(hart, once) /\ once.mode # Machine
    BY <1>1, <1>6 DEF StaysBelow
  <2>2. StaysBelow(once, twice) /\ twice.mode # Machine
    BY <1>3, <1>4, <1>6, <2>1 DEF delegate_to_s, StaysBelow
  <2>3. StaysBelow(once, Advance(once, 4)) /\ StaysBelow(twice, Advance(twice, 4))
    BY <1>1, <1>3, <2>1, <2>2, AdvanceConfined
  <2>4. StaysBelow(hart, hart')
    BY <1>2, <2>1, <2>2, <2>3 DEF StaysBelow
  <2> QED
    BY <1>5, <2>4 DEF Confined
<1>7. CASE ~delegate_to_s(hart, illegal, FALSE)
  <2>1. ArrivesAt(hart, once)
    BY <1>1, <1>7
  <2>2. ArrivesAt(once, twice)
    BY <1>3, <2>1 DEF ArrivesAt, delegate_to_s
  <2>3. ArrivesAt(hart, twice)
    BY <1>1, <2>1, <2>2 DEF ArrivesAt
  <2>4. EntersHandler(hart, hart')
    BY <1>1, <1>2, <1>3, <2>1, <2>3, ArrivesIsEnters
  <2> QED
    BY <1>5, <2>4 DEF Confined
<1> QED
  BY <1>6, <1>7

LEMMA StepConfined ==
  ASSUME HartInv, [HartNext]_hartVars
  PROVE  Confined
<1>0. hart \in Cores
  BY DEF HartInv, HartTypeOK
<1>1. CASE check_ints
  <2>1. PICK irq \in Takeable(hart) : Trap(irq, TRUE)
    BY <1>1 DEF check_ints
  <2>2. irq \in Irqs
    BY <1>0, <2>1 DEF Takeable, m_pending, s_pending, Cores
  <2> QED
    BY <1>0, <2>1, <2>2, TrapStepConfined
<1>2. CASE TickSleeps \/ TickProceeds \/ DeviceDrivesIp \/ ExecJumps \/ UNCHANGED hartVars
  <2>1. /\ hart'.mideleg = hart.mideleg /\ hart'.medeleg = hart.medeleg
        /\ hart'.mtvec = hart.mtvec /\ hart'.ie = hart.ie /\ hart'.status = hart.status
        /\ hart'.mode = hart.mode /\ hart'.mepc = hart.mepc /\ hart'.mcause = hart.mcause
    BY <1>0, <1>2 DEF TickSleeps, TickProceeds, DeviceDrivesIp, ExecJumps, hartVars, Cores
  <2>2. phase' # phase => hart'.ip = hart.ip
    BY <1>0, <1>2 DEF TickSleeps, TickProceeds, DeviceDrivesIp, ExecJumps, hartVars, Cores
  <2> QED
    BY <2>1, <2>2, FieldsConfined DEF Confined
<1>3. CASE ExecRetires
  BY <1>0, <1>3, AdvanceConfined DEF ExecRetires, Retire, Confined
<1>4. CASE ExecFaults
  BY <1>0, <1>4, TrapStepConfined DEF ExecFaults
<1>5. CASE exec_ECALL
  <2>1. EXC_ENV_CALL(hart.mode) \in Excs
    BY <1>0, CauseTypes DEF Cores
  <2> QED
    BY <1>0, <1>5, <2>1, TrapStepConfined DEF exec_ECALL
<1>6. CASE exec_SFENCE_VMA
  <2>1. CASE Illegal
    BY <1>0, <2>1, IllegalConfined
  <2>2. CASE Retire(4)
    BY <1>0, <2>2, AdvanceConfined DEF Retire, Confined
  <2> QED
    BY <1>6, <2>1, <2>2 DEF exec_SFENCE_VMA
<1>7. CASE exec_WFI
  <2>1. CASE TW \in hart.status
    BY <1>0, <1>7, <2>1, IllegalConfined DEF exec_WFI
  <2>2. CASE TW \notin hart.status
    <3> DEFINE k == Advance(hart, 4)
    <3>1. k \in Cores
      BY <1>0, AdvanceTypeOK
    <3>2. hart' = [k EXCEPT !.wfi = (k.wfi \/ hart.ip \cap hart.ie = {})]
      BY <1>7, <2>2, <3>1 DEF exec_WFI
    <3>3. /\ k.mideleg = hart.mideleg /\ k.medeleg = hart.medeleg
          /\ k.mtvec = hart.mtvec /\ k.ie = hart.ie /\ k.status = hart.status
          /\ k.mode = hart.mode /\ k.mepc = hart.mepc /\ k.mcause = hart.mcause
          /\ k.ip = hart.ip
      BY <1>0 DEF Advance, Cores
    <3> HIDE DEF k
    <3>4. /\ hart'.mideleg = k.mideleg /\ hart'.medeleg = k.medeleg
          /\ hart'.mtvec = k.mtvec /\ hart'.ie = k.ie /\ hart'.status = k.status
          /\ hart'.mode = k.mode /\ hart'.mepc = k.mepc /\ hart'.mcause = k.mcause
          /\ hart'.ip = k.ip
      BY <3>1, <3>2 DEF Cores
    <3> QED
      BY <3>3, <3>4, FieldsConfined DEF Confined
  <2> QED
    BY <2>1, <2>2
<1>8. CASE FetchFault
  <2> DEFINE t == trap(hart, EXC_INST_ACCESS_FAULT, FALSE)
             toS == delegate_to_s(hart, EXC_INST_ACCESS_FAULT, FALSE)
  <2>0. EXC_INST_ACCESS_FAULT \in Excs
    BY CauseTypes
  <2>1. /\ t \in Cores /\ MachineOnly(t) = MachineOnly(hart) /\ t.ip = hart.ip
        /\ toS => StaysBelow(hart, t)
        /\ ~toS => ArrivesAt(hart, t) /\ SavesContext(hart, t)
    BY <1>0, <2>0, TrapConfined
  <2>2. hart' = Advance(t, 2)
    BY <1>8 DEF FetchFault
  <2> HIDE DEF t, toS
  <2>3. MachineOnly(hart') = MachineOnly(hart) /\ hart'.ip = hart.ip
    BY <2>1, <2>2, AdvanceConfined
  <2>4. CASE toS
    <3>1. StaysBelow(t, hart')
      BY <2>1, <2>2, <2>4, AdvanceConfined DEF StaysBelow
    <3>2. StaysBelow(hart, hart')
      BY <2>1, <2>4, <3>1 DEF StaysBelow
    <3> QED
      BY <2>3, <3>2 DEF Confined
  <2>5. CASE ~toS
    <3>1. EntersHandler(hart, hart') /\ SavesContext(hart, hart')
      BY <1>0, <2>1, <2>2, <2>5, ArrivesIsEnters
    <3> QED
      BY <2>3, <3>1 DEF Confined
  <2> QED
    BY <2>4, <2>5
<1> QED
  BY <1>0, <1>1, <1>2, <1>3, <1>4, <1>5, <1>6, <1>7, <1>8,
     MretConfined, SretConfined, CsrConfined, FcsrConfined
  DEF HartNext, tick, Instruction

(* Outside M-mode no instruction, trap, return or interrupt changes the    *)
(* delegation, the M-mode handler, the bits that restrict S-mode or the    *)
(* enables and pending bits that S-mode does not see; and but for          *)
(* exec_MRET, which checks no mode, M-mode and its trap context are only   *)
(* reached through a trap to the M-mode handler.                           *)
THEOREM MachineStateStaysPut == HartSpec => MachineStateIsConfined
<1>1. HartInv /\ [HartNext]_hartVars => [Confined]_hartVars
  BY StepConfined
<1> QED
  BY <1>1, HartInvHolds, PTL DEF HartSpec, MachineStateIsConfined, Confined
=============================================================================
