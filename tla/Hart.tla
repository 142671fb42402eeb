-------------------------------- MODULE Hart --------------------------------
(***************************************************************************)
(* One hart: Hart::tick, the traps and the privileged instructions         *)
(* (src/src/hart.cpp, src/src/sets/priv.cpp, src/src/sets/zicsr.cpp).      *)
(*                                                                         *)
(* A tick first looks for an interrupt (check_ints) and for the end of a   *)
(* WFI, and then runs one instruction, in the handler if an interrupt was  *)
(* just taken.  The two halves are two steps, since the other threads of   *)
(* the emulator change ip whenever they like.                              *)
(*                                                                         *)
(* The instruction is an input: what the guest runs is any sequence of the *)
(* instructions below.  Registers and memory are left out, as are tval and *)
(* the CSRs that decide nothing about traps.  A status, enable, pending or *)
(* delegation register is the set of its bits, addresses are taken modulo  *)
(* AddrLimit, and the translated blocks of the JIT are not modelled here.  *)
(***************************************************************************)
EXTENDS Naturals

CONSTANTS
  Irqs,        \* the interrupt bits that ie and ip hold
  Excs,        \* the exceptions that instructions raise
  AddrLimit,   \* addresses are below this (2^64)
  Lines,       \* the interrupt bits that the devices drive
  Jumps,       \* the targets of the guest's jumps
  CsrWrites,   \* <<op, csr, operand>>: the CSR instructions of the guest
  BootStates,  \* what the hart's memory may hold when the machine starts
  Quirks       \* the unusual events that happen, see FetchFault and FcsrOff

User == 0
Supervisor == 1
Machine == 3
Modes == {User, Supervisor, Machine}

(* mcause and scause codes that the hart raises by itself. *)
EXC_INST_ACCESS_FAULT == 1
EXC_ILLEGAL_INSTRUCTION == 2
EXC_ENV_CALL(mode) == 8 + mode

(* The bits of mstatus that matter; FS is one bit, on or off. *)
SIE == 1
MIE == 3
SPIE == 5
MPIE == 7
SPP == 8
MPP_LO == 11
MPP_HI == 12
FS == 13
MPRV == 17
TVM == 20
TW == 21
TSR == 22
StatusBits == {SIE, MIE, SPIE, MPIE, SPP, MPP_LO, MPP_HI, FS, MPRV, TVM, TW, TSR}
SSTATUS_MASK == {SIE, SPIE, SPP, FS}
SE_MASK == {1, 5, 9}

(* irq_priority, the most urgent first. *)
IrqOrder == <<11, 9, 3, 1, 7, 5>>
Listed == {11, 9, 3, 1, 7, 5}
Rank(irq) == CHOOSE n \in 1 .. 6 : IrqOrder[n] = irq
Addrs == 0 .. (AddrLimit - 1)

SetCsrs == {"mstatus", "sstatus", "mie", "sie", "mip", "sip", "mideleg", "medeleg"}
AddrCsrs == {"mtvec", "stvec", "mepc", "sepc"}
OtherCsrs == {"satp"}

Causes == BOOLEAN \X (Irqs \cup Excs)

Cores ==
  [mode : Modes, pc : Addrs, status : SUBSET StatusBits, ie : SUBSET Irqs,
   ip : SUBSET Irqs, mideleg : SUBSET Irqs, medeleg : SUBSET Excs,
   mtvec : Addrs, stvec : Addrs, mepc : Addrs, sepc : Addrs,
   mcause : Causes, scause : Causes, wfi : BOOLEAN]

(* The values of a set-valued CSR, as far as they are modelled. *)
CsrBits(csr) ==
  IF csr \in {"mstatus", "sstatus"} THEN StatusBits
  ELSE IF csr = "medeleg" THEN Excs ELSE Irqs

ASSUME IrqsAssumption == Irqs \subseteq 0 .. 15 /\ Lines \subseteq Irqs
ASSUME ExcsAssumption ==
  /\ Excs \subseteq 0 .. 15
  /\ {EXC_INST_ACCESS_FAULT, EXC_ILLEGAL_INSTRUCTION} \subseteq Excs
  /\ {EXC_ENV_CALL(mode) : mode \in Modes} \subseteq Excs
ASSUME AddrAssumption == AddrLimit \in Nat \ {0} /\ Jumps \subseteq Addrs
ASSUME CsrWritesAssumption ==
  \A w \in CsrWrites :
    \/ /\ w[1] \in {"RW", "RS", "RC"} /\ w[2] \in SetCsrs
       /\ w[3] \in SUBSET CsrBits(w[2])
    \/ w[1] = "RW" /\ w[2] \in AddrCsrs /\ w[3] \in Addrs
    \/ w[2] \in OtherCsrs
ASSUME BootAssumption ==
  BootStates \subseteq {k \in Cores : k.mode = Machine /\ ~k.wfi}

VARIABLES
  hart,      \* the registers of the hart
  phase,     \* the half of the tick that comes next
  mframe,    \* history: what the last trap to M-mode interrupted
  sframe     \* history: what the last trap to S-mode interrupted

hartVars == <<hart, phase, mframe, sframe>>

(* The interrupted context, or that software has since replaced the saved  *)
(* one or returned from it.                                                *)
NoFrame == [saved |-> FALSE, pc |-> 0, mode |-> Machine, ie |-> FALSE]
Frames == [saved : BOOLEAN, pc : Addrs, mode : Modes, ie : BOOLEAN]

HartTypeOK ==
  /\ hart \in Cores
  /\ phase \in {"ints", "exec"}
  /\ mframe \in Frames
  /\ sframe \in Frames

(* Hart::init: only pc, mode and a few CSRs are set, the rest is whatever  *)
(* the hart's memory holds.                                                *)
HartInit ==
  /\ hart \in BootStates
  /\ phase = "ints"
  /\ mframe = NoFrame
  /\ sframe = NoFrame

-----------------------------------------------------------------------------
(* Traps. *)
Bit(b, on) == IF on THEN {b} ELSE {}

mpp(k) == (IF MPP_HI \in k.status THEN 2 ELSE 0) + (IF MPP_LO \in k.status THEN 1 ELSE 0)

delegate_to_s(k, cause, interrupt) ==
  k.mode # Machine /\ cause \in (IF interrupt THEN k.mideleg ELSE k.medeleg)

(* Where a trap goes: the base, or the slot of an interrupt when vectored. *)
vector(tvec, cause, interrupt) ==
  ((tvec - (tvec % 4)) + (IF tvec % 2 = 1 /\ interrupt THEN 4 * cause ELSE 0)) % AddrLimit

trap(k, cause, interrupt) ==
  IF delegate_to_s(k, cause, interrupt)
  THEN [k EXCEPT
          !.wfi = FALSE, !.mode = Supervisor, !.pc = vector(k.stvec, cause, interrupt),
          !.sepc = k.pc, !.scause = <<interrupt, cause>>,
          !.status = (@ \ {SPIE, SIE, SPP})
                       \cup Bit(SPIE, SIE \in @) \cup Bit(SPP, k.mode # User)]
  ELSE [k EXCEPT
          !.wfi = FALSE, !.mode = Machine, !.pc = vector(k.mtvec, cause, interrupt),
          !.mepc = k.pc, !.mcause = <<interrupt, cause>>,
          !.status = (@ \ {MPIE, MIE, MPP_LO, MPP_HI})
                       \cup Bit(MPIE, MIE \in @)
                       \cup Bit(MPP_LO, k.mode # User) \cup Bit(MPP_HI, k.mode = Machine)]

(* The history of a trap taken from the present state. *)
SaveFrames(cause, interrupt) ==
  LET frame(bit) == [saved |-> TRUE, pc |-> hart.pc, mode |-> hart.mode,
                     ie |-> bit \in hart.status]
      toS == delegate_to_s(hart, cause, interrupt)
  IN  /\ mframe' = IF toS THEN mframe ELSE frame(MIE)
      /\ sframe' = IF toS THEN frame(SIE) ELSE sframe

Trap(cause, interrupt) ==
  /\ hart' = trap(hart, cause, interrupt)
  /\ SaveFrames(cause, interrupt)

-----------------------------------------------------------------------------
(* The first half of Hart::tick. *)
m_pending(k) == (k.ip \cap k.ie) \ k.mideleg
s_pending(k) == k.ip \cap k.ie \cap SE_MASK \cap k.mideleg
m_global(k) == k.mode # Machine \/ MIE \in k.status
s_global(k) == k.mode = User \/ (k.mode = Supervisor /\ SIE \in k.status)

(* What check_ints picks from: the interrupts for M-mode come first. *)
Takeable(k) ==
  IF m_global(k) /\ m_pending(k) \cap Listed # {} THEN m_pending(k) \cap Listed
  ELSE IF s_global(k) THEN s_pending(k) \cap Listed ELSE {}

(* Slip: a sleeping hart only wakes for what it may take at once. *)
int_local_pending_slip(k) ==
  (m_global(k) /\ m_pending(k) # {}) \/ (k.mode # Machine /\ s_pending(k) # {})

int_local_pending(k) ==
  m_pending(k) # {} \/ (k.mode # Machine /\ s_pending(k) # {})

(* Slip: a sleeping hart does not look for interrupts. *)
check_ints_slip ==
  /\ phase = "ints" /\ ~hart.wfi
  /\ \E irq \in Takeable(hart) :
       /\ \A other \in Takeable(hart) : Rank(irq) <= Rank(other)
       /\ Trap(irq, TRUE)
  /\ phase' = "exec"

check_ints ==
  /\ phase = "ints"
  /\ \E irq \in Takeable(hart) :
       /\ \A other \in Takeable(hart) : Rank(irq) <= Rank(other)
       /\ Trap(irq, TRUE)
  /\ phase' = "exec"

TickSleeps ==
  /\ phase = "ints" /\ Takeable(hart) = {} /\ hart.wfi
  /\ hart' = [hart EXCEPT !.wfi = ~int_local_pending(hart)]
  /\ UNCHANGED <<phase, mframe, sframe>>

TickProceeds ==
  /\ phase = "ints" /\ Takeable(hart) = {} /\ ~hart.wfi
  /\ phase' = "exec"
  /\ UNCHANGED <<hart, mframe, sframe>>

-----------------------------------------------------------------------------
(* The second half of Hart::tick: one instruction. *)
Executes == phase = "exec" /\ phase' = "ints"

Advance(k, size) == [k EXCEPT !.pc = (@ + size) % AddrLimit]

Illegal == Trap(EXC_ILLEGAL_INSTRUCTION, FALSE)

Retire(size) == hart' = Advance(hart, size) /\ UNCHANGED <<mframe, sframe>>

(* An instruction that none of the below is about. *)
ExecRetires == Executes /\ Retire(4)
ExecJumps ==
  /\ Executes
  /\ \E target \in Jumps : hart' = [hart EXCEPT !.pc = target]
  /\ UNCHANGED <<mframe, sframe>>
ExecFaults ==
  /\ Executes
  /\ \E cause \in Excs \ ({EXC_INST_ACCESS_FAULT} \cup {EXC_ENV_CALL(m) : m \in Modes}) :
       Trap(cause, FALSE)

exec_ECALL == Executes /\ Trap(EXC_ENV_CALL(hart.mode), FALSE)

(* Slip: the return leaves the interrupts disabled. *)
exec_MRET_slip ==
  /\ Executes
  /\ hart' = [hart EXCEPT
                !.pc = hart.mepc,
                !.mode = IF mpp(hart) = 2 THEN @ ELSE mpp(hart),
                !.status = (@ \ {MIE, MPP_LO, MPP_HI}) \cup {MPIE}]
  /\ mframe' = NoFrame
  /\ UNCHANGED sframe

(* MPP = 2 leaves the mode as it is; the mode is not checked. *)
exec_MRET ==
  /\ Executes
  /\ hart' = [hart EXCEPT
                !.pc = hart.mepc,
                !.mode = IF mpp(hart) = 2 THEN @ ELSE mpp(hart),
                !.status = (@ \ ({MIE, MPP_LO, MPP_HI}
                                   \cup Bit(MPRV, mpp(hart) \in {User, Supervisor})))
                             \cup Bit(MIE, MPIE \in @) \cup {MPIE}]
  /\ mframe' = NoFrame
  /\ UNCHANGED sframe

LegalSret ==
  hart.mode # User /\ ~(hart.mode = Supervisor /\ TSR \in hart.status)

exec_SRET ==
  /\ Executes
  /\ IF ~LegalSret
     THEN Illegal
     ELSE /\ hart' = [hart EXCEPT
                        !.pc = hart.sepc,
                        !.mode = IF SPP \in hart.status THEN Supervisor ELSE User,
                        !.status = (@ \ ({SIE, SPP} \cup Bit(MPRV, SPP \in @)))
                                     \cup Bit(SIE, SPIE \in @) \cup {SPIE}]
          /\ sframe' = NoFrame
          /\ UNCHANGED mframe

exec_SFENCE_VMA ==
  /\ Executes
  /\ IF hart.mode = User \/ (hart.mode = Supervisor /\ TVM \in hart.status)
     THEN Illegal ELSE Retire(4)

exec_WFI ==
  /\ Executes
  /\ IF TW \in hart.status
     THEN Illegal
     ELSE /\ hart' = [Advance(hart, 4) EXCEPT !.wfi = (@ \/ hart.ip \cap hart.ie = {})]
          /\ UNCHANGED <<mframe, sframe>>

-----------------------------------------------------------------------------
(* The CSR instructions. *)
csr_level(csr) ==
  IF csr \in {"sstatus", "sie", "sip", "stvec", "sepc", "satp"} THEN Supervisor ELSE Machine

csr_accessible(csr) ==
  /\ hart.mode >= csr_level(csr)
  /\ ~(csr = "satp" /\ hart.mode = Supervisor /\ TVM \in hart.status)

csr_read(k, csr) ==
  CASE csr = "mstatus" -> k.status
    [] csr = "sstatus" -> k.status \cap SSTATUS_MASK
    [] csr = "mie" -> k.ie
    [] csr = "sie" -> k.ie \cap SE_MASK
    [] csr = "mip" -> k.ip
    [] csr = "sip" -> k.ip \cap SE_MASK
    [] csr = "mideleg" -> k.mideleg
    [] csr = "medeleg" -> k.medeleg

(* Slip: the S-mode views write the whole register. *)
csr_write_slip(k, csr, val) ==
  CASE csr \in {"mstatus", "sstatus"} -> [k EXCEPT !.status = val]
    [] csr \in {"mie", "sie"} -> [k EXCEPT !.ie = val]
    [] csr \in {"mip", "sip"} -> [k EXCEPT !.ip = val]
    [] csr \in {"mideleg", "medeleg", "mtvec", "stvec", "mepc", "sepc"} ->
         [k EXCEPT ![csr] = val]
    [] csr \in OtherCsrs -> k

csr_write(k, csr, val) ==
  CASE csr = "mstatus" -> [k EXCEPT !.status = val]
    [] csr = "sstatus" -> [k EXCEPT !.status = (@ \ SSTATUS_MASK) \cup (val \cap SSTATUS_MASK)]
    [] csr = "mie" -> [k EXCEPT !.ie = val]
    [] csr = "sie" -> [k EXCEPT !.ie = (@ \ SE_MASK) \cup (val \cap SE_MASK)]
    [] csr = "mip" -> [k EXCEPT !.ip = val]
    [] csr = "sip" -> [k EXCEPT !.ip = (@ \ SE_MASK) \cup (val \cap SE_MASK)]
    [] csr = "mideleg" -> [k EXCEPT !.mideleg = val]
    [] csr = "medeleg" -> [k EXCEPT !.medeleg = val]
    [] csr = "mtvec" -> [k EXCEPT !.mtvec = val]
    [] csr = "stvec" -> [k EXCEPT !.stvec = val]
    [] csr = "mepc" -> [k EXCEPT !.mepc = val]
    [] csr = "sepc" -> [k EXCEPT !.sepc = val]
    [] csr \in OtherCsrs -> k

(* The value that CSRRW, CSRRS and CSRRC write. *)
NewValue(op, csr, operand) ==
  CASE op = "RW" -> operand
    [] op = "RS" -> csr_read(hart, csr) \cup operand
    [] op = "RC" -> csr_read(hart, csr) \ operand

exec_CSR(op, csr, operand) ==
  IF ~csr_accessible(csr)
  THEN Illegal
  ELSE /\ hart' = Advance(csr_write(hart, csr, NewValue(op, csr, operand)), 4)
       /\ mframe' = IF csr \in {"mstatus", "mepc"} THEN NoFrame ELSE mframe
       /\ sframe' = IF csr \in {"mstatus", "sstatus", "sepc"} THEN NoFrame ELSE sframe

ExecCsr == Executes /\ \E w \in CsrWrites : exec_CSR(w[1], w[2], w[3])

-----------------------------------------------------------------------------
(* Two events after which the tick does not stop at the trap it takes.     *)

(* fetch takes the trap and returns 0, which decodes as a compressed       *)
(* instruction of two bytes (C.ADDI4SPN) and is executed at the handler.   *)
FetchFault ==
  /\ "fetch" \in Quirks
  /\ Executes
  /\ hart' = Advance(trap(hart, EXC_INST_ACCESS_FAULT, FALSE), 2)
  /\ SaveFrames(EXC_INST_ACCESS_FAULT, FALSE)

(* FCSR, FFLAGS and FRM with the floating-point unit off: csr_read and     *)
(* csr_write each take the trap, and the CSR instruction then retires.     *)
FcsrOff ==
  /\ "fcsr" \in Quirks
  /\ Executes
  /\ FS \notin hart.status
  /\ \E alsoWrites \in BOOLEAN :
       LET once == trap(hart, EXC_ILLEGAL_INSTRUCTION, FALSE)
           twice == trap(once, EXC_ILLEGAL_INSTRUCTION, FALSE)
       IN  hart' = Advance(IF alsoWrites THEN twice ELSE once, 4)
  /\ SaveFrames(EXC_ILLEGAL_INSTRUCTION, FALSE)

-----------------------------------------------------------------------------
(* The devices set and clear the bits of ip that they drive. *)
DeviceDrivesIp ==
  /\ \E irq \in Lines, on \in BOOLEAN :
       hart' = [hart EXCEPT !.ip = IF on THEN @ \cup {irq} ELSE @ \ {irq}]
  /\ UNCHANGED <<phase, mframe, sframe>>

Instruction ==
  \/ ExecRetires
  \/ ExecJumps
  \/ ExecFaults
  \/ exec_ECALL
  \/ exec_MRET
  \/ exec_SRET
  \/ exec_SFENCE_VMA
  \/ exec_WFI
  \/ ExecCsr
  \/ FetchFault
  \/ FcsrOff

tick == check_ints \/ TickSleeps \/ TickProceeds \/ Instruction

HartNext == tick \/ DeviceDrivesIp

HartSpec == HartInit /\ [][HartNext]_hartVars

(* Machine::work ticks every hart again and again while the machine runs. *)
HartFairSpec == HartSpec /\ WF_hartVars(tick)

-----------------------------------------------------------------------------
(* A saved context stays what the trap saved, whatever happens in between: *)
(* traps and returns of the other level, interrupts, WFI and CSR writes    *)
(* other than the ones that the history counts as replacing it.            *)
FramesHold ==
  /\ mframe.saved =>
       /\ hart.mepc = mframe.pc
       /\ mpp(hart) = mframe.mode
       /\ MPIE \in hart.status <=> mframe.ie
  /\ sframe.saved =>
       /\ hart.sepc = sframe.pc
       /\ sframe.mode # Machine
       /\ SPP \in hart.status <=> sframe.mode = Supervisor
       /\ SPIE \in hart.status <=> sframe.ie

(* The same, but for FCSR accesses with the floating-point unit off. *)
FramesHoldWithoutFcsr == "fcsr" \notin Quirks => FramesHold

HartInv ==
  /\ HartTypeOK
  /\ FramesHoldWithoutFcsr
  /\ phase = "exec" => ~hart.wfi

(* A trap is transparent: a return whose context software has not replaced *)
(* resumes the interrupted instruction, at its level and with its          *)
(* interrupts as they were.                                                *)
ReturnResumes ==
  [][/\ exec_MRET /\ mframe.saved =>
          /\ hart'.pc = mframe.pc /\ hart'.mode = mframe.mode
          /\ MIE \in hart'.status <=> mframe.ie
     /\ exec_SRET /\ LegalSret /\ sframe.saved =>
          /\ hart'.pc = sframe.pc /\ hart'.mode = sframe.mode
          /\ SIE \in hart'.status <=> sframe.ie]_hartVars

(* What only M-mode software may change at all: the delegation, the M-mode *)
(* handler, the bits that restrict S-mode, and the enables of interrupts   *)
(* that S-mode does not see.                                               *)
MachineOnly(k) ==
  <<k.mideleg, k.medeleg, k.mtvec, k.status \cap {TVM, TW, TSR}, k.ie \ SE_MASK>>

(* From k to t the hart stays below M-mode and leaves the context and the  *)
(* interrupt enable of M-mode alone; MPRV may be cleared.                  *)
StaysBelow(k, t) ==
  /\ t.mode # Machine
  /\ t.mepc = k.mepc /\ t.mcause = k.mcause
  /\ \A b \in {MIE, MPIE, MPP_LO, MPP_HI} : b \in t.status <=> b \in k.status
  /\ MPRV \in t.status => MPRV \in k.status

(* It arrives in the handler that M-mode set, with its interrupts off; one *)
(* instruction into it after the events of FetchFault and FcsrOff.         *)
EntersHandler(k, t) ==
  /\ t.mode = Machine /\ MIE \notin t.status
  /\ MPRV \in t.status <=> MPRV \in k.status
  /\ \E past \in {0, 2, 4} :
       t.pc = (vector(k.mtvec, t.mcause[2], t.mcause[1]) + past) % AddrLimit

(* The M-mode context is what was interrupted. *)
SavesContext(k, t) ==
  t.mepc = k.pc /\ mpp(t) = k.mode /\ (MPIE \in t.status <=> MIE \in k.status)

(* What an MRET does outside of M-mode, where exec_MRET does not refuse    *)
(* it: it enters the mode in MPP, M-mode if that is what is left there,    *)
(* and uses MPP up; the address and the cause stay.                        *)
MretBelow(k, t) ==
  /\ t.mode = (IF mpp(k) = 2 THEN k.mode ELSE mpp(k)) /\ mpp(t) = User
  /\ t.pc = k.mepc /\ t.mepc = k.mepc /\ t.mcause = k.mcause
  /\ MPRV \in t.status => MPRV \in k.status

(* Outside M-mode nothing changes what only M-mode may change, nor, in ip, *)
(* what S-mode does not see (the devices apart); and the hart gets into    *)
(* M-mode and at its trap context only through the M-mode handler, with    *)
(* what was interrupted saved (but for FCSR accesses with the unit off),   *)
(* or by an MRET.                                                          *)
MachineStateIsConfined ==
  [][hart.mode # Machine =>
       /\ MachineOnly(hart') = MachineOnly(hart)
       /\ phase' # phase => hart'.ip \ SE_MASK = hart.ip \ SE_MASK
       /\ \/ StaysBelow(hart, hart')
          \/ EntersHandler(hart, hart') /\ (FcsrOff \/ SavesContext(hart, hart'))
          \/ exec_MRET /\ MretBelow(hart, hart')]_hartVars

(* A hart does not sleep for ever through an interrupt that is enabled in  *)
(* ie and not delegated, whether or not MIE lets it be taken.              *)
SleepEnds == ~<>[](hart.wfi /\ m_pending(hart) # {})

(* An interrupt that may be taken does not stay so for ever: it is taken,  *)
(* or goes away.                                                           *)
InterruptsAreTaken == ~<>[](Takeable(hart) # {})
=============================================================================
