------------------------------- MODULE MCHart -------------------------------
(***************************************************************************)
(* Bounded instances of Hart.  The interrupts are the two timers: MTI (7)  *)
(* for M-mode and STI (5), which firmware delegates.  Handlers and code    *)
(* share eight bytes, of which M-mode traps use the first word and S-mode  *)
(* ones the second.                                                        *)
(***************************************************************************)
EXTENDS Hart

MCExcs == {1, 2, 8, 9, 11}

(* Memory that the host zeroed, and memory that held something before. *)
Zeroed ==
  [mode |-> Machine, pc |-> 0, status |-> {}, ie |-> {}, ip |-> {},
   mideleg |-> {}, medeleg |-> {}, mtvec |-> 0, stvec |-> 4, mepc |-> 0, sepc |-> 0,
   mcause |-> <<FALSE, 2>>, scause |-> <<FALSE, 2>>, wfi |-> FALSE]
Leftover ==
  [Zeroed EXCEPT !.ie = {5, 7}, !.mideleg = {5}, !.medeleg = {2, 8},
                 !.status = {MIE, MPP_HI}]

MCBoot == {Zeroed, Leftover}

(* Firmware enters S-mode, both levels change their enable bits and saved  *)
(* contexts, and which interrupts are seen.                                *)
TrapWrites ==
  { <<"RW", "mstatus", {MPP_LO, MPIE}>>, <<"RS", "sstatus", {SIE}>>,
    <<"RC", "sstatus", {SPP}>>, <<"RW", "sepc", 4>>,
    <<"RW", "mie", {5, 7}>>, <<"RC", "sie", {5}>>, <<"RS", "mideleg", {5}>>,
    <<"RS", "sip", {5}>>, <<"RC", "mip", {7}>> }

(* The bits that make instructions of S-mode illegal, and an attempt at    *)
(* every register from every mode.                                         *)
GateWrites ==
  { <<"RW", "mstatus", {MPP_LO, TSR, TVM, TW}>>, <<"RW", "mstatus", {MPP_LO, MPRV, FS}>>,
    <<"RW", "sstatus", StatusBits>>, <<"RW", "sie", {7}>>, <<"RW", "satp", 0>>,
    <<"RW", "mtvec", 4>>, <<"RW", "stvec", 5>>, <<"RW", "mepc", 4>>,
    <<"RS", "medeleg", {2}>>, <<"RW", "mip", {7}>>, <<"RW", "sip", {}>> }

ZeroedBoot == {Zeroed}
=============================================================================
