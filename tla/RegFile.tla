------------------------------ MODULE RegFile -------------------------------
(***************************************************************************)
(* What a translated block promises about the guest's registers: x0 reads  *)
(* as zero and is never written, and an instruction replaces its           *)
(* destination by a function of its sources and touches nothing else.      *)
(* Where a register lives while a block runs is of no concern here.        *)
(***************************************************************************)
CONSTANTS
  Guest,    \* the numbers of the guest's registers
  Val,      \* register values
  Zero,     \* the value of x0
  Ops,      \* the operations of instructions
  Apply(_, _, _)  \* what an operation makes of two source values

VARIABLE regs

Init == regs \in [Guest -> Val]

(* The value of register r as an operand. *)
Operand(r) == IF r = 0 THEN Zero ELSE regs[r]

Next ==
  \E rd \in Guest \ {0} :
    /\ \A r \in Guest \ {rd} : regs'[r] = regs[r]
    /\ \E op \in Ops, rs1, rs2 \in Guest :
         regs' = [regs EXCEPT ![rd] = Apply(op, Operand(rs1), Operand(rs2))]

Spec == Init /\ [][Next]_regs
=============================================================================
