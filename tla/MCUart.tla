------------------------------- MODULE MCUart -------------------------------
(* A bounded instance of Uart: one hart, the port and one other device. *)
EXTENDS Uart

(* The S-mode context uses the port and the other source. *)
DriverUse == [c \in Contexts |-> IF c % 2 = 1 THEN IrqLines ELSE {}]
=============================================================================
