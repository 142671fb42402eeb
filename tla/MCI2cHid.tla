------------------------------ MODULE MCI2cHid ------------------------------
(* A bounded instance of I2cHid: reports of two bytes, a queue of two.     *)
EXTENDS I2cHid

OneDriver == [c \in Contexts |-> IF c = 1 THEN {KbdIrq} ELSE {}]
=============================================================================
