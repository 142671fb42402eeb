------------------------------ MODULE MCMachine ------------------------------
(* A bounded instance of Machine: every way to use it. *)
EXTENDS Machine

AllSetups ==
  [gdb : BOOLEAN, guest : SUBSET {"poweroff", "reboot"}, stops : SUBSET {"terminal", "debugger"}]
==============================================================================
