------------------------------ MODULE MCClint -------------------------------
(* A bounded instance of Clint. *)
EXTENDS Clint

(* A guest writes the present or the past, a time to come, and never. *)
GuestTimes == {0, 3, Never}
=============================================================================
