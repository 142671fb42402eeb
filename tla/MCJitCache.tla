----------------------------- MODULE MCJitCache -----------------------------
(* A bounded instance of JitCache: a boot ROM of one instruction and two   *)
(* pages of code, which the hart can run past.                             *)
EXTENDS JitCache

MCPrograms ==
  {<<"jump", "op", "store", "op", "jump">>, <<"jump", "store", "fence.i", "op", "op">>}
MCMemories == {[a \in Addrs |-> p[a + 1]] : p \in MCPrograms}
=============================================================================
