------------------------------- MODULE Clint --------------------------------
(***************************************************************************)
(* The core local interruptor (src/src/devices/clint.cpp) and the timer it *)
(* reads (src/include/structs/timer_st.hpp, timecmp_st.hpp).               *)
(*                                                                         *)
(* update_mip copies the software and timer interrupts into the ip of      *)
(* every hart.  It runs on the CLINT's own thread every 100 microseconds   *)
(* and, after a guest's write to a register, on the worker, with no lock   *)
(* between them.  It reads the time once and then goes from hart to hart;  *)
(* each of the three bits of a hart is set by a load and a store of the    *)
(* byte that holds it, and the worker's CSR instructions on sip load and   *)
(* store the same register.  Every load and every store is a step.         *)
(*                                                                         *)
(* The external interrupt bits are in another byte of ip and are the       *)
(* business of Plic.                                                       *)
(***************************************************************************)
EXTENDS Integers

CONSTANTS
  NumHarts,
  WordMod,    \* times are computed modulo this (2^64)
  Giga,       \* nanoseconds in a second (10^9)
  Freq,       \* ticks in a second (timebase: 5 * 10^6)
  StartNs,    \* bound: the host's clock when the machine starts
  MaxNs,      \* bound: the host's clock at the end
  Times,      \* the times that guests write
  MaxWrites   \* bound: the number of guest writes

Harts == 0 .. (NumHarts - 1)
Threads == {"clint", "worker"}
Word == 0 .. (WordMod - 1)
Never == WordMod - 1          \* UINT64_MAX
SSIP == 1
MSIP == 3
STIP == 5
MTIP == 7
Bits == <<MSIP, MTIP, STIP>>  \* in the order of update_mip

ASSUME WidthAssumption ==
  /\ NumHarts \in Nat \ {0} /\ WordMod \in Nat \ {0}
  /\ Giga \in Nat \ {0} /\ Freq \in Nat /\ Times \subseteq Word

VARIABLES
  ns,         \* the host's steady clock
  begin,      \* mtime.begin
  mtimecmp, stimecmp,
  msip,       \* bit 0 of msip
  time,       \* the time CSR of every hart
  ip,         \* the low byte of the ip of every hart, as a set of causes
  pc,         \* where every thread is: idle, begin, test, store, csr
  now,        \* update_mip: the time it read
  hart, bit,  \* update_mip: the loop over the harts, and the bit of Bits
  level,      \* update_mip: what the bit becomes
  byte,       \* the byte of ip that was loaded
  writes      \* the number of guest writes

timerVars == <<ns, begin>>
regVars == <<mtimecmp, stimecmp, msip>>
threadVars == <<pc, now, hart, bit, level, byte>>
vars == <<timerVars, regVars, time, ip, threadVars, writes>>

-----------------------------------------------------------------------------
(* The timer: ticks of the host's clock since begin.  The product wraps    *)
(* before it is divided.                                                   *)
timer_clocksource(n) == ((n * Freq) % WordMod) \div Giga
timer_get == (timer_clocksource(ns) - begin) % WordMod

(* The value of begin that makes the time t now. *)
timer_set(t) == (timer_clocksource(ns) - t) % WordMod

ClintInit ==
  /\ ns \in 0 .. StartNs
  /\ begin = timer_set(0)
  /\ mtimecmp = [h \in Harts |-> Never] /\ stimecmp = [h \in Harts |-> Never]
  /\ msip = [h \in Harts |-> FALSE] /\ time = [h \in Harts |-> 0]
  /\ ip = [h \in Harts |-> {}]
  /\ pc = [t \in Threads |-> "idle"] /\ now = [t \in Threads |-> 0]
  /\ hart = [t \in Threads |-> 0] /\ bit = [t \in Threads |-> 1]
  /\ level = [t \in Threads |-> FALSE] /\ byte = [t \in Threads |-> {}]
  /\ writes = 0

(* Whether the bit b of hart h is due at the time t. *)
Due(h, b, t) ==
  CASE b = MSIP -> msip[h]
    [] b = MTIP -> t >= mtimecmp[h]
    [] b = STIP -> t >= stimecmp[h] /\ stimecmp[h] # Never

-----------------------------------------------------------------------------
(* update_mip on the thread t: the time is read, then the bits of hart     *)
(* after hart are tested, loaded and stored.                               *)
update_mip_begins(t) ==
  /\ pc[t] = "begin"
  /\ now' = [now EXCEPT ![t] = timer_get]
  /\ hart' = [hart EXCEPT ![t] = 0] /\ bit' = [bit EXCEPT ![t] = 1]
  /\ pc' = [pc EXCEPT ![t] = "test"]
  /\ UNCHANGED <<timerVars, regVars, time, ip, level, byte, writes>>

(* The time CSR is written before the bits of a hart. *)
update_mip_tests(t) ==
  /\ pc[t] = "test" /\ hart[t] < NumHarts
  /\ time' = IF bit[t] = 1 THEN [time EXCEPT ![hart[t]] = now[t]] ELSE time
  /\ level' = [level EXCEPT ![t] = Due(hart[t], Bits[bit[t]], now[t])]
  /\ byte' = [byte EXCEPT ![t] = ip[hart[t]]]
  /\ pc' = [pc EXCEPT ![t] = "store"]
  /\ UNCHANGED <<timerVars, regVars, ip, now, hart, bit, writes>>

(* Slip: a bit that is not due any more stays. *)
update_mip_stores_slip(t) ==
  /\ pc[t] = "store"
  /\ ip' = [ip EXCEPT ![hart[t]] = byte[t] \cup (IF level[t] THEN {Bits[bit[t]]} ELSE {})]
  /\ bit' = [bit EXCEPT ![t] = IF @ = 3 THEN 1 ELSE @ + 1]
  /\ hart' = [hart EXCEPT ![t] = IF bit[t] = 3 THEN @ + 1 ELSE @]
  /\ pc' = [pc EXCEPT ![t] = "test"]
  /\ UNCHANGED <<timerVars, regVars, time, now, level, byte, writes>>

update_mip_stores(t) ==
  /\ pc[t] = "store"
  /\ ip' = [ip EXCEPT ![hart[t]] =
              (byte[t] \ {Bits[bit[t]]}) \cup (IF level[t] THEN {Bits[bit[t]]} ELSE {})]
  /\ bit' = [bit EXCEPT ![t] = IF @ = 3 THEN 1 ELSE @ + 1]
  /\ hart' = [hart EXCEPT ![t] = IF bit[t] = 3 THEN @ + 1 ELSE @]
  /\ pc' = [pc EXCEPT ![t] = "test"]
  /\ UNCHANGED <<timerVars, regVars, time, now, level, byte, writes>>

update_mip_ends(t) ==
  /\ pc[t] = "test" /\ hart[t] = NumHarts
  /\ pc' = [pc EXCEPT ![t] = "idle"]
  /\ UNCHANGED <<timerVars, regVars, time, ip, now, hart, bit, level, byte, writes>>

update_mip(t) ==
  \/ update_mip_begins(t)
  \/ update_mip_tests(t)
  \/ update_mip_stores(t)
  \/ update_mip_ends(t)

(* The loop of the CLINT's thread. *)
thread_func ==
  /\ pc["clint"] = "idle"
  /\ pc' = [pc EXCEPT !["clint"] = "begin"]
  /\ UNCHANGED <<timerVars, regVars, time, ip, now, hart, bit, level, byte, writes>>

-----------------------------------------------------------------------------
(* The guest, on the worker. *)
MayWrite == pc["worker"] = "idle" /\ writes < MaxWrites /\ writes' = writes + 1

(* Its writes to the device end in update_mip. *)
WorkerUpdates ==
  /\ pc' = [pc EXCEPT !["worker"] = "begin"]
  /\ UNCHANGED <<ns, stimecmp, time, ip, now, hart, bit, level, byte>>

write_mswi(h, on) ==
  /\ MayWrite /\ WorkerUpdates
  /\ msip' = [msip EXCEPT ![h] = on]
  /\ UNCHANGED <<begin, mtimecmp>>

write_mtimecmp(h, value) ==
  /\ MayWrite /\ WorkerUpdates
  /\ mtimecmp' = [mtimecmp EXCEPT ![h] = value]
  /\ UNCHANGED <<begin, msip>>

write_mtime(value) ==
  /\ MayWrite /\ WorkerUpdates
  /\ begin' = timer_set(value)
  /\ UNCHANGED <<mtimecmp, msip>>

(* A CSR instruction on stimecmp: ip is left to the CLINT's thread. *)
csr_write_stimecmp(h, value) ==
  /\ MayWrite
  /\ stimecmp' = [stimecmp EXCEPT ![h] = value]
  /\ UNCHANGED <<timerVars, mtimecmp, msip, time, ip, threadVars>>

(* A CSR instruction that sets SSIP in sip loads ip and stores it. *)
csr_loads_sip(h) ==
  /\ MayWrite
  /\ byte' = [byte EXCEPT !["worker"] = ip[h]]
  /\ hart' = [hart EXCEPT !["worker"] = h]
  /\ pc' = [pc EXCEPT !["worker"] = "csr"]
  /\ UNCHANGED <<timerVars, regVars, time, ip, now, bit, level>>

csr_stores_sip(on) ==
  /\ pc["worker"] = "csr"
  /\ ip' = [ip EXCEPT ![hart["worker"]] =
              (byte["worker"] \ {SSIP}) \cup (IF on THEN {SSIP} ELSE {})]
  /\ pc' = [pc EXCEPT !["worker"] = "idle"]
  /\ UNCHANGED <<timerVars, regVars, time, now, hart, bit, level, byte, writes>>

GuestWrites ==
  \/ \E h \in Harts, on \in BOOLEAN : write_mswi(h, on)
  \/ \E h \in Harts, value \in Times : write_mtimecmp(h, value)
  \/ \E value \in Times : write_mtime(value)
  \/ \E h \in Harts, value \in Times : csr_write_stimecmp(h, value)
  \/ \E h \in Harts : csr_loads_sip(h)

GuestEndsCsr == \E on \in BOOLEAN : csr_stores_sip(on)

TimePasses ==
  /\ ns < MaxNs
  /\ ns' = ns + 1
  /\ UNCHANGED <<begin, regVars, time, ip, threadVars, writes>>

ClintStep == thread_func \/ update_mip("clint")
WorkerStep == update_mip("worker") \/ GuestEndsCsr

ClintNext == ClintStep \/ WorkerStep \/ GuestWrites \/ TimePasses

(* Both threads run; neither the guest's writes nor the clock is owed. *)
ClintSpec ==
  ClintInit /\ [][ClintNext]_vars /\ WF_vars(ClintStep) /\ WF_vars(WorkerStep)

-----------------------------------------------------------------------------
Lines == {MSIP, STIP, MTIP}

(* No software or timer interrupt is lost, and none stays, whatever the    *)
(* stores of the two threads and of CSR instructions undo of each other:   *)
(* once its cause rests, so does its bit, at the same level.               *)
LinesSettle ==
  \A h \in Harts, b \in Lines :
    /\ (<>[]Due(h, b, timer_get)) => <>[](b \in ip[h])
    /\ (<>[]~Due(h, b, timer_get)) => <>[](b \notin ip[h])

(* The ticks in n nanoseconds. *)
Ticks(n) == (n * Freq) \div Giga

(* The guest's time keeps pace with the host's clock at the frequency that *)
(* the device tree announces, unless the guest writes it.                  *)
TimeKeepsPace ==
  [][begin' = begin => timer_get' = (timer_get + Ticks(ns') - Ticks(ns)) % WordMod]_vars
=============================================================================
