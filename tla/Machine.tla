------------------------------ MODULE Machine ------------------------------
(***************************************************************************)
(* The life of the machine: Machine::run, work, stop and reset             *)
(* (src/src/machine.cpp) as the threads of the emulator call them.         *)
(*                                                                         *)
(*   main      starts the machine, waits for its end and leaves            *)
(*   worker    Machine::work: ticks the harts, restarts the machine        *)
(*   terminal  termios_loop: stops the machine on Ctrl-C Ctrl-X            *)
(*   debugger  the GDB stub: single steps, and kills the machine           *)
(*                                                                         *)
(* They share the word state, which is atomic but read and written in      *)
(* separate steps, and plain flags.  No lock protects any of it.  A tick   *)
(* of a hart matters here only for what the guest does to SYSCON.          *)
(***************************************************************************)
EXTENDS Integers

CONSTANTS
  NumHarts,    \* harts_count
  Setups,      \* the ways the emulator is used, see SetupsAssumption
  MaxRequests  \* bound on the single steps that are asked for and not yet run

(* gdb: started with --gdb.  guest: what the guest may write to SYSCON.    *)
(* stops: who may stop the machine from outside.                           *)
ASSUME SetupsAssumption ==
  Setups \subseteq [gdb : BOOLEAN, guest : SUBSET {"poweroff", "reboot"},
                    stops : SUBSET {"terminal", "debugger"}]
ASSUME NumHartsAssumption == NumHarts \in 1 .. 64
ASSUME RequestsAssumption == MaxRequests \in Nat \ {0}

VARIABLES
  setup,               \* how the emulator is used, for good
  state,               \* "Off", "Halted", "Running" or "Resetting"
  work_thread_w,       \* that the worker exists
  work_thread_joined,  \* that somebody joins it
  gdb_single_step,     \* that the debugger wants one round of ticks
  harts,               \* the hart vector: "built" or "cleared"
  mainAt,              \* where each thread is
  workAt,
  termAt,
  ticking,             \* the hart that the worker ticks
  offStored,           \* history: that somebody has switched the machine off
  owed                 \* history: single steps asked for, less rounds run until then

flags == <<work_thread_w, work_thread_joined>>
history == <<offStored, owed>>
machineVars ==
  <<setup, state, flags, gdb_single_step, harts, mainAt, workAt, termAt, ticking, history>>

gdb == setup.gdb

States == {"Off", "Halted", "Running", "Resetting"}
InTick == {"tick", "reset_load", "reset_clear", "reset_build", "reset_begin", "reset_store"}

MachineTypeOK ==
  /\ setup \in Setups
  /\ state \in States
  /\ work_thread_w \in BOOLEAN /\ work_thread_joined \in BOOLEAN
  /\ gdb_single_step \in BOOLEAN
  /\ harts \in {"built", "cleared"}
  /\ mainAt \in {"run", "spawn", "flag", "check", "mark", "join", "leave", "done"}
  /\ workAt \in InTick \cup {"none", "top", "resetting", "clear", "build", "store", "halted",
                             "wake", "round", "step", "end", "ended"}
  /\ termAt \in {"reads", "check", "store", "joined", "join", "done"}
  /\ ticking \in 1 .. NumHarts
  /\ offStored \in BOOLEAN
  /\ owed \in Int

(* work_thread_joined has no initialiser: it is whatever the stack held. *)
MachineInit ==
  /\ setup \in Setups
  /\ state = "Off"
  /\ work_thread_w = FALSE /\ work_thread_joined \in BOOLEAN
  /\ gdb_single_step = FALSE
  /\ harts = "built"
  /\ mainAt = "run" /\ workAt = "none" /\ termAt = "reads"
  /\ ticking = 1
  /\ offStored = FALSE /\ owed = 0

Begun == IF gdb THEN "Halted" ELSE "Running"

-----------------------------------------------------------------------------
(* main: Machine::run, and the end of the program. *)
MainGoes(from, to) == mainAt = from /\ mainAt' = to

(* The bios or the kernel does not fit: run returns, nothing is started. *)
run_fails ==
  /\ MainGoes("run", "check")
  /\ UNCHANGED <<state, flags, gdb_single_step, harts, workAt, termAt, ticking, history>>

run_prepares ==
  /\ MainGoes("run", "spawn")
  /\ state' = Begun
  /\ UNCHANGED <<flags, gdb_single_step, harts, workAt, termAt, ticking, history>>

run_spawns ==
  /\ MainGoes("spawn", "flag")
  /\ workAt' = "top"
  /\ UNCHANGED <<state, flags, gdb_single_step, harts, termAt, ticking, history>>

run_flags ==
  /\ MainGoes("flag", "check")
  /\ work_thread_w' = TRUE
  /\ UNCHANGED <<state, work_thread_joined, gdb_single_step, harts, workAt, termAt, ticking,
                 history>>

MainChecks ==
  /\ MainGoes("check", IF work_thread_w THEN "mark" ELSE "leave")
  /\ UNCHANGED <<state, flags, gdb_single_step, harts, workAt, termAt, ticking, history>>

MainMarks ==
  /\ MainGoes("mark", "join")
  /\ work_thread_joined' = TRUE
  /\ UNCHANGED <<state, work_thread_w, gdb_single_step, harts, workAt, termAt, ticking, history>>

MainJoins ==
  /\ MainGoes("join", "leave") /\ workAt = "ended"
  /\ UNCHANGED <<state, flags, gdb_single_step, harts, workAt, termAt, ticking, history>>

(* termios_running = false ends the terminal thread between two reads. *)
MainLeaves ==
  /\ MainGoes("leave", "done") /\ termAt \in {"reads", "done"}
  /\ termAt' = "done"
  /\ UNCHANGED <<state, flags, gdb_single_step, harts, workAt, ticking, history>>

MainThread ==
  /\ \/ run_fails \/ run_prepares \/ run_spawns \/ run_flags
     \/ MainChecks \/ MainMarks \/ MainJoins \/ MainLeaves
  /\ UNCHANGED setup

-----------------------------------------------------------------------------
(* The worker: Machine::work. *)
WorkGoes(from, to) == workAt = from /\ workAt' = to

WorkLoops ==
  /\ WorkGoes("top", IF state = "Off" THEN "end" ELSE "resetting")
  /\ UNCHANGED <<state, flags, gdb_single_step, harts, mainAt, termAt, ticking, history>>

WorkEnds ==
  /\ WorkGoes("end", "ended")
  /\ work_thread_w' = FALSE
  /\ UNCHANGED <<state, work_thread_joined, gdb_single_step, harts, mainAt, termAt, ticking,
                 history>>

WorkChecksResetting ==
  /\ WorkGoes("resetting", IF state = "Resetting" THEN "clear" ELSE "halted")
  /\ UNCHANGED <<state, flags, gdb_single_step, harts, mainAt, termAt, ticking, history>>

(* Clearing the harts and building them again, with the memory reloaded in *)
(* between: work does it when it finds Resetting, reset when it finds Off. *)
RebuildHarts(clear, build, store) ==
  /\ \/ WorkGoes(clear, build) /\ harts' = "cleared"
     \/ WorkGoes(build, store) /\ harts' = "built"
  /\ UNCHANGED <<state, flags, gdb_single_step, mainAt, termAt, ticking, history>>

Restarts(store, next) ==
  /\ WorkGoes(store, next)
  /\ state' = Begun
  /\ UNCHANGED <<flags, gdb_single_step, harts, mainAt, termAt, ticking, history>>

WorkRebuilds == RebuildHarts("clear", "build", "store")
WorkRestarts == Restarts("store", "top")

(* Slip: a halted worker does not look at the request. *)
WorkChecksHalted_slip ==
  /\ WorkGoes("halted", IF state # "Halted" THEN "tick" ELSE "top")
  /\ ticking' = 1
  /\ UNCHANGED <<state, flags, gdb_single_step, harts, mainAt, termAt, history>>

WorkChecksHalted ==
  /\ WorkGoes("halted", IF state # "Halted" THEN "tick"
                        ELSE IF gdb_single_step THEN "wake" ELSE "top")
  /\ ticking' = 1
  /\ UNCHANGED <<state, flags, gdb_single_step, harts, mainAt, termAt, history>>

WorkWakes ==
  /\ WorkGoes("wake", "top")
  /\ state' = "Running"
  /\ UNCHANGED <<flags, gdb_single_step, harts, mainAt, termAt, ticking, history>>

(* The tick of one hart returns, and the next one is ticked. *)
TickEnds ==
  /\ workAt' = IF ticking = NumHarts THEN "round" ELSE "tick"
  /\ ticking' = IF ticking = NumHarts THEN 1 ELSE ticking + 1

TickReturns ==
  /\ workAt = "tick" /\ TickEnds
  /\ UNCHANGED <<state, flags, gdb_single_step, harts, mainAt, termAt, history>>

(* SYSCON's poweroff: stop, on the worker itself, which never joins. *)
TickPowersOff ==
  /\ "poweroff" \in setup.guest
  /\ workAt = "tick" /\ TickEnds
  /\ state' = IF work_thread_w THEN "Off" ELSE state
  /\ offStored' = (offStored \/ work_thread_w)
  /\ UNCHANGED <<flags, gdb_single_step, harts, mainAt, termAt, owed>>

(* SYSCON's reboot: reset, within the tick of the hart that wrote. *)
TickReboots ==
  /\ "reboot" \in setup.guest
  /\ WorkGoes("tick", "reset_load")
  /\ UNCHANGED <<state, flags, gdb_single_step, harts, mainAt, termAt, ticking, history>>

(* Slip: reset rebuilds the harts by itself. *)
reset_checks_slip ==
  /\ WorkGoes("reset_load", "reset_clear")
  /\ UNCHANGED <<state, flags, gdb_single_step, harts, mainAt, termAt, ticking, history>>

reset_checks ==
  /\ WorkGoes("reset_load", IF state = "Off" THEN "reset_clear" ELSE "reset_store")
  /\ UNCHANGED <<state, flags, gdb_single_step, harts, mainAt, termAt, ticking, history>>

reset_rebuilds == RebuildHarts("reset_clear", "reset_build", "reset_begin")

(* Slip: reset leaves the state to whoever reads it next. *)
reset_stores_slip ==
  /\ workAt = "reset_store" /\ TickEnds
  /\ UNCHANGED <<state, flags, gdb_single_step, harts, mainAt, termAt, history>>

reset_stores ==
  /\ workAt = "reset_store" /\ TickEnds
  /\ state' = "Resetting"
  /\ UNCHANGED <<flags, gdb_single_step, harts, mainAt, termAt, history>>

reset_begins ==
  /\ workAt = "reset_begin" /\ TickEnds
  /\ state' = Begun
  /\ UNCHANGED <<flags, gdb_single_step, harts, mainAt, termAt, history>>

(* Slip: the request is not taken back. *)
WorkEndsRound_slip ==
  /\ WorkGoes("round", IF gdb_single_step THEN "step" ELSE "top")
  /\ owed' = IF gdb /\ ~offStored THEN owed - 1 ELSE owed
  /\ UNCHANGED <<state, flags, gdb_single_step, harts, mainAt, termAt, ticking, offStored>>

(* After the harts: a single step is over. *)
WorkEndsRound ==
  /\ WorkGoes("round", IF gdb_single_step THEN "step" ELSE "top")
  /\ gdb_single_step' = FALSE
  /\ owed' = IF gdb /\ ~offStored THEN owed - 1 ELSE owed
  /\ UNCHANGED <<state, flags, harts, mainAt, termAt, ticking, offStored>>

WorkHalts ==
  /\ WorkGoes("step", "top")
  /\ state' = "Halted"
  /\ UNCHANGED <<flags, gdb_single_step, harts, mainAt, termAt, ticking, history>>

WorkThread ==
  /\ \/ WorkLoops \/ WorkEnds \/ WorkChecksResetting \/ WorkRebuilds \/ WorkRestarts
     \/ WorkChecksHalted \/ WorkWakes
     \/ TickReturns \/ TickPowersOff \/ TickReboots
     \/ reset_checks \/ reset_rebuilds \/ reset_stores \/ reset_begins
     \/ WorkEndsRound \/ WorkHalts
  /\ UNCHANGED setup

-----------------------------------------------------------------------------
(* The terminal: Ctrl-C Ctrl-X calls stop, and the thread is over. *)
TermGoes(from, to) == termAt = from /\ termAt' = to

TerminalStops ==
  /\ "terminal" \in setup.stops
  /\ TermGoes("reads", "check")
  /\ UNCHANGED <<setup, state, flags, gdb_single_step, harts, mainAt, workAt, ticking, history>>

stop_checks ==
  /\ TermGoes("check", IF work_thread_w THEN "store" ELSE "done")
  /\ UNCHANGED <<state, flags, gdb_single_step, harts, mainAt, workAt, ticking, history>>

(* Slip: stop halts the machine instead of switching it off. *)
stop_stores_slip ==
  /\ TermGoes("store", "joined")
  /\ state' = "Halted"
  /\ offStored' = TRUE
  /\ UNCHANGED <<flags, gdb_single_step, harts, mainAt, workAt, ticking, owed>>

stop_stores ==
  /\ TermGoes("store", "joined")
  /\ state' = "Off"
  /\ offStored' = TRUE
  /\ UNCHANGED <<flags, gdb_single_step, harts, mainAt, workAt, ticking, owed>>

stop_checks_joined ==
  /\ TermGoes("joined", IF work_thread_joined THEN "done" ELSE "join")
  /\ UNCHANGED <<state, flags, gdb_single_step, harts, mainAt, workAt, ticking, history>>

stop_joins ==
  /\ TermGoes("join", "done") /\ workAt = "ended"
  /\ UNCHANGED <<state, flags, gdb_single_step, harts, mainAt, workAt, ticking, history>>

TerminalThread ==
  /\ stop_checks \/ stop_stores \/ stop_checks_joined \/ stop_joins
  /\ UNCHANGED setup

-----------------------------------------------------------------------------
(* The debugger: the packets s and c ask for a round, k kills.  The loop   *)
(* behind c asks whenever the last round is over.                          *)
GdbSteps ==
  /\ gdb /\ mainAt # "done" /\ owed < MaxRequests
  /\ gdb_single_step' = TRUE
  /\ owed' = owed + 1
  /\ UNCHANGED <<setup, state, flags, harts, mainAt, workAt, termAt, ticking, offStored>>

GdbKills ==
  /\ gdb /\ mainAt # "done" /\ "debugger" \in setup.stops
  /\ state' = "Off"
  /\ offStored' = TRUE
  /\ UNCHANGED <<setup, flags, gdb_single_step, harts, mainAt, workAt, termAt, ticking, owed>>

(* The program has ended. *)
Exited == mainAt = "done" /\ UNCHANGED machineVars

MachineNext ==
  \/ MainThread
  \/ WorkThread
  \/ TerminalStops
  \/ TerminalThread
  \/ GdbSteps
  \/ GdbKills
  \/ Exited

MachineSpec == MachineInit /\ [][MachineNext]_machineVars

(* Every thread that can run gets to run; that the terminal, the guest and *)
(* the debugger ever do anything is not assumed.                           *)
MachineFairSpec ==
  /\ MachineSpec
  /\ WF_machineVars(MainThread)
  /\ WF_machineVars(WorkThread)
  /\ WF_machineVars(TerminalThread)

-----------------------------------------------------------------------------
(* The harts are there while one of them is ticked: as long as nobody      *)
(* switches the machine off, a reboot that a hart asks for never destroys  *)
(* it under its own tick.                                                  *)
NobodyStops == setup.stops = {} /\ "poweroff" \notin setup.guest
HartsExist == NobodyStops /\ workAt \in InTick => harts = "built"

(* Under the debugger the harts run no round that was not asked for, up to *)
(* the one that may be under way when the machine is switched off: the     *)
(* worker only leaves Halted for a step, and keeps the request until the   *)
(* round is over.                                                          *)
StepDiscipline ==
  gdb /\ ~offStored =>
    /\ gdb_single_step => owed >= 1
    /\ workAt \in InTick \cup {"wake", "round"} => gdb_single_step
    /\ state = "Running" => gdb_single_step \/ workAt = "step"
    /\ state = "Resetting" => workAt \in InTick \cup {"round", "step"}
    /\ state = "Off" => workAt = "none" /\ mainAt # "spawn"
    /\ mainAt \in {"run", "spawn"} => workAt = "none"
    /\ workAt \notin {"clear", "build", "store", "reset_clear", "reset_build", "reset_begin"}

StepInv == MachineTypeOK /\ owed >= 0 /\ StepDiscipline

(* A single step that is asked for is run, unless the program ends: it was *)
(* switched off, or had nothing to run.                                    *)
StepsHappen ==
  gdb_single_step ~> (~gdb_single_step \/ (workAt \in {"none", "ended"} /\ mainAt = "done"))

(* Without the debugger a reboot happens: the harts are rebuilt, unless    *)
(* the machine goes off.                                                   *)
RebootHappens ==
  (~gdb /\ workAt = "reset_load") ~> (harts = "cleared" \/ workAt = "ended")

(* Once stop has switched off a machine that never reboots and is not      *)
(* debugged, the worker ends, and with it the program.                     *)
PlainStopEnds ==
  (offStored /\ ~gdb /\ "reboot" \notin setup.guest) ~> (workAt = "ended" /\ mainAt = "done")
=============================================================================
