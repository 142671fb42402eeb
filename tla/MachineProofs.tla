---------------------------- MODULE MachineProofs ----------------------------
(***************************************************************************)
(* Single steps and reboots, for every number of harts and every bound on  *)
(* the requests: StepInv and, while nobody switches the machine off,       *)
(* RebootInv are inductive.                                                *)
(***************************************************************************)
EXTENDS Machine, TLAPS

LEMMA TickEndsFacts ==
  ASSUME MachineTypeOK, TickEnds
  PROVE  ticking' \in 1 .. NumHarts /\ workAt' \in {"round", "tick"}
<1>1. ticking \in 1 .. NumHarts /\ NumHarts \in Nat
  BY NumHartsAssumption DEF MachineTypeOK
<1> QED
  BY <1>1 DEF TickEnds

(* Everything the invariant speaks about, for the steps that leave state,  *)
(* the request and the history alone and only move a thread.               *)
LEMMA TypeInductive == MachineTypeOK /\ [MachineNext]_machineVars => MachineTypeOK'
<1> SUFFICES ASSUME MachineTypeOK, [MachineNext]_machineVars PROVE MachineTypeOK'
  OBVIOUS
<1>0. /\ Begun \in States /\ 1 \in 1 .. NumHarts
      /\ owed + 1 \in Int /\ owed - 1 \in Int
  BY NumHartsAssumption DEF Begun, States, MachineTypeOK
<1> USE <1>0 DEF MachineTypeOK, States, InTick, flags, history
<1>1. CASE MainThread
  <2>0. setup' = setup
    BY <1>1 DEF MainThread
  <2>1. CASE run_fails \/ run_prepares \/ run_spawns \/ run_flags
    BY <1>0, <2>0, <2>1 DEF MainGoes, run_fails, run_prepares, run_spawns, run_flags
  <2>2. CASE MainChecks \/ MainMarks \/ MainJoins \/ MainLeaves
    BY <2>0, <2>2 DEF MainGoes, MainChecks, MainMarks, MainJoins, MainLeaves
  <2> QED
    BY <1>1, <2>1, <2>2 DEF MainThread
<1>2. CASE WorkThread
  <2>0. setup' = setup
    BY <1>2 DEF WorkThread
  <2>1. CASE WorkLoops \/ WorkEnds \/ WorkChecksResetting \/ WorkRebuilds
    <3>1. CASE WorkLoops
      BY <2>0, <3>1 DEF WorkGoes, WorkLoops
    <3>2. CASE WorkChecksResetting \/ WorkRebuilds
      BY <2>0, <3>2 DEF WorkGoes, WorkChecksResetting, WorkRebuilds, RebuildHarts
    <3>3. CASE WorkEnds
      <4>1. work_thread_w' \in BOOLEAN
        BY <3>3, Zenon DEF WorkEnds
      <4>2. workAt' = "ended" /\ UNCHANGED <<state, work_thread_joined, gdb_single_step, harts,
                                            mainAt, termAt, ticking, history>>
        BY <3>3 DEF WorkGoes, WorkEnds
      <4> QED
        BY <2>0, <4>1, <4>2
    <3> QED
      BY <2>1, <3>1, <3>2, <3>3
  <2>2. CASE WorkRestarts \/ WorkChecksHalted \/ WorkWakes \/ WorkEndsRound \/ WorkHalts
    BY <1>0, <2>0, <2>2 DEF WorkGoes, WorkRestarts, Restarts, WorkChecksHalted, WorkWakes,
       WorkEndsRound, WorkHalts
  <2>3. CASE TickReturns \/ TickPowersOff \/ reset_stores \/ reset_begins
    <3>1. ticking' \in 1 .. NumHarts /\ workAt' \in {"round", "tick"}
      BY <2>3, TickEndsFacts DEF TickReturns, TickPowersOff, reset_stores, reset_begins
    <3> QED
      BY <1>0, <2>0, <2>3, <3>1 DEF TickReturns, TickPowersOff, reset_stores, reset_begins
  <2>4. CASE TickReboots \/ reset_checks \/ reset_rebuilds
    BY <2>0, <2>4 DEF WorkGoes, TickReboots, reset_checks, reset_rebuilds, RebuildHarts
  <2> QED
    BY <1>2, <2>1, <2>2, <2>3, <2>4 DEF WorkThread
<1>3. CASE TerminalStops \/ TerminalThread
  BY <1>3 DEF TermGoes, TerminalStops, TerminalThread, stop_checks, stop_stores,
     stop_checks_joined, stop_joins
<1>4. CASE GdbSteps \/ GdbKills
  BY <1>4 DEF GdbSteps, GdbKills
<1>5. CASE Exited \/ UNCHANGED machineVars
  BY <1>5 DEF Exited, machineVars
<1> QED
  BY <1>1, <1>2, <1>3, <1>4, <1>5 DEF MachineNext

LEMMA StepInductive == StepInv /\ [MachineNext]_machineVars => StepInv'
<1> SUFFICES ASSUME StepInv, [MachineNext]_machineVars
             PROVE  (owed >= 0)' /\ StepDiscipline'
  BY TypeInductive DEF StepInv
<1>0. MachineTypeOK /\ owed >= 0 /\ StepDiscipline
  BY DEF StepInv
<1> USE <1>0 DEF MachineTypeOK, StepDiscipline, States, InTick, flags, history,
           gdb
<1>1. CASE MainThread
  BY <1>1 DEF MainThread, MainGoes, Begun, run_fails, run_prepares, run_spawns, run_flags,
     MainChecks, MainMarks, MainJoins, MainLeaves
<1>2. CASE WorkThread
  <2>0. setup' = setup
    BY <1>2 DEF WorkThread
  <2>1. CASE WorkLoops \/ WorkEnds \/ WorkChecksResetting \/ WorkRebuilds
    BY <2>0, <2>1 DEF WorkGoes, WorkLoops, WorkEnds, WorkChecksResetting, WorkRebuilds, RebuildHarts
  <2>2. CASE WorkRestarts \/ WorkChecksHalted \/ WorkWakes \/ WorkHalts
    BY <2>0, <2>2 DEF WorkGoes, Begun, WorkRestarts, Restarts, WorkChecksHalted, WorkWakes, WorkHalts
  <2>3. CASE WorkEndsRound
    BY <2>0, <2>3 DEF WorkGoes, WorkEndsRound
  <2>4. CASE TickReturns \/ TickPowersOff \/ reset_stores \/ reset_begins
    <3>1. workAt' \in {"round", "tick"}
      BY <2>4, TickEndsFacts DEF TickReturns, TickPowersOff, reset_stores, reset_begins
    <3> QED
      BY <2>0, <2>4, <3>1 DEF TickReturns, TickPowersOff, reset_stores, reset_begins, Begun
  <2>5. CASE TickReboots \/ reset_checks \/ reset_rebuilds
    BY <2>0, <2>5 DEF WorkGoes, TickReboots, reset_checks, reset_rebuilds, RebuildHarts
  <2> QED
    BY <1>2, <2>1, <2>2, <2>3, <2>4, <2>5 DEF WorkThread
<1>3. CASE TerminalStops \/ TerminalThread
  BY <1>3 DEF TermGoes, TerminalStops, TerminalThread, stop_checks, stop_stores,
     stop_checks_joined, stop_joins
<1>4. CASE GdbSteps \/ GdbKills
  BY <1>4 DEF GdbSteps, GdbKills
<1>5. CASE Exited \/ UNCHANGED machineVars
  BY <1>5 DEF Exited, machineVars
<1> QED
  BY <1>1, <1>2, <1>3, <1>4, <1>5 DEF MachineNext

LEMMA MachineInitInv == MachineInit => StepInv
<1> SUFFICES ASSUME MachineInit PROVE StepInv
  OBVIOUS
<1>1. 1 \in 1 .. NumHarts /\ 0 \in Nat /\ 0 \in Int
  BY NumHartsAssumption
<1>2. MachineTypeOK
  BY <1>1 DEF MachineInit, MachineTypeOK, States, InTick
<1>3. owed >= 0 /\ StepDiscipline
  BY DEF MachineInit, StepDiscipline, InTick, gdb
<1> QED
  BY <1>2, <1>3 DEF StepInv

(* Under the debugger the worker leaves Halted for a requested step only   *)
(* and holds on to the request until the round is over: the harts run no   *)
(* round that the debugger did not ask for, until the machine goes off.    *)
THEOREM StepInvHolds == MachineSpec => []StepInv
<1>1. MachineInit => StepInv
  BY MachineInitInv
<1>2. StepInv /\ [MachineNext]_machineVars => StepInv'
  BY StepInductive
<1> QED
  BY <1>1, <1>2, PTL DEF MachineSpec

-----------------------------------------------------------------------------
(* While nobody switches the machine off, state is Off only while there is *)
(* no worker, so that reset never takes the branch that rebuilds the harts.    *)
RebootDiscipline ==
  /\ state = "Off" => workAt = "none" /\ mainAt # "spawn"
  /\ mainAt \in {"run", "spawn"} => workAt = "none"
  /\ termAt \in {"reads", "done"}
  /\ workAt \notin {"reset_clear", "reset_build", "reset_begin"}
  /\ harts = "cleared" => workAt = "build"

RebootInv == MachineTypeOK /\ (NobodyStops => RebootDiscipline)

LEMMA SetupStays == [MachineNext]_machineVars => setup' = setup
  BY DEF MachineNext, machineVars, MainThread, WorkThread, TerminalThread, TerminalStops,
     GdbSteps, GdbKills, Exited

LEMMA RebootInductive ==
  ASSUME NobodyStops, MachineTypeOK, RebootDiscipline, [MachineNext]_machineVars
  PROVE  RebootDiscipline'
<1>0. setup.stops = {} /\ "poweroff" \notin setup.guest
  BY DEF NobodyStops
<1> USE DEF RebootDiscipline, States, InTick, flags, history
<1>1. CASE MainThread
  BY <1>0, <1>1 DEF MainThread, MainGoes, Begun, run_fails, run_prepares, run_spawns, run_flags,
     MainChecks, MainMarks, MainJoins, MainLeaves
<1>2. CASE WorkThread
  <2>1. CASE WorkLoops \/ WorkEnds \/ WorkChecksResetting \/ WorkRebuilds
    BY <1>0, <2>1 DEF WorkGoes, WorkLoops, WorkEnds, WorkChecksResetting, WorkRebuilds,
       RebuildHarts
  <2>2. CASE WorkRestarts \/ WorkChecksHalted \/ WorkWakes \/ WorkHalts \/ WorkEndsRound
    BY <1>0, <2>2 DEF WorkGoes, Begun, WorkRestarts, Restarts, WorkChecksHalted, WorkWakes,
       WorkHalts, WorkEndsRound
  <2>3. CASE TickReturns \/ TickPowersOff \/ reset_stores \/ reset_begins
    <3>1. workAt' \in {"round", "tick"}
      BY <2>3, TickEndsFacts DEF TickReturns, TickPowersOff, reset_stores, reset_begins
    <3> QED
      BY <1>0, <2>3, <3>1 DEF TickReturns, TickPowersOff, reset_stores, reset_begins, Begun
  <2>4. CASE TickReboots \/ reset_checks \/ reset_rebuilds
    BY <1>0, <2>4 DEF WorkGoes, TickReboots, reset_checks, reset_rebuilds, RebuildHarts
  <2> QED
    BY <1>2, <2>1, <2>2, <2>3, <2>4 DEF WorkThread
<1>3. CASE TerminalStops \/ TerminalThread
  BY <1>0, <1>3 DEF TermGoes, TerminalStops, TerminalThread, stop_checks, stop_stores,
     stop_checks_joined, stop_joins
<1>4. CASE GdbSteps \/ GdbKills
  BY <1>0, <1>4 DEF GdbSteps, GdbKills
<1>5. CASE Exited \/ UNCHANGED machineVars
  BY <1>0, <1>5 DEF Exited, machineVars
<1> QED
  BY <1>1, <1>2, <1>3, <1>4, <1>5 DEF MachineNext

(* As long as neither the terminal nor the debugger nor the guest switches *)
(* the machine off, a guest's reboot never destroys the hart that asked    *)
(* for it under its own tick.                                              *)
THEOREM RebootSparesTheTick == MachineSpec => []HartsExist
<1>1. MachineInit => RebootInv
  BY MachineInitInv DEF MachineInit, StepInv, RebootInv, RebootDiscipline
<1>2. RebootInv /\ [MachineNext]_machineVars => RebootInv'
  BY TypeInductive, SetupStays, RebootInductive DEF RebootInv, NobodyStops
<1>3. RebootInv => HartsExist
  BY DEF RebootInv, RebootDiscipline, HartsExist, MachineTypeOK, InTick
<1> QED
  BY <1>1, <1>2, <1>3, PTL DEF MachineSpec
=============================================================================
