-------------------------------- MODULE Plic --------------------------------
(***************************************************************************)
(* The platform-level interrupt controller (src/src/devices/plic.cpp).     *)
(*                                                                         *)
(* Devices raise and lower sources with set_pending; the guest programs    *)
(* priorities, enables and thresholds and claims and completes sources     *)
(* through the MMIO registers; every hart has an M-mode and an S-mode      *)
(* context whose level is copied into the hart's ip register, but only     *)
(* when the cached level interrupt_line changes (update_context).          *)
(*                                                                         *)
(* pending_words and the enables words are sets of bit numbers, so that    *)
(* bit b of word w is the source w * WordBits + b.  Accesses of another    *)
(* size than 32 bits and reads other than a claim change nothing and are   *)
(* not actions.                                                            *)
(***************************************************************************)
EXTENDS Naturals

CONSTANTS
  NumHarts,     \* cpu.harts_count
  MaxSources,   \* max_sources (64 in PLIC::init_auto)
  WordBits,     \* bits of a pending or enable word (32)
  PrioLimit,    \* priorities and thresholds are taken modulo this (2^31)
  IrqLines,     \* the sources some device holds, see acquire_irq
  MayUse        \* the sources guest software enables and completes, by context

Contexts == 0 .. (2 * NumHarts - 1)
Harts == 0 .. (NumHarts - 1)
Sources == 1 .. MaxSources
Prios == 0 .. (PrioLimit - 1)
Words == 0 .. ((MaxSources + WordBits - 1) \div WordBits - 1)
NumBits == WordBits * ((MaxSources + WordBits - 1) \div WordBits)
Bits == 0 .. (NumBits - 1)

(* The sources whose bit is in word w. *)
WordIds(w) == {id \in Bits : id \div WordBits = w}

IRQ_SEXT == 9
IRQ_MEXT == 11
Irqs == {1, 3, 5, 7, 9, 11}

(* signal_cpu_interrupt returns for hart numbers from 64 on. *)
ASSUME HartsAssumption == NumHarts \in 1 .. 64
ASSUME SourcesAssumption == MaxSources \in Nat \ {0} /\ WordBits \in Nat \ {0}
ASSUME PrioAssumption == PrioLimit \in Nat \ {0}
(* The devices' sources have a bit in pending_words: acquire_irq counts    *)
(* from 1, and there are far fewer devices than sources.  When MaxSources  *)
(* is a multiple of WordBits, as it is, the source MaxSources has none and *)
(* passes every check of its number all the same, so that a write to its   *)
(* bit would be out of bounds.                                             *)
ASSUME IrqLinesAssumption == IrqLines \subseteq Sources \cap Bits
ASSUME MayUseAssumption == MayUse \in [Contexts -> SUBSET Bits]

VARIABLES
  priorities,       \* [Sources -> Prios]
  pending,          \* pending_words: the set of pending sources
  enables,          \* contexts[c].enables: the set of enabled sources
  threshold,        \* contexts[c].threshold
  interrupt_line,   \* contexts[c].interrupt_line: the level last signalled
  ip                \* the ip register of every hart, as a set of causes

plicVars == <<priorities, pending, enables, threshold, interrupt_line, ip>>

PlicTypeOK ==
  /\ priorities \in [Sources -> Prios]
  /\ pending \in SUBSET Bits
  /\ enables \in [Contexts -> SUBSET Bits]
  /\ threshold \in [Contexts -> Prios]
  /\ interrupt_line \in [Contexts -> BOOLEAN]
  /\ ip \in [Harts -> SUBSET Irqs]

PlicInit ==
  /\ priorities = [s \in Sources |-> 0]
  /\ pending = {}
  /\ enables = [c \in Contexts |-> {}]
  /\ threshold = [c \in Contexts |-> 0]
  /\ interrupt_line = [c \in Contexts |-> FALSE]
  /\ ip = [h \in Harts |-> {}]

-----------------------------------------------------------------------------
(* Context 2h is hart h in M-mode, context 2h + 1 is hart h in S-mode. *)
HartOf(c) == c \div 2
EipBit(c) == IF c % 2 = 1 THEN IRQ_SEXT ELSE IRQ_MEXT

(* The sources that context c could be handed. *)
Candidates(c) ==
  {id \in pending \cap enables[c] :
     id \in Sources /\ priorities[id] > threshold[c]}

(* A higher priority wins, and the lower number between equals. *)
Beats(a, b) ==
  \/ priorities[a] > priorities[b]
  \/ priorities[a] = priorities[b] /\ a <= b

find_highest_pending_enabled(c) ==
  IF Candidates(c) = {} THEN 0
  ELSE CHOOSE id \in Candidates(c) : \A other \in Candidates(c) : Beats(id, other)

(* Slip: the last of several equal sources wins. *)
scan_source_slip(c, best, id) ==
  IF id \in Sources /\ priorities[id] > threshold[c] /\ priorities[id] >= best.priority
  THEN [id |-> id, priority |-> priorities[id]]
  ELSE best

(* One turn of the loop: id replaces the best source found so far, or not. *)
scan_source(c, best, id) ==
  LET better == \/ priorities[id] > best.priority
                \/ priorities[id] = best.priority /\ id < best.id
  IN  IF id \in Sources /\ priorities[id] > threshold[c] /\ better
      THEN [id |-> id, priority |-> priorities[id]]
      ELSE best

(* The loop over the words, and over the set bits of each from the lowest: *)
(* best[n] is what it has found among the sources below n.                 *)
scan_words(c) ==
  LET best[n \in 0 .. NumBits] ==
        IF n = 0 THEN [id |-> 0, priority |-> 0]
        ELSE IF n - 1 \in pending \cap enables[c]
             THEN scan_source(c, best[n - 1], n - 1)
             ELSE best[n - 1]
  IN  best[NumBits].id

(* ip of hart h after the contexts of S whose level changed were signalled. *)
signal_cpu_interrupt(h, S, line) ==
  LET changed == {c \in S : HartOf(c) = h /\ line[c] # interrupt_line[c]}
  IN  (ip[h] \ {EipBit(c) : c \in {d \in changed : ~line[d]}})
        \cup {EipBit(c) : c \in {d \in changed : line[d]}}

(* update_context for every context of S; the other variables are primed.  *)
(* It trusts the cached level: a CSR instruction that writes the external  *)
(* bits of sip or mip itself (Hart::csr_write takes them) is not part of   *)
(* this module, and would leave ip wrong until the level changes.          *)
update_contexts(S) ==
  LET line == [c \in Contexts |->
                 IF c \in S THEN find_highest_pending_enabled(c)' # 0
                            ELSE interrupt_line[c]]
  IN  /\ interrupt_line' = line
      /\ ip' = [h \in Harts |-> signal_cpu_interrupt(h, S, line)]

-----------------------------------------------------------------------------
(* A device raises (on) or lowers its source, one of IrqLines. *)
set_pending(id, on) ==
  /\ id \in Sources
  /\ pending' = IF on THEN pending \cup {id} ELSE pending \ {id}
  /\ UNCHANGED <<priorities, enables, threshold>>
  /\ update_contexts(Contexts)

(* Slip: a new priority does not refresh the contexts. *)
write_priority_slip(id, value) ==
  /\ id \in Sources
  /\ priorities' = [priorities EXCEPT ![id] = value % PrioLimit]
  /\ UNCHANGED <<pending, enables, threshold, interrupt_line, ip>>

(* PLIC::write to a priority register. *)
write_priority(id, value) ==
  /\ id \in Sources
  /\ priorities' = [priorities EXCEPT ![id] = value % PrioLimit]
  /\ UNCHANGED <<pending, enables, threshold>>
  /\ update_contexts(Contexts)

(* PLIC::write to word w of the enables of context c. *)
write_enable(c, w, bits) ==
  /\ enables' = [enables EXCEPT ![c] = (@ \ WordIds(w)) \cup bits]
  /\ UNCHANGED <<priorities, pending, threshold>>
  /\ update_contexts({c})

(* Slip: a new threshold does not refresh the context. *)
write_threshold_slip(c, value) ==
  /\ threshold' = [threshold EXCEPT ![c] = value % PrioLimit]
  /\ UNCHANGED <<priorities, pending, enables, interrupt_line, ip>>

(* PLIC::write to the threshold of context c. *)
write_threshold(c, value) ==
  /\ threshold' = [threshold EXCEPT ![c] = value % PrioLimit]
  /\ UNCHANGED <<priorities, pending, enables>>
  /\ update_contexts({c})

(* PLIC::read of the claim register of context c that finds a source.  A   *)
(* claim that finds none returns 0 and changes nothing.                    *)
claim_interrupt(c) ==
  LET id == find_highest_pending_enabled(c)
  IN  /\ id # 0
      /\ pending' = pending \ {id}
      /\ UNCHANGED <<priorities, enables, threshold>>
      /\ update_contexts({c})

(* PLIC::write of id to the complete register of context c; id has a bit,  *)
(* see IrqLinesAssumption.                                                 *)
complete_interrupt(c, id) ==
  /\ id \in Sources
  /\ pending' = pending \ {id}
  /\ UNCHANGED <<priorities, enables, threshold>>
  /\ update_contexts({c})

-----------------------------------------------------------------------------
DeviceSignals == \E id \in IrqLines, on \in BOOLEAN : set_pending(id, on)

GuestSetsPriority ==
  \E id \in Sources, value \in 0 .. PrioLimit : write_priority(id, value)

GuestSetsEnables ==
  \E c \in Contexts, w \in Words :
    \E bits \in SUBSET (WordIds(w) \cap MayUse[c]) : write_enable(c, w, bits)

GuestSetsThreshold ==
  \E c \in Contexts, value \in 0 .. PrioLimit : write_threshold(c, value)

GuestClaims == \E c \in Contexts : claim_interrupt(c)

GuestCompletes == \E c \in Contexts : \E id \in MayUse[c] : complete_interrupt(c, id)

PlicNext ==
  \/ DeviceSignals
  \/ GuestSetsPriority
  \/ GuestSetsEnables
  \/ GuestSetsThreshold
  \/ GuestClaims
  \/ GuestCompletes

PlicSpec == PlicInit /\ [][PlicNext]_plicVars

-----------------------------------------------------------------------------
(* No interrupt is lost inside the controller: a context that could be     *)
(* handed a source has its bit set in the ip register of its hart, although *)
(* claims, completions, enables and thresholds only refresh one context    *)
(* and ip is only written when the cached level changes.                   *)
DeliverableIsVisible ==
  \A c \in Contexts :
    Candidates(c) # {} => EipBit(c) \in ip[HartOf(c)]

(* The scan finds a source exactly when there is a candidate, and then one *)
(* of the highest priority, the lowest number among those.  It starts from *)
(* priority 0 and source 0, which are below every candidate only because a *)
(* candidate is above a threshold.                                         *)
ScanFindsBest ==
  \A c \in Contexts : scan_words(c) = find_highest_pending_enabled(c)

(* Guest software that uses every source from one context only. *)
Routed == \A c, d \in Contexts : c # d => MayUse[c] \cap MayUse[d] = {}

(* No stale level: when every source is used from one context only, the ip *)
(* bits are exactly the contexts that have something to claim, so that no  *)
(* hart is interrupted for a source that was already claimed or lowered.   *)
VisibleIsDeliverable ==
  Routed => \A c \in Contexts :
    EipBit(c) \in ip[HartOf(c)] => Candidates(c) # {}

(* The cached level of a context and the ip bit it drives never differ. *)
LineDrivesIp ==
  \A c \in Contexts : interrupt_line[c] <=> EipBit(c) \in ip[HartOf(c)]

(* What DeliverableIsVisible and VisibleIsDeliverable need to be inductive. *)
PlicInv ==
  /\ PlicTypeOK
  /\ LineDrivesIp
  /\ \A c \in Contexts : Candidates(c) # {} => interrupt_line[c]
  /\ \A c \in Contexts : enables[c] \subseteq MayUse[c]
  /\ Routed => \A c \in Contexts : interrupt_line[c] => Candidates(c) # {}
=============================================================================
