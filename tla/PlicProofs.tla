----------------------------- MODULE PlicProofs -----------------------------
(***************************************************************************)
(* The controller never loses or invents an interrupt, for every number of *)
(* harts, sources and priorities: PlicInv is inductive.                    *)
(***************************************************************************)
EXTENDS Plic, WellFoundedInduction, TLAPS

-----------------------------------------------------------------------------
(* Induction and recursion.  The library states them for a predicate or an *)
(* operator; these lemmas take a set of numbers and functions instead.     *)

(* Every nonempty set of naturals has a least element. *)
LEMMA NatMin ==
  ASSUME NEW T, T \subseteq Nat, T # {}
  PROVE  \E x \in T : \A y \in T : x <= y
<1>1. \E x \in T : \A y \in T : ~ (<<y, x>> \in OpToRel(<, Nat))
  BY NatLessThanWellFounded, WFMin
<1>2. PICK x \in T : \A y \in T : ~ (<<y, x>> \in OpToRel(<, Nat))
  BY <1>1
<1>3. \A y \in T : ~ (y < x)
  BY <1>2 DEF OpToRel
<1>4. \A y \in T : x <= y
  BY <1>3
<1> QED
  BY <1>4

(* Induction, over a set of numbers instead of a predicate. *)
LEMMA Induction ==
  ASSUME NEW S, 0 \in S, \A n \in Nat : n \in S => n + 1 \in S
  PROVE  \A n \in Nat : n \in S
<1> DEFINE T == {n \in Nat : n \notin S}
<1> SUFFICES ASSUME T # {} PROVE FALSE
  OBVIOUS
<1>1. PICK m \in T : \A k \in T : m <= k
  BY NatMin
<1>2. m # 0 /\ m \in Nat /\ m - 1 \in Nat /\ (m - 1) + 1 = m
  BY <1>1
<1>3. m - 1 \in S
  BY <1>1, <1>2
<1> QED
  BY <1>1, <1>2, <1>3

(* g is defined by recursion up to N: by a, and by F from its last value. *)
Recurses(g, N, a, F) == \A k \in 1 .. N : g[k] = IF k = 1 THEN a ELSE F[k][g[k - 1]]

(* Such a g exists. *)
LEMMA Recursion ==
  ASSUME NEW X, NEW N \in Nat, NEW a \in X, NEW F \in [1 .. N -> [X -> X]]
  PROVE  \E g \in [1 .. N -> X] : Recurses(g, N, a, F)
<1> DEFINE Upto(m) == \E g \in [1 .. m -> X] : Recurses(g, m, a, F)
           S == {m \in Nat : m <= N => Upto(m)}
<1>1. 0 \in S
  <2> DEFINE e == [k \in 1 .. 0 |-> a]
  <2>1. e \in [1 .. 0 -> X] /\ Recurses(e, 0, a, F)
    BY DEF Recurses
  <2> HIDE DEF e
  <2> QED
    BY <2>1
<1>2. ASSUME NEW m \in Nat, m \in S PROVE m + 1 \in S
  <2> SUFFICES ASSUME m + 1 <= N PROVE Upto(m + 1)
    OBVIOUS
  <2>1. PICK g \in [1 .. m -> X] :
          \A k \in 1 .. m : g[k] = IF k = 1 THEN a ELSE F[k][g[k - 1]]
    BY <1>2 DEF Recurses
  <2> DEFINE h == [k \in 1 .. (m + 1) |->
                     IF k <= m THEN g[k] ELSE IF k = 1 THEN a ELSE F[k][g[k - 1]]]
  <2>2. h \in [1 .. (m + 1) -> X]
    <3> SUFFICES ASSUME NEW k \in 1 .. (m + 1), k > m, k # 1
                 PROVE  F[k][g[k - 1]] \in X
      BY <2>1
    <3>1. k \in 1 .. N /\ k - 1 \in 1 .. m
      OBVIOUS
    <3> QED
      BY <3>1, <2>1
  <2>3. ASSUME NEW k \in 1 .. (m + 1)
        PROVE  h[k] = IF k = 1 THEN a ELSE F[k][h[k - 1]]
    <3>1. CASE k = 1
      <4>1. m >= 1 => 1 \in 1 .. m
        OBVIOUS
      <4> QED
        BY <3>1, <4>1, <2>1
    <3>2. CASE k # 1
      <4>1. k - 1 \in 1 .. (m + 1) /\ k - 1 <= m
        BY <3>2
      <4>2. h[k - 1] = g[k - 1]
        BY <4>1
      <4> QED
        BY <3>2, <4>2, <2>1
    <3> QED
      BY <3>1, <3>2
  <2> HIDE DEF h
  <2>4. Recurses(h, m + 1, a, F)
    BY <2>3 DEF Recurses
  <2> QED
    BY <2>2, <2>4
<1> HIDE DEF S
<1>3. N \in S
  BY <1>1, <1>2, Induction
<1> QED
  BY <1>3 DEF S

-----------------------------------------------------------------------------
(* The controller. *)

(* The part of the type invariant that is about the registers. *)
RegistersOK ==
  /\ priorities \in [Sources -> Prios]
  /\ pending \in SUBSET Bits
  /\ enables \in [Contexts -> SUBSET Bits]
  /\ threshold \in [Contexts -> Prios]

(* What find_highest_pending_enabled promises. *)
FindsBest ==
  \A c \in Contexts :
    LET found == find_highest_pending_enabled(c)
    IN  /\ found # 0 <=> Candidates(c) # {}
        /\ Candidates(c) # {} => /\ found \in Candidates(c)
                                 /\ \A other \in Candidates(c) : Beats(found, other)

(* find_highest_pending_enabled returns 0 exactly when no source is        *)
(* pending, enabled and above the threshold: among the candidates there is *)
(* always one that beats the others.                                       *)
LEMMA FindHighestIsBest == RegistersOK => FindsBest
<1> SUFFICES ASSUME RegistersOK, NEW c \in Contexts
             PROVE  /\ find_highest_pending_enabled(c) # 0 <=> Candidates(c) # {}
                    /\ Candidates(c) # {} =>
                         /\ find_highest_pending_enabled(c) \in Candidates(c)
                         /\ \A other \in Candidates(c) :
                              Beats(find_highest_pending_enabled(c), other)
  BY DEF FindsBest
<1>0. Candidates(c) \subseteq Sources /\ 0 \notin Sources /\ Sources \subseteq Nat
  BY SourcesAssumption DEF Candidates, Sources
<1>a. \A id \in Candidates(c) : priorities[id] \in 0 .. (PrioLimit - 1)
  BY <1>0 DEF RegistersOK, Prios
<1>1. CASE Candidates(c) = {}
  BY <1>1 DEF find_highest_pending_enabled
<1>2. CASE Candidates(c) # {}
  <2> DEFINE Gaps == {PrioLimit - 1 - priorities[id] : id \in Candidates(c)}
  <2>1. Gaps \subseteq Nat /\ Gaps # {}
    BY <1>a, <1>2, PrioAssumption
  <2>2. PICK gap \in Gaps : \A g \in Gaps : gap <= g
    BY <2>1, NatMin
  <2> DEFINE Top == {id \in Candidates(c) : PrioLimit - 1 - priorities[id] = gap}
  <2>3. Top # {} /\ Top \subseteq Nat
    BY <2>2, <1>0
  <2>4. PICK id \in Top : \A other \in Top : id <= other
    BY <2>3, NatMin
  <2>5. \A other \in Candidates(c) : Beats(id, other)
    <3> SUFFICES ASSUME NEW other \in Candidates(c) PROVE Beats(id, other)
      OBVIOUS
    <3>1. PrioLimit - 1 - priorities[id] = gap /\ gap <= PrioLimit - 1 - priorities[other]
      BY <2>2, <2>4
    <3>2. priorities[id] >= priorities[other]
      BY <3>1, <1>a, <2>4, PrioAssumption
    <3>3. CASE priorities[id] = priorities[other]
      <4>1. other \in Top
        BY <3>1, <3>3
      <4> QED
        BY <4>1, <3>3, <2>4 DEF Beats
    <3>4. CASE priorities[id] # priorities[other]
      BY <3>2, <3>4, <1>a, <2>4, PrioAssumption DEF Beats
    <3> QED
      BY <3>3, <3>4
  <2>6. /\ find_highest_pending_enabled(c) \in Candidates(c)
        /\ \A other \in Candidates(c) : Beats(find_highest_pending_enabled(c), other)
    BY <1>2, <2>4, <2>5 DEF find_highest_pending_enabled
  <2> QED
    BY <2>6, <1>0, <1>2
<1> QED
  BY <1>1, <1>2

(* A context is known by its hart and by the ip bit it drives. *)
LEMMA ContextIsHartAndBit ==
  ASSUME NEW c \in Contexts
  PROVE  /\ HartOf(c) \in Harts
         /\ EipBit(c) \in Irqs
         /\ \A d \in Contexts : HartOf(d) = HartOf(c) /\ EipBit(d) = EipBit(c) => d = c
<1>1. HartOf(c) \in Harts
  BY HartsAssumption DEF Contexts, HartOf, Harts
<1>2. EipBit(c) \in Irqs
  BY DEF EipBit, Irqs, IRQ_SEXT, IRQ_MEXT
<1>3. ASSUME NEW d \in Contexts, HartOf(d) = HartOf(c), EipBit(d) = EipBit(c)
      PROVE  d = c
  <2>1. c \in Nat /\ d \in Nat
    BY HartsAssumption DEF Contexts
  <2>2. c % 2 \in 0 .. 1 /\ d % 2 \in 0 .. 1
    BY <2>1
  <2>3. c % 2 = d % 2
    BY <1>3, <2>2 DEF EipBit, IRQ_SEXT, IRQ_MEXT
  <2> QED
    BY <2>1, <2>3, <1>3 DEF HartOf
<1> QED
  BY <1>1, <1>2, <1>3

(* The part of a step that update_context stands for: the cached levels    *)
(* and the ip bits agree again, and they are the new ones in S and the old *)
(* ones outside.                                                           *)
LEMMA UpdateContexts ==
  ASSUME PlicTypeOK, RegistersOK', LineDrivesIp,
         NEW S \in SUBSET Contexts, update_contexts(S)
  PROVE  /\ PlicTypeOK'
         /\ LineDrivesIp'
         /\ \A c \in S : interrupt_line'[c] <=> Candidates(c)' # {}
         /\ \A c \in Contexts \ S : interrupt_line'[c] = interrupt_line[c]
<1>1. FindsBest'
  BY FindHighestIsBest, PTL
<1>2. /\ interrupt_line' \in [Contexts -> BOOLEAN]
      /\ \A c \in S : interrupt_line'[c] <=> Candidates(c)' # {}
      /\ \A c \in Contexts \ S : interrupt_line'[c] = interrupt_line[c]
  BY <1>1 DEF update_contexts, FindsBest, PlicTypeOK
<1>3. ip' = [h \in Harts |-> signal_cpu_interrupt(h, S, interrupt_line')]
  BY DEF update_contexts
<1>4. ip' \in [Harts -> SUBSET Irqs]
  BY <1>3, ContextIsHartAndBit DEF signal_cpu_interrupt, PlicTypeOK
<1>5. ASSUME NEW c \in Contexts
      PROVE  interrupt_line'[c] <=> EipBit(c) \in ip'[HartOf(c)]
  <2> DEFINE changed == {d \in S : /\ HartOf(d) = HartOf(c)
                                   /\ interrupt_line'[d] # interrupt_line[d]}
             down == {EipBit(d) : d \in {e \in changed : ~interrupt_line'[e]}}
             up == {EipBit(d) : d \in {e \in changed : interrupt_line'[e]}}
  <2>1. ip'[HartOf(c)] = (ip[HartOf(c)] \ down) \cup up
    BY <1>3, ContextIsHartAndBit DEF signal_cpu_interrupt
  <2>2. /\ EipBit(c) \in down <=> c \in changed /\ ~interrupt_line'[c]
        /\ EipBit(c) \in up <=> c \in changed /\ interrupt_line'[c]
    BY ContextIsHartAndBit
  <2>3. c \in changed <=> interrupt_line'[c] # interrupt_line[c]
    BY <1>2
  <2>4. interrupt_line[c] <=> EipBit(c) \in ip[HartOf(c)]
    BY DEF LineDrivesIp
  <2>5. interrupt_line[c] \in BOOLEAN /\ interrupt_line'[c] \in BOOLEAN
    BY <1>2 DEF PlicTypeOK
  <2> QED
    BY <2>1, <2>2, <2>3, <2>4, <2>5
<1>6. PlicTypeOK' /\ LineDrivesIp'
  BY <1>2, <1>4, <1>5 DEF RegistersOK, PlicTypeOK, LineDrivesIp
<1> QED
  BY <1>2, <1>6

(* Every step refreshes the contexts whose candidates it may add to, and a *)
(* source taken away from another context was not enabled there when every *)
(* source is used from one context only.                                   *)
RefreshesEnough(S) ==
  /\ RegistersOK'
  /\ \A c \in Contexts : enables'[c] \subseteq MayUse[c]
  /\ \A c \in Contexts \ S : Candidates(c)' \subseteq Candidates(c)
  /\ Routed => \A c \in Contexts \ S : Candidates(c)' = Candidates(c)
  /\ update_contexts(S)

(* A step that refreshes enough contexts keeps the invariant. *)
LEMMA RefreshKeepsInv ==
  ASSUME PlicInv, NEW S \in SUBSET Contexts, RefreshesEnough(S)
  PROVE  PlicInv'
<1>1. /\ PlicTypeOK' /\ LineDrivesIp'
      /\ \A c \in S : interrupt_line'[c] <=> Candidates(c)' # {}
      /\ \A c \in Contexts \ S : interrupt_line'[c] = interrupt_line[c]
  BY UpdateContexts DEF PlicInv, RefreshesEnough
<1>2. \A c \in Contexts : Candidates(c)' # {} => interrupt_line'[c]
  BY <1>1 DEF PlicInv, RefreshesEnough
<1>3. Routed => \A c \in Contexts : interrupt_line'[c] => Candidates(c)' # {}
  BY <1>1 DEF PlicInv, RefreshesEnough
<1>4. Routed' <=> Routed
  BY DEF Routed
<1> QED
  BY <1>1, <1>2, <1>3, <1>4 DEF PlicInv, RefreshesEnough

(* Taking a source away from pending, as a claim and a completion of       *)
(* context c do.                                                           *)
LEMMA TakeKeepsInv ==
  ASSUME PlicInv, NEW c \in Contexts, NEW id, pending' = pending \ {id},
         id \in MayUse[c],
         UNCHANGED <<priorities, enables, threshold>>, update_contexts({c})
  PROVE  PlicInv'
<1>1. RegistersOK' /\ \A d \in Contexts : enables'[d] \subseteq MayUse[d]
  BY DEF PlicInv, PlicTypeOK, RegistersOK
<1>2. \A d \in Contexts : Candidates(d)' = Candidates(d) \ {id}
  BY DEF Candidates
<1>3. Routed => \A d \in Contexts \ {c} : id \notin Candidates(d)
  BY DEF Routed, Candidates, PlicInv
<1> QED
  BY <1>1, <1>2, <1>3, RefreshKeepsInv DEF RefreshesEnough

(* Every step keeps the invariant. *)
LEMMA InvInductive == PlicInv /\ [PlicNext]_plicVars => PlicInv'
<1> SUFFICES ASSUME PlicInv, [PlicNext]_plicVars PROVE PlicInv'
  OBVIOUS
<1>t. PlicTypeOK /\ (\A c \in Contexts : enables[c] \subseteq MayUse[c])
  BY DEF PlicInv
<1>u. PlicTypeOK => RegistersOK
  BY DEF PlicTypeOK, RegistersOK
<1>p. \A value \in Nat : value % PrioLimit \in Prios
  BY PrioAssumption DEF Prios
<1>1. ASSUME NEW id \in IrqLines, NEW on \in BOOLEAN, set_pending(id, on)
      PROVE  PlicInv'
  <2>1. RegistersOK'
    BY <1>1, <1>t, <1>u, IrqLinesAssumption DEF set_pending, RegistersOK
  <2> QED
    BY <1>1, <1>t, <2>1, RefreshKeepsInv DEF set_pending, RefreshesEnough
<1>2. ASSUME NEW id \in Sources, NEW value \in 0 .. PrioLimit,
             write_priority(id, value)
      PROVE  PlicInv'
  <2>1. value \in Nat
    BY PrioAssumption
  <2>2. RegistersOK'
    BY <1>2, <1>t, <1>u, <1>p, <2>1 DEF write_priority, RegistersOK
  <2> QED
    BY <1>2, <1>t, <2>2, RefreshKeepsInv DEF write_priority, RefreshesEnough
<1>3. ASSUME NEW c \in Contexts, NEW w \in Words,
             NEW bits \in SUBSET (WordIds(w) \cap MayUse[c]), write_enable(c, w, bits)
      PROVE  PlicInv'
  <2>1. RegistersOK'
    BY <1>3, <1>t, <1>u DEF write_enable, RegistersOK, WordIds
  <2>2. \A d \in Contexts : enables'[d] \subseteq MayUse[d]
    BY <1>3, <1>t DEF write_enable, PlicTypeOK
  <2>3. \A d \in Contexts \ {c} : Candidates(d)' = Candidates(d)
    BY <1>3, <1>t DEF write_enable, PlicTypeOK, Candidates
  <2> QED
    BY <1>3, <2>1, <2>2, <2>3, RefreshKeepsInv DEF write_enable, RefreshesEnough
<1>4. ASSUME NEW c \in Contexts, NEW value \in 0 .. PrioLimit,
             write_threshold(c, value)
      PROVE  PlicInv'
  <2>1. value \in Nat
    BY PrioAssumption
  <2>2. RegistersOK'
    BY <1>4, <1>t, <1>u, <1>p, <2>1 DEF write_threshold, RegistersOK
  <2>3. \A d \in Contexts \ {c} : Candidates(d)' = Candidates(d)
    BY <1>4, <1>t DEF write_threshold, PlicTypeOK, Candidates
  <2> QED
    BY <1>4, <1>t, <2>2, <2>3, RefreshKeepsInv DEF write_threshold, RefreshesEnough
<1>5. ASSUME NEW c \in Contexts, claim_interrupt(c)
      PROVE  PlicInv'
  <2>1. Candidates(c) # {}
    BY <1>5 DEF claim_interrupt, find_highest_pending_enabled
  <2>2. find_highest_pending_enabled(c) \in Candidates(c)
    BY <1>t, <1>u, <2>1, FindHighestIsBest DEF FindsBest
  <2>3. find_highest_pending_enabled(c) \in MayUse[c]
    BY <2>2, <1>t DEF Candidates
  <2> QED
    BY <1>5, <2>3, TakeKeepsInv DEF claim_interrupt
<1>6. ASSUME NEW c \in Contexts, NEW id \in MayUse[c], complete_interrupt(c, id)
      PROVE  PlicInv'
  BY <1>6, TakeKeepsInv DEF complete_interrupt
<1>7. CASE UNCHANGED plicVars
  <2>1. \A c \in Contexts : Candidates(c)' = Candidates(c)
    BY <1>7 DEF plicVars, Candidates
  <2> QED
    BY <1>7, <2>1 DEF plicVars, PlicInv, PlicTypeOK, LineDrivesIp, Routed
<1> QED
  BY <1>1, <1>2, <1>3, <1>4, <1>5, <1>6, <1>7
  DEF PlicNext, DeviceSignals, GuestSetsPriority, GuestSetsEnables,
      GuestSetsThreshold, GuestClaims, GuestCompletes

(* The invariant holds at first. *)
LEMMA InitInv == PlicInit => PlicInv
<1> SUFFICES ASSUME PlicInit PROVE PlicInv
  OBVIOUS
<1>1. PlicTypeOK
  BY PrioAssumption DEF PlicInit, PlicTypeOK, Prios
<1>2. LineDrivesIp
  BY ContextIsHartAndBit DEF PlicInit, LineDrivesIp
<1>3. \A c \in Contexts : Candidates(c) = {}
  BY DEF PlicInit, Candidates
<1> QED
  BY <1>1, <1>2, <1>3 DEF PlicInit, PlicInv

(* PlicInv holds in every reachable state: the types, the agreement of the *)
(* cached level of a context with the ip bit it drives (update_context),   *)
(* and the one between the cached level and the claimable sources.         *)
THEOREM PlicInvHolds == PlicSpec => []PlicInv
BY InitInv, InvInductive, PTL DEF PlicSpec

(* No order of device signals, claims, completions and register writes     *)
(* leaves a claimable source without its bit in the ip of its hart.        *)
THEOREM NoInterruptIsLost == PlicSpec => []DeliverableIsVisible
<1>1. PlicInv => DeliverableIsVisible
  BY DEF PlicInv, DeliverableIsVisible, LineDrivesIp
<1> QED
  BY <1>1, PlicInvHolds, PTL

(* When every source is used from one context only, an ip bit is set only  *)
(* for a context that has something to claim.                              *)
THEOREM NoInterruptIsInvented == PlicSpec => []VisibleIsDeliverable
<1>1. PlicInv => VisibleIsDeliverable
  BY DEF PlicInv, VisibleIsDeliverable, LineDrivesIp
<1> QED
  BY <1>1, PlicInvHolds, PTL

(* The bit of every source is in a word that the guest can write. *)
LEMMA WordOfBit ==
  ASSUME NEW id \in Bits
  PROVE  id \div WordBits \in Words /\ id \in WordIds(id \div WordBits)
<1> DEFINE w == id \div WordBits
           n == (MaxSources + WordBits - 1) \div WordBits
<1>1. n \in Nat /\ id \in Nat /\ id < WordBits * n
  <2>1. MaxSources + WordBits - 1 \in Nat
    BY SourcesAssumption
  <2>2. n \in Nat
    BY <2>1, SourcesAssumption, Z3
  <2> QED
    BY <2>2, SourcesAssumption DEF Bits, NumBits
<1>2. w \in Nat /\ WordBits * w <= id
  BY <1>1, SourcesAssumption, Z3
<1>3. id \in WordIds(w)
  BY DEF WordIds
<1> HIDE DEF w, n
<1>4. w < n
  <2> SUFFICES ASSUME n <= w PROVE FALSE
    BY <1>1, <1>2
  <2>1. WordBits * n <= WordBits * w
    BY <1>1, <1>2, SourcesAssumption
  <2>2. WordBits * n \in Nat /\ WordBits * w \in Nat
    BY <1>1, <1>2, SourcesAssumption
  <2> QED
    BY <2>1, <2>2, <1>1, <1>2
<1>5. w \in Words
  BY <1>1, <1>2, <1>4 DEF Words, n
<1> QED
  BY <1>3, <1>5 DEF w

-----------------------------------------------------------------------------
(* The loop that looks for a source. *)

(* What the loop keeps in best_id and best_priority. *)
Bests == [id : Nat, priority : Nat]

(* What the loop has found among the sources below n: nothing when none of *)
(* them is a candidate, and otherwise the candidate that beats the others. *)
FoundBelow(c, best, n) ==
  \/ /\ best.id = 0
     /\ best.priority = 0
     /\ \A other \in Candidates(c) : other >= n
  \/ /\ best.id \in Candidates(c)
     /\ best.id < n
     /\ best.priority = priorities[best.id]
     /\ \A other \in Candidates(c) : other < n => Beats(best.id, other)

(* One turn of the loop, for a bit that is set or not. *)
Turn(c, best, id) ==
  IF id \in pending \cap enables[c] THEN scan_source(c, best, id) ELSE best

(* Where the candidates, their priorities and the thresholds lie. *)
LEMMA CandidateFacts ==
  ASSUME RegistersOK, NEW c \in Contexts
  PROVE  /\ Candidates(c) \subseteq Bits \cap Sources
         /\ Bits \subseteq Nat
         /\ 0 \notin Sources
         /\ NumBits \in Nat
         /\ threshold[c] \in Nat
         /\ \A id \in Sources : id \in Nat /\ priorities[id] \in Nat
<1>1. NumBits \in Nat
  BY SourcesAssumption DEF NumBits
<1>2. Prios \subseteq Nat
  BY DEF Prios
<1>3. Bits \subseteq Nat
  BY <1>1 DEF Bits
<1>4. 0 \notin Sources /\ Sources \subseteq Nat
  BY SourcesAssumption DEF Sources
<1>5. Candidates(c) \subseteq Bits \cap Sources
  BY DEF Candidates, RegistersOK
<1>6. threshold[c] \in Nat /\ \A id \in Sources : priorities[id] \in Nat
  BY <1>2 DEF RegistersOK
<1> QED
  BY <1>1, <1>3, <1>4, <1>5, <1>6

(* A turn for source n extends what was found below n to n + 1. *)
LEMMA TurnExtends ==
  ASSUME RegistersOK, NEW c \in Contexts, NEW n \in Nat, NEW best \in Bests,
         FoundBelow(c, best, n)
  PROVE  FoundBelow(c, Turn(c, best, n), n + 1)
<1> USE CandidateFacts
<1>1. \A other \in Candidates(c) : other < n + 1 <=> (other < n \/ other = n)
  <2>1. \A k \in Nat : k < n + 1 <=> (k < n \/ k = n)
    OBVIOUS
  <2> QED
    BY <2>1
<1>2. CASE n \notin Candidates(c)
  <2>1. Turn(c, best, n) = best
    BY <1>2 DEF Turn, scan_source, Candidates
  <2>2. \A other \in Candidates(c) : other >= n => other >= n + 1
    <3>1. \A k \in Nat : k >= n /\ k # n => k >= n + 1
      OBVIOUS
    <3> QED
      BY <3>1, <1>2
  <2>3. best.id < n => best.id < n + 1
    BY DEF Bests
  <2> QED
    BY <2>1, <2>2, <2>3, <1>1, <1>2 DEF FoundBelow
<1>3. CASE n \in Candidates(c)
  <2> DEFINE new == [id |-> n, priority |-> priorities[n]]
  <2>0. /\ n \in pending \cap enables[c] /\ n \in Sources /\ n < n + 1
        /\ priorities[n] \in Nat /\ priorities[n] > threshold[c]
        /\ best.id \in Nat /\ best.priority \in Nat
    BY <1>3 DEF Candidates, Bests
  <2>1. CASE best.id = 0 /\ best.priority = 0 /\ \A other \in Candidates(c) : other >= n
    <3>1. priorities[n] > best.priority
      BY <2>0, <2>1
    <3>2. Turn(c, best, n) = new
      BY <2>0, <3>1 DEF Turn, scan_source
    <3>3. ASSUME NEW other \in Candidates(c), other < n + 1 PROVE Beats(n, other)
      <4>1. other = n
        BY <2>1, <3>3, <1>1
      <4> QED
        BY <4>1, <2>0 DEF Beats
    <3> QED
      BY <3>2, <3>3, <2>0, <1>3 DEF FoundBelow
  <2>2. CASE /\ best.id \in Candidates(c)
             /\ best.id < n
             /\ best.priority = priorities[best.id]
             /\ \A other \in Candidates(c) : other < n => Beats(best.id, other)
    <3>1. ~ (n < best.id)
      BY <2>0, <2>2
    <3>2. CASE priorities[n] > best.priority
      <4>1. Turn(c, best, n) = new
        BY <2>0, <3>2 DEF Turn, scan_source
      <4>2. ASSUME NEW other \in Candidates(c), other < n + 1 PROVE Beats(n, other)
        <5>1. CASE other = n
          BY <5>1, <2>0 DEF Beats
        <5>2. CASE other < n
          <6>1. Beats(best.id, other) /\ priorities[other] \in Nat
            BY <5>2, <2>2
          <6> QED
            BY <6>1, <2>0, <2>2, <3>2 DEF Beats
        <5> QED
          BY <5>1, <5>2, <4>2, <1>1
      <4> QED
        BY <4>1, <4>2, <2>0, <1>3 DEF FoundBelow
    <3>3. CASE ~ (priorities[n] > best.priority)
      <4>1. Turn(c, best, n) = best
        BY <2>0, <3>1, <3>3 DEF Turn, scan_source
      <4>2. Beats(best.id, n)
        BY <2>0, <2>2, <3>3 DEF Beats
      <4>3. best.id < n + 1
        BY <2>0, <2>2
      <4> QED
        BY <4>1, <4>2, <4>3, <2>2, <1>1 DEF FoundBelow
    <3> QED
      BY <3>2, <3>3
  <2> QED
    BY <2>1, <2>2 DEF FoundBelow
<1> QED
  BY <1>2, <1>3

(* A turn leaves a source and a priority. *)
LEMMA TurnTyped ==
  ASSUME RegistersOK, NEW c \in Contexts, NEW n \in Nat, NEW best \in Bests
  PROVE  Turn(c, best, n) \in Bests
<1>1. n \in Sources => [id |-> n, priority |-> priorities[n]] \in Bests
  BY CandidateFacts DEF Bests
<1> QED
  BY <1>1 DEF Turn, scan_source

(* The values best takes: nothing at first, then turn after turn. *)
LEMMA ScanUnfolds ==
  ASSUME RegistersOK, NEW c \in Contexts
  PROVE  \E best :
           /\ scan_words(c) = best[NumBits].id
           /\ best[0] = [id |-> 0, priority |-> 0]
           /\ \A n \in 1 .. NumBits : best[n] = Turn(c, best[n - 1], n - 1)
<1> DEFINE none == [id |-> 0, priority |-> 0]
           N == NumBits + 1
           F == [k \in 1 .. N |-> [v \in Bests |-> IF k = 1 THEN none ELSE Turn(c, v, k - 2)]]
           G(g) == [n \in 0 .. NumBits |->
                      IF n = 0 THEN none
                      ELSE IF n - 1 \in pending \cap enables[c]
                           THEN scan_source(c, g[n - 1], n - 1)
                           ELSE g[n - 1]]
           best == CHOOSE g : g = G(g)
<1>0. NumBits \in Nat /\ none \in Bests
  BY CandidateFacts DEF Bests
<1>1. F \in [1 .. N -> [Bests -> Bests]]
  <2> SUFFICES ASSUME NEW k \in 1 .. N, NEW v \in Bests, k # 1
               PROVE  Turn(c, v, k - 2) \in Bests
    BY <1>0
  <2>1. k - 2 \in Nat
    OBVIOUS
  <2> QED
    BY <2>1, TurnTyped
<1>2. PICK f \in [1 .. N -> Bests] : Recurses(f, N, none, F)
  <2>1. N \in Nat
    BY <1>0
  <2> HIDE DEF F, N, none
  <2> QED
    BY <2>1, <1>0, <1>1, Recursion
<1> DEFINE shifted == [n \in 0 .. NumBits |-> f[n + 1]]
<1>3. shifted = G(shifted)
  <2>1. ASSUME NEW n \in 0 .. NumBits
        PROVE  shifted[n] = IF n = 0 THEN none
                            ELSE IF n - 1 \in pending \cap enables[c]
                                 THEN scan_source(c, shifted[n - 1], n - 1)
                                 ELSE shifted[n - 1]
    <3>1. n + 1 \in 1 .. N /\ (n + 1) - 1 = n /\ (n + 1) - 2 = n - 1
      BY <1>0
    <3>2. CASE n = 0
      <4>1. 1 \in 1 .. N /\ 0 \in 0 .. NumBits /\ 0 + 1 = 1
        BY <1>0
      <4>2. f[1] = none
        <5> HIDE DEF F, none, N
        <5> QED
          BY <4>1, <1>2 DEF Recurses
      <4>3. shifted[0] = none
        BY <4>1, <4>2
      <4> HIDE DEF shifted, none
      <4> QED
        BY <4>3, <3>2
    <3>3. CASE n # 0
      <4>1. n \in 1 .. N /\ n - 1 \in 0 .. NumBits /\ (n - 1) + 1 = n /\ n + 1 # 1
        BY <3>3, <1>0
      <4>2. f[n] \in Bests /\ shifted[n - 1] = f[n]
        BY <4>1, <1>2
      <4>3. f[n + 1] = F[n + 1][f[n]]
        BY <1>2, <3>1, <4>1 DEF Recurses
      <4>4. F[n + 1][f[n]] = Turn(c, f[n], n - 1)
        BY <3>1, <4>1, <4>2
      <4>5. shifted[n] = f[n + 1]
        OBVIOUS
      <4>6. shifted[n] = Turn(c, shifted[n - 1], n - 1)
        BY <4>2, <4>3, <4>4, <4>5
      <4> HIDE DEF shifted
      <4> QED
        BY <4>6, <3>3, Zenon DEF Turn
    <3> QED
      BY <3>2, <3>3
  <2> HIDE DEF none
  <2> QED
    BY <2>1
<1>4. best = G(best)
  <2> HIDE DEF G, shifted
  <2> QED
    BY <1>3
<1>5. scan_words(c) = best[NumBits].id
  BY DEF scan_words
<1> HIDE DEF best
<1>6. best[0] = none
  BY <1>4, <1>0
<1>7. ASSUME NEW n \in 1 .. NumBits PROVE best[n] = Turn(c, best[n - 1], n - 1)
  <2>1. n \in 0 .. NumBits /\ n # 0
    BY <1>0
  <2> QED
    BY <2>1, <1>4 DEF Turn
<1> QED
  BY <1>5, <1>6, <1>7

(* The scan and the choice agree, by induction over the bits looked at. *)
LEMMA ScanIsBest == RegistersOK => ScanFindsBest
<1> SUFFICES ASSUME RegistersOK, NEW c \in Contexts
             PROVE  scan_words(c) = find_highest_pending_enabled(c)
  BY DEF ScanFindsBest
<1> USE CandidateFacts
<1>1. PICK best : /\ scan_words(c) = best[NumBits].id
                  /\ best[0] = [id |-> 0, priority |-> 0]
                  /\ \A n \in 1 .. NumBits : best[n] = Turn(c, best[n - 1], n - 1)
  BY ScanUnfolds
<1> DEFINE S == {n \in Nat : n <= NumBits => best[n] \in Bests /\ FoundBelow(c, best[n], n)}
<1>2. 0 \in S
  <2>1. best[0] \in Bests
    BY <1>1 DEF Bests
  <2>2. FoundBelow(c, best[0], 0)
    BY <1>1 DEF FoundBelow
  <2> QED
    BY <2>1, <2>2
<1>3. ASSUME NEW n \in Nat, n \in S PROVE n + 1 \in S
  <2> SUFFICES ASSUME n + 1 <= NumBits
               PROVE  best[n + 1] \in Bests /\ FoundBelow(c, best[n + 1], n + 1)
    OBVIOUS
  <2>1. n + 1 \in 1 .. NumBits /\ (n + 1) - 1 = n /\ n <= NumBits
    OBVIOUS
  <2>2. best[n] \in Bests /\ FoundBelow(c, best[n], n)
    BY <1>3, <2>1
  <2>3. best[n + 1] = Turn(c, best[n], n)
    BY <1>1, <2>1
  <2> QED
    BY <2>2, <2>3, TurnTyped, TurnExtends
<1> HIDE DEF S
<1>4. NumBits \in S
  BY <1>2, <1>3, Induction
<1>5. FoundBelow(c, best[NumBits], NumBits)
  BY <1>4 DEF S
<1>6. \A other \in Candidates(c) : other < NumBits /\ ~ (other >= NumBits)
  BY DEF Bits
<1> DEFINE found == find_highest_pending_enabled(c)
<1>7. /\ found # 0 <=> Candidates(c) # {}
      /\ Candidates(c) # {} => /\ found \in Candidates(c)
                               /\ \A other \in Candidates(c) : Beats(found, other)
  BY FindHighestIsBest DEF FindsBest
<1> HIDE DEF found
<1>8. CASE Candidates(c) = {}
  BY <1>1, <1>5, <1>7, <1>8 DEF FoundBelow, found
<1>9. CASE Candidates(c) # {}
  <2>1. /\ best[NumBits].id \in Candidates(c)
        /\ \A other \in Candidates(c) : Beats(best[NumBits].id, other)
    <3>1. ~ \A other \in Candidates(c) : other >= NumBits
      BY <1>6, <1>9
    <3> QED
      BY <1>5, <1>6, <3>1 DEF FoundBelow
  <2>2. Beats(found, best[NumBits].id) /\ Beats(best[NumBits].id, found)
    BY <2>1, <1>7, <1>9
  <2>3. found = best[NumBits].id
    BY <2>1, <2>2, <1>7, <1>9 DEF Beats
  <2> QED
    BY <2>3, <1>1 DEF found
<1> QED
  BY <1>8, <1>9

(* The loop of find_highest_pending_enabled always returns the candidate   *)
(* of the highest priority and, among equals, of the lowest number, and 0  *)
(* when there is none, for every number of sources and of bits in a word.  *)
THEOREM ScanHolds == PlicSpec => []ScanFindsBest
<1>1. PlicInv => RegistersOK
  BY DEF PlicInv, PlicTypeOK, RegistersOK
<1> QED
  BY <1>1, ScanIsBest, PlicInvHolds, PTL
=============================================================================
