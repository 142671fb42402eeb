-------------------------- MODULE VirtioBlkProofs ---------------------------
(***************************************************************************)
(* For every ring index width, queue size, table and set of requests: the  *)
(* block device implements the abstract queue of BlkQueue, it drives the   *)
(* controller as Plic allows a device to, a notification drains the queue, *)
(* and with a driver whose handler does not submit, no answer loses its    *)
(* interrupt.                                                              *)
(***************************************************************************)
EXTENDS VirtioBlk, PlicProofs, SequenceTheorems, FiniteSetTheorems

(* An index stays one when it goes round. *)
LEMMA SuccIsIdx ==
  ASSUME NEW i \in Idxs
  PROVE  Succ(i) \in Idxs
BY IdxAssumption DEF Succ, Idxs

(* The device's source, and the driver's context may use it. *)
LEMMA IrqIsBit ==
  /\ BlkIrq \in Sources /\ BlkIrq \in Bits /\ 1 \in Contexts /\ BlkIrq \in MayUse[1]
BY BlkIrqAssumption, IrqLinesAssumption, RoutedAssumption, MayUseAssumption, HartsAssumption
DEF Contexts

(* The driver's write to its word of the enables is one that Plic allows. *)
LEMMA RouteIsGuestStep ==
  ASSUME DriverRoutes
  PROVE  PlicNext
<1>1. CASE write_priority(BlkIrq, 1)
  <2>1. 1 \in 0 .. PrioLimit
    BY PrioAssumption
  <2> QED
    BY <1>1, <2>1, IrqIsBit DEF PlicNext, GuestSetsPriority
<1>2. CASE write_enable(1, BlkIrq \div WordBits, {BlkIrq})
  <2>1. {BlkIrq} \in SUBSET (WordIds(BlkIrq \div WordBits) \cap MayUse[1])
    BY IrqIsBit, WordOfBit
  <2> QED
    BY <1>2, <2>1, IrqIsBit, WordOfBit DEF PlicNext, GuestSetsEnables
<1> QED
  BY <1>1, <1>2 DEF DriverRoutes

(* Every step of the device and of the driver is one of the controller's   *)
(* or leaves it alone.                                                     *)
LEMMA BlkStepsPlic ==
  ASSUME BlkNext
  PROVE  [PlicNext]_plicVars
<1>1. CASE process_queue_fetches \/ process_queue_skips \/ process_queue_ends
  BY <1>1 DEF process_queue_fetches, process_queue_skips, process_queue_ends
<1>2. CASE process_queue_serves
  <2>1. set_pending(BlkIrq, TRUE)
    BY <1>2 DEF process_queue_serves, raise_irq
  <2> QED
    BY <2>1, BlkIrqAssumption DEF PlicNext, DeviceSignals
<1>3. CASE HandlerClaims
  BY <1>3, IrqIsBit DEF HandlerClaims, PlicNext, GuestClaims
<1>4. CASE HandlerCompletes
  BY <1>4, IrqIsBit DEF HandlerCompletes, PlicNext, GuestCompletes
<1>5. CASE HandlerAcks \/ HandlerCollects \/ HandlerFinishes
  BY <1>5 DEF HandlerAcks, write_interrupt_ack, HandlerCollects, HandlerFinishes
<1>6. CASE DriverRoutes
  BY <1>6, RouteIsGuestStep
<1>7. CASE DriverNegotiates \/ DriverSetsQueue
  BY <1>7 DEF DriverNegotiates, write_status, write_features_sel, write_features,
              DriverSetsQueue, write_queue_sel, write_queue, write_queue_half
<1>8. CASE DriverOk \/ DriverResets \/ DriverSubmits \/ DriverNotifies
  BY <1>8 DEF DriverOk, write_status, DriverResets, DriverSubmits, DriverNotifies,
              process_queue_starts
<1> QED
  BY <1>1, <1>2, <1>3, <1>4, <1>5, <1>6, <1>7, <1>8
  DEF BlkNext, DeviceStep, HandlerStep, DriverStep

(* The device and its driver implement the controller's specification, so  *)
(* that what is proved of the controller holds with them.                  *)
THEOREM BlkDrivesPlic == BlkSpec => PlicSpec
<1>1. BlkInit => PlicInit
  BY DEF BlkInit
<1>2. [BlkNext]_vars => [PlicNext]_plicVars
  BY BlkStepsPlic DEF vars
<1> QED
  BY <1>1, <1>2, PTL DEF BlkSpec, PlicSpec

-----------------------------------------------------------------------------
(* BlkInv, by the state that each of its parts is about. *)
QueueOK ==
  /\ queue0 \in [size : Sizes \cup {0}, ready : BOOLEAN, desc_addr : Halves,
                 avail_addr : Halves, used_addr : Halves,
                 last_avail_idx : Idxs, last_used_idx : Idxs]
  /\ {avail.idx, used.idx, seen, avail_idx} \subseteq Idxs
  /\ serving => avail_idx = avail.idx

HandlerOK ==
  /\ serving \in BOOLEAN /\ live \in BOOLEAN /\ interrupt_status \in BOOLEAN
  /\ handler \in {"none", "claimed", "collecting", "leaving"}
  /\ serving => handler = "none"
  /\ handler = "leaving" => used.idx = seen
  /\ used.idx # seen => Announced

RouteOK ==
  /\ live => device_status # {} /\ priorities[BlkIrq] > 0 /\ BlkIrq \in enables[1]
  /\ threshold[1] = 0

(* BlkInv is the conjunction of the parts, now and after a step. *)
LEMMA BlkInvParts ==
  /\ BlkInv <=> PlicInv /\ QueueOK /\ HandlerOK /\ RouteOK
  /\ BlkInv' <=> PlicInv' /\ QueueOK' /\ HandlerOK' /\ RouteOK'
BY DEF BlkInv, QueueOK, HandlerOK, RouteOK

(* The invariant holds at first. *)
LEMMA InitBlk == BlkInit => BlkInv
<1> SUFFICES ASSUME BlkInit PROVE BlkInv
  OBVIOUS
<1>1. PlicInv /\ 1 \in Contexts
  BY InitInv, IrqIsBit DEF BlkInit
<1>2. 0 \in Idxs /\ Null \in Halves
  BY IdxAssumption DEF Idxs, Null, Halves
<1>3. QueueOK
  BY <1>2 DEF BlkInit, QueueOK, NoQueue, NoRing
<1>4. HandlerOK
  BY DEF BlkInit, HandlerOK, NoRing, Announced
<1>5. RouteOK
  BY <1>1 DEF BlkInit, PlicInit, RouteOK
<1> QED
  BY <1>1, <1>3, <1>4, <1>5, BlkInvParts

(* The queue: only process_queue moves its indices, and while it runs the  *)
(* driver does not move the avail ring.                                    *)
LEMMA QueueStep ==
  ASSUME QueueOK, BlkNext
  PROVE  QueueOK'
<1> DEFINE R == [size : Sizes \cup {0}, ready : BOOLEAN, desc_addr : Halves,
                 avail_addr : Halves, used_addr : Halves,
                 last_avail_idx : Idxs, last_used_idx : Idxs]
<1>0. queue0 \in R /\ queue0.last_avail_idx \in Idxs /\ queue0.last_used_idx \in Idxs
  BY DEF QueueOK
<1>a. 0 \in Idxs /\ Null \in Halves
  BY IdxAssumption DEF Idxs, Null, Halves
<1>1. CASE process_queue_fetches \/ process_queue_ends
  BY <1>1 DEF process_queue_fetches, process_queue_ends, QueueOK, memVars, driverVars
<1>2. CASE process_queue_skips \/ process_queue_serves
  <2>1. queue0' \in R
    BY <1>0, <1>2, SuccIsIdx DEF process_queue_skips, process_queue_serves
  <2>2. {avail'.idx, used'.idx, seen', avail_idx'} \subseteq Idxs
        /\ (serving' => avail_idx' = avail'.idx)
    BY <1>0, <1>2, SuccIsIdx
    DEF process_queue_skips, process_queue_serves, QueueOK, memVars, driverVars
  <2> QED
    BY <2>1, <2>2 DEF QueueOK
<1>3. CASE HandlerClaims \/ HandlerAcks \/ HandlerFinishes \/ HandlerCompletes
  BY <1>3 DEF HandlerClaims, HandlerAcks, write_interrupt_ack, HandlerFinishes,
              HandlerCompletes, QueueOK, memVars, loopVars
<1>4. CASE HandlerCollects
  BY <1>4, SuccIsIdx DEF HandlerCollects, QueueOK, loopVars
<1>5. CASE DriverRoutes \/ DriverNegotiates \/ DriverOk
  BY <1>5 DEF DriverRoutes, DriverNegotiates, write_status, write_features_sel,
              write_features, DriverOk, QueueOK, memVars, loopVars, blkVars, driverVars
<1>6. CASE DriverSetsQueue
  <2>1. UNCHANGED <<memVars, loopVars, driverVars>>
    BY <1>6 DEF DriverSetsQueue, write_queue_sel, write_queue, write_queue_half
  <2>2. queue0' \in R
    <3>1. CASE \E sel \in {0, 1} : write_queue_sel(sel)
      BY <3>1, <1>0 DEF write_queue_sel
    <3>2. CASE \E n \in Sizes : write_queue("size", n)
      BY <3>2, <1>0 DEF write_queue
    <3>3. CASE \E field \in Addresses, half \in {1, 2} :
                 write_queue_half(field, half, Table[half])
      <4>1. PICK field \in Addresses, half \in {1, 2} :
              write_queue(field, [queue0[field] EXCEPT ![half] = Table[half]])
        BY <3>3 DEF write_queue_half
      <4>2. queue0[field] \in Halves
        BY <1>0, <4>1 DEF Addresses
      <4>3. [queue0[field] EXCEPT ![half] = Table[half]] \in Halves
        BY <4>2 DEF Halves, Table
      <4> QED
        BY <1>0, <4>1, <4>3 DEF write_queue, Addresses
    <3>4. CASE write_queue("ready", TRUE)
      BY <3>4, <1>0 DEF write_queue
    <3> QED
      BY <1>6, <3>1, <3>2, <3>3, <3>4 DEF DriverSetsQueue
  <2> QED
    BY <2>1, <2>2 DEF QueueOK, memVars, loopVars, driverVars
<1>7. CASE DriverResets
  BY <1>7, <1>a DEF DriverResets, write_status_reset, NoQueue, NoRing, QueueOK, loopVars
<1>8. CASE DriverSubmits
  <2>1. avail'.idx = Succ(avail.idx) /\ ~serving /\ UNCHANGED <<queue0, used, loopVars, seen>>
    BY <1>8 DEF DriverSubmits
  <2> QED
    BY <2>1, SuccIsIdx DEF QueueOK, loopVars
<1>9. CASE DriverNotifies
  BY <1>9 DEF DriverNotifies, process_queue_starts, QueueOK, memVars, driverVars
<1> QED
  BY <1>1, <1>2, <1>3, <1>4, <1>5, <1>6, <1>7, <1>8, <1>9
  DEF BlkNext, DeviceStep, HandlerStep, DriverStep

(* The handler: a turn of process_queue raises the interrupt anew, and     *)
(* what the handler takes back it has looked at.                           *)
LEMMA HandlerStepOK ==
  ASSUME ~HandlerSubmits, PlicTypeOK, HandlerOK, BlkNext
  PROVE  HandlerOK'
<1>1. CASE process_queue_fetches \/ process_queue_skips \/ process_queue_ends
  BY <1>1 DEF process_queue_fetches, process_queue_skips, process_queue_ends, HandlerOK,
              Announced, plicVars, regVars, memVars, driverVars
<1>2. CASE process_queue_serves
  <2>1. /\ BlkIrq \in pending' /\ interrupt_status' = TRUE
        /\ UNCHANGED <<serving, handler, live>> /\ serving
    BY <1>2, IrqIsBit DEF process_queue_serves, raise_irq, set_pending, driverVars
  <2> QED
    BY <2>1 DEF HandlerOK, Announced
<1>3. CASE HandlerClaims
  BY <1>3 DEF HandlerClaims, HandlerOK, Announced, regVars, memVars, loopVars
<1>4. CASE HandlerAcks
  BY <1>4 DEF HandlerAcks, write_interrupt_ack, HandlerOK, Announced, memVars,
              loopVars
<1>5. CASE HandlerCollects \/ HandlerFinishes
  BY <1>5 DEF HandlerCollects, HandlerFinishes, HandlerOK, Announced, regVars,
              memVars, loopVars
<1>6. CASE HandlerCompletes
  BY <1>6 DEF HandlerCompletes, HandlerOK, Announced, regVars, memVars, loopVars
<1>7. CASE DriverRoutes
  <2>1. pending' = pending
    BY <1>7 DEF DriverRoutes, write_priority, write_enable
  <2> QED
    BY <1>7, <2>1 DEF DriverRoutes, HandlerOK, Announced, blkVars, regVars,
                      memVars, loopVars, driverVars
<1>8. CASE DriverNegotiates \/ DriverSetsQueue
  <2>1. UNCHANGED <<pending, interrupt_status, used, serving, seen, live, handler>>
    BY <1>8 DEF DriverNegotiates, write_status, write_features_sel, write_features,
                DriverSetsQueue, write_queue_sel, write_queue, write_queue_half,
                plicVars, regVars, memVars, loopVars, driverVars
  <2> QED
    BY <2>1 DEF HandlerOK, Announced
<1>9. CASE DriverOk \/ DriverSubmits
  <2>1. UNCHANGED <<pending, interrupt_status, used, serving, seen, handler>>
        /\ live' \in {live, TRUE}
    BY <1>9 DEF DriverOk, write_status, DriverSubmits, plicVars, regVars, memVars, loopVars
  <2> QED
    BY <2>1 DEF HandlerOK, Announced
<1>10. CASE DriverResets
  <2>1. /\ used'.idx = 0 /\ seen' = 0 /\ interrupt_status' = FALSE /\ live' = FALSE
        /\ UNCHANGED <<serving, handler>> /\ handler = "none"
    BY <1>10 DEF DriverResets, write_status_reset, NoRing, loopVars
  <2> QED
    BY <2>1 DEF HandlerOK, Announced
<1>11. CASE DriverNotifies
  BY <1>11 DEF DriverNotifies, MaySubmit, process_queue_starts, HandlerOK,
               Announced, plicVars, regVars, memVars, driverVars
<1> QED
  BY <1>1, <1>2, <1>3, <1>4, <1>5, <1>6, <1>7, <1>8, <1>9, <1>10, <1>11
  DEF BlkNext, DeviceStep, HandlerStep, DriverStep

(* The routing is only set up while the device is reset, and the driver is *)
(* not live then.                                                          *)
LEMMA RouteStepOK ==
  ASSUME RouteOK, BlkNext
  PROVE  RouteOK'
<1>1. CASE DeviceStep
  BY <1>1 DEF DeviceStep, process_queue_fetches, process_queue_skips, process_queue_ends,
              process_queue_serves, raise_irq, set_pending, RouteOK, plicVars, regVars,
              driverVars
<1>2. CASE HandlerStep
  <2>1. CASE HandlerClaims \/ HandlerCompletes
    BY <2>1 DEF HandlerClaims, claim_interrupt, HandlerCompletes, complete_interrupt,
                RouteOK, regVars
  <2>2. CASE HandlerAcks \/ HandlerCollects \/ HandlerFinishes
    BY <2>2 DEF HandlerAcks, write_interrupt_ack, HandlerCollects, HandlerFinishes,
                RouteOK, plicVars, regVars
  <2> QED
    BY <1>2, <2>1, <2>2 DEF HandlerStep
<1>3. CASE DriverRoutes
  <2>1. ~live /\ live' = live /\ threshold' = threshold
    BY <1>3 DEF DriverRoutes, write_priority, write_enable, RouteOK, blkVars, driverVars
  <2> QED
    BY <2>1 DEF RouteOK
<1>4. CASE DriverNegotiates \/ DriverSetsQueue
  <2>1. /\ UNCHANGED <<priorities, enables, threshold, live>>
        /\ device_status # {} => device_status' # {}
    BY <1>4 DEF DriverNegotiates, write_status, write_features_sel, write_features,
                DriverSetsQueue, write_queue_sel, write_queue, write_queue_half,
                plicVars, regVars, driverVars
  <2> QED
    BY <2>1 DEF RouteOK
<1>5. CASE DriverOk
  <2>1. /\ UNCHANGED <<priorities, enables, threshold>> /\ "DRIVER_OK" \in device_status'
        /\ priorities[BlkIrq] > 0 /\ BlkIrq \in enables[1]
    BY <1>5 DEF DriverOk, write_status, plicVars
  <2> QED
    BY <2>1 DEF RouteOK
<1>6. CASE DriverResets
  BY <1>6 DEF DriverResets, RouteOK, plicVars
<1>7. CASE DriverSubmits \/ DriverNotifies
  BY <1>7 DEF DriverSubmits, DriverNotifies, process_queue_starts, RouteOK, plicVars,
              regVars, driverVars
<1> QED
  BY <1>1, <1>2, <1>3, <1>4, <1>5, <1>6, <1>7 DEF BlkNext, DriverStep

(* Every step keeps the invariant, when the handler does not submit. *)
LEMMA BlkInductive ==
  ASSUME ~HandlerSubmits
  PROVE  BlkInv /\ [BlkNext]_vars => BlkInv'
<1> SUFFICES ASSUME BlkInv, [BlkNext]_vars PROVE BlkInv'
  OBVIOUS
<1>1. PlicInv /\ QueueOK /\ HandlerOK /\ RouteOK /\ PlicTypeOK
  BY BlkInvParts DEF PlicInv
<1>2. CASE BlkNext
  <2>1. PlicInv'
    BY <1>1, <1>2, BlkStepsPlic, InvInductive
  <2> QED
    BY <1>1, <1>2, <2>1, QueueStep, HandlerStepOK, RouteStepOK, BlkInvParts
<1>3. CASE UNCHANGED vars
  <2>1. UNCHANGED plicVars /\ UNCHANGED blkVars
    BY <1>3 DEF vars
  <2>2. PlicInv'
    BY <2>1, <1>1, InvInductive
  <2>3. QueueOK' /\ HandlerOK' /\ RouteOK'
    BY <2>1, <1>1 DEF plicVars, blkVars, regVars, memVars, loopVars, driverVars, QueueOK,
                      HandlerOK, RouteOK, Announced
  <2> QED
    BY <2>2, <2>3, BlkInvParts
<1> QED
  BY <1>2, <1>3

(* With a handler that makes no requests of its own the invariant holds:   *)
(* process_queue, the handler, the rings' indices and the route of the     *)
(* source stay in step through wrap-around, resets and malformed chains.   *)
THEOREM BlkInvHolds ==
  ASSUME ~HandlerSubmits
  PROVE  BlkSpec => []BlkInv
<1>1. BlkInv /\ [BlkNext]_vars => BlkInv'
  BY BlkInductive
<1> QED
  BY <1>1, InitBlk, PTL DEF BlkSpec

(* With a handler that does not submit, an answer in the used ring always  *)
(* has its interrupt on the way or the handler about to look, through      *)
(* every order of notifications, claims, acknowledgements and resets; and  *)
(* through enables, priority, threshold and the context's level the hart   *)
(* sees it until the handler claims it.                                    *)
THEOREM NoAnswerIsForgotten ==
  ASSUME ~HandlerSubmits
  PROVE  BlkSpec => []AnswersAreAnnounced
<1>1. BlkInv => AnswersAreAnnounced
  <2> SUFFICES ASSUME BlkInv, used.idx # seen
               PROVE  Announced /\ (live /\ handler = "none" => IRQ_SEXT \in ip[0])
    BY DEF AnswersAreAnnounced
  <2>1. PlicInv /\ HandlerOK /\ RouteOK /\ Announced
    BY BlkInvParts DEF HandlerOK
  <2> SUFFICES ASSUME live, handler = "none" PROVE IRQ_SEXT \in ip[0]
    BY <2>1
  <2>2. BlkIrq \in pending
    BY <2>1 DEF Announced
  <2>3. Candidates(1) # {}
    BY <2>1, <2>2, IrqIsBit DEF RouteOK, Candidates
  <2>4. EipBit(1) \in ip[HartOf(1)]
    BY <2>1, <2>3, IrqIsBit DEF PlicInv, LineDrivesIp
  <2>5. EipBit(1) = IRQ_SEXT /\ HartOf(1) = 0
    BY DEF EipBit, HartOf
  <2> QED
    BY <2>4, <2>5
<1> QED
  BY <1>1, BlkInvHolds, PTL

-----------------------------------------------------------------------------
(* The rings: the entries between two indices, as the indices go round. *)
Dist(a, b) == (b + IdxMod - a) % IdxMod

(* The ring indices are the numbers below IdxMod. *)
LEMMA IdxFacts ==
  /\ IdxMod \in Nat \ {0} /\ Idxs \subseteq Nat
  /\ \A a : a \in Idxs <=> a \in 0 .. (IdxMod - 1)
BY IdxAssumption DEF Idxs

(* A queue size divides the number of indices, as 2^16 is by a power of 2. *)
LEMMA SizeFacts ==
  ASSUME NEW n \in Sizes
  PROVE  n \in Nat \ {0} /\ n <= IdxMod /\ IdxMod % n = 0
<1>1. n \in Nat \ {0} /\ IdxMod \in Nat \ {0} /\ IdxMod % n = 0
  BY IdxAssumption
<1>2. IdxMod < n => IdxMod % n = IdxMod
  BY <1>1
<1> QED
  BY <1>1, <1>2

(* Division is unique. *)
LEMMA DivisionUnique ==
  ASSUME NEW n \in Nat \ {0}, NEW q \in Int, NEW r \in 0 .. (n - 1)
  PROVE  ((n * q) + r) % n = r
<1> DEFINE x == (n * q) + r
<1> x \in Int
  OBVIOUS
<1>1. x = n * (x \div n) + (x % n) /\ x % n \in 0 .. (n - 1) /\ x \div n \in Int
  OBVIOUS
<1> DEFINE d == x \div n
<1>2. n * (q - d) = (x % n) - r
  BY <1>1
<1>3. q - d = 0 \/ q - d >= 1 \/ q - d <= -1
  BY <1>1
<1>4. CASE q - d >= 1
  <2>1. n * (q - d) >= n
    BY <1>4, <1>1
  <2> QED
    BY <2>1, <1>2, <1>1
<1>5. CASE q - d <= -1
  <2>1. n * (q - d) <= -n
    BY <1>5, <1>1
  <2> QED
    BY <2>1, <1>2, <1>1
<1>6. CASE q - d = 0
  BY <1>6, <1>1
<1> QED
  BY <1>3, <1>4, <1>5, <1>6

(* A remainder of a number below twice the divisor. *)
LEMMA SmallMod ==
  ASSUME NEW n \in Nat \ {0}, NEW x \in Nat
  PROVE  /\ x < n => x % n = x
         /\ n <= x /\ x < 2 * n => x % n = x - n
         /\ x % n \in 0 .. (n - 1)
<1>1. ASSUME x < n PROVE x % n = x
  BY <1>1
<1>2. ASSUME n <= x, x < 2 * n PROVE x % n = x - n
  <2>1. x - n \in 0 .. (n - 1) /\ x = (n * 1) + (x - n)
    BY <1>2
  <2>2. ((n * 1) + (x - n)) % n = x - n
    BY <2>1, DivisionUnique
  <2> QED
    BY <2>1, <2>2
<1> QED
  BY <1>1, <1>2

(* The distance of two indices, before and after the second goes round. *)
LEMMA DistIs ==
  ASSUME NEW a \in Idxs, NEW b \in Idxs
  PROVE  /\ a <= b => Dist(a, b) = b - a
         /\ b < a => Dist(a, b) = b + IdxMod - a
         /\ Dist(a, b) \in Idxs
<1>1. IdxMod \in Nat \ {0} /\ a \in 0 .. (IdxMod - 1) /\ b \in 0 .. (IdxMod - 1)
  BY IdxAssumption DEF Idxs
<1>2. b + IdxMod - a \in Nat /\ b + IdxMod - a < 2 * IdxMod
  BY <1>1
<1>3. ASSUME a <= b PROVE IdxMod <= b + IdxMod - a
  BY <1>1, <1>3
<1>4. ASSUME b < a PROVE b + IdxMod - a < IdxMod
  BY <1>1, <1>4
<1>5. ASSUME a <= b PROVE (b + IdxMod - a) - IdxMod = b - a
  BY <1>1, <1>5
<1> QED
  BY <1>1, <1>2, <1>3, <1>4, <1>5, SmallMod DEF Dist, Idxs

(* The next index, which after the last is 0. *)
LEMMA SuccIs ==
  ASSUME NEW a \in Idxs
  PROVE  /\ Succ(a) = IF a = IdxMod - 1 THEN 0 ELSE a + 1
         /\ Succ(a) \in Idxs
<1>1. IdxMod \in Nat \ {0} /\ a \in 0 .. (IdxMod - 1)
  BY IdxAssumption DEF Idxs
<1>2. CASE a = IdxMod - 1
  <2>1. a + 1 = IdxMod /\ IdxMod < 2 * IdxMod
    BY <1>1, <1>2
  <2>2. IdxMod % IdxMod = IdxMod - IdxMod
    BY <1>1, <2>1, SmallMod
  <2> QED
    BY <1>1, <1>2, <2>1, <2>2, IdxFacts DEF Succ
<1>3. CASE a # IdxMod - 1
  <2>1. a + 1 \in Nat /\ a + 1 < IdxMod
    BY <1>1, <1>3
  <2> QED
    BY <1>1, <1>3, <2>1, SmallMod, IdxFacts DEF Succ
<1> QED
  BY <1>2, <1>3

(* The distance when one end moves by one. *)
LEMMA DistStep ==
  ASSUME NEW a \in Idxs, NEW b \in Idxs
  PROVE  /\ Dist(a, a) = 0
         /\ a # b => Dist(a, b) >= 1 /\ Dist(Succ(a), b) = Dist(a, b) - 1
         /\ Dist(a, b) < IdxMod - 1 => Dist(a, Succ(b)) = Dist(a, b) + 1
<1>1. IdxMod \in Nat \ {0} /\ a \in 0 .. (IdxMod - 1) /\ b \in 0 .. (IdxMod - 1)
  BY IdxAssumption DEF Idxs
<1>2. Succ(a) \in Idxs /\ Succ(b) \in Idxs
  BY SuccIs
<1>3. Dist(a, a) = 0
  BY <1>1, DistIs
<1>4. ASSUME a # b PROVE Dist(a, b) >= 1 /\ Dist(Succ(a), b) = Dist(a, b) - 1
  BY <1>1, <1>2, <1>4, DistIs, SuccIs
<1>5. ASSUME Dist(a, b) < IdxMod - 1 PROVE Dist(a, Succ(b)) = Dist(a, b) + 1
  <2>1. CASE b = IdxMod - 1
    <3>1. Succ(b) = 0 /\ a <= b /\ Dist(a, b) = b - a
      BY <1>1, <2>1, DistIs, SuccIs
    <3>2. 0 < a /\ Dist(a, 0) = IdxMod - a
      BY <3>1, <2>1, <1>1, <1>2, <1>5, DistIs
    <3> QED
      BY <3>1, <3>2, <2>1, <1>1
  <2>2. CASE b # IdxMod - 1
    <3>1. Succ(b) = b + 1
      BY <2>2, SuccIs
    <3>2. CASE a <= b
      BY <3>1, <3>2, <1>1, <1>2, DistIs
    <3>3. CASE b < a
      <4>1. Dist(a, b) = b + IdxMod - a /\ b + 1 < a
        BY <3>3, <1>1, <1>5, DistIs
      <4>2. Dist(a, b + 1) = b + 1 + IdxMod - a
        BY <3>1, <4>1, <1>1, <1>2, DistIs
      <4> QED
        BY <3>1, <4>1, <4>2, <1>1
    <3> QED
      BY <3>2, <3>3, <1>1
  <2> QED
    BY <2>1, <2>2
<1> QED
  BY <1>3, <1>4, <1>5

(* A slot of the ring is found from the index as from the count behind it. *)
LEMMA ModMod ==
  ASSUME NEW n \in Sizes, NEW x \in Nat
  PROVE  (x % IdxMod) % n = x % n
<1>1. n \in Nat \ {0} /\ IdxMod \in Nat \ {0} /\ IdxMod % n = 0
  BY IdxAssumption
<1> DEFINE k == IdxMod \div n
           d == x \div IdxMod
           y == x % IdxMod
           e == y \div n
           r == y % n
<1>2. IdxMod = (n * k) + 0 /\ k \in Int
  BY <1>1
<1>3. x = (IdxMod * d) + y /\ d \in Int /\ y \in Nat
  BY <1>1
<1>4. y = (n * e) + r /\ e \in Int /\ r \in 0 .. (n - 1)
  BY <1>1, <1>3
<1> HIDE DEF k, d, y, e, r
<1>5. x = (n * ((k * d) + e)) + r
  BY <1>1, <1>2, <1>3, <1>4
<1>6. (k * d) + e \in Int
  BY <1>2, <1>3, <1>4
<1>7. x % n = r
  BY <1>1, <1>4, <1>5, <1>6, DivisionUnique
<1> QED
  BY <1>7 DEF r, y

(* Once round the indices leads to the same slot. *)
LEMMA OnceMore ==
  ASSUME NEW n \in Sizes, NEW x \in Idxs
  PROVE  (x + IdxMod) % n = x % n
<1>1. IdxMod \in Nat \ {0} /\ x \in 0 .. (IdxMod - 1) /\ x + IdxMod \in Nat
  BY IdxAssumption DEF Idxs
<1>2. (x + IdxMod) % IdxMod = (x + IdxMod) - IdxMod
  <2>1. IdxMod <= x + IdxMod /\ x + IdxMod < 2 * IdxMod
    BY <1>1
  <2> QED
    BY <1>1, <2>1, SmallMod
<1>3. ((x + IdxMod) % IdxMod) % n = (x + IdxMod) % n
  BY <1>1, ModMod
<1>4. (x + IdxMod) - IdxMod = x
  BY <1>1
<1> QED
  BY <1>2, <1>3, <1>4

(* Numbers less than n apart have different slots of n. *)
LEMMA NearDiffer ==
  ASSUME NEW n \in Nat \ {0}, NEW x \in Nat, NEW y \in Nat, x < y, y - x < n
  PROVE  x % n # y % n
<1> SUFFICES ASSUME x % n = y % n PROVE FALSE
  OBVIOUS
<1> DEFINE q == x \div n
           r == x % n
<1>1. x = (n * q) + r /\ q \in Int /\ r \in 0 .. (n - 1)
  OBVIOUS
<1> HIDE DEF q, r
<1>2. CASE r + (y - x) < n
  <2>1. y = (n * q) + (r + (y - x)) /\ r + (y - x) \in 0 .. (n - 1)
    BY <1>1, <1>2
  <2>2. y % n = r + (y - x)
    BY <2>1, <1>1, DivisionUnique
  <2> QED
    BY <2>2, <1>1 DEF r
<1>3. CASE r + (y - x) >= n
  <2>1. y = (n * (q + 1)) + (r + (y - x) - n) /\ r + (y - x) - n \in 0 .. (n - 1)
        /\ q + 1 \in Int
    BY <1>1, <1>3
  <2>2. y % n = r + (y - x) - n
    BY <2>1, <1>1, DivisionUnique
  <2> QED
    BY <2>2, <1>1 DEF r
<1> QED
  BY <1>1, <1>2, <1>3

(* The entries between two indices, one by one. *)
LEMMA EntriesAre ==
  ASSUME NEW ring \in [Idxs -> Nat], NEW n \in Sizes, NEW a \in Idxs, NEW b \in Idxs
  PROVE  Entries(ring, n, a, b) = [i \in 1 .. Dist(a, b) |-> ring[(a + i - 1) % n]]
<1>1. Dist(a, b) \in Nat /\ a \in Nat
  BY DistIs, IdxFacts
<1>2. Entries(ring, n, a, b) = [i \in 1 .. Dist(a, b) |-> ring[((a + i - 1) % IdxMod) % n]]
  BY DEF Entries, Dist
<1>3. ASSUME NEW i \in 1 .. Dist(a, b)
      PROVE  ((a + i - 1) % IdxMod) % n = (a + i - 1) % n
  <2>1. a + i - 1 \in Nat
    BY <1>1
  <2> QED
    BY <2>1, ModMod
<1> QED
  BY <1>1, <1>2, <1>3

(* There are none between an index and itself. *)
LEMMA EntriesEmpty ==
  ASSUME NEW ring, NEW n, NEW a \in Idxs
  PROVE  Entries(ring, n, a, a) = <<>>
<1>1. (a + IdxMod - a) % IdxMod = 0
  BY DistStep DEF Dist
<1> QED
  BY <1>1 DEF Entries

(* Writing the slot of the last index and moving it on appends an entry. *)
LEMMA EntriesAppend ==
  ASSUME NEW ring \in [Idxs -> Nat], NEW n \in Sizes, NEW a \in Idxs, NEW b \in Idxs,
         NEW h \in Nat, Dist(a, b) < n, Dist(a, b) < IdxMod - 1
  PROVE  Entries([ring EXCEPT ![b % n] = h], n, a, Succ(b)) = Append(Entries(ring, n, a, b), h)
<1> DEFINE new == [ring EXCEPT ![b % n] = h]
           L == Dist(a, b)
           old == Entries(ring, n, a, b)
           grown == Entries(new, n, a, Succ(b))
<1>1. /\ L \in Nat /\ a \in Nat /\ b \in Nat /\ n \in Nat \ {0} /\ IdxMod \in Nat
      /\ Succ(b) \in Idxs /\ Dist(a, Succ(b)) = L + 1 /\ n <= IdxMod
  <2>1. L \in Nat /\ Dist(a, Succ(b)) = L + 1
    BY DistStep, DistIs, IdxFacts
  <2> QED
    BY <2>1, SuccIs, IdxFacts, SizeFacts
<1>2. b % n = (a + L) % n
  <2>1. a <= b => a + L = b
    BY <1>1, DistIs
  <2>2. b < a => a + L = b + IdxMod
    BY <1>1, DistIs
  <2>3. (b + IdxMod) % n = b % n
    BY <1>1, OnceMore
  <2> QED
    BY <1>1, <2>1, <2>2, <2>3
<1>3. b % n \in Idxs
  BY <1>1, SmallMod DEF Idxs
<1>4. ASSUME NEW i \in 1 .. L
      PROVE  new[(a + i - 1) % n] = ring[(a + i - 1) % n]
  <2>2. a + i - 1 \in Nat /\ a + L \in Nat /\ a + i - 1 < a + L /\ (a + L) - (a + i - 1) < n
    BY <1>1
  <2>3. (a + i - 1) % n # (a + L) % n
    BY <1>1, <2>2, NearDiffer
  <2>4. (a + i - 1) % n \in Idxs
    <3>1. (a + i - 1) % n \in 0 .. (n - 1)
      BY <1>1, <2>2, SmallMod
    <3>2. \A x \in 0 .. (n - 1) : x \in Idxs
      BY <1>1 DEF Idxs
    <3> QED
      BY <3>1, <3>2
  <2> QED
    BY <1>2, <2>3, <2>4
<1>5. new[(a + (L + 1) - 1) % n] = h
  <2>1. a + (L + 1) - 1 = a + L
    BY <1>1
  <2> QED
    BY <1>2, <1>3, <2>1
<1>d. new \in [Idxs -> Nat]
  OBVIOUS
<1>a. grown = [i \in 1 .. Dist(a, Succ(b)) |-> new[(a + i - 1) % n]]
  <2> DEFINE s == Succ(b)
  <2> s \in Idxs
    BY <1>1
  <2> HIDE DEF s, new
  <2>1. Entries(new, n, a, s) = [i \in 1 .. Dist(a, s) |-> new[(a + i - 1) % n]]
    BY <1>d, EntriesAre
  <2> QED
    BY <2>1 DEF s
<1>c. old = [i \in 1 .. L |-> ring[(a + i - 1) % n]]
  BY EntriesAre
<1> HIDE DEF new, old, grown, L
<1>b. DOMAIN old = 1 .. L /\ Len(old) = L /\ \A i \in 1 .. L : old[i] = ring[(a + i - 1) % n]
  BY <1>1, <1>c
<1>6. DOMAIN grown = 1 .. (L + 1) /\ \A i \in 1 .. (L + 1) : grown[i] = new[(a + i - 1) % n]
  BY <1>1, <1>a
<1>7. grown = [i \in 1 .. (L + 1) |-> grown[i]] /\ old = [i \in 1 .. L |-> old[i]]
  BY <1>6, <1>a, <1>c
<1>8. ASSUME NEW i \in 1 .. (L + 1)
      PROVE  grown[i] = IF i = L + 1 THEN h ELSE old[i]
  <2>1. CASE i = L + 1
    BY <2>1, <1>5, <1>6
  <2>2. CASE i # L + 1
    <3>1. i \in 1 .. L
      BY <2>2, <1>1
    <3> QED
      BY <3>1, <2>2, <1>4, <1>6, <1>b
  <2> QED
    BY <2>1, <2>2
<1>9. Append(old, h) = [i \in 1 .. (Len(old) + 1) |-> IF i = Len(old) + 1 THEN h ELSE old[i]]
  BY <1>7, <1>1, <1>b
<1>10. grown = Append(old, h)
  BY <1>1, <1>b, <1>7, <1>8, <1>9
<1> QED
  BY <1>10 DEF grown, old, new

(* Moving the first index on takes the first entry off. *)
LEMMA EntriesTail ==
  ASSUME NEW ring \in [Idxs -> Nat], NEW n \in Sizes, NEW a \in Idxs, NEW b \in Idxs, a # b
  PROVE  /\ Entries(ring, n, a, b) # <<>> /\ Entries(ring, n, a, b)[1] = ring[a % n]
         /\ Entries(ring, n, Succ(a), b) = Tail(Entries(ring, n, a, b))
<1> DEFINE L == Dist(a, b)
           old == Entries(ring, n, a, b)
           rest == Entries(ring, n, Succ(a), b)
<1>1. /\ L \in Nat /\ L >= 1 /\ a \in Nat /\ n \in Nat \ {0} /\ IdxMod \in Nat
      /\ Succ(a) \in Idxs /\ Succ(a) \in Nat /\ Dist(Succ(a), b) = L - 1
  <2>1. L \in Nat /\ L >= 1 /\ Dist(Succ(a), b) = L - 1
    BY DistStep, DistIs, IdxFacts
  <2> QED
    BY <2>1, SuccIs, IdxFacts, SizeFacts
<1>2. ASSUME NEW i \in 1 .. (L - 1)
      PROVE  (Succ(a) + i - 1) % n = (a + (i + 1) - 1) % n
  <2>1. CASE a = IdxMod - 1
    <3>1. Succ(a) = 0 /\ a + (i + 1) - 1 = (i - 1) + IdxMod /\ i - 1 \in Nat
      BY <2>1, <1>1, SuccIs
    <3>2. i - 1 \in Idxs
      BY <1>1, DistIs DEF Idxs
    <3>3. ((i - 1) + IdxMod) % n = (i - 1) % n
      BY <3>2, OnceMore
    <3>4. Succ(a) + i - 1 = i - 1
      BY <3>1, <1>1
    <3> QED
      BY <3>1, <3>3, <3>4
  <2>2. CASE a # IdxMod - 1
    BY <2>2, <1>1, SuccIs
  <2> QED
    BY <2>1, <2>2
<1>a. rest = [i \in 1 .. Dist(Succ(a), b) |-> ring[(Succ(a) + i - 1) % n]]
  <2> DEFINE s == Succ(a)
  <2> s \in Idxs
    BY <1>1
  <2> HIDE DEF s
  <2>1. Entries(ring, n, s, b) = [i \in 1 .. Dist(s, b) |-> ring[(s + i - 1) % n]]
    BY EntriesAre
  <2> QED
    BY <2>1 DEF s
<1>c. old = [i \in 1 .. L |-> ring[(a + i - 1) % n]]
  BY EntriesAre
<1> HIDE DEF old, rest, L
<1>b. DOMAIN old = 1 .. L /\ Len(old) = L /\ \A i \in 1 .. L : old[i] = ring[(a + i - 1) % n]
  BY <1>1, <1>c
<1>3. /\ DOMAIN rest = 1 .. (L - 1)
      /\ \A i \in 1 .. (L - 1) : rest[i] = ring[(Succ(a) + i - 1) % n]
  BY <1>1, <1>a
<1>4. rest = [i \in 1 .. (L - 1) |-> rest[i]] /\ old = [i \in 1 .. L |-> old[i]]
  BY <1>3, <1>a, <1>c
<1>5. ASSUME NEW i \in 1 .. (L - 1) PROVE rest[i] = old[i + 1]
  <2>1. i + 1 \in 1 .. L
    BY <1>1
  <2>2. old[i + 1] = ring[(a + (i + 1) - 1) % n]
    BY <2>1, <1>b
  <2> QED
    BY <2>2, <1>2, <1>3
<1>6. Tail(old) = [i \in 1 .. (Len(old) - 1) |-> old[i + 1]]
  BY <1>1, <1>b, <1>4
<1>7. rest = Tail(old)
  BY <1>1, <1>b, <1>4, <1>5, <1>6
<1>8. old # <<>> /\ old[1] = ring[a % n]
  <2>1. 1 \in 1 .. L /\ a + 1 - 1 = a
    BY <1>1
  <2>2. old[1] = ring[(a + 1 - 1) % n]
    BY <2>1, <1>b
  <2> QED
    BY <2>1, <2>2, <1>b
<1> QED
  BY <1>7, <1>8 DEF old, rest

-----------------------------------------------------------------------------
(* The queue's invariant needs nothing of the handler. *)
LEMMA QueueHolds == BlkSpec => []QueueOK
<1>1. BlkInit => QueueOK
  BY InitBlk, BlkInvParts
<1>2. QueueOK /\ [BlkNext]_vars => QueueOK'
  <2> SUFFICES ASSUME QueueOK, [BlkNext]_vars PROVE QueueOK'
    OBVIOUS
  <2>1. CASE UNCHANGED vars
    BY <2>1 DEF vars, blkVars, memVars, loopVars, driverVars, QueueOK
  <2> QED
    BY <2>1, QueueStep
<1> QED
  BY <1>1, <1>2, PTL DEF BlkSpec

(* process_queue only returns when the avail ring is empty, also when the  *)
(* driver's index has wrapped and the device's has not.                    *)
THEOREM NotifyLeavesNothing == BlkSpec => NotifyDrains
<1>1. QueueOK /\ [BlkNext]_vars => [(serving /\ ~serving') => WaitingNow' = <<>>]_vars
  <2> SUFFICES ASSUME QueueOK, BlkNext, serving, ~serving' PROVE WaitingNow' = <<>>
    OBVIOUS
  <2>1. process_queue_ends
    <3>1. CASE DriverStep \/ HandlerStep
      <4>1. ~serving
        BY <3>1 DEF DriverStep, DriverNegotiates, DriverSetsQueue, DriverRoutes, DriverOk,
                    DriverResets, DriverSubmits, DriverNotifies, HandlerStep, HandlerClaims,
                    HandlerAcks, HandlerCollects, HandlerFinishes, HandlerCompletes
      <4> QED
        BY <4>1
    <3>2. CASE process_queue_fetches \/ process_queue_skips \/ process_queue_serves
      BY <3>2 DEF process_queue_fetches, process_queue_skips, process_queue_serves
    <3> QED
      BY <3>1, <3>2 DEF BlkNext, DeviceStep
  <2>2. queue0'.last_avail_idx = avail'.idx /\ avail'.idx \in 0 .. (IdxMod - 1)
    BY <2>1 DEF process_queue_ends, More, QueueOK, memVars, Idxs
  <2>3. WaitingHeads' = <<>>
    BY <2>2, EntriesEmpty DEF WaitingHeads, Idxs
  <2> QED
    BY <2>3 DEF WaitingNow
<1> QED
  BY <1>1, QueueHolds, PTL DEF BlkSpec, NotifyDrains

-----------------------------------------------------------------------------
(* The data of a request. *)
LEMMA BeforeIs ==
  ASSUME NEW bufs, Len(bufs) \in Nat, \A i \in 1 .. Len(bufs) : bufs[i].len \in Nat
  PROVE  /\ Before(bufs, 1) = 0
         /\ \A i \in 1 .. Len(bufs) : Before(bufs, i + 1) = Before(bufs, i) + bufs[i].len
         /\ \A i \in 1 .. (Len(bufs) + 1) : Before(bufs, i) \in Nat
<1> DEFINE N == Len(bufs) + 1
           F == [k \in 1 .. N |-> [v \in Nat |-> IF k = 1 THEN 0 ELSE v + bufs[k - 1].len]]
           G(g) == [k \in 1 .. N |-> IF k = 1 THEN 0 ELSE g[k - 1] + bufs[k - 1].len]
           pos == CHOOSE g : g = G(g)
<1>1. F \in [1 .. N -> [Nat -> Nat]]
  <2> SUFFICES ASSUME NEW k \in 1 .. N, NEW v \in Nat, k # 1 PROVE v + bufs[k - 1].len \in Nat
    OBVIOUS
  <2>1. k - 1 \in 1 .. Len(bufs)
    OBVIOUS
  <2> QED
    BY <2>1
<1>2. PICK f \in [1 .. N -> Nat] : Recurses(f, N, 0, F)
  <2>1. N \in Nat /\ 0 \in Nat
    OBVIOUS
  <2> HIDE DEF F, N
  <2> QED
    BY <2>1, <1>1, Recursion
<1>3. f = G(f)
  <2>1. ASSUME NEW k \in 1 .. N PROVE f[k] = IF k = 1 THEN 0 ELSE f[k - 1] + bufs[k - 1].len
    <3>1. k # 1 => k - 1 \in 1 .. N
      OBVIOUS
    <3> QED
      BY <1>2, <3>1 DEF Recurses
  <2> QED
    BY <2>1
<1>4. pos = G(pos)
  <2> HIDE DEF G
  <2> QED
    BY <1>3
<1>5. \A i : Before(bufs, i) = pos[i]
  BY DEF Before
<1> HIDE DEF pos
<1>6. pos[1] = 0 /\ \A i \in 1 .. Len(bufs) : pos[i + 1] = pos[i] + bufs[i].len
  <2>1. ASSUME NEW i \in 1 .. Len(bufs) PROVE pos[i + 1] = pos[i] + bufs[i].len
    <3>1. i + 1 \in 1 .. N /\ (i + 1) - 1 = i /\ i + 1 # 1
      OBVIOUS
    <3> QED
      BY <3>1, <1>4
  <2> QED
    BY <2>1, <1>4
<1> DEFINE S == {m \in Nat : m <= Len(bufs) => pos[m + 1] \in Nat}
<1>7. 0 \in S
  BY <1>6
<1>8. ASSUME NEW m \in Nat, m \in S PROVE m + 1 \in S
  <2> SUFFICES ASSUME m + 1 <= Len(bufs) PROVE pos[(m + 1) + 1] \in Nat
    OBVIOUS
  <2>1. m + 1 \in 1 .. Len(bufs) /\ pos[m + 1] \in Nat
    BY <1>8
  <2> QED
    BY <2>1, <1>6
<1> HIDE DEF S
<1>9. \A m \in Nat : m \in S
  BY <1>7, <1>8, Induction
<1>10. ASSUME NEW i \in 1 .. (Len(bufs) + 1) PROVE pos[i] \in Nat
  <2>1. i - 1 \in Nat /\ i - 1 <= Len(bufs) /\ (i - 1) + 1 = i
    OBVIOUS
  <2> QED
    BY <2>1, <1>9 DEF S
<1> QED
  BY <1>5, <1>6, <1>10

(* q is what whole holds after its first at elements, as far as q goes. *)
Follows(q, whole, at) == \A k \in 1 .. Len(q) : q[k] = whole[at + k]

(* Two pieces that follow each other are one piece. *)
LEMMA OnePieceMore ==
  ASSUME NEW V, NEW p \in Seq(V), NEW q \in Seq(V), NEW whole \in Seq(V),
         Follows(p, whole, 0), Follows(q, whole, Len(p))
  PROVE  /\ p \o q \in Seq(V) /\ Len(p \o q) = Len(p) + Len(q)
         /\ Follows(p \o q, whole, 0)
<1>1. p \o q \in Seq(V) /\ Len(p \o q) = Len(p) + Len(q) /\ Len(p) \in Nat /\ Len(q) \in Nat
  OBVIOUS
<1>2. ASSUME NEW k \in 1 .. (Len(p) + Len(q)) PROVE (p \o q)[k] = whole[0 + k]
  <2>1. CASE k <= Len(p)
    BY <1>1, <2>1 DEF Follows
  <2>2. CASE k > Len(p)
    <3>1. k - Len(p) \in 1 .. Len(q) /\ Len(p) + (k - Len(p)) = k
      BY <1>1, <2>2
    <3>2. (p \o q)[k] = q[k - Len(p)]
      BY <1>1, <2>2
    <3> QED
      BY <3>1, <3>2 DEF Follows
  <2> QED
    BY <1>1, <2>1, <2>2
<1> QED
  BY <1>1, <1>2 DEF Follows

(* The pieces of a sequence, one after the other, are the sequence. *)
Tile(pieces, whole, off, n) ==
  /\ off[1] = 0 /\ off[n + 1] = Len(whole)
  /\ \A i \in 1 .. n : off[i + 1] = off[i] + Len(pieces[i]) /\ Follows(pieces[i], whole, off[i])

(* Pieces that cover a sequence make that sequence, by induction. *)
LEMMA FlattenPieces ==
  ASSUME NEW V, NEW whole \in Seq(V), NEW n \in Nat, NEW pieces \in [1 .. n -> Seq(V)],
         NEW off \in [1 .. (n + 1) -> Nat], Tile(pieces, whole, off, n)
  PROVE  FlattenSeq(pieces) = whole
<1>0. /\ off[1] = 0 /\ off[n + 1] = Len(whole)
      /\ \A i \in 1 .. n : off[i + 1] = off[i] + Len(pieces[i])
      /\ \A i \in 1 .. n : Follows(pieces[i], whole, off[i])
  BY DEF Tile
<1> USE <1>0
<1>1. pieces \in Seq(Seq(V)) /\ Len(pieces) = n
  OBVIOUS
<1>2. CASE n = 0
  <2>1. whole = <<>> /\ pieces = <<>>
    BY <1>1, <1>2
  <2> QED
    BY <1>1, <1>2, <2>1 DEF FlattenSeq
<1>3. CASE n # 0
  <2> DEFINE F == [k \in 1 .. n |-> [v \in Seq(V) |-> v \o pieces[k]]]
             G(g) == [k \in 1 .. n |-> IF k = 1 THEN pieces[k] ELSE g[k - 1] \o pieces[k]]
             flatten == CHOOSE g : g = G(g)
  <2>0. 1 \in 1 .. n /\ pieces[1] \in Seq(V)
    BY <1>3
  <2>1. F \in [1 .. n -> [Seq(V) -> Seq(V)]]
    OBVIOUS
  <2>2. PICK f \in [1 .. n -> Seq(V)] : Recurses(f, n, pieces[1], F)
    <3> HIDE DEF F
    <3> QED
      BY <2>0, <2>1, Recursion
  <2>3. f = G(f)
    <3>1. ASSUME NEW k \in 1 .. n
          PROVE  f[k] = IF k = 1 THEN pieces[k] ELSE f[k - 1] \o pieces[k]
      <4>1. k # 1 => k - 1 \in 1 .. n
        OBVIOUS
      <4>2. k # 1 => f[k - 1] \in Seq(V)
        BY <4>1
      <4> QED
        BY <2>2, <4>1, <4>2 DEF Recurses
    <3> QED
      BY <3>1
  <2>4. flatten = G(flatten)
    <3> HIDE DEF G
    <3> QED
      BY <2>3
  <2>5. FlattenSeq(pieces) = flatten[n]
    BY <1>1, <1>3 DEF FlattenSeq
  <2> HIDE DEF flatten
  <2> DEFINE Done(m) == /\ flatten[m] \in Seq(V) /\ Len(flatten[m]) = off[m + 1]
                        /\ Follows(flatten[m], whole, 0)
             S == {m \in Nat : m + 1 <= n => Done(m + 1)}
  <2>6. 0 \in S
    <3>1. flatten[1] = pieces[1]
      BY <2>0, <2>4
    <3>2. off[1 + 1] = 0 + Len(pieces[1])
      BY <2>0
    <3>3. Len(pieces[1]) \in Nat /\ off[1 + 1] = Len(pieces[1])
      BY <2>0, <3>2
    <3>4. Follows(pieces[1], whole, 0)
      BY <2>0
    <3> QED
      BY <2>0, <3>1, <3>3, <3>4
  <2>7. ASSUME NEW m \in Nat, m \in S PROVE m + 1 \in S
    <3> SUFFICES ASSUME (m + 1) + 1 <= n PROVE Done((m + 1) + 1)
      OBVIOUS
    <3> DEFINE j == m + 1
    <3>0. j \in 1 .. n /\ j + 1 \in 1 .. n /\ (j + 1) - 1 = j /\ j + 1 # 1
      OBVIOUS
    <3>1. Done(j)
      <4> HIDE DEF Done
      <4> QED
        BY <2>7
    <3> HIDE DEF j
    <3>2. flatten[j + 1] = flatten[j] \o pieces[j + 1]
      BY <2>4, <3>0
    <3> DEFINE p == flatten[j]
               q == pieces[j + 1]
    <3>3. /\ p \in Seq(V) /\ Len(p) = off[j + 1] /\ Follows(p, whole, 0)
          /\ q \in Seq(V) /\ Follows(q, whole, Len(p))
          /\ off[(j + 1) + 1] = Len(p) + Len(q)
      BY <3>0, <3>1
    <3> HIDE DEF p, q
    <3>4. /\ p \o q \in Seq(V) /\ Len(p \o q) = Len(p) + Len(q)
          /\ Follows(p \o q, whole, 0)
      BY <3>3, OnePieceMore
    <3>5. flatten[j + 1] = p \o q
      BY <3>2 DEF p, q
    <3>6. Done(j + 1)
      BY <3>3, <3>4, <3>5
    <3> QED
      BY <3>6 DEF j
  <2> HIDE DEF S
  <2>8. n - 1 \in S
    <3>1. \A m \in Nat : m \in S
      BY <2>6, <2>7, Induction
    <3>2. n - 1 \in Nat
      BY <1>3
    <3> QED
      BY <3>1, <3>2
  <2>9. Done(n)
    <3>1. (n - 1) + 1 = n
      OBVIOUS
    <3> QED
      BY <2>8, <3>1 DEF S
  <2>10. Len(flatten[n]) = Len(whole) /\ \A i \in 1 .. Len(whole) : flatten[n][i] = whole[i]
    BY <2>9 DEF Follows
  <2> QED
    BY <2>5, <2>9, <2>10, SeqEqual
<1> QED
  BY <1>2, <1>3

-----------------------------------------------------------------------------
(* The chain of a request, in the table and as process_queue reads it. *)
DescType == [addr : Slots, len : Nat, write : BOOLEAN, next : Slots, more : BOOLEAN]

(* What the assumptions say of the shape of a request. *)
LEMMA ShapeFacts ==
  ASSUME NEW shape \in Shapes
  PROVE  /\ shape \in ShapeType /\ Len(shape.bufs) \in Nat /\ LastDesc(shape) \in Nat
         /\ \A i \in 1 .. Len(shape.bufs) :
              shape.bufs[i].len \in Nat /\ shape.bufs[i].write \in BOOLEAN
         /\ LastDesc(shape) + 1 <= TableSize
         /\ LastDesc(shape) = IF shape.tail = "none" THEN Len(shape.bufs)
                              ELSE Len(shape.bufs) + 1
<1>1. shape \in ShapeType /\ Len(shape.bufs) + 2 <= TableSize /\ TableSize \in Nat
  BY ShapesAssumption, HeadsAssumption
<1>2. shape.bufs \in Seq([len : Nat, write : BOOLEAN])
  BY <1>1 DEF ShapeType
<1>3. Len(shape.bufs) \in Nat
      /\ \A i \in 1 .. Len(shape.bufs) : shape.bufs[i] \in [len : Nat, write : BOOLEAN]
  BY <1>2, ElementOfSeq, LenProperties
<1> QED
  BY <1>1, <1>3 DEF LastDesc

(* The descriptor at place j of a request's chain, field by field. *)
LEMMA ChainFacts ==
  ASSUME NEW shape \in Shapes, NEW h \in Nat, NEW j \in 0 .. LastDesc(shape)
  PROVE  LET d == ChainOf(h, shape)[j]
             n == Len(shape.bufs)
         IN  /\ d = [addr |-> d.addr, len |-> d.len, write |-> d.write,
                     next |-> d.next, more |-> d.more]
             /\ d.addr = h + j
             /\ d.next = IF j < LastDesc(shape) THEN h + j + 1 ELSE h
             /\ d.more = (j < LastDesc(shape) \/ shape.tail = "loop")
             /\ j = 0 => d.len = IF shape.hdr THEN 1 ELSE 0
             /\ j \in 1 .. n => d.len = shape.bufs[j].len /\ d.write = shape.bufs[j].write
             /\ j > n => d.len = 1 /\ d.write = (shape.tail = "status")
             /\ d.len \in Nat /\ d.write \in BOOLEAN
<1>1. j \in Nat /\ Len(shape.bufs) \in Nat
  BY ShapeFacts
<1>2. \A i \in 1 .. Len(shape.bufs) : shape.bufs[i].len \in Nat /\ shape.bufs[i].write \in BOOLEAN
  BY ShapeFacts
<1> DEFINE n == Len(shape.bufs)
           last == LastDesc(shape)
           len == IF j = 0 THEN (IF shape.hdr THEN 1 ELSE 0)
                  ELSE IF j <= n THEN shape.bufs[j].len ELSE 1
           write == IF j = 0 THEN FALSE
                    ELSE IF j <= n THEN shape.bufs[j].write ELSE shape.tail = "status"
           next == IF j < last THEN h + j + 1 ELSE h
           more == j < last \/ shape.tail = "loop"
<1>3. ChainOf(h, shape)[j] = [addr |-> h + j, len |-> len, write |-> write,
                              next |-> next, more |-> more]
  BY DEF ChainOf
<1>a. /\ j = 0 \/ j \in 1 .. n \/ j > n
      /\ j \in 1 .. n => j # 0 /\ j <= n
      /\ j > n => j # 0 /\ ~(j <= n)
      /\ j = 0 => ~(j > n) /\ j \notin 1 .. n
  BY <1>1
<1>b. /\ j = 0 => len = IF shape.hdr THEN 1 ELSE 0
      /\ j \in 1 .. n => len = shape.bufs[j].len
      /\ j > n => len = 1
  BY <1>a
<1>c. j = 0 => write = FALSE
  BY Zenon
<1>d. j \in 1 .. n => write = shape.bufs[j].write
  BY <1>a, Zenon
<1>e. j > n => write = (shape.tail = "status")
  BY <1>a, Zenon
<1> HIDE DEF len, write
<1>4. /\ j = 0 => len = (IF shape.hdr THEN 1 ELSE 0) /\ write = FALSE
      /\ j \in 1 .. n => len = shape.bufs[j].len /\ write = shape.bufs[j].write
      /\ j > n => len = 1 /\ write = (shape.tail = "status")
  BY <1>b, <1>c, <1>d, <1>e, Zenon
<1>f. len \in Nat
  BY <1>a, <1>b, <1>2
<1>g. write \in BOOLEAN
  <2>1. CASE j \in 1 .. n
    BY <2>1, <1>2, <1>d, Zenon
  <2>2. CASE j = 0
    BY <2>2, <1>c, Zenon
  <2>3. CASE j > n
    BY <2>3, <1>e, Zenon
  <2> QED
    BY <1>a, <2>1, <2>2, <2>3, Zenon
<1>5. len \in Nat /\ write \in BOOLEAN
  BY <1>f, <1>g
<1>6. next = (IF j < last THEN h + j + 1 ELSE h) /\ more = (j < last \/ shape.tail = "loop")
  OBVIOUS
<1> HIDE DEF len, write, next, more
<1> DEFINE d == ChainOf(h, shape)[j]
<1>7. d.addr = h + j /\ d.len = len /\ d.write = write /\ d.next = next /\ d.more = more
  BY <1>3
<1>8. d = [addr |-> d.addr, len |-> d.len, write |-> d.write, next |-> d.next, more |-> d.more]
  BY <1>3
<1> HIDE DEF d
<1>9. (j = 0 => d.len = IF shape.hdr THEN 1 ELSE 0) /\ (j > n => d.len = 1) /\ d.len \in Nat
  BY <1>4, <1>5, <1>7
<1>10. /\ j \in 1 .. n => d.len = shape.bufs[j].len /\ d.write = shape.bufs[j].write
       /\ j > n => d.write = (shape.tail = "status")
       /\ d.write \in BOOLEAN
  BY <1>4, <1>5, <1>7
<1>11. d.next = (IF j < last THEN h + j + 1 ELSE h) /\ d.more = (j < last \/ shape.tail = "loop")
  BY <1>6, <1>7
<1> HIDE DEF n, last
<1> QED
  BY <1>7, <1>8, <1>9, <1>10, <1>11 DEF d, n, last

(* Every descriptor of a chain leads to the one after it. *)
LEMMA ChainLinks ==
  ASSUME NEW shape \in Shapes, NEW h \in Nat, NEW j \in 0 .. LastDesc(shape)
  PROVE  /\ ChainOf(h, shape)[j].next = IF j < LastDesc(shape) THEN h + j + 1 ELSE h
         /\ ChainOf(h, shape)[j].more <=> j < LastDesc(shape) \/ shape.tail = "loop"
         /\ j = 0 => ChainOf(h, shape)[j].len = IF shape.hdr THEN 1 ELSE 0
BY ChainFacts

(* A descriptor of a chain has the buffer that the request has there. *)
LEMMA ChainFlags ==
  ASSUME NEW shape \in Shapes, NEW h \in Nat, NEW j \in 0 .. LastDesc(shape)
  PROVE  /\ ChainOf(h, shape)[j].addr = h + j
         /\ j \in 1 .. Len(shape.bufs) =>
              /\ ChainOf(h, shape)[j].len = shape.bufs[j].len
              /\ ChainOf(h, shape)[j].write = shape.bufs[j].write
         /\ j > Len(shape.bufs) => ChainOf(h, shape)[j].write = (shape.tail = "status")
BY ChainFacts

(* The chains the driver writes are made of descriptors. *)
LEMMA ChainTyped ==
  ASSUME NEW shape \in Shapes, NEW h \in Heads, SlotsOf(h, shape) \subseteq Slots,
         NEW j \in 0 .. LastDesc(shape)
  PROVE  ChainOf(h, shape)[j] \in DescType
<1>1. h \in Nat /\ LastDesc(shape) \in Nat /\ h \in Slots
  BY HeadsAssumption, ShapeFacts DEF Slots
<1>2. h + j \in SlotsOf(h, shape) /\ (j < LastDesc(shape) => h + j + 1 \in SlotsOf(h, shape))
  BY <1>1 DEF SlotsOf
<1> DEFINE d == ChainOf(h, shape)[j]
<1>a. d.addr = h + j /\ d.next = IF j < LastDesc(shape) THEN h + j + 1 ELSE h
  BY <1>1, ChainFacts
<1>3. d.addr \in Slots /\ d.next \in Slots
  BY <1>1, <1>2, <1>a
<1>4. d.more \in BOOLEAN /\ d.len \in Nat /\ d.write \in BOOLEAN
  <2>1. d.more = (j < LastDesc(shape) \/ shape.tail = "loop")
    BY <1>1, ChainFacts
  <2>2. d.len \in Nat /\ d.write \in BOOLEAN
    BY <1>1, ChainFacts
  <2> HIDE DEF d
  <2> QED
    BY <2>1, <2>2, Zenon
<1>5. d = [addr |-> d.addr, len |-> d.len, write |-> d.write, next |-> d.next, more |-> d.more]
  BY <1>1, ChainFacts
<1> HIDE DEF d
<1> QED
  BY <1>3, <1>4, <1>5 DEF DescType, d

(* The descriptors read so far and the next, if there is one. *)
Longer(tbl, sofar) ==
  IF Last(sofar).more THEN Append(sofar, tbl[Last(sofar).next]) ELSE sofar

(* fetch_descriptor_chain follows next from the head, one entry a turn. *)
LEMMA FetchWalks ==
  ASSUME table \in [Slots -> DescType], NEW h \in Slots, queue0.size \in Nat \ {0}
  PROVE  \E w \in [1 .. queue0.size -> Seq(DescType) \ {<<>>}] :
           /\ w[1] = <<table[h]>>
           /\ \A n \in 1 .. (queue0.size - 1) : w[n + 1] = Longer(table, w[n])
           /\ fetch_descriptor_chain(h) = w[queue0.size]
<1> DEFINE X == Seq(DescType) \ {<<>>}
           N == queue0.size
           F == [k \in 1 .. N |-> [v \in X |-> Longer(table, v)]]
           G(g) == [k \in 1 .. N |->
                     IF k = 1 THEN <<table[h]>>
                     ELSE IF Last(g[k - 1]).more
                          THEN Append(g[k - 1], table[Last(g[k - 1]).next]) ELSE g[k - 1]]
           walk == CHOOSE g : g = G(g)
<1>1. ASSUME NEW v \in X PROVE Longer(table, v) \in X
  <2>1. v \in Seq(DescType) /\ Len(v) \in 1 .. Len(v)
    OBVIOUS
  <2>2. Last(v) \in DescType
    BY <2>1 DEF Last
  <2>3. table[Last(v).next] \in DescType
    BY <2>2 DEF DescType
  <2> QED
    BY <2>1, <2>3 DEF Longer
<1>2. F \in [1 .. N -> [X -> X]]
  BY <1>1
<1>3. <<table[h]>> \in X /\ N \in Nat
  OBVIOUS
<1>4. PICK f \in [1 .. N -> X] : Recurses(f, N, <<table[h]>>, F)
  <2> HIDE DEF F, X, N
  <2> QED
    BY <1>2, <1>3, Recursion
<1>5. f = G(f)
  <2>1. ASSUME NEW k \in 1 .. N
        PROVE  f[k] = IF k = 1 THEN <<table[h]>> ELSE Longer(table, f[k - 1])
    <3>1. k # 1 => k - 1 \in 1 .. N
      OBVIOUS
    <3>2. k # 1 => f[k - 1] \in X
      BY <3>1
    <3>3. f[k] = IF k = 1 THEN <<table[h]>> ELSE F[k][f[k - 1]]
      BY <1>4 DEF Recurses
    <3>4. k # 1 => F[k][f[k - 1]] = Longer(table, f[k - 1])
      BY <3>2
    <3> QED
      BY <3>3, <3>4
  <2> QED
    BY <2>1 DEF Longer
<1>6. walk = G(walk)
  <2> HIDE DEF G
  <2> QED
    BY <1>5
<1>7. fetch_descriptor_chain(h) = walk[N]
  BY DEF fetch_descriptor_chain
<1> HIDE DEF walk
<1>8. walk[1] = <<table[h]>> /\ \A n \in 1 .. (N - 1) : walk[n + 1] = Longer(table, walk[n])
  <2>1. 1 \in 1 .. N
    OBVIOUS
  <2>2. ASSUME NEW n \in 1 .. (N - 1) PROVE walk[n + 1] = Longer(table, walk[n])
    <3>1. n + 1 \in 1 .. N /\ n + 1 # 1 /\ (n + 1) - 1 = n
      OBVIOUS
    <3>2. G(walk)[n + 1] = Longer(table, walk[n])
      BY <3>1 DEF Longer
    <3> HIDE DEF G
    <3> QED
      BY <3>2, <1>6
  <2> QED
    BY <2>1, <2>2, <1>6
<1> DEFINE S == {m \in Nat : m + 1 <= N => walk[m + 1] \in X}
<1>9. 0 \in S
  <2>1. walk[0 + 1] \in X
    <3> HIDE DEF X
    <3> QED
      BY <1>3, <1>8
  <2> QED
    BY <2>1
<1>10. ASSUME NEW m \in Nat, m \in S PROVE m + 1 \in S
  <2> SUFFICES ASSUME (m + 1) + 1 <= N PROVE walk[(m + 1) + 1] \in X
    OBVIOUS
  <2>1. m + 1 \in 1 .. (N - 1) /\ walk[m + 1] \in X
    BY <1>10
  <2> HIDE DEF X
  <2> QED
    BY <2>1, <1>1, <1>8
<1> HIDE DEF S
<1>11. \A m \in Nat : m \in S
  BY <1>9, <1>10, Induction
<1>12. ASSUME NEW n \in 1 .. N PROVE walk[n] \in X
  <2>1. n - 1 \in Nat /\ (n - 1) + 1 = n /\ n <= N
    OBVIOUS
  <2> QED
    BY <2>1, <1>11 DEF S
<1>13. walk \in [1 .. N -> X]
  <2>1. walk = [k \in 1 .. N |-> walk[k]]
    BY <1>6
  <2> QED
    BY <2>1, <1>12
<1> QED
  BY <1>7, <1>8, <1>13

(* process_queue reads the whole chain of a request, or goes round in one  *)
(* without end until the queue's size stops it.                            *)
LEMMA FetchChain ==
  ASSUME table \in [Slots -> DescType], NEW h \in Heads, NEW shape \in Shapes,
         SlotsOf(h, shape) \subseteq Slots, queue0.size \in Nat, TableSize <= queue0.size,
         \A j \in 0 .. LastDesc(shape) : table[h + j] = ChainOf(h, shape)[j]
  PROVE  /\ fetch_descriptor_chain(h) # <<>>
         /\ shape.tail = "loop" => Last(fetch_descriptor_chain(h)).more
         /\ shape.tail # "loop" =>
              fetch_descriptor_chain(h) =
                [i \in 1 .. (LastDesc(shape) + 1) |-> ChainOf(h, shape)[i - 1]]
<1>0. ASSUME NEW j \in 0 .. LastDesc(shape)
      PROVE  /\ ChainOf(h, shape)[j].next = IF j < LastDesc(shape) THEN h + j + 1 ELSE h
             /\ ChainOf(h, shape)[j].more <=> j < LastDesc(shape) \/ shape.tail = "loop"
  <2>1. h \in Nat
    BY HeadsAssumption DEF Slots
  <2> QED
    BY <2>1, ChainLinks
<1> DEFINE N == queue0.size
           last == LastDesc(shape)
<1>1. /\ h \in Nat /\ h \in Slots /\ last \in Nat /\ N \in Nat \ {0} /\ last + 1 <= N
      /\ h + 0 = h /\ 0 \in 0 .. last /\ N - 1 \in Nat /\ (N - 1) + 1 = N
  BY HeadsAssumption, ShapeFacts DEF Slots
<1>2. PICK w \in [1 .. N -> Seq(DescType) \ {<<>>}] :
        /\ w[1] = <<table[h]>>
        /\ \A n \in 1 .. (N - 1) : w[n + 1] = Longer(table, w[n])
        /\ fetch_descriptor_chain(h) = w[N]
  BY <1>1, FetchWalks
<1>3. fetch_descriptor_chain(h) # <<>>
  BY <1>1, <1>2
<1>4. ASSUME NEW j \in 0 .. last
      PROVE  /\ table[h + j].next = IF j < last THEN h + (j + 1) ELSE h
             /\ table[h + j].more <=> j < last \/ shape.tail = "loop"
  <2>0. j \in 0 .. LastDesc(shape)
    OBVIOUS
  <2> DEFINE d == ChainOf(h, shape)[j]
  <2> HIDE DEF last
  <2>1. d.next = IF j < LastDesc(shape) THEN h + j + 1 ELSE h
    BY <2>0, <1>0
  <2>2. d.more <=> j < LastDesc(shape) \/ shape.tail = "loop"
    BY <2>0, <1>0
  <2>3. j < last => h + j + 1 = h + (j + 1)
    BY <1>1, <2>0
  <2>4. table[h + j] = d
    BY <2>0
  <2> HIDE DEF d
  <2> QED
    BY <2>1, <2>2, <2>3, <2>4 DEF last
<1> HIDE DEF N, last
<1>5. ASSUME shape.tail = "loop" PROVE Last(fetch_descriptor_chain(h)).more
  <2> DEFINE Round(m) == \E j \in 0 .. last : Last(w[m]) = table[h + j]
             S == {m \in Nat : m + 1 <= N => Round(m + 1)}
  <2>1. 0 \in S
    <3>1. Last(w[1]) = table[h + 0]
      BY <1>1, <1>2 DEF Last
    <3> QED
      BY <3>1, <1>1
  <2>2. ASSUME NEW m \in Nat, m \in S PROVE m + 1 \in S
    <3> SUFFICES ASSUME (m + 1) + 1 <= N PROVE Round((m + 1) + 1)
      OBVIOUS
    <3>0. m + 1 \in 1 .. (N - 1) /\ m + 1 \in 1 .. N /\ m + 1 <= N
      BY <1>1
    <3>1. m + 1 \in 1 .. (N - 1) /\ m + 1 \in 1 .. N /\ Round(m + 1)
      <4> HIDE DEF Round
      <4> QED
        BY <2>2, <3>0
    <3> DEFINE v == w[m + 1]
    <3>2. PICK j \in 0 .. last : Last(v) = table[h + j]
      BY <3>1
    <3>3. v \in Seq(DescType) /\ w[(m + 1) + 1] = Longer(table, v)
      BY <3>1, <1>2
    <3> HIDE DEF v
    <3>4. Longer(table, v) = Append(v, table[table[h + j].next])
      BY <3>2, <1>4, <1>5 DEF Longer
    <3>5. Last(Append(v, table[table[h + j].next])) = table[table[h + j].next]
      BY <3>3 DEF Last
    <3>6. \E k \in 0 .. last : table[h + j].next = h + k
      <4>1. CASE j < last
        <5>1. j + 1 \in 0 .. last
          BY <4>1, <1>1
        <5> QED
          BY <4>1, <5>1, <1>4
      <4>2. CASE ~(j < last)
        <5>1. table[h + j].next = h + 0
          BY <4>2, <1>4, <1>1
        <5> QED
          BY <5>1, <1>1
      <4> QED
        BY <4>1, <4>2
    <3> QED
      BY <3>3, <3>4, <3>5, <3>6
  <2> HIDE DEF S
  <2>3. N - 1 \in S
    BY <2>1, <2>2, <1>1, Induction
  <2>4. Round(N)
    BY <2>3, <1>1 DEF S
  <2> QED
    BY <2>4, <1>2, <1>4, <1>5
<1>6. ASSUME shape.tail # "loop"
      PROVE  fetch_descriptor_chain(h) = [i \in 1 .. (last + 1) |-> ChainOf(h, shape)[i - 1]]
  <2> DEFINE K(m) == IF m <= last THEN m ELSE last + 1
             First(n) == [i \in 1 .. n |-> table[h + (i - 1)]]
             S == {m \in Nat : m + 1 <= N => w[m + 1] = First(K(m + 1))}
  <2>1. 0 \in S
    <3>1. K(1) = 1
      BY <1>1
    <3>2. First(1) = <<table[h]>>
      BY <1>1
    <3> QED
      BY <3>1, <3>2, <1>2
  <2>2. ASSUME NEW m \in Nat, m \in S PROVE m + 1 \in S
    <3> SUFFICES ASSUME (m + 1) + 1 <= N PROVE w[(m + 1) + 1] = First(K((m + 1) + 1))
      OBVIOUS
    <3> DEFINE n == m + 1
               v == w[n]
    <3>1. n \in 1 .. (N - 1) /\ n \in 1 .. N /\ n \in Nat \ {0} /\ v = First(K(n))
      BY <2>2, <1>1
    <3>2. K(n) \in Nat \ {0} /\ K(n) <= last + 1
      BY <3>1, <1>1
    <3>3. v \in Seq(DescType) /\ w[n + 1] = Longer(table, v)
      BY <3>1, <1>2
    <3> HIDE DEF n
    <3>4. Len(v) = K(n) /\ Last(v) = table[h + (K(n) - 1)]
      <4> HIDE DEF K
      <4>1. Len(First(K(n))) = K(n) /\ First(K(n))[K(n)] = table[h + (K(n) - 1)]
        BY <3>2
      <4> QED
        BY <4>1, <3>1 DEF Last
    <3> HIDE DEF v
    <3>5. CASE n <= last
      <4>1. K(n) = n /\ K(n + 1) = n + 1 /\ n - 1 \in 0 .. last /\ n - 1 < last /\ (n - 1) + 1 = n
        BY <3>5, <3>1, <1>1
      <4>2. Last(v).more /\ Last(v).next = h + n
        BY <4>1, <3>4, <1>4
      <4>3. w[n + 1] = Append(v, table[h + n])
        BY <4>2, <3>3 DEF Longer
      <4>4. Append(First(n), table[h + n]) = First(n + 1)
        <5>1. First(n) \in Seq(DescType)
          BY <3>1, <3>3, <4>1
        <5>2. Len(First(n)) = n
          BY <3>4, <3>1, <4>1
        <5>3. Append(First(n), table[h + n]) =
                [i \in 1 .. (n + 1) |-> IF i = n + 1 THEN table[h + n] ELSE First(n)[i]]
          BY <5>2, <3>1
        <5>4. ASSUME NEW i \in 1 .. (n + 1)
              PROVE  (IF i = n + 1 THEN table[h + n] ELSE First(n)[i]) = table[h + (i - 1)]
          BY <3>1
        <5> QED
          BY <5>3, <5>4
      <4> QED
        BY <4>1, <4>3, <4>4, <3>1 DEF n
    <3>6. CASE ~(n <= last)
      <4>1. K(n) = last + 1 /\ K(n + 1) = last + 1 /\ (last + 1) - 1 = last /\ last \in 0 .. last
            /\ ~(last < last)
        BY <3>6, <3>1, <1>1
      <4>2. ~Last(v).more
        BY <4>1, <3>4, <1>4, <1>6
      <4>3. w[n + 1] = v
        BY <4>2, <3>3 DEF Longer
      <4> QED
        BY <4>1, <4>3, <3>1 DEF n
    <3> QED
      BY <3>5, <3>6
  <2> HIDE DEF S
  <2>3. N - 1 \in S
    BY <2>1, <2>2, <1>1, Induction
  <2>4. w[N] = First(K(N)) /\ K(N) = last + 1
    BY <2>3, <1>1 DEF S
  <2>5. ASSUME NEW i \in 1 .. (last + 1)
        PROVE  table[h + (i - 1)] = ChainOf(h, shape)[i - 1]
    BY <1>1 DEF last
  <2> QED
    BY <2>4, <2>5, <1>2
<1> QED
  BY <1>3, <1>5, <1>6 DEF last

-----------------------------------------------------------------------------
(* What the refinement needs to be inductive. *)

(* The queue is set up in order, and before the driver goes live both      *)
(* rings are empty.                                                        *)
SetupOK ==
  /\ used.idx = queue0.last_used_idx
  /\ queue0.size = 0 => \A field \in Addresses : queue0[field] = Null
  /\ queue0.ready => \A field \in Addresses : queue0[field] = Table
  /\ live => queue0.ready
  /\ ~live => /\ ~serving /\ chain = <<>>
              /\ avail.idx = 0 /\ queue0.last_avail_idx = 0 /\ used.idx = 0 /\ seen = 0

MemoryOK ==
  /\ avail.ring \in [Idxs -> Nat] /\ used.ring \in [Idxs -> Nat]
  /\ table \in [Slots -> DescType] /\ mem = [s \in Slots |-> mem[s]]
  /\ req \in [Heads -> Shapes \cup {NoReq}] /\ disk \in Seq(Values)

(* The chains of the requests under way are in the table and disjoint. *)
Mine(h) == SlotsOf(h, req[h])

RequestsOK ==
  \A h \in Heads : req[h] # NoReq =>
    /\ Mine(h) \subseteq Slots
    /\ \A j \in 0 .. LastDesc(req[h]) : table[h + j] = ChainOf(h, req[h])[j]
    /\ \A g \in Heads \ {h} : req[g] # NoReq => Mine(g) \cap Mine(h) = {}

(* A request under way is in one of the rings at most, and there once. *)
OrderOK ==
  /\ WaitingHeads \in Seq(Heads) /\ IsInjective(WaitingHeads)
  /\ AnsweredHeads \in Seq(Heads) /\ IsInjective(AnsweredHeads)
  /\ Range(WaitingHeads) \cap Range(AnsweredHeads) = {}
  /\ \A h \in Range(WaitingHeads) \cup Range(AnsweredHeads) : req[h] # NoReq

(* Nobody touches the buffers of a request before it is served. *)
BuffersOK ==
  \A h \in Range(WaitingHeads) : \A j \in 0 .. LastDesc(req[h]) :
    mem[h + j] = BufferOf(req[h], j)

(* process_queue works on the oldest request, and has read all of it. *)
ChainOK ==
  chain # <<>> =>
    LET shape == req[NextHead]
    IN  /\ serving /\ More
        /\ shape.tail = "loop" => Last(chain).more
        /\ shape.tail # "loop" =>
             chain = [i \in 1 .. (LastDesc(shape) + 1) |-> ChainOf(NextHead, shape)[i - 1]]

RequestInv == SetupOK /\ MemoryOK /\ RequestsOK /\ OrderOK /\ BuffersOK /\ ChainOK
RefineInv == QueueOK /\ RequestInv

(* The mark of a free head is no request. *)
LEMMA NoReqIsNone == NoReq \notin Shapes
<1>1. ASSUME NEW s \in Shapes, s = NoReq PROVE FALSE
  <2>1. s.type \in {"IN", "OUT", "OTHER"}
    BY <1>1, ShapesAssumption DEF ShapeType
  <2> QED
    BY <1>1, <2>1 DEF NoReq
<1> QED
  BY <1>1

(* A head is a slot of the table. *)
LEMMA HeadFacts ==
  ASSUME NEW h \in Heads
  PROVE  h \in Nat /\ h \in Slots
BY HeadsAssumption DEF Slots

(* A head that is in use has a request, and its own slot. *)
LEMMA RequestFacts ==
  ASSUME MemoryOK, NEW h \in Heads, req[h] # NoReq
  PROVE  req[h] \in Shapes /\ h \in Mine(h) /\ h \in Nat
<1>1. req[h] \in Shapes
  BY DEF MemoryOK
<1>2. LastDesc(req[h]) \in Nat /\ h \in Nat
  BY <1>1, ShapeFacts, HeadFacts
<1> QED
  BY <1>1, <1>2 DEF Mine, SlotsOf

(* Sequences without repetition, longer by one and shorter by one. *)
LEMMA AppendOnce ==
  ASSUME NEW S, NEW q \in Seq(S), IsInjective(q), NEW h \in S, h \notin Range(q)
  PROVE  /\ Append(q, h) \in Seq(S) /\ IsInjective(Append(q, h))
         /\ Range(Append(q, h)) = Range(q) \cup {h}
<1> DEFINE p == Append(q, h)
<1>1. /\ p \in Seq(S) /\ Len(q) \in Nat /\ DOMAIN p = 1 .. (Len(q) + 1) /\ DOMAIN q = 1 .. Len(q)
      /\ p[Len(q) + 1] = h /\ \A i \in 1 .. Len(q) : p[i] = q[i]
  BY AppendProperties, LenProperties
<1> HIDE DEF p
<1>2. ASSUME NEW i \in 1 .. (Len(q) + 1) PROVE i = Len(q) + 1 \/ i \in 1 .. Len(q)
  BY <1>1
<1>3. Len(q) + 1 \in DOMAIN p /\ \A i \in 1 .. Len(q) : i \in DOMAIN p
  BY <1>1
<1>4. Range(p) = Range(q) \cup {h}
  BY <1>1, <1>2, <1>3 DEF Range
<1>5. ASSUME NEW i \in DOMAIN p, NEW j \in DOMAIN p, p[i] = p[j] PROVE i = j
  <2>1. \A k \in 1 .. Len(q) : q[k] # h
    BY <1>1 DEF Range
  <2> QED
    BY <1>1, <1>2, <1>5, <2>1 DEF IsInjective
<1> QED
  BY <1>1, <1>4, <1>5 DEF IsInjective, p

(* The rest of a sequence without repetitions has none either. *)
LEMMA TailOnce ==
  ASSUME NEW S, NEW q \in Seq(S), IsInjective(q), q # <<>>
  PROVE  /\ Tail(q) \in Seq(S) /\ IsInjective(Tail(q))
         /\ Range(Tail(q)) = Range(q) \ {q[1]} /\ q[1] \in Range(q) /\ q[1] \in S
<1> DEFINE p == Tail(q)
<1>1. /\ p \in Seq(S) /\ Len(q) \in Nat \ {0} /\ DOMAIN p = 1 .. (Len(q) - 1)
      /\ DOMAIN q = 1 .. Len(q) /\ \A i \in 1 .. (Len(q) - 1) : p[i] = q[i + 1]
  BY HeadTailProperties, LenProperties, EmptySeq
<1>2. 1 \in DOMAIN q /\ q[1] \in Range(q) /\ q[1] \in S
  BY <1>1 DEF Range
<1> HIDE DEF p
<1>3. ASSUME NEW i \in DOMAIN p, NEW j \in DOMAIN p, p[i] = p[j] PROVE i = j
  <2>1. i + 1 \in DOMAIN q /\ j + 1 \in DOMAIN q /\ q[i + 1] = q[j + 1]
    BY <1>1, <1>3
  <2>2. i + 1 = j + 1
    BY <2>1 DEF IsInjective
  <2> QED
    BY <1>1, <2>2
<1>4. ASSUME NEW x \in Range(p) PROVE x \in Range(q) \ {q[1]}
  <2>1. PICK i \in DOMAIN p : x = p[i]
    BY DEF Range
  <2>2. i + 1 \in DOMAIN q /\ x = q[i + 1] /\ i + 1 # 1
    BY <1>1, <2>1
  <2> QED
    BY <1>2, <2>2 DEF Range, IsInjective
<1>5. ASSUME NEW x \in Range(q) \ {q[1]} PROVE x \in Range(p)
  <2>1. PICK i \in DOMAIN q : x = q[i]
    BY DEF Range
  <2>2. i - 1 \in DOMAIN p /\ (i - 1) + 1 = i
    BY <1>1, <2>1
  <2>3. x = p[i - 1]
    BY <1>1, <2>1, <2>2
  <2> QED
    BY <2>2, <2>3 DEF Range
<1> QED
  BY <1>1, <1>2, <1>3, <1>4, <1>5 DEF IsInjective, p

(* Where a request is not in a ring yet, the ring has room for it. *)
LEMMA RoomForOne ==
  ASSUME NEW q \in Seq(Heads), IsInjective(q), NEW h \in Heads, h \notin Range(q)
  PROVE  /\ Len(q) < IdxMod - 1
         /\ \A n \in Sizes : Len(q) < n
<1> DEFINE p == Append(q, h)
<1>1. p \in Seq(Heads) /\ IsInjective(p)
  BY AppendOnce
<1>2. Len(q) \in Nat /\ Len(p) = Len(q) + 1 /\ p \in [1 .. (Len(q) + 1) -> Heads]
  BY <1>1, LenProperties, AppendProperties
<1> DEFINE D == 1 .. (Len(q) + 1)
<1>3. IsFiniteSet(Slots) /\ Cardinality(Slots) <= TableSize
  <2>1. 0 \in Int /\ TableSize - 1 \in Int /\ TableSize \in Nat
    BY HeadsAssumption
  <2>2. /\ IsFiniteSet(0 .. (TableSize - 1))
        /\ Cardinality(0 .. (TableSize - 1)) =
             IF 0 > TableSize - 1 THEN 0 ELSE (TableSize - 1) - 0 + 1
    <3> DEFINE b == TableSize - 1
    <3> HIDE DEF b
    <3>1. b \in Int
      BY <2>1 DEF b
    <3>2. IsFiniteSet(0 .. b) /\ Cardinality(0 .. b) = IF 0 > b THEN 0 ELSE b - 0 + 1
      BY <2>1, <3>1, FS_Interval
    <3> QED
      BY <3>2 DEF b
  <2> QED
    BY <2>1, <2>2 DEF Slots
<1>4. IsFiniteSet(Heads) /\ Cardinality(Heads) <= Cardinality(Slots)
  BY <1>3, FS_Subset, HeadsAssumption
<1>5. IsFiniteSet(D) /\ Cardinality(D) = Len(q) + 1
  <2>1. 1 \in Int /\ Len(q) + 1 \in Int /\ ~(1 > Len(q) + 1) /\ (Len(q) + 1) - 1 + 1 = Len(q) + 1
    BY <1>2
  <2> QED
    BY <2>1, FS_Interval
<1>6. Cardinality(Heads) \in Nat /\ Cardinality(Slots) \in Nat
  BY <1>3, <1>4, FS_CardinalityType
<1> HIDE DEF p
<1>7. ~(Cardinality(Heads) < Len(q) + 1)
  <2> SUFFICES ASSUME Cardinality(Heads) < Len(q) + 1 PROVE FALSE
    OBVIOUS
  <2>1. \E x, y \in D : x # y /\ p[x] = p[y]
    <3> p \in [D -> Heads]
      BY <1>2
    <3> HIDE DEF D
    <3> QED
      BY <1>4, <1>5, FS_PigeonHole
  <2>2. DOMAIN p = D
    BY <1>2
  <2> QED
    BY <2>1, <2>2, <1>1 DEF IsInjective
<1> QED
  BY <1>2, <1>3, <1>4, <1>6, <1>7, HeadsAssumption, IdxFacts, SizeFacts

-----------------------------------------------------------------------------
(* What the steps do to the two rings. *)
LEMMA LiveSize ==
  ASSUME QueueOK, SetupOK, live
  PROVE  queue0.size \in Sizes /\ queue0.size \in Nat /\ TableSize <= queue0.size
<1>1. queue0.size \in Sizes \cup {0}
  BY DEF QueueOK
<1>2. queue0.size # 0
  <2>1. queue0.desc_addr = Table
    BY DEF SetupOK, Addresses
  <2>2. Table # Null
    BY DEF Table, Null
  <2> QED
    BY <2>1, <2>2 DEF SetupOK, Addresses
<1> QED
  BY <1>1, <1>2, HeadsAssumption, SizeFacts

(* All five indices are indices. *)
LEMMA IndexFacts ==
  ASSUME QueueOK
  PROVE  /\ queue0.last_avail_idx \in Idxs /\ queue0.last_used_idx \in Idxs
         /\ avail.idx \in Idxs /\ used.idx \in Idxs /\ seen \in Idxs
BY DEF QueueOK

(* Both rings are empty until the driver has set the queue up. *)
LEMMA NotLiveEmpty ==
  ASSUME QueueOK, SetupOK, ~live
  PROVE  WaitingHeads = <<>> /\ AnsweredHeads = <<>>
<1>1. queue0.last_avail_idx = 0 /\ avail.idx = 0 /\ seen = 0 /\ used.idx = 0 /\ 0 \in Idxs
  BY IndexFacts DEF SetupOK
<1> QED
  BY <1>1, EntriesEmpty DEF WaitingHeads, AnsweredHeads

(* There are as many entries as the indices are apart. *)
LEMMA EntriesLen ==
  ASSUME NEW ring \in [Idxs -> Nat], NEW n \in Sizes, NEW a \in Idxs, NEW b \in Idxs
  PROVE  Len(Entries(ring, n, a, b)) = Dist(a, b) /\ Dist(a, b) \in Nat
<1>1. Dist(a, b) \in Nat
  BY DistIs, IdxFacts
<1> QED
  BY <1>1, EntriesAre

(* A submission appends to the requests that wait. *)
LEMMA SubmitMoves ==
  ASSUME QueueOK, SetupOK, MemoryOK, OrderOK, live, NEW h \in Heads, req[h] = NoReq,
         avail' = [idx |-> Succ(avail.idx),
                   ring |-> [avail.ring EXCEPT ![avail.idx % queue0.size] = h]],
         UNCHANGED <<queue0, used, seen>>
  PROVE  WaitingHeads' = Append(WaitingHeads, h) /\ AnsweredHeads' = AnsweredHeads
<1> DEFINE n == queue0.size
           a == queue0.last_avail_idx
           b == avail.idx
           ring == avail.ring
<1>1. n \in Sizes /\ a \in Idxs /\ b \in Idxs /\ ring \in [Idxs -> Nat] /\ h \in Nat
  BY LiveSize, IndexFacts, HeadFacts DEF MemoryOK
<1>2. Len(WaitingHeads) < IdxMod - 1 /\ Len(WaitingHeads) < n
  <2>1. WaitingHeads \in Seq(Heads) /\ IsInjective(WaitingHeads) /\ h \notin Range(WaitingHeads)
    BY DEF OrderOK
  <2> QED
    BY <1>1, <2>1, RoomForOne
<1>3. WaitingHeads = Entries(ring, n, a, b)
  BY DEF WaitingHeads
<1>4. WaitingHeads' = Entries([ring EXCEPT ![b % n] = h], n, a, Succ(b))
  BY DEF WaitingHeads
<1>5. AnsweredHeads' = AnsweredHeads
  BY DEF AnsweredHeads
<1> HIDE DEF n, a, b, ring
<1>6. Dist(a, b) < n /\ Dist(a, b) < IdxMod - 1
  BY <1>1, <1>2, <1>3, EntriesLen
<1>7. Entries([ring EXCEPT ![b % n] = h], n, a, Succ(b)) = Append(Entries(ring, n, a, b), h)
  BY <1>1, <1>6, EntriesAppend
<1> QED
  BY <1>3, <1>4, <1>5, <1>7

(* The request process_queue works on is the oldest. *)
LEMMA NextIsOldest ==
  ASSUME QueueOK, SetupOK, MemoryOK, OrderOK, serving, More
  PROVE  /\ WaitingHeads # <<>> /\ WaitingHeads[1] = NextHead
         /\ NextHead \in Heads /\ NextHead \in Range(WaitingHeads) /\ req[NextHead] # NoReq
         /\ live /\ queue0.size \in Sizes /\ queue0.last_avail_idx # avail.idx
<1>1. live /\ queue0.last_avail_idx # avail.idx
  BY DEF SetupOK, QueueOK, More
<1> DEFINE n == queue0.size
           a == queue0.last_avail_idx
           b == avail.idx
           ring == avail.ring
<1>2. n \in Sizes /\ a \in Idxs /\ b \in Idxs /\ ring \in [Idxs -> Nat]
  BY <1>1, LiveSize, IndexFacts DEF MemoryOK
<1>3. WaitingHeads = Entries(ring, n, a, b) /\ NextHead = ring[a % n] /\ a # b
  BY <1>1 DEF WaitingHeads, NextHead
<1>4. WaitingHeads # <<>> /\ WaitingHeads[1] = NextHead
  <2> HIDE DEF n, a, b, ring
  <2> QED
    BY <1>2, <1>3, EntriesTail
<1>5. WaitingHeads[1] \in Heads /\ WaitingHeads[1] \in Range(WaitingHeads)
  <2>1. WaitingHeads \in Seq(Heads) /\ IsInjective(WaitingHeads)
    BY DEF OrderOK
  <2> HIDE DEF n, a, b, ring
  <2> QED
    BY <1>4, <2>1, TailOnce
<1> QED
  BY <1>1, <1>2, <1>4, <1>5 DEF OrderOK

(* The next entry of the avail ring is done with. *)
LEMMA WaitingMoves ==
  ASSUME QueueOK, SetupOK, MemoryOK, OrderOK, serving, More,
         queue0'.last_avail_idx = Succ(queue0.last_avail_idx), queue0'.size = queue0.size,
         UNCHANGED avail
  PROVE  WaitingHeads' = Tail(WaitingHeads)
<1> DEFINE n == queue0.size
           a == queue0.last_avail_idx
           b == avail.idx
           ring == avail.ring
<1>1. n \in Sizes /\ a \in Idxs /\ b \in Idxs /\ ring \in [Idxs -> Nat] /\ a # b
  BY NextIsOldest, IndexFacts DEF MemoryOK
<1>2. WaitingHeads = Entries(ring, n, a, b) /\ WaitingHeads' = Entries(ring, n, Succ(a), b)
  BY DEF WaitingHeads
<1> HIDE DEF n, a, b, ring
<1> QED
  BY <1>1, <1>2, EntriesTail

(* An answer appends to those the driver has not collected. *)
LEMMA AnswerMoves ==
  ASSUME QueueOK, SetupOK, MemoryOK, OrderOK, serving, More,
         used' = [idx |-> Succ(queue0.last_used_idx),
                  ring |-> [used.ring EXCEPT ![UsedSlot] = NextHead]],
         queue0'.size = queue0.size, UNCHANGED seen
  PROVE  AnsweredHeads' = Append(AnsweredHeads, NextHead)
<1> DEFINE n == queue0.size
           a == seen
           b == used.idx
           ring == used.ring
           h == NextHead
<1>1. n \in Sizes /\ a \in Idxs /\ b \in Idxs /\ ring \in [Idxs -> Nat] /\ h \in Heads /\ h \in Nat
  BY NextIsOldest, IndexFacts, HeadFacts DEF MemoryOK
<1>2. Len(AnsweredHeads) < IdxMod - 1 /\ Len(AnsweredHeads) < n
  <2>1. /\ AnsweredHeads \in Seq(Heads) /\ IsInjective(AnsweredHeads)
        /\ h \notin Range(AnsweredHeads)
    BY NextIsOldest DEF OrderOK
  <2> HIDE DEF h
  <2> QED
    BY <1>1, <2>1, RoomForOne
<1>3. AnsweredHeads = Entries(ring, n, a, b)
  BY DEF AnsweredHeads
<1>4. AnsweredHeads' = Entries([ring EXCEPT ![b % n] = h], n, a, Succ(b))
  BY DEF AnsweredHeads, UsedSlot, SetupOK
<1> HIDE DEF n, a, b, ring, h
<1>6. Dist(a, b) < n /\ Dist(a, b) < IdxMod - 1
  BY <1>1, <1>2, <1>3, EntriesLen
<1>7. Entries([ring EXCEPT ![b % n] = h], n, a, Succ(b)) = Append(Entries(ring, n, a, b), h)
  BY <1>1, <1>6, EntriesAppend
<1> QED
  BY <1>3, <1>4, <1>7 DEF h

(* Collecting takes the oldest answer. *)
LEMMA CollectMoves ==
  ASSUME QueueOK, SetupOK, MemoryOK, OrderOK, used.idx # seen,
         seen' = Succ(seen), UNCHANGED <<queue0, used, avail>>
  PROVE  LET h == used.ring[seen % queue0.size]
         IN  /\ AnsweredHeads # <<>> /\ AnsweredHeads[1] = h /\ live
             /\ h \in Heads /\ h \in Range(AnsweredHeads) /\ req[h] # NoReq
             /\ AnsweredHeads' = Tail(AnsweredHeads) /\ WaitingHeads' = WaitingHeads
<1>1. live
  BY DEF SetupOK
<1> DEFINE n == queue0.size
           a == seen
           b == used.idx
           ring == used.ring
           h == used.ring[seen % queue0.size]
<1>2. n \in Sizes /\ a \in Idxs /\ b \in Idxs /\ ring \in [Idxs -> Nat] /\ a # b
  BY <1>1, LiveSize, IndexFacts DEF MemoryOK
<1>3. /\ AnsweredHeads = Entries(ring, n, a, b) /\ h = ring[a % n]
      /\ AnsweredHeads' = Entries(ring, n, Succ(a), b) /\ WaitingHeads' = WaitingHeads
  BY DEF AnsweredHeads, WaitingHeads
<1> HIDE DEF n, a, b, ring, h
<1>4. AnsweredHeads # <<>> /\ AnsweredHeads[1] = h /\ AnsweredHeads' = Tail(AnsweredHeads)
  BY <1>2, <1>3, EntriesTail
<1>5. AnsweredHeads[1] \in Heads /\ AnsweredHeads[1] \in Range(AnsweredHeads)
  <2>1. AnsweredHeads \in Seq(Heads) /\ IsInjective(AnsweredHeads)
    BY DEF OrderOK
  <2> QED
    BY <1>4, <2>1, TailOnce
<1>6. req[h] # NoReq
  BY <1>4, <1>5 DEF OrderOK
<1> QED
  BY <1>1, <1>3, <1>4, <1>5, <1>6 DEF h

-----------------------------------------------------------------------------
(* Steps that leave the rings, the requests and their memory alone. *)
LEMMA QuietKeeps ==
  ASSUME MemoryOK, RequestsOK, OrderOK, BuffersOK,
         UNCHANGED <<queue0, disk, memVars, req, seen>>
  PROVE  /\ MemoryOK' /\ RequestsOK' /\ OrderOK' /\ BuffersOK'
         /\ WaitingNow' = WaitingNow /\ AnsweredNow' = AnsweredNow
<1>1. WaitingHeads' = WaitingHeads /\ AnsweredHeads' = AnsweredHeads
  BY DEF WaitingHeads, AnsweredHeads, memVars
<1>2. UNCHANGED <<queue0, disk, table, mem, avail, used, req, seen>>
  BY DEF memVars
<1>3. MemoryOK'
  BY <1>2 DEF MemoryOK
<1>4. RequestsOK'
  BY <1>2 DEF RequestsOK, Mine
<1>5. OrderOK'
  BY <1>1, <1>2 DEF OrderOK
<1>6. BuffersOK'
  BY <1>1, <1>2 DEF BuffersOK
<1>7. WaitingNow' = WaitingNow
  BY <1>1, <1>2 DEF WaitingNow
<1>8. AnsweredNow' = AnsweredNow
  BY <1>1, <1>2 DEF AnsweredNow, Found
<1> QED
  BY <1>3, <1>4, <1>5, <1>6, <1>7, <1>8

(* The steps of the handler but one, of the driver before it is live, and  *)
(* the begin and the end of process_queue.                                 *)
QuietStep ==
  \/ process_queue_fetches \/ process_queue_ends
  \/ HandlerClaims \/ HandlerAcks \/ HandlerFinishes \/ HandlerCompletes
  \/ DriverNegotiates \/ DriverRoutes \/ DriverOk \/ DriverNotifies

(* What a quiet step leaves alone. *)
LEMMA QuietLeaves ==
  ASSUME QuietStep
  PROVE  UNCHANGED <<queue0, disk, memVars, req, seen>>
<1>1. CASE process_queue_fetches \/ process_queue_ends \/ DriverNotifies
  BY <1>1 DEF process_queue_fetches, process_queue_ends, DriverNotifies,
              process_queue_starts, driverVars
<1>2. CASE HandlerClaims \/ HandlerAcks \/ HandlerFinishes \/ HandlerCompletes
  BY <1>2 DEF HandlerClaims, HandlerAcks, write_interrupt_ack, HandlerFinishes,
              HandlerCompletes
<1>3. CASE DriverNegotiates \/ DriverOk
  BY <1>3 DEF DriverNegotiates, DriverOk, write_status, write_features_sel, write_features,
              driverVars
<1>4. CASE DriverRoutes
  BY <1>4 DEF DriverRoutes, blkVars, driverVars
<1> QED
  BY <1>1, <1>2, <1>3, <1>4 DEF QuietStep

(* There is no chain outside the loop of process_queue. *)
LEMMA IdleChain ==
  ASSUME ChainOK, ~serving
  PROVE  chain = <<>>
BY DEF ChainOK

(* What process_queue reads is the chain of the oldest request. *)
LEMMA FetchKeeps ==
  ASSUME RefineInv, process_queue_fetches
  PROVE  SetupOK' /\ ChainOK'
<1>1. /\ serving /\ More /\ chain' = fetch_descriptor_chain(NextHead)
      /\ UNCHANGED <<queue0, avail, used, seen, serving, avail_idx, live, req>>
  BY DEF process_queue_fetches, memVars, driverVars
<1>2. QueueOK /\ SetupOK /\ MemoryOK /\ RequestsOK /\ OrderOK
  BY DEF RefineInv, RequestInv
<1>3. SetupOK'
  <2>1. live
    BY <1>1, <1>2 DEF SetupOK
  <2> QED
    BY <1>1, <1>2, <2>1 DEF SetupOK
<1> DEFINE h == NextHead
           shape == req[h]
<1>4. h \in Heads /\ shape # NoReq /\ live
  BY <1>1, <1>2, NextIsOldest
<1>5. shape \in Shapes /\ queue0.size \in Nat /\ TableSize <= queue0.size
  BY <1>2, <1>4, RequestFacts, LiveSize
<1>6. /\ table \in [Slots -> DescType] /\ SlotsOf(h, shape) \subseteq Slots
      /\ \A j \in 0 .. LastDesc(shape) : table[h + j] = ChainOf(h, shape)[j]
  BY <1>2, <1>4 DEF MemoryOK, RequestsOK, Mine
<1>7. h' = h /\ shape' = shape /\ More'
  BY <1>1 DEF NextHead, More
<1> HIDE DEF h, shape
<1>8. /\ shape.tail = "loop" => Last(fetch_descriptor_chain(h)).more
      /\ shape.tail # "loop" =>
           fetch_descriptor_chain(h) =
             [i \in 1 .. (LastDesc(shape) + 1) |-> ChainOf(h, shape)[i - 1]]
  BY <1>4, <1>5, <1>6, FetchChain
<1>9. ChainOK'
  <2>1. /\ serving' /\ More'
        /\ shape.tail = "loop" => Last(chain').more
        /\ shape.tail # "loop" =>
             chain' = [i \in 1 .. (LastDesc(shape) + 1) |-> ChainOf(h, shape)[i - 1]]
    BY <1>1, <1>7, <1>8 DEF h
  <2>2. req'[NextHead'] = shape /\ NextHead' = h
    BY <1>1, <1>7 DEF h, shape
  <2> QED
    BY <2>1, <2>2 DEF ChainOK
<1> QED
  BY <1>3, <1>9

(* A quiet step keeps the invariant and is none of the queue. *)
LEMMA QuietInductive ==
  ASSUME RefineInv, QuietStep
  PROVE  /\ RequestInv'
         /\ UNCHANGED <<WaitingNow, AnsweredNow, disk>>
<1>1. QueueOK /\ SetupOK /\ MemoryOK /\ RequestsOK /\ OrderOK /\ BuffersOK /\ ChainOK
  BY DEF RefineInv, RequestInv
<1>2. UNCHANGED <<queue0, disk, memVars, req, seen>>
  BY QuietLeaves
<1>3. UNCHANGED <<queue0, avail, used, seen, req>>
  BY <1>2 DEF memVars
<1>4. SetupOK' /\ ChainOK'
  <2>1. CASE process_queue_fetches
    BY <2>1, FetchKeeps
  <2>2. CASE process_queue_ends
    <3>1. chain' = <<>> /\ ~serving' /\ UNCHANGED live
      BY <2>2 DEF process_queue_ends, driverVars
    <3> QED
      BY <1>1, <1>3, <3>1 DEF SetupOK, ChainOK
  <2>3. CASE DriverNotifies
    <3>1. chain' = <<>> /\ live /\ UNCHANGED live
      BY <2>3, <1>1, IdleChain DEF DriverNotifies, MaySubmit, process_queue_starts, driverVars
    <3> QED
      BY <1>1, <1>3, <3>1 DEF SetupOK, ChainOK
  <2>4. CASE DriverOk
    <3>1. chain' = <<>> /\ queue0.ready /\ live'
      BY <2>4, <1>1, IdleChain DEF DriverOk, write_status, loopVars
    <3> QED
      BY <1>1, <1>3, <3>1 DEF SetupOK, ChainOK
  <2>5. CASE HandlerClaims \/ HandlerAcks \/ HandlerFinishes \/ HandlerCompletes
             \/ DriverNegotiates \/ DriverRoutes
    <3>1. chain' = <<>> /\ ~serving' /\ UNCHANGED live
      BY <2>5, <1>1, IdleChain
      DEF HandlerClaims, HandlerAcks, write_interrupt_ack, HandlerFinishes, HandlerCompletes,
          DriverNegotiates, write_status, write_features_sel, write_features, DriverRoutes,
          blkVars, loopVars, driverVars
    <3> QED
      BY <1>1, <1>3, <3>1 DEF SetupOK, ChainOK
  <2> QED
    BY <2>1, <2>2, <2>3, <2>4, <2>5 DEF QuietStep
<1> QED
  BY <1>1, <1>2, <1>4, QuietKeeps DEF RequestInv

(* The queue is set up while the rings are empty. *)
LEMMA SetupInductive ==
  ASSUME RefineInv, QueueOK', DriverSetsQueue
  PROVE  /\ RequestInv'
         /\ UNCHANGED <<WaitingNow, AnsweredNow, disk>>
<1>1. QueueOK /\ SetupOK /\ MemoryOK /\ RequestsOK /\ OrderOK /\ BuffersOK /\ ChainOK
  BY DEF RefineInv, RequestInv
<1>2. UNCHANGED <<disk, table, mem, avail, used, chain, serving, live, req, seen>> /\ ~live
  BY DEF DriverSetsQueue, write_queue_sel, write_queue, write_queue_half, memVars, loopVars,
         driverVars
<1>3. queue0 \in [size : Sizes \cup {0}, ready : BOOLEAN, desc_addr : Halves,
                  avail_addr : Halves, used_addr : Halves,
                  last_avail_idx : Idxs, last_used_idx : Idxs]
  BY <1>1 DEF QueueOK
<1>4. /\ UNCHANGED <<queue0.last_avail_idx, queue0.last_used_idx>>
      /\ queue0'.size = 0 => \A field \in Addresses : queue0'[field] = Null
      /\ queue0'.ready => \A field \in Addresses : queue0'[field] = Table
  <2>1. CASE queue0' = queue0
    BY <1>1, <2>1 DEF SetupOK
  <2>2. CASE \E n \in Sizes : queue0' = [queue0 EXCEPT !["size"] = n]
    <3>1. \A n \in Sizes : n # 0
      BY SizeFacts
    <3> QED
      BY <1>1, <1>3, <2>2, <3>1 DEF SetupOK, Addresses
  <2>3. CASE /\ queue0.size # 0 /\ ~queue0.ready
             /\ \E field \in Addresses : \E v : queue0' = [queue0 EXCEPT ![field] = v]
    BY <1>1, <1>3, <2>3 DEF SetupOK, Addresses
  <2>4. CASE /\ \A field \in Addresses : queue0[field] = Table
             /\ queue0' = [queue0 EXCEPT !["ready"] = TRUE]
    <3>1. \A field \in Addresses : queue0'[field] = Table
      BY <1>3, <2>4 DEF Addresses
    <3>2. Table # Null /\ "desc_addr" \in Addresses
      BY DEF Table, Null, Addresses
    <3>3. queue0'.size # 0
      BY <1>1, <1>3, <2>4, <3>2 DEF SetupOK
    <3> QED
      BY <1>3, <2>4, <3>1, <3>3
  <2>5. \/ queue0' = queue0
        \/ \E n \in Sizes : queue0' = [queue0 EXCEPT !["size"] = n]
        \/ /\ queue0.size # 0 /\ ~queue0.ready
           /\ \E field \in Addresses : \E v : queue0' = [queue0 EXCEPT ![field] = v]
        \/ /\ \A field \in Addresses : queue0[field] = Table
           /\ queue0' = [queue0 EXCEPT !["ready"] = TRUE]
    BY DEF DriverSetsQueue, write_queue_sel, write_queue, write_queue_half
  <2> QED
    BY <2>1, <2>2, <2>3, <2>4, <2>5
<1>5. SetupOK'
  BY <1>1, <1>2, <1>4 DEF SetupOK
<1>6. WaitingHeads = <<>> /\ AnsweredHeads = <<>>
  BY <1>1, <1>2, NotLiveEmpty
<1>7. WaitingHeads' = <<>> /\ AnsweredHeads' = <<>>
  <2>1. /\ queue0'.last_avail_idx = 0 /\ avail'.idx = 0 /\ seen' = 0 /\ used'.idx = 0
        /\ 0 \in Idxs
    BY <1>1, <1>2, <1>5, IndexFacts DEF SetupOK
  <2> QED
    BY <2>1, EntriesEmpty DEF WaitingHeads, AnsweredHeads
<1>8. MemoryOK' /\ RequestsOK'
  BY <1>1, <1>2 DEF MemoryOK, RequestsOK, Mine
<1>9. OrderOK' /\ BuffersOK'
  BY <1>1, <1>2, <1>6, <1>7 DEF OrderOK, BuffersOK
<1>10. ChainOK'
  BY <1>1, <1>2 DEF SetupOK, ChainOK
<1>11. UNCHANGED <<WaitingNow, AnsweredNow>>
  BY <1>6, <1>7 DEF WaitingNow, AnsweredNow
<1> QED
  BY <1>2, <1>5, <1>8, <1>9, <1>10, <1>11 DEF RequestInv

-----------------------------------------------------------------------------
(* The rings as the abstract queue sees them: f of every head. *)
Apply(f, q) == [i \in 1 .. Len(q) |-> f[q[i]]]
Meaning == [h \in Heads |-> Meant(h, req[h])]
Finding == [h \in Heads |-> Found(h)]

NowApplied ==
  WaitingNow = Apply(Meaning, WaitingHeads) /\ AnsweredNow = Apply(Finding, AnsweredHeads)

(* The abstract queues are the heads in the rings, each by its meaning. *)
LEMMA NowIsApplied == OrderOK => NowApplied
<1> SUFFICES ASSUME OrderOK PROVE NowApplied
  OBVIOUS
<1>1. /\ \A i \in 1 .. Len(WaitingHeads) : WaitingHeads[i] \in Heads
      /\ \A i \in 1 .. Len(AnsweredHeads) : AnsweredHeads[i] \in Heads
  BY ElementOfSeq DEF OrderOK
<1>2. WaitingNow = Apply(Meaning, WaitingHeads)
  BY <1>1 DEF WaitingNow, Apply, Meaning
<1>3. AnsweredNow = Apply(Finding, AnsweredHeads)
  BY <1>1 DEF AnsweredNow, Apply, Finding
<1> QED
  BY <1>2, <1>3 DEF NowApplied

(* The same after a step. *)
LEMMA NowIsAppliedNext == OrderOK' => NowApplied'
BY NowIsApplied, PTL

(* The abstract queues before and after a step. *)
LEMMA BothApplied ==
  ASSUME OrderOK, OrderOK'
  PROVE  /\ WaitingNow = Apply(Meaning, WaitingHeads)
         /\ WaitingNow' = Apply(Meaning', WaitingHeads')
         /\ AnsweredNow = Apply(Finding, AnsweredHeads)
         /\ AnsweredNow' = Apply(Finding', AnsweredHeads')
         /\ WaitingHeads \in Seq(Heads) /\ AnsweredHeads \in Seq(Heads)
BY NowIsApplied, NowIsAppliedNext DEF NowApplied, OrderOK

(* Only the values at the members of a sequence matter. *)
LEMMA ApplySame ==
  ASSUME NEW S, NEW q \in Seq(S), NEW f, NEW g, \A x \in Range(q) : g[x] = f[x]
  PROVE  Apply(g, q) = Apply(f, q)
<1>1. \A i \in 1 .. Len(q) : q[i] \in Range(q)
  BY LenProperties DEF Range
<1> QED
  BY <1>1 DEF Apply

(* The image of an appended element is appended. *)
LEMMA ApplyAppend ==
  ASSUME NEW q \in Seq(Heads), NEW h \in Heads, NEW f, NEW g, \A x \in Range(q) : g[x] = f[x]
  PROVE  Apply(g, Append(q, h)) = Append(Apply(f, q), g[h])
<1> DEFINE p == Append(q, h)
           old == Apply(f, q)
           new == Apply(g, p)
<1>1. /\ Len(q) \in Nat /\ Len(p) = Len(q) + 1 /\ p[Len(q) + 1] = h
      /\ \A i \in 1 .. Len(q) : p[i] = q[i] /\ q[i] \in Range(q)
  BY AppendProperties, LenProperties DEF Range
<1>2. old = [i \in 1 .. Len(q) |-> f[q[i]]] /\ Len(old) = Len(q)
  BY <1>1 DEF Apply
<1>3. new = [i \in 1 .. (Len(q) + 1) |-> g[p[i]]]
  BY <1>1 DEF Apply
<1> HIDE DEF old, new, p
<1>4. Append(old, g[h]) = [i \in 1 .. (Len(q) + 1) |-> IF i = Len(q) + 1 THEN g[h] ELSE old[i]]
  BY <1>1, <1>2
<1>5. ASSUME NEW i \in 1 .. (Len(q) + 1)
      PROVE  g[p[i]] = IF i = Len(q) + 1 THEN g[h] ELSE old[i]
  <2>1. CASE i = Len(q) + 1
    BY <2>1, <1>1
  <2>2. CASE i # Len(q) + 1
    <3>1. i \in 1 .. Len(q)
      BY <2>2, <1>1
    <3> QED
      BY <2>2, <3>1, <1>1, <1>2
  <2> QED
    BY <2>1, <2>2
<1>6. new = Append(old, g[h])
  BY <1>3, <1>4, <1>5
<1> QED
  BY <1>6 DEF new, old, p

(* The image of the rest is the rest of the image. *)
LEMMA ApplyTail ==
  ASSUME NEW S, NEW q \in Seq(S), q # <<>>, NEW f, NEW g, \A x \in Range(Tail(q)) : g[x] = f[x]
  PROVE  /\ Apply(g, Tail(q)) = Tail(Apply(f, q))
         /\ Apply(f, q) # <<>> /\ Head(Apply(f, q)) = f[q[1]]
<1> DEFINE p == Tail(q)
           old == Apply(f, q)
           new == Apply(g, p)
<1>1. /\ Len(q) \in Nat \ {0} /\ p \in Seq(S) /\ Len(p) = Len(q) - 1
      /\ \A i \in 1 .. (Len(q) - 1) : p[i] = q[i + 1]
  BY HeadTailProperties, LenProperties, EmptySeq
<1>2. \A i \in 1 .. (Len(q) - 1) : p[i] \in Range(p)
  BY <1>1, LenProperties DEF Range
<1>3. /\ old = [i \in 1 .. Len(q) |-> f[q[i]]] /\ Len(old) = Len(q)
      /\ old[1] = f[q[1]] /\ \A i \in 1 .. (Len(q) - 1) : old[i + 1] = f[q[i + 1]]
  BY <1>1 DEF Apply
<1>4. new = [i \in 1 .. (Len(q) - 1) |-> g[p[i]]]
  BY <1>1 DEF Apply
<1>5. \A i \in 1 .. (Len(q) - 1) : g[p[i]] = f[p[i]]
  BY <1>2
<1> HIDE DEF old, new, p
<1>6. Tail(old) = [i \in 1 .. (Len(q) - 1) |-> old[i + 1]] /\ Head(old) = old[1] /\ old # <<>>
  BY <1>1, <1>3
<1>7. ASSUME NEW i \in 1 .. (Len(q) - 1) PROVE g[p[i]] = old[i + 1]
  BY <1>1, <1>3, <1>5
<1>8. new = Tail(old)
  BY <1>4, <1>6, <1>7
<1> QED
  BY <1>3, <1>6, <1>8 DEF new, old, p

(* What the driver finds is in the request's own buffers. *)
LEMMA FoundSame ==
  ASSUME NEW h \in Heads, req[h] \in Shapes, req'[h] = req[h],
         \A s \in SlotsOf(h, req[h]) : mem'[s] = mem[s]
  PROVE  Found(h)' = Found(h)
<1> DEFINE n == Len(req[h].bufs)
<1>1. /\ h \in Nat /\ n \in Nat
      /\ LastDesc(req[h]) = IF req[h].tail = "none" THEN n ELSE n + 1
  BY HeadFacts, ShapeFacts
<1>2. \A j \in 1 .. n : h + j \in SlotsOf(h, req[h])
  BY <1>1 DEF SlotsOf
<1>3. req[h].tail # "none" => h + n + 1 \in SlotsOf(h, req[h])
  BY <1>1 DEF SlotsOf
<1>4. [j \in 1 .. n |-> mem'[h + j]] = [j \in 1 .. n |-> mem[h + j]]
  BY <1>2
<1>5. req[h].tail # "none" => mem'[h + n + 1] = mem[h + n + 1]
  BY <1>3
<1> QED
  BY <1>4, <1>5 DEF Found

(* The queues of the abstract specification, as the rings move. *)
LEMMA QueueGrows ==
  ASSUME OrderOK, OrderOK', NEW h \in Heads
  PROVE  /\ WaitingHeads' = Append(WaitingHeads, h)
              /\ (\A x \in Range(WaitingHeads) : Meaning'[x] = Meaning[x])
            => WaitingNow' = Append(WaitingNow, Meaning'[h])
         /\ AnsweredHeads' = Append(AnsweredHeads, h)
              /\ (\A x \in Range(AnsweredHeads) : Finding'[x] = Finding[x])
            => AnsweredNow' = Append(AnsweredNow, Finding'[h])
<1>1. ASSUME NEW f, NEW g, NEW q \in Seq(Heads), \A x \in Range(q) : g[x] = f[x]
      PROVE  Apply(g, Append(q, h)) = Append(Apply(f, q), g[h])
  BY <1>1, ApplyAppend
<1>2. ASSUME WaitingHeads' = Append(WaitingHeads, h),
             \A x \in Range(WaitingHeads) : Meaning'[x] = Meaning[x]
      PROVE  WaitingNow' = Append(WaitingNow, Meaning'[h])
  BY <1>1, <1>2, BothApplied
<1>3. ASSUME AnsweredHeads' = Append(AnsweredHeads, h),
             \A x \in Range(AnsweredHeads) : Finding'[x] = Finding[x]
      PROVE  AnsweredNow' = Append(AnsweredNow, Finding'[h])
  BY <1>1, <1>3, BothApplied
<1> QED
  BY <1>2, <1>3

(* A ring that loses its first head is a queue that loses its first. *)
LEMMA QueueShrinks ==
  ASSUME OrderOK, OrderOK'
  PROVE  /\ WaitingHeads # <<>> /\ WaitingHeads' = Tail(WaitingHeads)
              /\ (\A x \in Range(Tail(WaitingHeads)) : Meaning'[x] = Meaning[x])
            => /\ WaitingNow # <<>> /\ Head(WaitingNow) = Meaning[WaitingHeads[1]]
               /\ WaitingNow' = Tail(WaitingNow)
         /\ AnsweredHeads # <<>> /\ AnsweredHeads' = Tail(AnsweredHeads)
              /\ (\A x \in Range(Tail(AnsweredHeads)) : Finding'[x] = Finding[x])
            => AnsweredNow # <<>> /\ AnsweredNow' = Tail(AnsweredNow)
<1>1. ASSUME NEW f, NEW g, NEW q \in Seq(Heads), q # <<>>, \A x \in Range(Tail(q)) : g[x] = f[x]
      PROVE  /\ Apply(g, Tail(q)) = Tail(Apply(f, q))
             /\ Apply(f, q) # <<>> /\ Head(Apply(f, q)) = f[q[1]]
  BY <1>1, ApplyTail
<1>2. ASSUME WaitingHeads # <<>>, WaitingHeads' = Tail(WaitingHeads),
             \A x \in Range(Tail(WaitingHeads)) : Meaning'[x] = Meaning[x]
      PROVE  /\ WaitingNow # <<>> /\ Head(WaitingNow) = Meaning[WaitingHeads[1]]
             /\ WaitingNow' = Tail(WaitingNow)
  <2>1. /\ Apply(Meaning', Tail(WaitingHeads)) = Tail(Apply(Meaning, WaitingHeads))
        /\ Apply(Meaning, WaitingHeads) # <<>>
        /\ Head(Apply(Meaning, WaitingHeads)) = Meaning[WaitingHeads[1]]
    BY <1>1, <1>2, BothApplied
  <2> QED
    BY <1>2, <2>1, BothApplied
<1>3. ASSUME AnsweredHeads # <<>>, AnsweredHeads' = Tail(AnsweredHeads),
             \A x \in Range(Tail(AnsweredHeads)) : Finding'[x] = Finding[x]
      PROVE  AnsweredNow # <<>> /\ AnsweredNow' = Tail(AnsweredNow)
  <2>1. /\ Apply(Finding', Tail(AnsweredHeads)) = Tail(Apply(Finding, AnsweredHeads))
        /\ Apply(Finding, AnsweredHeads) # <<>>
    BY <1>1, <1>3, BothApplied
  <2> QED
    BY <1>3, <2>1, BothApplied
<1> QED
  BY <1>2, <1>3

(* A ring that stays, with heads that mean the same, is the same queue. *)
LEMMA QueueStays ==
  ASSUME OrderOK, OrderOK'
  PROVE  /\ WaitingHeads' = WaitingHeads
              /\ (\A x \in Range(WaitingHeads) : Meaning'[x] = Meaning[x])
            => WaitingNow' = WaitingNow
         /\ AnsweredHeads' = AnsweredHeads
              /\ (\A x \in Range(AnsweredHeads) : Finding'[x] = Finding[x])
            => AnsweredNow' = AnsweredNow
<1>1. ASSUME NEW f, NEW g, NEW q \in Seq(Heads), \A x \in Range(q) : g[x] = f[x]
      PROVE  Apply(g, q) = Apply(f, q)
  BY <1>1, ApplySame
<1> QED
  BY <1>1, BothApplied

-----------------------------------------------------------------------------
(* No step makes a host better or worse. *)
LEMMA HostStays ==
  ASSUME BlkNext
  PROVE  image' = image /\ Sound' = Sound
<1> SUFFICES image' = image
  BY DEF Sound
<1>1. CASE DeviceStep
  BY <1>1 DEF DeviceStep, process_queue_fetches, process_queue_skips, process_queue_serves,
              process_queue_ends
<1>2. CASE HandlerStep
  BY <1>2 DEF HandlerStep, HandlerClaims, HandlerAcks, write_interrupt_ack, HandlerCollects,
              HandlerFinishes, HandlerCompletes
<1>3. CASE DriverNegotiates \/ DriverOk
  BY <1>3 DEF DriverNegotiates, DriverOk, write_status, write_features_sel, write_features
<1>4. CASE DriverSetsQueue \/ DriverRoutes \/ DriverResets
  BY <1>4 DEF DriverSetsQueue, write_queue_sel, write_queue, write_queue_half, DriverRoutes,
              DriverResets, blkVars
<1>5. CASE DriverSubmits \/ DriverNotifies
  BY <1>5 DEF DriverSubmits, DriverNotifies, process_queue_starts
<1> QED
  BY <1>1, <1>2, <1>3, <1>4, <1>5 DEF BlkNext, DriverStep

-----------------------------------------------------------------------------
(* The driver starts over. *)
Fresh ==
  /\ table = [s \in Slots |-> NoDesc] /\ mem = [s \in Slots |-> <<>>]
  /\ avail = NoRing /\ used = NoRing /\ queue0 = NoQueue /\ seen = 0
  /\ req = [h \in Heads |-> NoReq] /\ chain = <<>> /\ ~serving /\ ~live
  /\ disk \in Seq(Values)

NothingNow == WaitingNow = <<>> /\ AnsweredNow = <<>>

(* An empty queue and no requests satisfy the invariant. *)
LEMMA FreshOK == Fresh => RequestInv /\ NothingNow
<1> SUFFICES ASSUME Fresh PROVE RequestInv /\ NothingNow
  OBVIOUS
<1> USE DEF Fresh
<1>1. 0 \in Idxs
  BY IdxFacts DEF Idxs
<1>2. WaitingHeads = <<>> /\ AnsweredHeads = <<>>
  BY <1>1, EntriesEmpty DEF WaitingHeads, AnsweredHeads, NoRing, NoQueue
<1>3. SetupOK
  BY DEF SetupOK, NoRing, NoQueue, Addresses
<1>4. MemoryOK
  <2>1. ASSUME NEW s \in Slots PROVE NoDesc \in DescType
    <3>1. 0 \in Slots
      BY HeadsAssumption DEF Slots
    <3> QED
      BY <3>1 DEF NoDesc, DescType
  <2>2. table \in [Slots -> DescType]
    BY <2>1
  <2>3. avail.ring \in [Idxs -> Nat] /\ used.ring \in [Idxs -> Nat]
    BY DEF NoRing
  <2> QED
    BY <2>2, <2>3 DEF MemoryOK
<1>5. RequestsOK
  BY DEF RequestsOK
<1>6. OrderOK /\ BuffersOK
  BY <1>2 DEF OrderOK, BuffersOK, Range, IsInjective
<1>7. ChainOK
  BY DEF ChainOK
<1>8. WaitingNow = <<>> /\ AnsweredNow = <<>>
  BY <1>2 DEF WaitingNow, AnsweredNow
<1> QED
  BY <1>3, <1>4, <1>5, <1>6, <1>7, <1>8 DEF RequestInv, NothingNow

(* The same after a step. *)
LEMMA FreshNext == Fresh' => RequestInv' /\ NothingNow'
BY FreshOK, PTL

(* The initial states are initial states of the abstract queue. *)
LEMMA InitRefines ==
  ASSUME BlkInit
  PROVE  RefineInv /\ Queue!QueueInit
<1>1. disk \in Seq(Values)
  BY ImageAssumption DEF BlkInit
<1>2. QueueOK
  BY InitBlk, BlkInvParts
<1>3. /\ SetupOK /\ MemoryOK /\ RequestsOK /\ OrderOK /\ BuffersOK /\ ChainOK
      /\ WaitingNow = <<>> /\ AnsweredNow = <<>>
  BY <1>1, FreshOK DEF BlkInit, Fresh, RequestInv, NothingNow
<1>4. Sound \in BOOLEAN
  BY DEF Sound
<1> QED
  BY <1>1, <1>2, <1>3, <1>4 DEF RefineInv, RequestInv, Queue!QueueInit

(* A reset of the device is a reset of the queue. *)
LEMMA ResetInductive ==
  ASSUME RefineInv, DriverResets
  PROVE  /\ RequestInv'
         /\ Queue!Reset
<1>1. /\ table' = [s \in Slots |-> NoDesc] /\ mem' = [s \in Slots |-> <<>>]
      /\ avail' = NoRing /\ used' = NoRing /\ queue0' = NoQueue /\ seen' = 0
      /\ req' = [h \in Heads |-> NoReq] /\ ~serving /\ serving' = serving /\ chain' = chain
      /\ ~live' /\ disk' = disk
  BY DEF DriverResets, write_status_reset, loopVars
<1>2. chain = <<>> /\ disk \in Seq(Values)
  BY <1>1, IdleChain DEF RefineInv, RequestInv, MemoryOK
<1>3. Fresh'
  BY <1>1, <1>2 DEF Fresh
<1>4. /\ RequestInv'
      /\ WaitingNow' = <<>> /\ AnsweredNow' = <<>>
  BY <1>3, FreshNext DEF RequestInv, NothingNow
<1>5. Sound' = Sound
  BY HostStays DEF BlkNext, DriverStep
<1> QED
  BY <1>1, <1>4, <1>5 DEF Queue!Reset

-----------------------------------------------------------------------------
(* A request is submitted: its chain and its buffers go to descriptors     *)
(* that no other request has.                                              *)
LEMMA SubmitInductive ==
  ASSUME RefineInv, DriverSubmits
  PROVE  RequestInv' /\ Queue!Submit
<1> PICK h \in Heads, shape \in Shapes :
      /\ ~serving /\ MaySubmit
      /\ req[h] = NoReq
      /\ SlotsOf(h, shape) \subseteq Slots \ InUse
      /\ table' = [s \in Slots |->
                     IF s \in SlotsOf(h, shape) THEN ChainOf(h, shape)[s - h] ELSE table[s]]
      /\ mem' = [s \in Slots |->
                   IF s \in SlotsOf(h, shape) THEN BufferOf(shape, s - h) ELSE mem[s]]
      /\ avail' = [idx |-> Succ(avail.idx),
                   ring |-> [avail.ring EXCEPT ![avail.idx % queue0.size] = h]]
      /\ req' = [req EXCEPT ![h] = shape]
      /\ UNCHANGED <<queue0, disk, used, serving, avail_idx, chain, seen, live>>
  BY DEF DriverSubmits, loopVars
<1>1. QueueOK /\ SetupOK /\ MemoryOK /\ RequestsOK /\ OrderOK /\ BuffersOK /\ ChainOK
  BY DEF RefineInv, RequestInv
<1>2. /\ live /\ h \in Nat /\ LastDesc(shape) \in Nat
      /\ \A j \in 0 .. LastDesc(shape) : h + j \in SlotsOf(h, shape) /\ (h + j) - h = j
      /\ \A s \in SlotsOf(h, shape) : s - h \in 0 .. LastDesc(shape)
  BY HeadFacts, ShapeFacts DEF MaySubmit, SlotsOf
<1> DEFINE mine == SlotsOf(h, shape)
<1>3. WaitingHeads' = Append(WaitingHeads, h) /\ AnsweredHeads' = AnsweredHeads
  BY <1>1, <1>2, SubmitMoves
<1>4. h \notin Range(WaitingHeads) /\ h \notin Range(AnsweredHeads)
  BY <1>1 DEF OrderOK
<1>5. shape # NoReq
  BY NoReqIsNone
<1>6. req' \in [Heads -> Shapes \cup {NoReq}] /\ req'[h] = shape
      /\ \A g \in Heads \ {h} : req'[g] = req[g]
  BY <1>1 DEF MemoryOK
<1>7. ASSUME NEW g \in Heads, req[g] # NoReq
      PROVE  Mine(g) \cap mine = {} /\ Mine(g) \subseteq Slots /\ g # h
  BY <1>1, <1>7 DEF InUse, Mine, RequestsOK
<1>8. SetupOK'
  BY <1>1, <1>2 DEF SetupOK
<1>9. MemoryOK'
  <2>1. table' \in [Slots -> DescType]
    <3>1. ASSUME NEW s \in Slots, s \in mine PROVE ChainOf(h, shape)[s - h] \in DescType
      <4>1. s - h \in 0 .. LastDesc(shape) /\ SlotsOf(h, shape) \subseteq Slots
        BY <1>2, <3>1
      <4> QED
        BY <4>1, ChainTyped
    <3> QED
      BY <1>1, <3>1 DEF MemoryOK
  <2>2. mem' = [s \in Slots |-> mem'[s]]
    OBVIOUS
  <2>3. avail'.ring \in [Idxs -> Nat]
    BY <1>1, <1>2 DEF MemoryOK
  <2> QED
    BY <1>1, <1>6, <2>1, <2>2, <2>3 DEF MemoryOK
<1>10. RequestsOK'
  <2> SUFFICES ASSUME NEW g \in Heads, req'[g] # NoReq
               PROVE  /\ Mine(g)' \subseteq Slots
                      /\ \A j \in 0 .. LastDesc(req'[g]) : table'[g + j] = ChainOf(g, req'[g])[j]
                      /\ \A k \in Heads \ {g} : req'[k] # NoReq => Mine(k)' \cap Mine(g)' = {}
    BY DEF RequestsOK
  <2>1. \A k \in Heads : Mine(k)' = IF k = h THEN mine ELSE Mine(k)
    BY <1>6 DEF Mine
  <2>2. CASE g = h
    <3>1. \A j \in 0 .. LastDesc(shape) : table'[h + j] = ChainOf(h, shape)[j]
      BY <1>2
    <3>2. \A k \in Heads \ {h} : req'[k] # NoReq => Mine(k) \cap mine = {}
      BY <1>6, <1>7
    <3> QED
      BY <2>1, <2>2, <3>1, <3>2, <1>6
  <2>3. CASE g # h
    <3>1. req'[g] = req[g] /\ req[g] # NoReq /\ Mine(g)' = Mine(g)
      BY <2>1, <2>3, <1>6
    <3>2. req[g] \in Shapes /\ LastDesc(req[g]) \in Nat /\ g \in Nat
      BY <1>1, <3>1, RequestFacts, ShapeFacts
    <3>3. ASSUME NEW j \in 0 .. LastDesc(req[g]) PROVE table'[g + j] = ChainOf(g, req[g])[j]
      <4>1. g + j \in Mine(g)
        BY <3>2 DEF Mine, SlotsOf
      <4>2. table'[g + j] = table[g + j]
        BY <4>1, <3>1, <1>7
      <4> QED
        BY <4>2, <3>1, <1>1 DEF RequestsOK
    <3>4. \A k \in Heads \ {g} : req'[k] # NoReq => Mine(k)' \cap Mine(g) = {}
      <4> SUFFICES ASSUME NEW k \in Heads \ {g}, req'[k] # NoReq PROVE Mine(k)' \cap Mine(g) = {}
        OBVIOUS
      <4>1. CASE k = h
        BY <4>1, <2>1, <3>1, <1>7
      <4>2. CASE k # h
        BY <4>2, <2>1, <3>1, <1>1, <1>6 DEF RequestsOK
      <4> QED
        BY <4>1, <4>2
    <3> QED
      BY <3>1, <3>3, <3>4, <1>7
  <2> QED
    BY <2>2, <2>3
<1>11. /\ WaitingHeads' \in Seq(Heads) /\ IsInjective(WaitingHeads')
       /\ Range(WaitingHeads') = Range(WaitingHeads) \cup {h}
  BY <1>1, <1>3, <1>4, AppendOnce DEF OrderOK
<1>12. Range(WaitingHeads) \subseteq Heads /\ Range(AnsweredHeads) \subseteq Heads
  BY <1>1, LenProperties, ElementOfSeq DEF OrderOK, Range
<1>13. OrderOK'
  BY <1>1, <1>3, <1>4, <1>5, <1>6, <1>11, <1>12 DEF OrderOK
<1>14. BuffersOK'
  <2> SUFFICES ASSUME NEW g \in Range(WaitingHeads'), NEW j \in 0 .. LastDesc(req'[g])
               PROVE  mem'[g + j] = BufferOf(req'[g], j)
    BY DEF BuffersOK
  <2>1. CASE g = h
    BY <2>1, <1>2, <1>6
  <2>2. CASE g # h
    <3>1. g \in Range(WaitingHeads) /\ g \in Heads /\ req'[g] = req[g] /\ req[g] # NoReq
      BY <2>2, <1>1, <1>6, <1>11, <1>12 DEF OrderOK
    <3>2. req[g] \in Shapes /\ LastDesc(req[g]) \in Nat /\ g \in Nat
      BY <1>1, <3>1, RequestFacts, ShapeFacts
    <3>3. g + j \in Mine(g)
      BY <3>1, <3>2 DEF Mine, SlotsOf
    <3>4. mem'[g + j] = mem[g + j]
      BY <3>1, <3>3, <1>7
    <3> QED
      BY <3>1, <3>4, <1>1 DEF BuffersOK
  <2> QED
    BY <2>1, <2>2
<1>15. ChainOK'
  BY <1>1, IdleChain DEF ChainOK
<1>16. WaitingNow' = Append(WaitingNow, Meant(h, shape))
  <2>1. \A x \in Range(WaitingHeads) : Meaning'[x] = Meaning[x]
    BY <1>4, <1>6, <1>12 DEF Meaning
  <2>2. Meaning'[h] = Meant(h, shape)
    BY <1>6 DEF Meaning
  <2> QED
    BY <2>1, <2>2, <1>1, <1>3, <1>13, QueueGrows
<1>17. AnsweredNow' = AnsweredNow
  <2>1. ASSUME NEW x \in Range(AnsweredHeads) PROVE Finding'[x] = Finding[x]
    <3>1. x \in Heads /\ req[x] # NoReq /\ req'[x] = req[x]
      BY <1>1, <1>4, <1>6, <1>12 DEF OrderOK
    <3>2. req[x] \in Shapes
      BY <1>1, <3>1, RequestFacts
    <3>3. \A s \in SlotsOf(x, req[x]) : mem'[s] = mem[s]
      BY <1>7, <3>1 DEF Mine
    <3>4. Found(x)' = Found(x)
      BY <3>1, <3>2, <3>3, FoundSame
    <3> QED
      BY <3>1, <3>4 DEF Finding
  <2> QED
    BY <2>1, <1>1, <1>3, <1>13, QueueStays
<1>18. Queue!Submit
  <2>1. Meant(h, shape) \in Meanings
    BY DEF Meanings
  <2>2. WaitingNow \in Seq(Range(WaitingNow)) /\ Len(WaitingNow') = Len(WaitingNow) + 1
    <3>1. Len(WaitingHeads) \in Nat
      BY <1>1, LenProperties DEF OrderOK
    <3>2. WaitingNow \in Seq(Range(WaitingNow))
      BY <3>1 DEF WaitingNow, Range
    <3> QED
      BY <3>2, <1>16, AppendProperties
  <2>3. Sound' = Sound
    BY HostStays DEF BlkNext, DriverStep
  <2> QED
    BY <1>16, <1>17, <2>1, <2>2, <2>3 DEF Queue!Submit
<1> QED
  BY <1>8, <1>9, <1>10, <1>13, <1>14, <1>15, <1>18 DEF RequestInv

-----------------------------------------------------------------------------
(* The chain that process_queue has read, and what it makes of it. *)
LEMMA ChainKnown ==
  ASSUME RefineInv, chain # <<>>
  PROVE  LET h == NextHead
             shape == req[h]
         IN  /\ serving /\ More /\ live /\ h \in Heads /\ h \in Nat /\ shape \in Shapes
             /\ h \in Range(WaitingHeads) /\ req[h] # NoReq
             /\ shape.tail = "loop" => Last(chain).more
             /\ shape.tail # "loop" =>
                  /\ Len(chain) = LastDesc(shape) + 1
                  /\ chain = [i \in 1 .. (LastDesc(shape) + 1) |-> ChainOf(h, shape)[i - 1]]
<1>1. QueueOK /\ SetupOK /\ MemoryOK /\ OrderOK /\ ChainOK
  BY DEF RefineInv, RequestInv
<1>2. serving /\ More
  BY <1>1 DEF ChainOK
<1> DEFINE h == NextHead
           shape == req[h]
<1>3. h \in Heads /\ h \in Range(WaitingHeads) /\ req[h] # NoReq /\ live
  BY <1>1, <1>2, NextIsOldest
<1>4. shape \in Shapes /\ h \in Nat
  BY <1>1, <1>3, RequestFacts
<1>5. /\ shape.tail = "loop" => Last(chain).more
      /\ shape.tail # "loop" =>
           chain = [i \in 1 .. (LastDesc(shape) + 1) |-> ChainOf(h, shape)[i - 1]]
  BY <1>1 DEF ChainOK
<1> HIDE DEF h, shape
<1>6. LastDesc(shape) \in Nat
  BY <1>4, ShapeFacts
<1>7. shape.tail # "loop" => Len(chain) = LastDesc(shape) + 1
  BY <1>5, <1>6
<1> QED
  BY <1>2, <1>3, <1>4, <1>5, <1>7 DEF h, shape

(* process_queue accepts a chain exactly when the request can be parsed. *)
LEMMA ParsesIsOk ==
  ASSUME RefineInv, chain # <<>>
  PROVE  ChainOk <=> Meant(NextHead, req[NextHead]).parses
<1> DEFINE h == NextHead
           shape == req[h]
           last == LastDesc(shape)
<1>1. /\ live /\ h \in Nat /\ shape \in Shapes
      /\ shape.tail = "loop" => Last(chain).more
      /\ shape.tail # "loop" =>
           Len(chain) = last + 1 /\ chain = [i \in 1 .. (last + 1) |-> ChainOf(h, shape)[i - 1]]
  BY ChainKnown
<1>2. queue0.desc_addr # Null
  <2>1. SetupOK /\ "desc_addr" \in Addresses
    BY DEF RefineInv, RequestInv, Addresses
  <2> QED
    BY <1>1, <2>1 DEF SetupOK, Table, Null
<1>3. Meant(h, shape).parses <=>
        shape.hdr /\ shape.tail # "loop" /\ (shape.tail # "none" \/ shape.bufs # <<>>)
  BY DEF Meant
<1> SUFFICES ChainOk <=> Meant(h, shape).parses
  OBVIOUS
<1> HIDE DEF h
<1>4. shape.tail \in {"status", "readonly", "none", "loop"} /\ shape.hdr \in BOOLEAN
      /\ shape.bufs \in Seq([len : Nat, write : BOOLEAN])
  BY <1>1, ShapeFacts DEF ShapeType
<1>5. CASE shape.tail = "loop"
  BY <1>1, <1>3, <1>5 DEF ChainOk
<1>6. CASE shape.tail # "loop"
  <2>1. last \in Nat /\ last = (IF shape.tail = "none" THEN Len(shape.bufs) ELSE Len(shape.bufs) + 1)
        /\ Len(shape.bufs) \in Nat
    BY <1>1, ShapeFacts
  <2>2. last >= 1 <=> shape.tail # "none" \/ shape.bufs # <<>>
    BY <2>1, <1>4, EmptySeq
  <2> HIDE DEF shape
  <2>3. ~ChainOf(h, shape)[last].more
    <3>1. last \in 0 .. LastDesc(shape) /\ ~(last < LastDesc(shape))
      BY <2>1
    <3>2. \A j \in 0 .. LastDesc(shape) :
            ChainOf(h, shape)[j].more <=> j < LastDesc(shape) \/ shape.tail = "loop"
      <4> HIDE DEF last
      <4> QED
        BY <1>1, ChainLinks
    <3> QED
      BY <3>1, <3>2, <1>6
  <2>4. ChainOf(h, shape)[0].len = IF shape.hdr THEN 1 ELSE 0
    <3>1. 0 \in 0 .. LastDesc(shape)
      BY <2>1
    <3> HIDE DEF last
    <3> QED
      BY <1>1, <3>1, ChainLinks
  <2> HIDE DEF last
  <2>5. /\ Len(chain) = last + 1 /\ Last(chain) = ChainOf(h, shape)[last]
        /\ chain[1] = ChainOf(h, shape)[0]
    <3>1. Len(chain) = last + 1
      BY <1>1, <1>6
    <3>2. last + 1 \in 1 .. (last + 1) /\ (last + 1) - 1 = last /\ 1 \in 1 .. (last + 1) /\ 1 - 1 = 0
      BY <2>1
    <3> QED
      BY <1>1, <1>6, <3>1, <3>2 DEF Last
  <2>6. Len(chain) >= 2 <=> last >= 1
    BY <2>1, <2>5
  <2>7. chain[1].len >= 1 <=> shape.hdr
    BY <2>4, <2>5, <1>4
  <2>8. ~Last(chain).more
    BY <2>3, <2>5
  <2> QED
    BY <1>2, <1>3, <1>6, <2>2, <2>6, <2>7, <2>8 DEF ChainOk
<1> QED
  BY <1>5, <1>6

(* The oldest request leaves the avail ring. *)
LEMMA OldestLeaves ==
  ASSUME OrderOK, WaitingHeads # <<>>, WaitingHeads' = Tail(WaitingHeads), req' = req
  PROVE  /\ WaitingHeads' \in Seq(Heads) /\ IsInjective(WaitingHeads')
         /\ Range(WaitingHeads') = Range(WaitingHeads) \ {WaitingHeads[1]}
         /\ WaitingHeads[1] \in Range(WaitingHeads) /\ WaitingHeads[1] \in Heads
BY TailOnce DEF OrderOK

(* Only heads are in the rings. *)
LEMMA RangesAreHeads ==
  ASSUME OrderOK
  PROVE  Range(WaitingHeads) \subseteq Heads /\ Range(AnsweredHeads) \subseteq Heads
BY LenProperties, ElementOfSeq DEF OrderOK, Range

(* A chain that cannot be parsed is dropped. *)
LEMMA SkipInductive ==
  ASSUME RefineInv, process_queue_skips
  PROVE  RequestInv' /\ Queue!Drop
<1>1. QueueOK /\ SetupOK /\ MemoryOK /\ RequestsOK /\ OrderOK /\ BuffersOK /\ ChainOK
  BY DEF RefineInv, RequestInv
<1>2. /\ chain # <<>> /\ ~ChainOk /\ chain' = <<>>
      /\ queue0' = [queue0 EXCEPT !.last_avail_idx = Succ(queue0.last_avail_idx)]
      /\ UNCHANGED <<disk, table, mem, avail, used, serving, live, seen, req>>
  BY DEF process_queue_skips, memVars, driverVars
<1>3. /\ serving /\ More /\ live
      /\ queue0'.last_avail_idx = Succ(queue0.last_avail_idx)
      /\ UNCHANGED <<queue0.size, queue0.ready, queue0.last_used_idx>>
      /\ \A field \in Addresses : queue0'[field] = queue0[field]
  BY <1>1, <1>2, ChainKnown DEF QueueOK, Addresses
<1>4. WaitingHeads' = Tail(WaitingHeads) /\ AnsweredHeads' = AnsweredHeads
  BY <1>1, <1>2, <1>3, WaitingMoves DEF AnsweredHeads
<1>5. WaitingHeads # <<>> /\ WaitingHeads[1] = NextHead
  BY <1>1, <1>3, NextIsOldest
<1>6. /\ WaitingHeads' \in Seq(Heads) /\ IsInjective(WaitingHeads')
      /\ Range(WaitingHeads') \subseteq Range(WaitingHeads)
      /\ NextHead \in Heads /\ Range(WaitingHeads) \subseteq Heads
  BY <1>1, <1>2, <1>4, <1>5, OldestLeaves, RangesAreHeads
<1>7. SetupOK'
  BY <1>1, <1>2, <1>3 DEF SetupOK
<1>8. MemoryOK' /\ RequestsOK'
  BY <1>1, <1>2 DEF MemoryOK, RequestsOK, Mine
<1>9. OrderOK'
  BY <1>1, <1>2, <1>4, <1>6 DEF OrderOK
<1>10. BuffersOK'
  BY <1>1, <1>2, <1>6 DEF BuffersOK
<1>11. ChainOK'
  BY <1>2 DEF ChainOK
<1>12. Meaning' = Meaning /\ Finding' = Finding
  BY <1>2 DEF Meaning, Finding, Found
<1>13. AnsweredNow' = AnsweredNow
  BY <1>1, <1>4, <1>9, <1>12, QueueStays
<1>14. /\ WaitingNow # <<>> /\ Head(WaitingNow) = Meant(NextHead, req[NextHead])
       /\ WaitingNow' = Tail(WaitingNow)
  <2>1. Meaning[NextHead] = Meant(NextHead, req[NextHead])
    BY <1>6 DEF Meaning
  <2> QED
    BY <2>1, <1>1, <1>4, <1>5, <1>9, <1>12, QueueShrinks
<1>15. Queue!Drop
  <2>1. Sound' = Sound
    BY HostStays DEF BlkNext, DeviceStep
  <2> QED
    BY <1>2, <1>13, <1>14, <2>1, ParsesIsOk DEF Queue!Drop
<1> QED
  BY <1>7, <1>8, <1>9, <1>10, <1>11, <1>15 DEF RequestInv

(* The driver collects the oldest answer and takes its descriptors back. *)
LEMMA CollectInductive ==
  ASSUME RefineInv, HandlerCollects
  PROVE  RequestInv' /\ Queue!Collect
<1>1. QueueOK /\ SetupOK /\ MemoryOK /\ RequestsOK /\ OrderOK /\ BuffersOK /\ ChainOK
  BY DEF RefineInv, RequestInv
<1> DEFINE h == used.ring[seen % queue0.size]
<1>2. /\ ~serving /\ used.idx # seen /\ seen' = Succ(seen) /\ req' = [req EXCEPT ![h] = NoReq]
      /\ table' = [s \in Slots |-> IF s \in Mine(h) THEN NoDesc ELSE table[s]]
      /\ mem' = [s \in Slots |-> IF s \in Mine(h) THEN <<>> ELSE mem[s]]
      /\ UNCHANGED <<queue0, disk, avail, used, serving, chain, live>>
  BY DEF HandlerCollects, loopVars, Mine
<1>3. /\ AnsweredHeads # <<>> /\ AnsweredHeads[1] = h /\ live
      /\ h \in Heads /\ h \in Range(AnsweredHeads) /\ req[h] # NoReq
      /\ AnsweredHeads' = Tail(AnsweredHeads) /\ WaitingHeads' = WaitingHeads
  BY <1>1, <1>2, CollectMoves
<1> HIDE DEF h
<1>4. /\ req' \in [Heads -> Shapes \cup {NoReq}] /\ req'[h] = NoReq
      /\ \A g \in Heads \ {h} : req'[g] = req[g]
  BY <1>1, <1>2, <1>3 DEF MemoryOK
<1>5. /\ AnsweredHeads' \in Seq(Heads) /\ IsInjective(AnsweredHeads')
      /\ Range(AnsweredHeads') = Range(AnsweredHeads) \ {h}
  BY <1>1, <1>3, TailOnce DEF OrderOK
<1>6. Range(WaitingHeads) \subseteq Heads \ {h} /\ Range(AnsweredHeads') \subseteq Heads \ {h}
  BY <1>1, <1>3, <1>5, RangesAreHeads DEF OrderOK
<1>7. ASSUME NEW g \in Heads \ {h}, req[g] # NoReq
      PROVE  /\ \A s \in Mine(g) : table'[s] = table[s] /\ mem'[s] = mem[s]
             /\ Mine(g)' = Mine(g) /\ req[g] \in Shapes /\ g \in Nat /\ LastDesc(req[g]) \in Nat
             /\ \A j \in 0 .. LastDesc(req[g]) : g + j \in Mine(g)
  <2>1. Mine(g) \subseteq Slots /\ Mine(g) \cap Mine(h) = {}
    BY <1>1, <1>3, <1>7 DEF RequestsOK
  <2>2. req[g] \in Shapes /\ g \in Nat /\ LastDesc(req[g]) \in Nat
    BY <1>1, <1>7, RequestFacts, ShapeFacts
  <2> QED
    BY <1>2, <1>4, <2>1, <2>2 DEF Mine, SlotsOf
<1>8. SetupOK'
  BY <1>1, <1>2, <1>3 DEF SetupOK
<1>9. MemoryOK'
  <2>1. NoDesc \in DescType
    <3>1. 0 \in Slots
      BY <1>3, HeadFacts, HeadsAssumption DEF Slots
    <3> QED
      BY <3>1 DEF NoDesc, DescType
  <2>2. table' \in [Slots -> DescType] /\ mem' = [s \in Slots |-> mem'[s]]
    BY <1>1, <1>2, <2>1 DEF MemoryOK
  <2> QED
    BY <1>1, <1>2, <1>4, <2>2 DEF MemoryOK
<1>10. RequestsOK'
  <2> SUFFICES ASSUME NEW g \in Heads, req'[g] # NoReq
               PROVE  /\ Mine(g)' \subseteq Slots
                      /\ \A j \in 0 .. LastDesc(req'[g]) : table'[g + j] = ChainOf(g, req'[g])[j]
                      /\ \A k \in Heads \ {g} : req'[k] # NoReq => Mine(k)' \cap Mine(g)' = {}
    BY DEF RequestsOK
  <2>1. g # h /\ req'[g] = req[g] /\ req[g] # NoReq /\ Mine(g)' = Mine(g)
    BY <1>4, <1>7
  <2>2. \A j \in 0 .. LastDesc(req[g]) : table'[g + j] = ChainOf(g, req[g])[j]
    BY <1>1, <1>7, <2>1 DEF RequestsOK
  <2>3. ASSUME NEW k \in Heads \ {g}, req'[k] # NoReq PROVE Mine(k)' \cap Mine(g) = {}
    <3>1. k # h /\ req[k] # NoReq /\ Mine(k)' = Mine(k)
      BY <1>4, <1>7, <2>3
    <3> QED
      BY <1>1, <2>1, <3>1 DEF RequestsOK
  <2> QED
    BY <1>1, <2>1, <2>2, <2>3 DEF RequestsOK
<1>11. OrderOK'
  <2>1. \A x \in Range(WaitingHeads) \cup Range(AnsweredHeads') : req'[x] # NoReq
    BY <1>1, <1>4, <1>5, <1>6 DEF OrderOK
  <2> QED
    BY <1>1, <1>3, <1>5, <2>1 DEF OrderOK
<1>12. BuffersOK'
  <2> SUFFICES ASSUME NEW g \in Range(WaitingHeads), NEW j \in 0 .. LastDesc(req'[g])
               PROVE  mem'[g + j] = BufferOf(req'[g], j)
    BY <1>3 DEF BuffersOK
  <2>1. g \in Heads \ {h} /\ req[g] # NoReq /\ req'[g] = req[g]
    BY <1>1, <1>4, <1>6 DEF OrderOK
  <2>2. mem'[g + j] = mem[g + j]
    BY <1>7, <2>1
  <2> QED
    BY <1>1, <2>1, <2>2 DEF BuffersOK
<1>13. ChainOK'
  BY <1>1, <1>2, IdleChain DEF ChainOK
<1>14. WaitingNow' = WaitingNow
  <2>1. \A x \in Range(WaitingHeads) : Meaning'[x] = Meaning[x]
    BY <1>4, <1>6 DEF Meaning
  <2> QED
    BY <2>1, <1>1, <1>3, <1>11, QueueStays
<1>15. AnsweredNow # <<>> /\ AnsweredNow' = Tail(AnsweredNow)
  <2>1. ASSUME NEW x \in Range(Tail(AnsweredHeads)) PROVE Finding'[x] = Finding[x]
    <3>1. x \in Heads \ {h} /\ req[x] # NoReq /\ req'[x] = req[x]
      BY <1>1, <1>3, <1>4, <1>5, <1>6 DEF OrderOK
    <3>2. req[x] \in Shapes /\ \A s \in SlotsOf(x, req[x]) : mem'[s] = mem[s]
      BY <1>7, <3>1 DEF Mine
    <3>3. Found(x)' = Found(x)
      BY <3>1, <3>2, FoundSame
    <3> QED
      BY <3>1, <3>3 DEF Finding
  <2> QED
    BY <2>1, <1>1, <1>3, <1>11, QueueShrinks
<1>16. Queue!Collect
  <2>1. Sound' = Sound
    BY HostStays DEF BlkNext, HandlerStep
  <2> QED
    BY <1>2, <1>14, <1>15, <2>1 DEF Queue!Collect
<1> QED
  BY <1>8, <1>9, <1>10, <1>11, <1>12, <1>13, <1>16 DEF RequestInv

-----------------------------------------------------------------------------
(* The data of a request, in its buffers and in one piece. *)

(* The places of the buffers depend on their lengths only. *)
LEMMA BeforeSame ==
  ASSUME NEW a, NEW b, Len(a) \in Nat, Len(b) = Len(a),
         \A i \in 1 .. Len(a) : a[i].len \in Nat /\ b[i].len = a[i].len
  PROVE  \A i \in 1 .. (Len(a) + 1) : Before(b, i) = Before(a, i)
<1>1. /\ Before(a, 1) = 0
      /\ \A i \in 1 .. Len(a) : Before(a, i + 1) = Before(a, i) + a[i].len
      /\ Before(b, 1) = 0
      /\ \A i \in 1 .. Len(a) : Before(b, i + 1) = Before(b, i) + b[i].len
  BY BeforeIs
<1> DEFINE S == {m \in Nat : m <= Len(a) => Before(b, m + 1) = Before(a, m + 1)}
<1>2. 0 \in S
  BY <1>1
<1>3. ASSUME NEW m \in Nat, m \in S PROVE m + 1 \in S
  <2> SUFFICES ASSUME m + 1 <= Len(a) PROVE Before(b, (m + 1) + 1) = Before(a, (m + 1) + 1)
    OBVIOUS
  <2>1. m + 1 \in 1 .. Len(a) /\ Before(b, m + 1) = Before(a, m + 1)
    BY <1>3
  <2> QED
    BY <1>1, <2>1
<1> HIDE DEF S
<1>4. \A m \in Nat : m \in S
  BY <1>2, <1>3, Induction
<1> QED
  <2> SUFFICES ASSUME NEW i \in 1 .. (Len(a) + 1) PROVE Before(b, i) = Before(a, i)
    OBVIOUS
  <2>1. i - 1 \in Nat /\ i - 1 <= Len(a) /\ (i - 1) + 1 = i
    OBVIOUS
  <2> QED
    BY <1>4, <2>1 DEF S

(* A buffer's data is within the data of the request. *)
LEMMA BeforeWithin ==
  ASSUME NEW a, Len(a) \in Nat, \A i \in 1 .. Len(a) : a[i].len \in Nat
  PROVE  /\ data_total(a) \in Nat
         /\ \A i \in 1 .. Len(a) : Before(a, i) + a[i].len <= data_total(a)
<1>1. /\ \A i \in 1 .. Len(a) : Before(a, i + 1) = Before(a, i) + a[i].len
      /\ \A i \in 1 .. (Len(a) + 1) : Before(a, i) \in Nat
  BY BeforeIs
<1> DEFINE N == Len(a)
           S == {m \in Nat : m <= N => Before(a, (N + 1) - m) <= Before(a, N + 1)}
<1>2. 0 \in S
  <2>1. (N + 1) - 0 = N + 1 /\ N + 1 \in 1 .. (N + 1)
    OBVIOUS
  <2>2. Before(a, N + 1) \in Nat
    BY <1>1, <2>1
  <2> QED
    BY <2>1, <2>2
<1>3. ASSUME NEW m \in Nat, m \in S PROVE m + 1 \in S
  <2> SUFFICES ASSUME m + 1 <= N PROVE Before(a, (N + 1) - (m + 1)) <= Before(a, N + 1)
    OBVIOUS
  <2> DEFINE i == (N + 1) - (m + 1)
  <2>1. i \in 1 .. N /\ i + 1 = (N + 1) - m /\ i \in 1 .. (N + 1) /\ i + 1 \in 1 .. (N + 1)
        /\ N + 1 \in 1 .. (N + 1)
    OBVIOUS
  <2>2. Before(a, i + 1) <= Before(a, N + 1)
    BY <1>3, <2>1
  <2> HIDE DEF i
  <2>3. Before(a, i) <= Before(a, N + 1)
    <3>1. /\ Before(a, i + 1) = Before(a, i) + a[i].len /\ a[i].len \in Nat
          /\ Before(a, i) \in Nat /\ Before(a, N + 1) \in Nat
      BY <1>1, <2>1
    <3> QED
      BY <3>1, <2>2
  <2> QED
    BY <2>3 DEF i
<1> HIDE DEF S
<1>4. \A m \in Nat : m \in S
  BY <1>2, <1>3, Induction
<1>5. ASSUME NEW i \in 1 .. N PROVE Before(a, i) + a[i].len <= Before(a, N + 1)
  <2>1. N - i \in Nat /\ N - i <= N /\ (N + 1) - (N - i) = i + 1
    OBVIOUS
  <2>2. Before(a, i + 1) <= Before(a, N + 1)
    BY <1>4, <2>1 DEF S
  <2> QED
    BY <1>1, <2>2
<1>6. N + 1 \in 1 .. (N + 1)
  OBVIOUS
<1> QED
  BY <1>1, <1>5, <1>6 DEF data_total

(* Buffers that hold their parts of the data hold all of it. *)
Hold(part, a, whole) ==
  /\ Len(a) \in Nat /\ \A i \in 1 .. Len(a) : a[i].len \in Nat
  /\ Len(whole) = data_total(a) /\ part = [i \in 1 .. Len(a) |-> part[i]]
  /\ \A i \in 1 .. Len(a) : part[i] = [k \in 1 .. a[i].len |-> whole[Before(a, i) + k]]

(* Buffers that hold the parts of a sequence hold the sequence. *)
LEMMA PartsMakeWhole ==
  ASSUME NEW V, NEW whole \in Seq(V), NEW a, NEW part, Hold(part, a, whole)
  PROVE  FlattenSeq(part) = whole
<1>0. /\ Len(a) \in Nat /\ \A i \in 1 .. Len(a) : a[i].len \in Nat
      /\ Len(whole) = data_total(a) /\ part = [i \in 1 .. Len(a) |-> part[i]]
      /\ \A i \in 1 .. Len(a) : part[i] = [k \in 1 .. a[i].len |-> whole[Before(a, i) + k]]
  BY DEF Hold
<1> USE <1>0
<1> DEFINE n == Len(a)
           off == [i \in 1 .. (n + 1) |-> Before(a, i)]
<1>1. /\ Before(a, 1) = 0
      /\ \A i \in 1 .. n : Before(a, i + 1) = Before(a, i) + a[i].len
      /\ \A i \in 1 .. (n + 1) : Before(a, i) \in Nat
  BY BeforeIs
<1>2. /\ Before(a, n + 1) = Len(whole) /\ Len(whole) \in Nat
      /\ \A i \in 1 .. n : Before(a, i) + a[i].len <= Len(whole)
  BY BeforeWithin DEF data_total
<1>3. /\ 1 \in 1 .. (n + 1) /\ n + 1 \in 1 .. (n + 1) /\ n \in Nat
      /\ \A i \in 1 .. n : i \in 1 .. (n + 1) /\ i + 1 \in 1 .. (n + 1)
  OBVIOUS
<1>4. off \in [1 .. (n + 1) -> Nat] /\ off[1] = 0 /\ off[n + 1] = Len(whole)
  BY <1>1, <1>2, <1>3
<1>5. ASSUME NEW i \in 1 .. n
      PROVE  /\ part[i] \in Seq(V) /\ Len(part[i]) = a[i].len
             /\ Follows(part[i], whole, Before(a, i))
  <2>1. a[i].len \in Nat /\ Before(a, i) \in Nat /\ Before(a, i) + a[i].len <= Len(whole)
    BY <1>1, <1>2, <1>3
  <2>2. \A k \in 1 .. a[i].len : Before(a, i) + k \in 1 .. Len(whole)
    BY <2>1, <1>2
  <2>3. \A k \in 1 .. a[i].len : whole[Before(a, i) + k] \in V
    BY <2>2, ElementOfSeq
  <2>4. part[i] = [k \in 1 .. a[i].len |-> whole[Before(a, i) + k]]
    OBVIOUS
  <2>5. part[i] \in Seq(V) /\ Len(part[i]) = a[i].len
    <3> HIDE <1>0
    <3>1. part[i] \in [1 .. a[i].len -> V]
      BY <2>3, <2>4
    <3> QED
      BY <2>1, <3>1
  <2> QED
    BY <2>4, <2>5 DEF Follows
<1>6. part \in [1 .. n -> Seq(V)]
  BY <1>5
<1>7. \A i \in 1 .. n : off[i + 1] = off[i] + Len(part[i])
  BY <1>1, <1>3, <1>5
<1>8. \A i \in 1 .. n : Follows(part[i], whole, off[i])
  BY <1>3, <1>5
<1>9. Tile(part, whole, off, n)
  BY <1>4, <1>7, <1>8 DEF Tile
<1> HIDE DEF off, n
<1> QED
  BY <1>3, <1>4, <1>6, <1>9, FlattenPieces

(* What a request to write carries is in its buffers. *)
LEMMA PayloadFacts ==
  ASSUME NEW shape \in Shapes
  PROVE  /\ Payload(shape) \in Seq(Values) /\ Len(Payload(shape)) = data_total(shape.bufs)
         /\ data_total(shape.bufs) \in Nat
<1>1. data_total(shape.bufs) \in Nat
  BY ShapeFacts, BeforeWithin
<1>2. ASSUME NEW i \in 1 .. data_total(shape.bufs)
      PROVE  (shape.seed + i) % Cardinality(Values) \in Values
  <2> DEFINE c == Cardinality(Values)
             x == shape.seed + i
  <2>1. c \in Nat \ {0} /\ Values = 0 .. (c - 1)
    BY ImageAssumption
  <2>2. shape.seed \in Values
    BY ShapeFacts DEF ShapeType
  <2>3. x \in Nat
    BY <1>1, <2>1, <2>2
  <2> HIDE DEF c, x
  <2>4. x % c \in 0 .. (c - 1)
    BY <2>1, <2>3
  <2> QED
    BY <2>1, <2>4 DEF c, x
<1>3. Payload(shape) \in [1 .. data_total(shape.bufs) -> Values]
  BY <1>2 DEF Payload
<1> QED
  BY <1>1, <1>3

(* The buffers of a write request hold its payload. *)
LEMMA BuffersHoldPayload ==
  ASSUME NEW shape \in Shapes, shape.type = "OUT", NEW part,
         part = [j \in 1 .. Len(shape.bufs) |-> BufferOf(shape, j)]
  PROVE  FlattenSeq(part) = Payload(shape)
<1> DEFINE a == shape.bufs
           whole == Payload(shape)
<1>1. /\ Len(a) \in Nat /\ \A i \in 1 .. Len(a) : a[i].len \in Nat
      /\ whole \in Seq(Values) /\ Len(whole) = data_total(a)
  BY ShapeFacts, PayloadFacts
<1>2. part = [i \in 1 .. Len(a) |-> part[i]]
  OBVIOUS
<1>3. ASSUME NEW i \in 1 .. Len(a)
      PROVE  part[i] = [k \in 1 .. a[i].len |-> whole[Before(a, i) + k]]
  <2>1. i # 0 /\ ~(i > Len(a))
    BY <1>1
  <2> QED
    BY <2>1 DEF BufferOf
<1>4. Hold(part, a, whole)
  BY <1>1, <1>2, <1>3 DEF Hold
<1> HIDE DEF a, whole
<1>5. FlattenSeq(part) = whole
  BY <1>1, <1>4, PartsMakeWhole
<1> QED
  BY <1>5 DEF whole

-----------------------------------------------------------------------------
(* What process_queue makes of a chain it can parse. *)

(* The flags and lengths of the chain's descriptors. *)
LEMMA ChainEntries ==
  ASSUME RefineInv, chain # <<>>, ChainOk
  PROVE  LET h == NextHead
             shape == req[h]
             n == Len(shape.bufs)
         IN  /\ shape.tail # "loop" /\ n \in Nat
             /\ Len(chain) = LastDesc(shape) + 1 /\ LastDesc(shape) \in Nat
             /\ \A j \in 0 .. LastDesc(shape) :
                  /\ chain[j + 1].addr = h + j
                  /\ j \in 1 .. n => /\ chain[j + 1].len = shape.bufs[j].len
                                     /\ chain[j + 1].write = shape.bufs[j].write
                  /\ j > n => chain[j + 1].write = (shape.tail = "status")
<1> DEFINE h == NextHead
           shape == req[h]
           n == Len(shape.bufs)
<1>1. /\ h \in Nat /\ shape \in Shapes
      /\ shape.tail = "loop" => Last(chain).more
      /\ shape.tail # "loop" =>
           /\ Len(chain) = LastDesc(shape) + 1
           /\ chain = [i \in 1 .. (LastDesc(shape) + 1) |-> ChainOf(h, shape)[i - 1]]
  BY ChainKnown
<1>2. shape.tail # "loop"
  BY <1>1 DEF ChainOk
<1> HIDE DEF h, shape
<1>3. n \in Nat /\ LastDesc(shape) \in Nat
  BY <1>1, ShapeFacts
<1>4. ASSUME NEW j \in 0 .. LastDesc(shape)
      PROVE  chain[j + 1] = ChainOf(h, shape)[j]
  <2>1. j + 1 \in 1 .. (LastDesc(shape) + 1) /\ (j + 1) - 1 = j
    BY <1>3
  <2> QED
    BY <1>1, <1>2, <2>1
<1>5. ASSUME NEW j \in 0 .. LastDesc(shape)
      PROVE  /\ ChainOf(h, shape)[j].addr = h + j
             /\ j \in 1 .. n => /\ ChainOf(h, shape)[j].len = shape.bufs[j].len
                                /\ ChainOf(h, shape)[j].write = shape.bufs[j].write
             /\ j > n => ChainOf(h, shape)[j].write = (shape.tail = "status")
  BY <1>1, ChainFlags
<1>6. ASSUME NEW j \in 0 .. LastDesc(shape)
      PROVE  /\ chain[j + 1].addr = h + j
             /\ j \in 1 .. n => /\ chain[j + 1].len = shape.bufs[j].len
                                /\ chain[j + 1].write = shape.bufs[j].write
             /\ j > n => chain[j + 1].write = (shape.tail = "status")
  BY <1>4, <1>5
<1> QED
  BY <1>1, <1>2, <1>3, <1>6 DEF h, shape

(* The status goes to the descriptor after the data, or nowhere. *)
LEMMA StatusIs ==
  ASSUME RefineInv, chain # <<>>, ChainOk
  PROVE  LET h == NextHead
             shape == req[h]
             n == Len(shape.bufs)
         IN  /\ shape.tail = "status" => status_desc = n + 2 /\ chain[n + 2].addr = h + n + 1
             /\ shape.tail # "status" => status_desc = 0
<1> DEFINE h == NextHead
           shape == req[h]
           n == Len(shape.bufs)
           writable == {i \in 2 .. Len(chain) : chain[i].write}
<1>1. /\ shape.tail # "loop" /\ n \in Nat
      /\ Len(chain) = LastDesc(shape) + 1 /\ LastDesc(shape) \in Nat
      /\ \A j \in 0 .. LastDesc(shape) :
           /\ chain[j + 1].addr = h + j
           /\ j \in 1 .. n => chain[j + 1].write = shape.bufs[j].write
           /\ j > n => chain[j + 1].write = (shape.tail = "status")
  BY ChainEntries
<1>2. shape \in Shapes /\ h \in Nat
  BY ChainKnown
<1>3. status_desc = IF writable = {} THEN 0
                    ELSE CHOOSE i \in writable : \A j \in writable : j <= i
  BY DEF status_desc
<1> HIDE DEF h, shape
<1>4. /\ shape.tail \in {"status", "readonly", "none", "loop"}
      /\ LastDesc(shape) = IF shape.tail = "none" THEN n ELSE n + 1
  BY <1>2, ShapeFacts DEF ShapeType
<1>5. ASSUME shape.tail = "status"
      PROVE  status_desc = n + 2 /\ chain[n + 2].addr = h + n + 1
  <2>1. n + 1 \in 0 .. LastDesc(shape) /\ n + 1 > n /\ (n + 1) + 1 = n + 2 /\ Len(chain) = n + 2
        /\ h + (n + 1) = h + n + 1
    BY <1>1, <1>2, <1>4, <1>5
  <2>2. chain[n + 2].addr = h + n + 1 /\ chain[n + 2].write
    BY <1>1, <1>5, <2>1
  <2>3. n + 2 \in writable /\ \A j \in writable : j \in Nat /\ j <= n + 2
    BY <1>1, <2>1, <2>2
  <2>4. \A i \in writable : (\A j \in writable : j <= i) => i = n + 2
    BY <2>3
  <2> HIDE DEF writable
  <2>5. (CHOOSE i \in writable : \A j \in writable : j <= i) = n + 2
    BY <2>3, <2>4
  <2> QED
    BY <1>3, <2>2, <2>3, <2>5
<1>6. ASSUME shape.tail # "status"
      PROVE  status_desc = 0
  <2>1. shape.tail \in {"readonly", "none"}
    BY <1>1, <1>4, <1>6
  <2>2. \A i \in 1 .. n : ~shape.bufs[i].write
    BY <1>2, <2>1, ShapesAssumption
  <2>3. ASSUME NEW i \in 2 .. Len(chain) PROVE ~chain[i].write
    <3>1. i - 1 \in 0 .. LastDesc(shape) /\ (i - 1) + 1 = i /\ (i - 1 \in 1 .. n \/ i - 1 > n)
      BY <1>1
    <3>2. i - 1 \in 1 .. n => chain[i].write = shape.bufs[i - 1].write
      BY <1>1, <3>1
    <3>3. i - 1 > n => chain[i].write = (shape.tail = "status")
      BY <1>1, <3>1
    <3> QED
      BY <1>6, <2>2, <3>1, <3>2, <3>3
  <2>4. writable = {}
    BY <2>3
  <2> QED
    BY <1>3, <2>4
<1> QED
  BY <1>5, <1>6 DEF h, shape

(* The data buffers process_queue finds are those of the request. *)
LEMMA DataIs ==
  ASSUME RefineInv, chain # <<>>, ChainOk, req[NextHead].tail = "status"
  PROVE  LET h == NextHead
             shape == req[h]
             n == Len(shape.bufs)
         IN  /\ Len(Data) = n /\ data_total(Data) = data_total(shape.bufs)
             /\ \A i \in 1 .. n :
                  /\ Data[i].addr = h + i /\ Data[i].len = shape.bufs[i].len
                  /\ Data[i].write = shape.bufs[i].write
                  /\ Before(Data, i) = Before(shape.bufs, i)
<1> DEFINE h == NextHead
           shape == req[h]
           n == Len(shape.bufs)
<1>1. /\ n \in Nat /\ Len(chain) = LastDesc(shape) + 1 /\ LastDesc(shape) \in Nat
      /\ \A j \in 0 .. LastDesc(shape) :
           /\ chain[j + 1].addr = h + j
           /\ j \in 1 .. n => /\ chain[j + 1].len = shape.bufs[j].len
                              /\ chain[j + 1].write = shape.bufs[j].write
  BY ChainEntries
<1>2. shape \in Shapes /\ h \in Nat /\ status_desc = n + 2
  BY ChainKnown, StatusIs
<1>3. Data = SubSeq(chain, 2, n + 1)
  <2>1. (n + 2) - 1 = n + 1
    BY <1>1
  <2> QED
    BY <1>2, <2>1 DEF Data
<1> HIDE DEF h, shape
<1>4. LastDesc(shape) = n + 1
  BY <1>2, ShapeFacts DEF h, shape
<1>5. Len(Data) = n /\ \A i \in 1 .. n : Data[i] = chain[i + 1]
  <2> DEFINE X == {chain[i] : i \in 2 .. (n + 1)}
             e == n + 1
  <2>1. 2 \in Int /\ e \in Int /\ \A i \in 2 .. e : chain[i] \in X
    BY <1>1
  <2> HIDE DEF X, e
  <2>2. /\ Len(SubSeq(chain, 2, e)) = IF 2 <= e THEN e - 2 + 1 ELSE 0
        /\ \A i \in 1 .. (e - 2 + 1) : SubSeq(chain, 2, e)[i] = chain[2 + i - 1]
    BY <2>1, SubSeqProperties
  <2>3. /\ (IF 2 <= e THEN e - 2 + 1 ELSE 0) = n /\ e - 2 + 1 = n
        /\ \A i \in 1 .. n : 2 + i - 1 = i + 1
    BY <1>1 DEF e
  <2> QED
    BY <1>3, <2>2, <2>3 DEF e
<1>6. ASSUME NEW i \in 1 .. n
      PROVE  /\ Data[i].addr = h + i /\ Data[i].len = shape.bufs[i].len
             /\ Data[i].write = shape.bufs[i].write
  <2>1. i \in 0 .. LastDesc(shape)
    BY <1>1, <1>4
  <2> QED
    BY <1>1, <1>5, <2>1
<1>7. \A i \in 1 .. n : shape.bufs[i].len \in Nat
  BY <1>2, ShapeFacts
<1>8. \A i \in 1 .. (n + 1) : Before(Data, i) = Before(shape.bufs, i)
  <2> DEFINE a == shape.bufs
             b == Data
  <2>1. /\ Len(a) \in Nat /\ Len(b) = Len(a)
        /\ \A i \in 1 .. Len(a) : a[i].len \in Nat /\ b[i].len = a[i].len
    BY <1>1, <1>5, <1>6, <1>7
  <2> HIDE DEF a, b
  <2>2. \A i \in 1 .. (Len(a) + 1) : Before(b, i) = Before(a, i)
    BY <2>1, BeforeSame
  <2> QED
    BY <2>2 DEF a, b
<1>9. n + 1 \in 1 .. (n + 1) /\ \A i \in 1 .. n : i \in 1 .. (n + 1)
  BY <1>1
<1>10. data_total(Data) = data_total(shape.bufs)
  BY <1>5, <1>8, <1>9 DEF data_total
<1> QED
  BY <1>5, <1>6, <1>8, <1>9, <1>10 DEF h, shape

(* The elements of a subsequence. *)
LEMMA SubSeqIs ==
  ASSUME NEW s, NEW b \in Nat, NEW l \in Nat
  PROVE  SubSeq(s, b + 1, b + l) = [k \in 1 .. l |-> s[b + k]]
<1> DEFINE m == b + 1
           e == b + l
           X == {s[i] : i \in m .. e}
           sub == SubSeq(s, m, e)
<1>1. m \in Int /\ e \in Int /\ \A i \in m .. e : s[i] \in X
  OBVIOUS
<1> HIDE DEF X, m, e
<1>2. /\ sub \in Seq(X) /\ Len(sub) = IF m <= e THEN e - m + 1 ELSE 0
      /\ \A i \in 1 .. (e - m + 1) : sub[i] = s[m + i - 1]
  BY <1>1, SubSeqProperties
<1>3. /\ (IF m <= e THEN e - m + 1 ELSE 0) = l /\ e - m + 1 = l
      /\ \A i \in 1 .. l : m + i - 1 = b + i
  BY DEF m, e
<1> HIDE DEF sub
<1>4. sub = [k \in 1 .. l |-> s[b + k]]
  <2>1. Len(sub) = l /\ \A k \in 1 .. l : sub[k] = s[b + k]
    BY <1>2, <1>3
  <2>2. sub = [k \in 1 .. l |-> sub[k]]
    BY <1>2, <2>1, LenProperties
  <2> QED
    BY <2>1, <2>2
<1> QED
  BY <1>4 DEF sub, m, e

(* The request that is served: its descriptors are the driver's for it and *)
(* hold what the driver put there.                                         *)
LEMMA ServedBuffers ==
  ASSUME RefineInv, chain # <<>>, ChainOk
  PROVE  LET h == NextHead
             shape == req[h]
         IN  /\ mem[chain[1].addr] = [type |-> shape.type, sector |-> shape.sector]
             /\ \A j \in 0 .. LastDesc(shape) : h + j \in Slots /\ mem[h + j] = BufferOf(shape, j)
<1> DEFINE h == NextHead
           shape == req[h]
<1>1. h \in Nat /\ h \in Heads /\ shape # NoReq /\ h \in Range(WaitingHeads)
  BY ChainKnown
<1>2. LastDesc(shape) \in Nat /\ chain[0 + 1].addr = h + 0
  <2>1. /\ LastDesc(shape) \in Nat
        /\ \A j \in 0 .. LastDesc(shape) : chain[j + 1].addr = h + j
    BY ChainEntries
  <2> QED
    BY <2>1
<1>3. \A j \in 0 .. LastDesc(shape) : mem[h + j] = BufferOf(shape, j)
  BY <1>1 DEF RefineInv, RequestInv, BuffersOK
<1>4. SlotsOf(h, shape) \subseteq Slots
  BY <1>1 DEF RefineInv, RequestInv, RequestsOK, Mine
<1> HIDE DEF h, shape
<1>5. \A j \in 0 .. LastDesc(shape) : h + j \in Slots
  BY <1>1, <1>2, <1>4 DEF SlotsOf
<1>6. mem[h + 0] = [type |-> shape.type, sector |-> shape.sector]
  <2>1. 0 \in 0 .. LastDesc(shape)
    BY <1>2
  <2>2. mem[h + 0] = BufferOf(shape, 0)
    BY <1>3, <2>1
  <2>3. BufferOf(shape, 0) = [type |-> shape.type, sector |-> shape.sector]
    BY DEF BufferOf
  <2> QED
    BY <2>2, <2>3
<1>7. chain[1].addr = h + 0
  BY <1>2
<1> QED
  BY <1>3, <1>5, <1>6, <1>7 DEF h, shape

(* A read fills the buffers it may write, and no other memory. *)
LEMMA ReadFills ==
  ASSUME RefineInv, chain # <<>>, ChainOk, req[NextHead].tail = "status",
         NEW tmp
  PROVE  LET h == NextHead
             shape == req[h]
             n == Len(shape.bufs)
         IN  /\ \A s \in Slots : s \notin (h + 1) .. (h + n) => copy_to_dram(Data, tmp, s) = mem[s]
             /\ (\A i \in 1 .. n : shape.bufs[i].write) =>
                  \A j \in 1 .. n :
                    copy_to_dram(Data, tmp, h + j) =
                      [k \in 1 .. shape.bufs[j].len |-> tmp[Before(shape.bufs, j) + k]]
<1> DEFINE h == NextHead
           shape == req[h]
           n == Len(shape.bufs)
           a == shape.bufs
           b == Data
<1>1. /\ h \in Nat /\ shape \in Shapes /\ n \in Nat /\ Len(b) = n
      /\ \A i \in 1 .. n : /\ b[i].addr = h + i /\ b[i].len = a[i].len
                           /\ b[i].write = a[i].write /\ Before(b, i) = Before(a, i)
  BY ChainKnown, DataIs, ShapeFacts
<1>2. \A i \in 1 .. n : a[i].len \in Nat /\ Before(a, i) \in Nat
  <2>1. \A i \in 1 .. n : a[i].len \in Nat
    BY <1>1, ShapeFacts
  <2>2. \A i \in 1 .. (n + 1) : Before(a, i) \in Nat
    <3> HIDE DEF a, shape
    <3> QED
      BY <1>1, <2>1, BeforeIs DEF a
  <2>3. \A i \in 1 .. n : i \in 1 .. (n + 1)
    BY <1>1
  <2> QED
    BY <2>1, <2>2, <2>3
<1> HIDE DEF h, b, a, n
<1>3. Filled(b) \subseteq 1 .. n
  BY <1>1 DEF Filled
<1>4. ASSUME NEW s \in Slots, s \notin (h + 1) .. (h + n)
      PROVE  copy_to_dram(b, tmp, s) = mem[s]
  <2>1. \A i \in 1 .. n : h + i \in (h + 1) .. (h + n)
    BY <1>1
  <2>2. {i \in Filled(b) : b[i].addr = s} = {}
    BY <1>1, <1>3, <1>4, <2>1
  <2> QED
    BY <2>2 DEF copy_to_dram
<1>5. ASSUME \A i \in 1 .. n : a[i].write, NEW j \in 1 .. n
      PROVE  copy_to_dram(b, tmp, h + j) = [k \in 1 .. a[j].len |-> tmp[Before(a, j) + k]]
  <2> DEFINE into == {i \in Filled(b) : b[i].addr = h + j}
  <2>1. j \in Filled(b)
    <3>1. \A k \in 1 .. (j - 1) : k \in 1 .. n
      BY <1>1
    <3> QED
      BY <1>1, <1>5, <3>1 DEF Filled
  <2>2. into = {j}
    <3>1. ASSUME NEW i \in 1 .. n, b[i].addr = h + j PROVE i = j
      BY <1>1, <3>1
    <3> QED
      BY <1>1, <1>3, <2>1, <3>1
  <2>3. (CHOOSE k \in into : TRUE) = j
    BY <2>2
  <2>4. copy_to_dram(b, tmp, h + j) = SubSeq(tmp, Before(b, j) + 1, Before(b, j) + b[j].len)
    BY <2>2, <2>3 DEF copy_to_dram
  <2>5. SubSeq(tmp, Before(a, j) + 1, Before(a, j) + a[j].len) =
          [k \in 1 .. a[j].len |-> tmp[Before(a, j) + k]]
    <3> DEFINE from == Before(a, j)
               l == a[j].len
    <3>1. from \in Nat /\ l \in Nat
      BY <1>2
    <3> HIDE DEF from, l
    <3>2. SubSeq(tmp, from + 1, from + l) = [k \in 1 .. l |-> tmp[from + k]]
      BY <3>1, SubSeqIs
    <3> QED
      BY <3>2 DEF from, l
  <2> QED
    BY <1>1, <2>4, <2>5
<1> QED
  BY <1>4, <1>5 DEF h, b, a, n

(* A write of nothing leaves the image as it is. *)
LEMMA NothingWritten ==
  ASSUME MemoryOK, NEW sector \in Nat, NEW buf
  PROVE  disk_write(sector, buf, 0) = disk
<1>1. disk \in Seq(Values)
  BY DEF MemoryOK
<1>2. disk = [u \in 1 .. Len(disk) |-> disk[u]]
  BY <1>1
<1>3. \A i : i \notin 1 .. 0
  OBVIOUS
<1>4. disk_write(sector, buf, 0) = [u \in 1 .. Len(disk) |-> disk[u]]
  <2>1. \A u \in 1 .. Len(disk) : u <= Len(disk)
    BY <1>1
  <2>2. ~(0 > 0)
    OBVIOUS
  <2> QED
    BY <1>3, <2>1, <2>2 DEF disk_write
<1> QED
  BY <1>2, <1>4

(* What the host gives of n units, and takes of them. *)
LEMMA HostGives ==
  ASSUME NEW n \in Nat, NEW x \in HostReads(n)
  PROVE  x.ok => x.got \in Queue!Transfers(n)
<1>1. CASE image = "none"
  BY <1>1 DEF HostReads
<1>2. CASE image = "faulty"
  <2>1. x = [ok |-> FALSE, got |-> 0] \/ x \in [ok : {TRUE}, got : 0 .. n]
    BY <1>2 DEF HostReads
  <2>2. Queue!Transfers(n) = 0 .. n
    BY <1>2 DEF Queue!Transfers, Sound
  <2>3. CASE x = [ok |-> FALSE, got |-> 0]
    BY <2>3
  <2>4. CASE x \in [ok : {TRUE}, got : 0 .. n]
    BY <2>2, <2>4
  <2> QED
    BY <2>1, <2>3, <2>4
<1>3. CASE image # "none" /\ image # "faulty"
  BY <1>3 DEF HostReads, Queue!Transfers, Sound
<1> QED
  BY <1>1, <1>2, <1>3

LEMMA HostTakes ==
  ASSUME NEW n \in Nat, NEW x \in HostWrites(n)
  PROVE  x.got \in 0 .. n /\ (x.ok => x.got \in Queue!Transfers(n))
<1>1. CASE image = "none"
  BY <1>1 DEF HostWrites
<1>2. CASE image = "faulty"
  BY <1>2 DEF HostWrites, Queue!Transfers, Sound
<1>3. CASE image # "none" /\ image # "faulty"
  BY <1>3 DEF HostWrites, Queue!Transfers, Sound
<1> QED
  BY <1>1, <1>2, <1>3

(* What a request with room for a status may come to: only its own data    *)
(* buffers are touched; a read that succeeds has the image's content in    *)
(* them, as far as the host gave it, a write that succeeds has put them    *)
(* into the image, as far as the host took them, and what is left of a     *)
(* write that fails is a part of it.                                       *)
LEMMA OutcomeOf ==
  ASSUME RefineInv, chain # <<>>, ChainOk, req[NextHead].tail = "status", NEW o \in Serve
  PROVE  LET h == NextHead
             shape == req[h]
             n == Len(shape.bufs)
             total == data_total(shape.bufs)
         IN  /\ o.mem = [s \in Slots |-> o.mem[s]] /\ o.ok \in BOOLEAN
             /\ \A s \in Slots : s \notin (h + 1) .. (h + n) => o.mem[s] = mem[s]
             /\ o.ok =>
                  \/ /\ shape.type = "IN" /\ o.disk = disk
                     /\ \E k \in Queue!Transfers(total) :
                          FlattenSeq([j \in 1 .. n |-> o.mem[h + j]]) =
                            disk_read(shape.sector, total, k)
                  \/ /\ shape.type = "OUT" /\ total % UnitsPerSector = 0
                     /\ \E k \in Queue!Transfers(total) :
                          o.disk = disk_write(shape.sector, Payload(shape), k)
                     /\ FlattenSeq([j \in 1 .. n |-> o.mem[h + j]]) = Payload(shape)
             /\ ~o.ok => \E k \in 0 .. total :
                           o.disk = IF shape.type = "OUT"
                                    THEN disk_write(shape.sector, Payload(shape), k) ELSE disk
<1> DEFINE h == NextHead
           shape == req[h]
           n == Len(shape.bufs)
           total == data_total(shape.bufs)
           sector == shape.sector
           Result ==
             /\ o.mem = [s \in Slots |-> o.mem[s]] /\ o.ok \in BOOLEAN
             /\ \A s \in Slots : s \notin (h + 1) .. (h + n) => o.mem[s] = mem[s]
             /\ o.ok =>
                  \/ /\ shape.type = "IN" /\ o.disk = disk
                     /\ \E k \in Queue!Transfers(total) :
                          FlattenSeq([j \in 1 .. n |-> o.mem[h + j]]) =
                            disk_read(sector, total, k)
                  \/ /\ shape.type = "OUT" /\ total % UnitsPerSector = 0
                     /\ \E k \in Queue!Transfers(total) :
                          o.disk = disk_write(sector, Payload(shape), k)
                     /\ FlattenSeq([j \in 1 .. n |-> o.mem[h + j]]) = Payload(shape)
             /\ ~o.ok => \E k \in 0 .. total :
                           o.disk = IF shape.type = "OUT"
                                    THEN disk_write(sector, Payload(shape), k) ELSE disk
<1> SUFFICES Result
  OBVIOUS
<1>1. h \in Nat /\ shape \in Shapes
  BY ChainKnown
<1>2. /\ n \in Nat /\ total \in Nat /\ sector \in Nat
      /\ shape.type \in {"IN", "OUT", "OTHER"} /\ shape.tail = "status"
      /\ LastDesc(shape) = n + 1 /\ \A i \in 1 .. n : shape.bufs[i].len \in Nat
  BY <1>1, ShapeFacts, PayloadFacts DEF ShapeType
<1>3. /\ mem[chain[1].addr] = [type |-> shape.type, sector |-> sector]
      /\ \A j \in 0 .. LastDesc(shape) : h + j \in Slots /\ mem[h + j] = BufferOf(shape, j)
  BY ServedBuffers
<1>4. \A j \in 1 .. n : h + j \in Slots /\ mem[h + j] = BufferOf(shape, j)
  BY <1>2, <1>3
<1>5. status_desc = n + 2
  BY StatusIs
<1>6. /\ Len(Data) = n /\ data_total(Data) = total
      /\ \A i \in 1 .. n : Data[i].addr = h + i /\ Data[i].write = shape.bufs[i].write
  BY DataIs
<1>7. MemoryOK /\ mem = [s \in Slots |-> mem[s]]
  BY DEF RefineInv, RequestInv, MemoryOK
<1>8. 0 \in 0 .. total
  BY <1>2
<1>9. o \in IF shape.type = "IN" THEN ServeIn(sector)
            ELSE IF shape.type = "OUT" THEN ServeOut(sector) ELSE {Outcome(FALSE, mem, disk)}
  <2>1. status_desc # 0
    BY <1>2, <1>5
  <2>2. mem[chain[1].addr].type = shape.type /\ mem[chain[1].addr].sector = sector
    BY <1>3
  <2> QED
    BY <1>2, <2>1, <2>2 DEF Serve
<1>10. CASE shape.type = "IN"
  <2>0. PICK x \in HostReads(total) :
          o = Outcome(x.ok /\ \A i \in 1 .. Len(Data) : Data[i].write,
                      [s \in Slots |-> IF x.ok THEN copy_to_dram(Data, disk_read(sector, total, x.got), s)
                                       ELSE mem[s]], disk)
    BY <1>6, <1>9, <1>10 DEF ServeIn
  <2> DEFINE tmp == disk_read(sector, total, x.got)
             ok == x.ok /\ \A i \in 1 .. n : shape.bufs[i].write
             newMem == [s \in Slots |-> IF x.ok THEN copy_to_dram(Data, tmp, s) ELSE mem[s]]
  <2>1. o = Outcome(ok, newMem, disk)
    <3>1. (x.ok /\ \A i \in 1 .. Len(Data) : Data[i].write) = ok
      BY <1>6
    <3> QED
      BY <2>0, <3>1
  <2>a. x.ok => x.got \in Queue!Transfers(total)
    BY <1>2, HostGives
  <2>2. /\ \A s \in Slots : s \notin (h + 1) .. (h + n) => copy_to_dram(Data, tmp, s) = mem[s]
        /\ (\A i \in 1 .. n : shape.bufs[i].write) =>
             \A j \in 1 .. n :
               copy_to_dram(Data, tmp, h + j) =
                 [k \in 1 .. shape.bufs[j].len |-> tmp[Before(shape.bufs, j) + k]]
    <3> HIDE DEF tmp
    <3> QED
      BY ReadFills
  <2>3. tmp \in Seq(Range(tmp)) /\ Len(tmp) = total
    BY <1>2 DEF disk_read, Range
  <2> HIDE DEF tmp
  <2>4. \A s \in Slots : s \notin (h + 1) .. (h + n) => newMem[s] = mem[s]
    BY <2>2
  <2>5. ASSUME ok PROVE FlattenSeq([j \in 1 .. n |-> newMem[h + j]]) = tmp
    <3> DEFINE part == [j \in 1 .. n |-> newMem[h + j]]
               a == shape.bufs
    <3>1. Hold(part, a, tmp)
      <4>1. part = [j \in 1 .. Len(a) |-> part[j]]
        OBVIOUS
      <4>2. ASSUME NEW j \in 1 .. n
            PROVE  part[j] = [k \in 1 .. a[j].len |-> tmp[Before(a, j) + k]]
        <5>1. newMem[h + j] = copy_to_dram(Data, tmp, h + j)
          BY <1>4, <2>5
        <5>2. copy_to_dram(Data, tmp, h + j) =
                [k \in 1 .. a[j].len |-> tmp[Before(a, j) + k]]
          BY <2>2, <2>5
        <5>3. part[j] = newMem[h + j]
          OBVIOUS
        <5> QED
          BY <5>1, <5>2, <5>3
      <4> HIDE DEF part
      <4> QED
        BY <1>2, <2>3, <4>1, <4>2 DEF Hold
    <3> HIDE DEF part, a
    <3>2. FlattenSeq(part) = tmp
      BY <2>3, <3>1, PartsMakeWhole
    <3> QED
      BY <3>2 DEF part
  <2>6. newMem = [s \in Slots |-> newMem[s]] /\ ok \in BOOLEAN
    OBVIOUS
  <2> HIDE DEF newMem, ok
  <2>7. o.mem = newMem /\ o.ok = ok /\ o.disk = disk
    BY <2>1 DEF Outcome
  <2>8. o.ok => \E k \in Queue!Transfers(total) :
                  FlattenSeq([j \in 1 .. n |-> o.mem[h + j]]) = disk_read(sector, total, k)
    <3>1. o.ok => x.got \in Queue!Transfers(total)
      BY <2>7, <2>a DEF ok
    <3>2. o.ok => FlattenSeq([j \in 1 .. n |-> o.mem[h + j]]) = tmp
      BY <2>5, <2>7
    <3> QED
      BY <3>1, <3>2 DEF tmp
  <2>9. ~o.ok => \E k \in 0 .. total :
                   o.disk = IF shape.type = "OUT"
                            THEN disk_write(sector, Payload(shape), k) ELSE disk
    BY <1>8, <1>10, <2>7
  <2> QED
    BY <1>10, <2>4, <2>6, <2>7, <2>8, <2>9
<1>11. CASE shape.type = "OUT"
  <2> DEFINE whole == total % UnitsPerSector = 0
  <2>1. copy_from_dram(Data) = Payload(shape)
    <3> DEFINE part == [i \in 1 .. Len(Data) |-> mem[Data[i].addr]]
    <3>1. part = [j \in 1 .. Len(shape.bufs) |-> BufferOf(shape, j)]
      BY <1>4, <1>6
    <3> HIDE DEF part
    <3>2. FlattenSeq(part) = Payload(shape)
      BY <1>1, <1>11, <3>1, BuffersHoldPayload
    <3> QED
      BY <3>2 DEF part, copy_from_dram
  <2>2. FlattenSeq([j \in 1 .. n |-> mem[h + j]]) = Payload(shape)
    <3> DEFINE part == [j \in 1 .. n |-> mem[h + j]]
    <3>1. part = [j \in 1 .. Len(shape.bufs) |-> BufferOf(shape, j)]
      BY <1>4
    <3> HIDE DEF part
    <3>2. FlattenSeq(part) = Payload(shape)
      BY <1>1, <1>11, <3>1, BuffersHoldPayload
    <3> QED
      BY <3>2 DEF part
  <2>3. Len(Payload(shape)) = total
    BY <1>1, PayloadFacts
  <2>4. o \in ServeOut(sector)
    BY <1>9, <1>11
  <2>5. PICK x \in HostWrites(total) :
          o = Outcome(x.ok /\ whole, mem, disk_write(sector, Payload(shape), x.got))
    BY <1>6, <2>1, <2>3, <2>4 DEF ServeOut
  <2>6. x.got \in 0 .. total /\ (x.ok => x.got \in Queue!Transfers(total))
    BY <1>2, HostTakes
  <2> DEFINE ok == x.ok /\ whole
             newDisk == disk_write(sector, Payload(shape), x.got)
  <2>7. ok \in BOOLEAN
    OBVIOUS
  <2>8. o.mem = mem /\ o.ok = ok /\ o.disk = newDisk
    <3> HIDE DEF ok, newDisk
    <3> QED
      BY <2>5 DEF Outcome, ok, newDisk
  <2>9. o.ok => /\ total % UnitsPerSector = 0
                /\ \E k \in Queue!Transfers(total) :
                     o.disk = disk_write(sector, Payload(shape), k)
                /\ FlattenSeq([j \in 1 .. n |-> o.mem[h + j]]) = Payload(shape)
    BY <2>2, <2>6, <2>8
  <2>10. \E i \in 0 .. total :
           o.disk = IF shape.type = "OUT"
                    THEN disk_write(sector, Payload(shape), i) ELSE disk
    BY <1>11, <2>6, <2>8
  <2> HIDE DEF ok, newDisk
  <2> QED
    BY <1>7, <1>11, <2>7, <2>8, <2>9, <2>10
<1>12. CASE shape.type = "OTHER"
  <2>1. o = Outcome(FALSE, mem, disk)
    BY <1>9, <1>12
  <2>2. o.mem = mem /\ o.ok = FALSE /\ o.disk = disk
    BY <2>1 DEF Outcome
  <2> QED
    BY <1>7, <1>8, <1>12, <2>2
<1> QED
  BY <1>2, <1>10, <1>11, <1>12

(* A write leaves an image, maybe a longer one. *)
LEMMA ImageTyped ==
  ASSUME MemoryOK, NEW shape \in Shapes, NEW k \in 0 .. data_total(shape.bufs)
  PROVE  disk_write(shape.sector, Payload(shape), k) \in Seq(Values)
<1> DEFINE off == shape.sector * UnitsPerSector
           len == IF k > 0 /\ off + k > Len(disk) THEN off + k ELSE Len(disk)
           unit(u) == IF u - off \in 1 .. k THEN Payload(shape)[u - off]
                      ELSE IF u <= Len(disk) THEN disk[u] ELSE 0
<1>1. Payload(shape) \in Seq(Values) /\ Len(Payload(shape)) = data_total(shape.bufs)
      /\ data_total(shape.bufs) \in Nat
  BY PayloadFacts
<1>2. ASSUME NEW i \in 1 .. k PROVE Payload(shape)[i] \in Values
  <2>1. i \in 1 .. Len(Payload(shape))
    BY <1>1
  <2> QED
    BY <1>1, <2>1, ElementOfSeq
<1>3. disk \in Seq(Values) /\ Len(disk) \in Nat
  BY DEF MemoryOK
<1>4. shape.sector \in Nat /\ UnitsPerSector \in Nat /\ 0 \in Values
  BY ShapesAssumption, ImageAssumption DEF ShapeType
<1>5. off \in Nat
  BY <1>4
<1> HIDE DEF off
<1>6. len \in Nat
  BY <1>1, <1>3, <1>5
<1>7. ASSUME NEW u \in 1 .. len PROVE unit(u) \in Values
  <2>1. u <= Len(disk) => disk[u] \in Values
    BY <1>3, <1>6, ElementOfSeq
  <2> QED
    BY <1>2, <1>4, <2>1
<1>8. disk_write(shape.sector, Payload(shape), k) = [u \in 1 .. len |-> unit(u)]
  BY DEF disk_write, off
<1> HIDE DEF len, unit
<1> QED
  BY <1>6, <1>7, <1>8

(* The buffers and the image after a request was served, and what the      *)
(* driver will find of it.                                                 *)
LEMMA ServedMemory ==
  ASSUME RefineInv, process_queue_serves, NEW h, h = NextHead, NEW shape, shape = req[h]
  PROVE  LET total == data_total(shape.bufs)
             written(k) == disk_write(shape.sector, Payload(shape), k)
         IN  /\ mem' = [s \in Slots |-> mem'[s]] /\ disk' \in Seq(Values)
             /\ \A s \in Slots : s \notin SlotsOf(h, shape) => mem'[s] = mem[s]
             /\ \/ /\ shape.tail = "status" /\ shape.type = "IN" /\ disk' = disk
                   /\ \E k \in Queue!Transfers(total) :
                        Found(h)' = [head |-> h, status |-> "OK",
                                     data |-> disk_read(shape.sector, total, k)]
                \/ /\ shape.tail = "status" /\ shape.type = "OUT"
                   /\ total % UnitsPerSector = 0
                   /\ \E k \in Queue!Transfers(total) : disk' = written(k)
                   /\ Found(h)' = [head |-> h, status |-> "OK", data |-> Payload(shape)]
                \/ /\ shape.tail = "status"
                   /\ \E k \in 0 .. total :
                        disk' = IF shape.type = "OUT" THEN written(k) ELSE disk
                   /\ Found(h)' = [head |-> h, status |-> "IOERR", data |-> <<>>]
                \/ /\ shape.tail # "status" /\ disk' = disk
                   /\ Found(h)' = [head |-> h, status |-> "NONE", data |-> <<>>]
<1> DEFINE n == Len(shape.bufs)
           total == data_total(shape.bufs)
           written(k) == disk_write(shape.sector, Payload(shape), k)
           Result ==
             \/ /\ shape.tail = "status" /\ shape.type = "IN" /\ disk' = disk
                /\ \E k \in Queue!Transfers(total) :
                     Found(h)' = [head |-> h, status |-> "OK",
                                  data |-> disk_read(shape.sector, total, k)]
             \/ /\ shape.tail = "status" /\ shape.type = "OUT"
                /\ total % UnitsPerSector = 0
                /\ \E k \in Queue!Transfers(total) : disk' = written(k)
                /\ Found(h)' = [head |-> h, status |-> "OK", data |-> Payload(shape)]
             \/ /\ shape.tail = "status"
                /\ \E k \in 0 .. total :
                     disk' = IF shape.type = "OUT" THEN written(k) ELSE disk
                /\ Found(h)' = [head |-> h, status |-> "IOERR", data |-> <<>>]
             \/ /\ shape.tail # "status" /\ disk' = disk
                /\ Found(h)' = [head |-> h, status |-> "NONE", data |-> <<>>]
<1> SUFFICES /\ mem' = [s \in Slots |-> mem'[s]] /\ disk' \in Seq(Values)
             /\ \A s \in Slots : s \notin SlotsOf(h, shape) => mem'[s] = mem[s]
             /\ Result
  OBVIOUS
<1>1. chain # <<>> /\ ChainOk /\ UNCHANGED <<avail, req>>
  BY DEF process_queue_serves, driverVars
<1>2. PICK o \in Serve : disk' = o.disk /\ mem' = StoreStatus(o)
  BY DEF process_queue_serves
<1>3. /\ h \in Nat /\ h \in Heads /\ shape \in Shapes /\ n \in Nat /\ req' = req
      /\ LastDesc(shape) = IF shape.tail = "none" THEN n ELSE n + 1
  BY <1>1, ChainKnown, ShapeFacts
<1>4. MemoryOK /\ mem = [s \in Slots |-> mem[s]] /\ disk \in Seq(Values)
  BY DEF RefineInv, RequestInv, MemoryOK
<1>5. \A j \in 0 .. LastDesc(shape) : h + j \in Slots /\ mem[h + j] = BufferOf(shape, j)
  BY <1>1, ServedBuffers
<1>6. CASE shape.tail = "status"
  <2> DEFINE at == h + n + 1
             status == IF o.ok THEN "OK" ELSE "IOERR"
  <2>1. status_desc = n + 2 /\ chain[n + 2].addr = at
    BY <1>1, <1>6, StatusIs
  <2>2. mem' = [o.mem EXCEPT ![at] = status]
    <3>1. status_desc # 0
      BY <1>3, <2>1
    <3> QED
      BY <1>2, <2>1, <3>1 DEF StoreStatus
  <2>3. /\ o.mem = [s \in Slots |-> o.mem[s]] /\ o.ok \in BOOLEAN
        /\ \A s \in Slots : s \notin (h + 1) .. (h + n) => o.mem[s] = mem[s]
        /\ o.ok =>
             \/ /\ shape.type = "IN" /\ o.disk = disk
                /\ \E k \in Queue!Transfers(total) :
                     FlattenSeq([j \in 1 .. n |-> o.mem[h + j]]) =
                       disk_read(shape.sector, total, k)
             \/ /\ shape.type = "OUT" /\ total % UnitsPerSector = 0
                /\ \E k \in Queue!Transfers(total) : o.disk = written(k)
                /\ FlattenSeq([j \in 1 .. n |-> o.mem[h + j]]) = Payload(shape)
        /\ ~o.ok => \E k \in 0 .. total :
                      o.disk = IF shape.type = "OUT" THEN written(k) ELSE disk
    BY <1>1, <1>6, OutcomeOf
  <2>4. /\ at \in Slots /\ at \in SlotsOf(h, shape)
        /\ \A s \in (h + 1) .. (h + n) : s \in SlotsOf(h, shape)
        /\ \A j \in 1 .. n : h + j # at /\ h + j \in Slots
    <3>1. n + 1 \in 0 .. LastDesc(shape) /\ h + (n + 1) = at
      BY <1>3, <1>6
    <3>2. \A j \in 1 .. n : j \in 0 .. LastDesc(shape) /\ h + j # at
      BY <1>3, <1>6
    <3>3. at \in SlotsOf(h, shape) /\ \A s \in (h + 1) .. (h + n) : s \in SlotsOf(h, shape)
      <4>1. LastDesc(shape) = n + 1
        BY <1>3, <1>6
      <4>2. SlotsOf(h, shape) = h .. (h + (n + 1))
        BY <4>1 DEF SlotsOf
      <4>3. /\ at \in h .. (h + (n + 1))
            /\ \A s \in (h + 1) .. (h + n) : s \in h .. (h + (n + 1))
        <5> HIDE DEF n
        <5> QED
          BY <1>3
      <4> QED
        BY <4>2, <4>3
    <3> QED
      BY <1>5, <3>1, <3>2, <3>3
  <2>5. disk' \in Seq(Values)
    <3>0. total \in Nat
      BY <1>3, PayloadFacts
    <3>1. Queue!Transfers(total) \subseteq 0 .. total
      <4> HIDE DEF total
      <4> QED
        BY <3>0 DEF Queue!Transfers
    <3>2. \A k \in 0 .. total : written(k) \in Seq(Values)
      BY <1>3, <1>4, ImageTyped
    <3> HIDE DEF written, total
    <3> QED
      BY <1>2, <1>4, <2>3, <3>1, <3>2
  <2>6. mem' = [s \in Slots |-> mem'[s]]
    BY <2>2, <2>3
  <2>7. /\ mem'[at] = status
        /\ \A s \in Slots : s # at => mem'[s] = o.mem[s]
    BY <2>2, <2>3, <2>4
  <2>8. \A s \in Slots : s \notin SlotsOf(h, shape) => mem'[s] = mem[s]
    BY <2>3, <2>4, <2>7
  <2>9. [j \in 1 .. n |-> mem'[h + j]] = [j \in 1 .. n |-> o.mem[h + j]]
    BY <2>4, <2>7
  <2>10. Found(h)' = [head |-> h, status |-> status,
                      data |-> IF status # "OK" THEN <<>>
                               ELSE FlattenSeq([j \in 1 .. n |-> o.mem[h + j]])]
    <3>1. req'[h].tail # "none" /\ Len(req'[h].bufs) = n
      BY <1>3, <1>6
    <3> QED
      BY <2>7, <2>9, <3>1 DEF Found
  <2>11. CASE o.ok
    <3>1. status = "OK"
      BY <2>11
    <3>2. Found(h)' = [head |-> h, status |-> "OK",
                       data |-> FlattenSeq([j \in 1 .. n |-> o.mem[h + j]])]
      BY <2>10, <3>1
    <3> HIDE DEF written, total, n
    <3>3. Result
      BY <1>2, <1>6, <2>3, <2>11, <3>2
    <3> QED
      BY <2>5, <2>6, <2>8, <3>3
  <2>12. CASE ~o.ok
    <3>1. status = "IOERR" /\ status # "OK"
      BY <2>12
    <3>2. Found(h)' = [head |-> h, status |-> "IOERR", data |-> <<>>]
      BY <2>10, <3>1
    <3> HIDE DEF written, total, n
    <3>3. Result
      BY <1>2, <1>6, <2>3, <2>12, <3>2
    <3> QED
      BY <2>5, <2>6, <2>8, <3>3
  <2> QED
    BY <2>11, <2>12
<1>7. CASE shape.tail # "status"
  <2>1. status_desc = 0
    BY <1>1, <1>7, StatusIs
  <2>2. o = Outcome(FALSE, mem, disk)
    BY <2>1 DEF Serve
  <2>3. mem' = mem /\ disk' = disk
    BY <1>2, <2>1, <2>2 DEF StoreStatus, Outcome
  <2>4. shape.tail # "none" => mem[h + n + 1] = "NONE"
    <3> SUFFICES ASSUME shape.tail # "none" PROVE mem[h + n + 1] = "NONE"
      OBVIOUS
    <3>1. n + 1 \in 0 .. LastDesc(shape) /\ h + (n + 1) = h + n + 1 /\ n + 1 > n /\ n + 1 # 0
      BY <1>3
    <3>2. mem[h + (n + 1)] = BufferOf(shape, n + 1)
      BY <1>5, <3>1
    <3> QED
      BY <3>1, <3>2 DEF BufferOf
  <2>5. Found(h)' = [head |-> h, status |-> "NONE", data |-> <<>>]
    <3>1. req'[h] = shape
      BY <1>3
    <3> QED
      BY <2>3, <2>4, <3>1 DEF Found
  <2> QED
    BY <1>4, <1>7, <2>3, <2>5
<1> QED
  BY <1>6, <1>7

(* A request is served: a read, a write, a failure or a request without    *)
(* room for a status, of the abstract queue.                               *)
LEMMA ServeInductive ==
  ASSUME RefineInv, process_queue_serves
  PROVE  /\ RequestInv'
         /\ Queue!ServeRead \/ Queue!ServeWrite \/ Queue!Fail \/ Queue!ReturnUnserved
<1> PICK h : h = NextHead
  OBVIOUS
<1> PICK shape : shape = req[h]
  OBVIOUS
<1> DEFINE total == data_total(shape.bufs)
           written(k) == disk_write(shape.sector, Payload(shape), k)
<1>1. QueueOK /\ SetupOK /\ MemoryOK /\ RequestsOK /\ OrderOK /\ BuffersOK /\ ChainOK
  BY DEF RefineInv, RequestInv
<1>2. /\ chain # <<>> /\ ChainOk /\ chain' = <<>>
      /\ queue0' = [queue0 EXCEPT !.last_used_idx = Succ(queue0.last_used_idx),
                                  !.last_avail_idx = Succ(queue0.last_avail_idx)]
      /\ used' = [idx |-> Succ(queue0.last_used_idx),
                  ring |-> [used.ring EXCEPT ![UsedSlot] = NextHead]]
      /\ UNCHANGED <<table, avail, serving, live, seen, req>>
  BY DEF process_queue_serves, driverVars
<1>3. /\ serving /\ More /\ live /\ h \in Heads /\ h \in Nat /\ shape \in Shapes
      /\ h \in Range(WaitingHeads) /\ req[h] # NoReq
  BY <1>2, ChainKnown
<1>4. /\ queue0'.last_avail_idx = Succ(queue0.last_avail_idx)
      /\ queue0'.last_used_idx = Succ(queue0.last_used_idx)
      /\ UNCHANGED <<queue0.size, queue0.ready>>
      /\ \A field \in Addresses : queue0'[field] = queue0[field]
  BY <1>1, <1>2 DEF QueueOK, Addresses
<1>5. WaitingHeads' = Tail(WaitingHeads) /\ AnsweredHeads' = Append(AnsweredHeads, h)
  BY <1>1, <1>2, <1>3, <1>4, WaitingMoves, AnswerMoves
<1>6. WaitingHeads # <<>> /\ WaitingHeads[1] = h
  BY <1>1, <1>3, NextIsOldest
<1>7. /\ WaitingHeads' \in Seq(Heads) /\ IsInjective(WaitingHeads')
      /\ Range(WaitingHeads') = Range(WaitingHeads) \ {h}
      /\ Range(WaitingHeads) \subseteq Heads /\ Range(AnsweredHeads) \subseteq Heads
  BY <1>1, <1>2, <1>5, <1>6, OldestLeaves, RangesAreHeads
<1>8. h \notin Range(AnsweredHeads)
  BY <1>1, <1>3 DEF OrderOK
<1>9. /\ AnsweredHeads' \in Seq(Heads) /\ IsInjective(AnsweredHeads')
      /\ Range(AnsweredHeads') = Range(AnsweredHeads) \cup {h}
  BY <1>1, <1>3, <1>5, <1>8, AppendOnce DEF OrderOK
<1>10. /\ mem' = [s \in Slots |-> mem'[s]] /\ disk' \in Seq(Values)
       /\ \A s \in Slots : s \notin SlotsOf(h, shape) => mem'[s] = mem[s]
       /\ \/ /\ shape.tail = "status" /\ shape.type = "IN" /\ disk' = disk
             /\ \E k \in Queue!Transfers(total) :
                  Found(h)' = [head |-> h, status |-> "OK",
                               data |-> disk_read(shape.sector, total, k)]
          \/ /\ shape.tail = "status" /\ shape.type = "OUT"
             /\ total % UnitsPerSector = 0
             /\ \E k \in Queue!Transfers(total) : disk' = written(k)
             /\ Found(h)' = [head |-> h, status |-> "OK", data |-> Payload(shape)]
          \/ /\ shape.tail = "status"
             /\ \E k \in 0 .. total :
                  disk' = IF shape.type = "OUT" THEN written(k) ELSE disk
             /\ Found(h)' = [head |-> h, status |-> "IOERR", data |-> <<>>]
          \/ /\ shape.tail # "status" /\ disk' = disk
             /\ Found(h)' = [head |-> h, status |-> "NONE", data |-> <<>>]
  BY ServedMemory
<1>11. ASSUME NEW g \in Heads \ {h}, req[g] # NoReq
       PROVE  /\ req[g] \in Shapes /\ \A s \in SlotsOf(g, req[g]) : mem'[s] = mem[s]
              /\ \A j \in 0 .. LastDesc(req[g]) : g + j \in SlotsOf(g, req[g])
  <2>1. req[g] \in Shapes /\ g \in Nat /\ LastDesc(req[g]) \in Nat
    BY <1>1, <1>11, RequestFacts, ShapeFacts
  <2>2. SlotsOf(g, req[g]) \subseteq Slots /\ SlotsOf(g, req[g]) \cap SlotsOf(h, req[h]) = {}
    BY <1>1, <1>3, <1>11 DEF RequestsOK, Mine
  <2>3. \A j \in 0 .. LastDesc(req[g]) : g + j \in SlotsOf(g, req[g])
    BY <2>1 DEF SlotsOf
  <2> QED
    BY <1>10, <2>1, <2>2, <2>3
<1>12. SetupOK'
  BY <1>1, <1>2, <1>3, <1>4 DEF SetupOK
<1>13. MemoryOK'
  <2>1. used'.ring \in [Idxs -> Nat]
    BY <1>1, <1>2, <1>3 DEF MemoryOK
  <2> QED
    BY <1>1, <1>2, <1>10, <2>1 DEF MemoryOK
<1>14. RequestsOK'
  BY <1>1, <1>2 DEF RequestsOK, Mine
<1>15. OrderOK'
  BY <1>1, <1>2, <1>3, <1>7, <1>9 DEF OrderOK
<1>16. BuffersOK'
  <2> SUFFICES ASSUME NEW g \in Range(WaitingHeads'), NEW j \in 0 .. LastDesc(req[g])
               PROVE  mem'[g + j] = BufferOf(req[g], j)
    BY <1>2 DEF BuffersOK
  <2>1. g \in Heads \ {h} /\ req[g] # NoReq /\ g \in Range(WaitingHeads)
    BY <1>1, <1>7 DEF OrderOK
  <2>2. mem'[g + j] = mem[g + j]
    BY <1>11, <2>1
  <2> QED
    BY <1>1, <2>1, <2>2 DEF BuffersOK
<1>17. ChainOK'
  BY <1>2 DEF ChainOK
<1>18. /\ WaitingNow # <<>> /\ Head(WaitingNow) = Meant(h, shape)
       /\ WaitingNow' = Tail(WaitingNow)
  <2>1. Meaning' = Meaning /\ Meaning[h] = Meant(h, shape)
    BY <1>2, <1>3 DEF Meaning
  <2> QED
    BY <2>1, <1>1, <1>5, <1>6, <1>15, QueueShrinks
<1>19. AnsweredNow' = Append(AnsweredNow, Found(h)')
  <2>1. ASSUME NEW x \in Range(AnsweredHeads) PROVE Finding'[x] = Finding[x]
    <3>1. x \in Heads \ {h} /\ req[x] # NoReq /\ req'[x] = req[x]
      BY <1>1, <1>2, <1>7, <1>8 DEF OrderOK
    <3>2. Found(x)' = Found(x)
      BY <3>1, <1>11, FoundSame
    <3> QED
      BY <3>1, <3>2 DEF Finding
  <2>2. Finding'[h] = Found(h)'
    BY <1>3 DEF Finding
  <2> QED
    BY <2>1, <2>2, <1>1, <1>3, <1>5, <1>15, QueueGrows
<1> DEFINE r == Head(WaitingNow)
<1>20. /\ r.head = h /\ r.type = shape.type /\ r.sector = shape.sector
       /\ r.data = Payload(shape) /\ (r.reports <=> shape.tail = "status") /\ r.parses
  <2>1. Meant(h, shape).parses
    BY <1>2, ParsesIsOk
  <2>2. /\ Meant(h, shape).head = h /\ Meant(h, shape).type = shape.type
        /\ Meant(h, shape).sector = shape.sector /\ Meant(h, shape).data = Payload(shape)
        /\ Meant(h, shape).reports <=> shape.tail = "status"
    BY DEF Meant
  <2> QED
    BY <1>18, <2>1, <2>2
<1>21. Len(Payload(shape)) = total /\ total \in Nat
  BY <1>3, PayloadFacts
<1>22. ASSUME NEW k PROVE written(k) = Queue!Written(disk, r.sector, r.data, k)
  BY <1>20 DEF disk_write, Queue!Written
<1>23. ASSUME NEW k
       PROVE  disk_read(shape.sector, total, k) = Queue!Content(disk, r.sector, Len(r.data), k)
  BY <1>20, <1>21 DEF disk_read, Queue!Content
<1>s. Sound' = Sound
  BY HostStays DEF BlkNext, DeviceStep
<1> HIDE DEF r, written, total
<1>24. Queue!ServeRead \/ Queue!ServeWrite \/ Queue!Fail \/ Queue!ReturnUnserved
  <2>1. CASE /\ shape.tail = "status" /\ shape.type = "IN" /\ disk' = disk
             /\ \E k \in Queue!Transfers(total) :
                  Found(h)' = [head |-> h, status |-> "OK",
                               data |-> disk_read(shape.sector, total, k)]
    <3>0. PICK k \in Queue!Transfers(Len(r.data)) :
            Found(h)' = [head |-> r.head, status |-> "OK",
                         data |-> Queue!Content(disk, r.sector, Len(r.data), k)]
      BY <2>1, <1>20, <1>21, <1>23
    <3>1. Queue!ServeRead
      BY <2>1, <3>0, <1>s, <1>18, <1>19, <1>20 DEF Queue!ServeRead, Queue!Answer, r
    <3> QED
      BY <3>1
  <2>2. CASE /\ shape.tail = "status" /\ shape.type = "OUT"
             /\ total % UnitsPerSector = 0
             /\ \E k \in Queue!Transfers(total) : disk' = written(k)
             /\ Found(h)' = [head |-> h, status |-> "OK", data |-> Payload(shape)]
    <3>0. PICK k \in Queue!Transfers(Len(r.data)) :
            disk' = Queue!Written(disk, r.sector, r.data, k)
      BY <2>2, <1>20, <1>21, <1>22
    <3>1. Queue!ServeWrite
      BY <2>2, <3>0, <1>s, <1>18, <1>19, <1>20, <1>21 DEF Queue!ServeWrite, Queue!Answer, r
    <3> QED
      BY <3>1
  <2>3. CASE /\ shape.tail = "status"
             /\ \E k \in 0 .. total :
                  disk' = IF shape.type = "OUT" THEN written(k) ELSE disk
             /\ Found(h)' = [head |-> h, status |-> "IOERR", data |-> <<>>]
    <3>1. Queue!Fail
      BY <2>3, <1>s, <1>18, <1>19, <1>20, <1>21, <1>22 DEF Queue!Fail, Queue!Answer, r
    <3> QED
      BY <3>1
  <2>4. CASE /\ shape.tail # "status" /\ disk' = disk
             /\ Found(h)' = [head |-> h, status |-> "NONE", data |-> <<>>]
    <3>1. Queue!ReturnUnserved
      BY <2>4, <1>s, <1>18, <1>19, <1>20 DEF Queue!ReturnUnserved, Queue!Answer, r
    <3> QED
      BY <3>1
  <2> QED
    BY <1>10, <2>1, <2>2, <2>3, <2>4
<1> QED
  BY <1>12, <1>13, <1>14, <1>15, <1>16, <1>17, <1>24 DEF RequestInv

-----------------------------------------------------------------------------
(* Every step is one of the abstract queue, or changes nothing of it. *)
LEMMA StepRefines ==
  ASSUME RefineInv, [BlkNext]_vars
  PROVE  RefineInv' /\ [Queue!QueueNext]_(Queue!queueVars)
<1>1. CASE BlkNext
  <2>1. QueueOK'
    BY <1>1, QueueStep DEF RefineInv
  <2>2. CASE QuietStep
    <3>1. RequestInv' /\ UNCHANGED <<WaitingNow, AnsweredNow, disk>>
      BY <2>2, QuietInductive
    <3> QED
      BY <1>1, <2>1, <3>1, HostStays DEF RefineInv, Queue!queueVars
  <2>3. CASE DriverSetsQueue
    <3>1. RequestInv' /\ UNCHANGED <<WaitingNow, AnsweredNow, disk>>
      BY <2>1, <2>3, SetupInductive
    <3> QED
      BY <1>1, <2>1, <3>1, HostStays DEF RefineInv, Queue!queueVars
  <2>4. CASE DriverResets
    BY <2>1, <2>4, ResetInductive DEF RefineInv, Queue!QueueNext
  <2>5. CASE DriverSubmits
    BY <2>1, <2>5, SubmitInductive DEF RefineInv, Queue!QueueNext
  <2>6. CASE process_queue_skips
    BY <2>1, <2>6, SkipInductive DEF RefineInv, Queue!QueueNext
  <2>7. CASE process_queue_serves
    BY <2>1, <2>7, ServeInductive DEF RefineInv, Queue!QueueNext
  <2>8. CASE HandlerCollects
    BY <2>1, <2>8, CollectInductive DEF RefineInv, Queue!QueueNext
  <2> QED
    BY <1>1, <2>2, <2>3, <2>4, <2>5, <2>6, <2>7, <2>8
    DEF BlkNext, DeviceStep, HandlerStep, DriverStep, QuietStep
<1>2. CASE UNCHANGED vars
  <2>1. UNCHANGED <<queue0, disk, memVars, loopVars, req, seen, live>>
    BY <1>2 DEF vars, blkVars, driverVars
  <2>2. QueueOK' /\ SetupOK' /\ ChainOK'
    BY <2>1 DEF RefineInv, RequestInv, QueueOK, SetupOK, ChainOK, memVars, loopVars, More,
                NextHead
  <2>3. /\ MemoryOK' /\ RequestsOK' /\ OrderOK' /\ BuffersOK'
        /\ WaitingNow' = WaitingNow /\ AnsweredNow' = AnsweredNow
    BY <2>1, QuietKeeps DEF RefineInv, RequestInv
  <2>4. Sound' = Sound
    BY <1>2 DEF vars, blkVars, Sound
  <2> QED
    BY <2>1, <2>2, <2>3, <2>4 DEF RefineInv, RequestInv, Queue!queueVars
<1> QED
  BY <1>1, <1>2

(* The invariant of the refinement: the rings hold every request under way *)
(* at most once, its chain and its buffers are the driver's own, and       *)
(* process_queue works on the oldest.                                      *)
THEOREM RefineInvHolds == BlkSpec => []RefineInv
<1>1. BlkInit => RefineInv
  BY InitRefines
<1>2. RefineInv /\ [BlkNext]_vars => RefineInv'
  BY StepRefines
<1> QED
  BY <1>1, <1>2, PTL DEF BlkSpec

(* The device with its two rings, descriptor chains and buffers implements *)
(* the request queue of BlkQueue, for every width of the indices, size of  *)
(* the queue, set of requests and image: in order and once, through wraps, *)
(* malformed chains, failing accesses and resets; on a host that never     *)
(* fails with the image's content in a read that succeeds and the data in  *)
(* the image of a write that succeeds, and on another with a beginning of  *)
(* them, since disk_read and disk_write do not notice every failure.       *)
THEOREM DeviceIsQueue == BlkSpec => QueueSpec
<1>1. BlkInit => Queue!QueueInit
  BY InitRefines
<1>2. RefineInv /\ [BlkNext]_vars => [Queue!QueueNext]_(Queue!queueVars)
  BY StepRefines
<1> QED
  BY <1>1, <1>2, RefineInvHolds, PTL DEF BlkSpec, QueueSpec, Queue!QueueSpec

(* The registers and the handler, which no other part of the state types. *)
FlagsOK ==
  /\ driver_features \subseteq FeatureBits /\ device_status \subseteq StatusBits
  /\ handler \in {"none", "claimed", "collecting", "leaving"}
  /\ image \in {"none", "sound", "faulty"}

(* Every step keeps them. *)
LEMMA FlagsStep ==
  ASSUME BlkNext, FlagsOK
  PROVE  FlagsOK'
<1> USE DEF FlagsOK
<1>0. image' = image
  BY HostStays
<1>1. CASE DeviceStep
  BY <1>0, <1>1 DEF DeviceStep, process_queue_fetches, process_queue_skips, process_queue_serves,
              process_queue_ends, regVars, driverVars
<1>2. CASE HandlerStep
  BY <1>0, <1>2 DEF HandlerStep, HandlerClaims, HandlerAcks, write_interrupt_ack, HandlerCollects,
              HandlerFinishes, HandlerCompletes, regVars
<1>3. CASE DriverNegotiates \/ DriverOk
  BY <1>0, <1>3 DEF DriverNegotiates, DriverOk, write_status, write_features_sel, write_features,
              FeatureWord, FeatureBits, StatusBits, driverVars
<1>4. CASE DriverSetsQueue \/ DriverRoutes \/ DriverResets
  BY <1>0, <1>4 DEF DriverSetsQueue, write_queue_sel, write_queue, write_queue_half, DriverRoutes,
              DriverResets, write_status_reset, blkVars, regVars, driverVars
<1>5. CASE DriverSubmits \/ DriverNotifies
  BY <1>0, <1>5 DEF DriverSubmits, DriverNotifies, process_queue_starts, regVars, driverVars
<1> QED
  BY <1>1, <1>2, <1>3, <1>4, <1>5 DEF BlkNext, DriverStep

(* Every index stays within its width, and what process_queue writes into  *)
(* the image through the chains of the driver are units.                   *)
THEOREM BlkTypeHolds == BlkSpec => []BlkTypeOK
<1>1. BlkSpec => []FlagsOK
  <2>1. BlkInit => FlagsOK
    BY DEF BlkInit, FlagsOK
  <2>2. FlagsOK /\ [BlkNext]_vars => FlagsOK'
    BY FlagsStep DEF FlagsOK, vars, blkVars, regVars, driverVars
  <2> QED
    BY <2>1, <2>2, PTL DEF BlkSpec
<1>2. BlkSpec => []PlicTypeOK
  <2>1. PlicInv => PlicTypeOK
    BY DEF PlicInv
  <2> QED
    BY <2>1, BlkDrivesPlic, PlicInvHolds, PTL
<1>3. PlicTypeOK /\ FlagsOK /\ RefineInv => BlkTypeOK
  <2> SUFFICES ASSUME PlicTypeOK, FlagsOK, RefineInv PROVE BlkTypeOK
    OBVIOUS
  <2>1. QueueOK /\ MemoryOK
    BY DEF RefineInv, RequestInv
  <2>2. {queue0.last_avail_idx, queue0.last_used_idx, avail.idx, used.idx, seen, avail_idx}
          \subseteq Idxs
    BY <2>1 DEF QueueOK
  <2>3. disk \in Seq(Values) /\ \A h \in Heads : req[h] = NoReq \/ req[h] \in Shapes
    BY <2>1 DEF MemoryOK
  <2> QED
    BY <2>2, <2>3 DEF BlkTypeOK, FlagsOK
<1> QED
  BY <1>1, <1>2, <1>3, RefineInvHolds, PTL
=============================================================================
