----------------------------- MODULE UartProofs -----------------------------
(***************************************************************************)
(* For every FIFO size, number of harts and use of the sources: the port   *)
(* is consistent with itself and with its source in the controller, and it *)
(* drives the controller as Plic allows a device to.                       *)
(***************************************************************************)
EXTENDS Uart, PlicProofs, SequenceTheorems

(* What update_iir establishes, whoever calls it. *)
LEMMA UpdateIir ==
  ASSUME NEW rxFlag \in BOOLEAN, update_iir(rxFlag), UartTypeOK, PlicTypeOK
  PROVE  /\ IirIsCurrent' /\ SourceHasCause'
         /\ iir' \in Iirs
         /\ rx_irq_pending' \in BOOLEAN /\ tx_irq_pending' \in BOOLEAN
         /\ DeviceSignals
<1>1. iir' = calc_iir(ier', lsr')
  BY DEF update_iir
<1>2. IirIsCurrent' /\ iir' \in Iirs
  BY <1>1 DEF IirIsCurrent, calc_iir, Iirs
<1>3. set_pending(UartIrq, iir' # "NO_INT")
  BY DEF update_iir
<1>4. SourceHasCause'
  BY <1>3 DEF set_pending, SourceHasCause
<1>5. DeviceSignals
  BY <1>3, UartIrqAssumption DEF DeviceSignals
<1>6. rx_irq_pending' \in BOOLEAN /\ tx_irq_pending' \in BOOLEAN
  BY DEF update_iir
<1> QED
  BY <1>2, <1>4, <1>5, <1>6

(* What every step does to the controller and to the port: the buffer      *)
(* stays consistent, and iir is refreshed unless nothing it depends on     *)
(* changed.                                                                *)
Consistent ==
  /\ UartTypeOK'
  /\ ReadyIsBuffered'
  /\ IirIsCurrent'
  /\ SourceHasCause'

LEMMA ReadRhr ==
  ASSUME UartInv, PlicTypeOK, read_rhr
  PROVE  Consistent /\ [PlicNext]_plicVars
<1>1. rx_irq_pending \in BOOLEAN /\ UartTypeOK
  BY DEF UartInv, UartTypeOK
<1>2. /\ IirIsCurrent' /\ SourceHasCause' /\ iir' \in Iirs
      /\ rx_irq_pending' \in BOOLEAN /\ tx_irq_pending' \in BOOLEAN
      /\ DeviceSignals
  BY <1>1, UpdateIir DEF read_rhr
<1>3. /\ fifo_buffer' \in Seq(Byte) /\ Len(fifo_buffer') <= FifoSize
      /\ fifo_buffer' = IF fifo_enabled /\ fifo_buffer # <<>>
                        THEN Tail(fifo_buffer) ELSE fifo_buffer
  BY <1>1, FifoAssumption DEF read_rhr, UartTypeOK
<1>4. "DATA_READY" \in lsr => Front \in Byte
  BY DEF Front, UartInv, UartTypeOK, ReadyIsBuffered
<1>5. UartTypeOK'
  BY <1>1, <1>2, <1>3, <1>4 DEF read_rhr, UartTypeOK
<1>6. ReadyIsBuffered'
  BY <1>1, <1>3 DEF read_rhr, UartInv, ReadyIsBuffered, UartTypeOK
<1> QED
  BY <1>2, <1>5, <1>6 DEF Consistent, PlicNext

LEMMA ReadIir ==
  ASSUME UartInv, PlicTypeOK, read_iir
  PROVE  Consistent /\ [PlicNext]_plicVars
<1>1. UartTypeOK /\ IirIsCurrent
  BY DEF UartInv
<1>2. calc_iir(ier, lsr) # "NO_INT"
  BY <1>1 DEF read_iir, IirIsCurrent
<1>3. /\ UNCHANGED <<rhr, ier, lsr, fifo_enabled, fifo_buffer, dlab, arrived, last_read>>
      /\ UNCHANGED <<iir, plicVars>>
      /\ rx_irq_pending' \in BOOLEAN /\ tx_irq_pending' \in BOOLEAN
  BY <1>2, <1>1 DEF read_iir, UartTypeOK
<1>4. UartTypeOK'
  BY <1>1, <1>3 DEF UartTypeOK
<1>5. ReadyIsBuffered' /\ IirIsCurrent' /\ SourceHasCause'
  BY <1>3 DEF UartInv, ReadyIsBuffered, IirIsCurrent, SourceHasCause, plicVars
<1> QED
  BY <1>3, <1>4, <1>5 DEF Consistent

LEMMA WriteThrOrIer ==
  ASSUME UartInv, PlicTypeOK,
         write_thr \/ \E value \in SUBSET {"rx", "tx"} : write_ier(value)
  PROVE  Consistent /\ [PlicNext]_plicVars
<1>1. UartTypeOK /\ rx_irq_pending \in BOOLEAN
  BY DEF UartInv, UartTypeOK
<1>2. /\ ier' \in SUBSET {"rx", "tx"}
      /\ UNCHANGED <<rhr, lsr, fifo_enabled, fifo_buffer, dlab, arrived, last_read>>
      /\ update_iir(rx_irq_pending)
  BY <1>1 DEF write_thr, write_ier, UartTypeOK
<1>3. /\ IirIsCurrent' /\ SourceHasCause' /\ iir' \in Iirs
      /\ rx_irq_pending' \in BOOLEAN /\ tx_irq_pending' \in BOOLEAN
      /\ DeviceSignals
  BY <1>1, <1>2, UpdateIir
<1>4. UartTypeOK' /\ ReadyIsBuffered'
  BY <1>1, <1>2, <1>3 DEF UartInv, UartTypeOK, ReadyIsBuffered
<1> QED
  BY <1>3, <1>4 DEF Consistent, PlicNext

LEMMA WriteFcr ==
  ASSUME UartInv, PlicTypeOK, NEW on \in BOOLEAN, NEW clear \in BOOLEAN,
         write_fcr(on, clear)
  PROVE  Consistent /\ [PlicNext]_plicVars
<1> DEFINE turnedOn == on /\ ~fifo_enabled /\ "DATA_READY" \in lsr
           turnedOff == ~on /\ fifo_enabled /\ fifo_buffer # <<>>
<1>1. UartTypeOK /\ ReadyIsBuffered /\ IirIsCurrent /\ SourceHasCause
  BY DEF UartInv
<1>2. fifo_buffer' = IF clear \/ turnedOff THEN <<>>
                     ELSE IF turnedOn THEN Append(fifo_buffer, rhr)
                     ELSE fifo_buffer
  BY DEF write_fcr
<1>3. turnedOn => fifo_buffer = <<>>
  BY <1>1 DEF ReadyIsBuffered
<1>4. /\ fifo_buffer' \in Seq(Byte) /\ Len(fifo_buffer') <= FifoSize
      /\ turnedOn /\ ~clear => fifo_buffer' # <<>>
  <2>1. CASE turnedOn /\ ~clear
    <3>1. fifo_buffer' = Append(<<>>, rhr)
      BY <2>1, <1>2, <1>3
    <3> QED
      BY <3>1, <1>1, FifoAssumption DEF UartTypeOK
  <2>2. CASE ~(turnedOn /\ ~clear)
    BY <2>2, <1>1, <1>2, FifoAssumption DEF UartTypeOK
  <2> QED
    BY <2>1, <2>2
<1>5. /\ fifo_enabled' = on
      /\ lsr' = IF clear THEN lsr \ {"DATA_READY"}
                ELSE IF turnedOn \/ turnedOff THEN lsr \cup {"DATA_READY"}
                ELSE lsr
      /\ UNCHANGED <<ier, dlab, arrived, last_read>>
  BY DEF write_fcr
<1>6. rhr' \in Byte
  BY <1>1 DEF write_fcr, UartTypeOK
<1>7. ReadyIsBuffered'
  BY <1>1, <1>2, <1>3, <1>4, <1>5 DEF ReadyIsBuffered, UartTypeOK
<1>8. CASE clear
  <2>1. update_iir(FALSE)
    BY <1>8 DEF write_fcr
  <2>2. /\ IirIsCurrent' /\ SourceHasCause' /\ iir' \in Iirs
        /\ rx_irq_pending' \in BOOLEAN /\ tx_irq_pending' \in BOOLEAN
        /\ DeviceSignals
    BY <1>1, <2>1, UpdateIir
  <2>3. UartTypeOK'
    BY <1>1, <1>4, <1>5, <1>6, <2>2 DEF UartTypeOK, LsrBits
  <2> QED
    BY <1>7, <2>2, <2>3 DEF Consistent, PlicNext
<1>9. CASE ~clear
  <2>1. UNCHANGED <<iir, rx_irq_pending, tx_irq_pending, plicVars>>
    BY <1>9 DEF write_fcr
  <2>2. UartTypeOK'
    BY <1>1, <1>4, <1>5, <1>6, <2>1 DEF UartTypeOK, LsrBits
  <2>3. lsr' = lsr
    BY <1>1, <1>5, <1>9 DEF ReadyIsBuffered
  <2>4. IirIsCurrent' /\ SourceHasCause'
    BY <1>1, <1>5, <2>1, <2>3 DEF IirIsCurrent, SourceHasCause, plicVars
  <2> QED
    BY <1>7, <2>1, <2>2, <2>4 DEF Consistent
<1> QED
  BY <1>8, <1>9

LEMMA ReceiveByte ==
  ASSUME UartInv, PlicTypeOK, receive_byte
  PROVE  Consistent /\ [PlicNext]_plicVars
<1> DEFINE full == fifo_enabled /\ Len(fifo_buffer) >= FifoSize
<1>1. UartTypeOK /\ ReadyIsBuffered /\ IirIsCurrent /\ SourceHasCause
  BY DEF UartInv
<1>2. arrived' \in Byte /\ arrived + 1 \in Byte /\ rhr' \in Byte
  BY <1>1, FifoAssumption DEF receive_byte, UartTypeOK, Byte
<1>3. /\ lsr' \in SUBSET LsrBits
      /\ full => lsr' = lsr \cup {"OE"}
      /\ ~full => "DATA_READY" \in lsr'
  BY <1>1 DEF receive_byte, UartTypeOK, LsrBits
<1>4. fifo_buffer' = IF fifo_enabled /\ ~full THEN Append(fifo_buffer, arrived + 1)
                     ELSE fifo_buffer
  BY DEF receive_byte
<1>5. /\ fifo_buffer' \in Seq(Byte) /\ Len(fifo_buffer') <= FifoSize
      /\ fifo_enabled /\ ~full => fifo_buffer' # <<>>
  <2>1. CASE fifo_enabled /\ ~full
    BY <2>1, <1>1, <1>2, <1>4, FifoAssumption DEF UartTypeOK
  <2>2. CASE ~(fifo_enabled /\ ~full)
    BY <2>2, <1>1, <1>4 DEF UartTypeOK
  <2> QED
    BY <2>1, <2>2
<1>6. UNCHANGED <<ier, fifo_enabled, dlab, last_read>>
  BY DEF receive_byte
<1>7. ReadyIsBuffered'
  <2>1. CASE full
    BY <2>1, <1>1, <1>3, <1>4, <1>6 DEF ReadyIsBuffered
  <2>2. CASE ~full
    BY <2>2, <1>1, <1>3, <1>4, <1>5, <1>6 DEF ReadyIsBuffered, UartTypeOK
  <2> QED
    BY <2>1, <2>2
<1>8. CASE full
  <2>1. UNCHANGED <<iir, rx_irq_pending, tx_irq_pending, plicVars>>
    BY <1>8 DEF receive_byte
  <2>2. UartTypeOK'
    BY <1>1, <1>2, <1>3, <1>5, <1>6, <2>1 DEF UartTypeOK
  <2>3. IirIsCurrent' /\ SourceHasCause'
    BY <1>1, <1>3, <1>6, <1>8, <2>1
    DEF IirIsCurrent, SourceHasCause, calc_iir, plicVars
  <2> QED
    BY <1>7, <2>1, <2>2, <2>3 DEF Consistent
<1>9. CASE ~full
  <2>1. update_iir(rx_irq_pending) /\ rx_irq_pending \in BOOLEAN
    BY <1>9, <1>1 DEF receive_byte, UartTypeOK
  <2>2. /\ IirIsCurrent' /\ SourceHasCause' /\ iir' \in Iirs
        /\ rx_irq_pending' \in BOOLEAN /\ tx_irq_pending' \in BOOLEAN
        /\ DeviceSignals
    BY <1>1, <2>1, UpdateIir
  <2>3. UartTypeOK'
    BY <1>1, <1>2, <1>3, <1>5, <1>6, <2>2 DEF UartTypeOK
  <2> QED
    BY <1>7, <2>2, <2>3 DEF Consistent, PlicNext
<1> QED
  BY <1>8, <1>9

(* The controller's own steps never raise the port's source. *)
LEMMA ControllerNeverRaises ==
  ASSUME ControllerStep
  PROVE  /\ UartIrq \in pending' => UartIrq \in pending
         /\ PlicNext
<1>1. CASE OtherDeviceSignals
  BY <1>1 DEF OtherDeviceSignals, set_pending, PlicNext, DeviceSignals
<1>2. CASE GuestSetsPriority \/ GuestSetsEnables \/ GuestSetsThreshold
  <2>1. pending' = pending
    BY <1>2 DEF GuestSetsPriority, write_priority, GuestSetsEnables, write_enable,
                GuestSetsThreshold, write_threshold
  <2> QED
    BY <1>2, <2>1 DEF PlicNext
<1>3. CASE GuestClaims \/ GuestCompletes
  <2>1. pending' \subseteq pending
    BY <1>3 DEF GuestClaims, claim_interrupt, GuestCompletes, complete_interrupt
  <2> QED
    BY <1>3, <2>1 DEF PlicNext
<1> QED
  BY <1>1, <1>2, <1>3 DEF ControllerStep

LEMMA UartStep ==
  ASSUME UartInv, PlicTypeOK, [UartNext]_vars
  PROVE  UartInv' /\ [PlicNext]_plicVars
<1>1. CASE UartNext /\ ~ControllerStep
  <2>1. Consistent /\ [PlicNext]_plicVars
    <3>1. CASE TerminalSends \/ GuestReadsByte \/ GuestReadsIir
      BY <3>1, ReceiveByte, ReadRhr, ReadIir DEF TerminalSends, GuestReadsByte, GuestReadsIir
    <3>2. CASE GuestSendsByte \/ GuestSetsIer
      BY <3>2, WriteThrOrIer DEF GuestSendsByte, GuestSetsIer
    <3>3. CASE GuestSetsFifo
      BY <3>3, WriteFcr DEF GuestSetsFifo
    <3>4. CASE GuestSetsDlab
      <4>1. PICK latch \in BOOLEAN : write_lcr(latch)
        BY <3>4 DEF GuestSetsDlab
      <4>2. UartTypeOK'
        BY <4>1 DEF write_lcr, UartInv, UartTypeOK
      <4> QED
        BY <4>1, <4>2 DEF write_lcr, Consistent, UartInv, ReadyIsBuffered, IirIsCurrent,
                          SourceHasCause, plicVars
    <3> QED
      BY <1>1, <3>1, <3>2, <3>3, <3>4 DEF UartNext
  <2> QED
    BY <2>1 DEF Consistent, UartInv
<1>2. CASE ControllerStep
  <2>1. UNCHANGED uartVars
    BY <1>2 DEF ControllerStep
  <2>2. UartTypeOK' /\ ReadyIsBuffered' /\ IirIsCurrent'
    BY <2>1 DEF uartVars, UartInv, UartTypeOK, ReadyIsBuffered, IirIsCurrent
  <2>3. SourceHasCause' /\ PlicNext
    BY <1>2, <2>1, ControllerNeverRaises DEF uartVars, UartInv, SourceHasCause
  <2> QED
    BY <2>2, <2>3 DEF UartInv
<1>3. CASE UNCHANGED vars
  <2>1. UNCHANGED uartVars /\ UNCHANGED plicVars
    BY <1>3 DEF vars
  <2>2. UartTypeOK' /\ ReadyIsBuffered' /\ IirIsCurrent' /\ SourceHasCause'
    BY <2>1 DEF uartVars, plicVars, UartInv, UartTypeOK, ReadyIsBuffered, IirIsCurrent,
                SourceHasCause
  <2> QED
    BY <2>1, <2>2 DEF UartInv
<1> QED
  BY <1>1, <1>2, <1>3

LEMMA UartStart == UartInit => UartInv /\ PlicInv /\ PlicInit
<1> SUFFICES ASSUME UartInit PROVE UartInv /\ PlicInv /\ PlicInit
  OBVIOUS
<1>0. <<>> \in Seq(Byte) /\ Len(<<>>) <= FifoSize /\ 0 \in Byte
  BY FifoAssumption DEF Byte
<1>1. UartTypeOK
  BY <1>0 DEF UartInit, UartTypeOK, Iirs, LsrBits
<1>2. IirIsCurrent /\ ReadyIsBuffered /\ SourceHasCause
  BY DEF UartInit, PlicInit, IirIsCurrent, calc_iir, ReadyIsBuffered, SourceHasCause
<1>3. PlicInit
  BY DEF UartInit
<1> QED
  BY <1>1, <1>2, <1>3, InitInv DEF UartInv

(* The port keeps its invariant together with the controller's: each needs *)
(* the other, as the port reads its source's state and the controller only *)
(* accepts well-typed signals.                                             *)
LEMMA BothInductive == UartInv /\ PlicInv /\ [UartNext]_vars
                         => UartInv' /\ PlicInv' /\ [PlicNext]_plicVars
<1> SUFFICES ASSUME UartInv, PlicInv, [UartNext]_vars
             PROVE  UartInv' /\ PlicInv' /\ [PlicNext]_plicVars
  OBVIOUS
<1>1. UartInv' /\ [PlicNext]_plicVars
  BY UartStep DEF PlicInv
<1> QED
  BY <1>1, InvInductive

(* iir, the ready bit, the FIFO and the port's source in the controller    *)
(* agree in every reachable state.                                         *)
THEOREM UartInvHolds == UartSpec => []UartInv
BY UartStart, BothInductive, PTL DEF UartSpec

(* The port connected to the controller implements the controller: every   *)
(* operation of the port is a device signal or leaves it alone.            *)
THEOREM UartDrivesPlic == UartSpec => PlicSpec
BY UartStart, BothInductive, PTL DEF UartSpec, PlicSpec

(* With the port connected, no claimable source is missing in ip. *)
THEOREM UartLosesNoInterrupt == UartSpec => []DeliverableIsVisible
BY UartDrivesPlic, NoInterruptIsLost, PTL

-----------------------------------------------------------------------------
(* s holds bytes newer than low and not newer than high, oldest first. *)
Ordered(s, low, high) ==
  /\ \A i \in 1 .. Len(s) : low < s[i] /\ s[i] <= high
  /\ \A i, j \in 1 .. Len(s) : i < j => s[i] < s[j]

LEMMA SeqSubset ==
  ASSUME NEW S, NEW T, S \subseteq T, NEW s \in Seq(S)
  PROVE  s \in Seq(T)
<1>1. PICK n \in Nat : s \in [1 .. n -> S]
  BY SeqDef
<1>2. s \in [1 .. n -> T]
  BY <1>1
<1> QED
  BY <1>2, SeqDef

LEMMA OrderedAppend ==
  ASSUME NEW s \in Seq(Nat), NEW low \in Nat, NEW high \in Nat,
         Ordered(s, low, high), low <= high
  PROVE  Ordered(Append(s, high + 1), low, high + 1)
<1> DEFINE t == Append(s, high + 1)
<1>1. /\ Len(t) = Len(s) + 1 /\ Len(s) \in Nat
      /\ \A i \in 1 .. Len(s) : t[i] = s[i] /\ s[i] \in Nat
      /\ t[Len(s) + 1] = high + 1
  OBVIOUS
<1>2. \A i \in 1 .. Len(t) : i \in 1 .. Len(s) \/ i = Len(s) + 1
  BY <1>1
<1>3. \A i \in 1 .. Len(t) : low < t[i] /\ t[i] <= high + 1
  BY <1>1, <1>2 DEF Ordered
<1>4. \A i, j \in 1 .. Len(t) : i < j => t[i] < t[j]
  BY <1>1, <1>2 DEF Ordered
<1> HIDE DEF t
<1>5. Ordered(t, low, high + 1)
  BY <1>3, <1>4 DEF Ordered
<1> QED
  BY <1>5 DEF t

LEMMA OrderedTail ==
  ASSUME NEW s \in Seq(Nat), s # <<>>, NEW low, NEW high, Ordered(s, low, high)
  PROVE  Ordered(Tail(s), Head(s), high)
<1>1. /\ Len(Tail(s)) = Len(s) - 1 /\ Len(s) \in Nat \ {0}
      /\ \A i \in 1 .. Len(Tail(s)) : Tail(s)[i] = s[i + 1]
      /\ Head(s) = s[1]
  OBVIOUS
<1>2. \A i \in 1 .. Len(Tail(s)) : i + 1 \in 1 .. Len(s) /\ 1 < i + 1 /\ 1 \in 1 .. Len(s)
  BY <1>1
<1> QED
  BY <1>1, <1>2 DEF Ordered

LEMMA OrderedHead ==
  ASSUME NEW s \in Seq(Nat), s # <<>>, NEW low, NEW high, Ordered(s, low, high)
  PROVE  Ordered(<<Head(s)>>, low, high) /\ low < Head(s) /\ Head(s) <= high
BY DEF Ordered

(* What a step may do to the bytes that wait: drop some, add or read one. *)
Drops ==
  /\ \/ Waiting' = Waiting
     \/ Waiting' = <<>>
     \/ (Waiting # <<>>) /\ (Waiting' = <<Head(Waiting)>>)
  /\ last_read' = last_read /\ arrived' \in {arrived, arrived + 1}

Adds ==
  /\ Waiting' = Append(Waiting, arrived + 1)
  /\ last_read' = last_read /\ arrived' = arrived + 1

Reads ==
  /\ Waiting # <<>> /\ Waiting' = Tail(Waiting)
  /\ last_read' = Head(Waiting) /\ arrived' = arrived

LEMMA WaitingStep ==
  ASSUME UartInv, [UartNext]_vars
  PROVE  Drops \/ Adds \/ Reads
<1>1. UartTypeOK /\ ReadyIsBuffered
  BY DEF UartInv
<1>2. CASE receive_byte
  <2>1. CASE fifo_enabled
    BY <2>1, <1>2 DEF receive_byte, Waiting, Adds, Drops
  <2>2. CASE ~fifo_enabled /\ "DATA_READY" \in lsr
    BY <2>2, <1>2 DEF receive_byte, Waiting, Drops
  <2>3. CASE ~fifo_enabled /\ "DATA_READY" \notin lsr
    <3>1. Waiting = <<>> /\ Waiting' = <<arrived + 1>>
      BY <2>3, <1>2 DEF receive_byte, Waiting
    <3>2. Append(<<>>, arrived + 1) = <<arrived + 1>>
      OBVIOUS
    <3>3. Waiting' = Append(Waiting, arrived + 1)
      BY <3>1, <3>2
    <3> QED
      BY <3>3, <1>2 DEF receive_byte, Adds
  <2> QED
    BY <2>1, <2>2, <2>3
<1>3. CASE read_rhr
  <2>1. CASE fifo_enabled /\ fifo_buffer = <<>>
    BY <2>1, <1>1, <1>3 DEF read_rhr, Waiting, ReadyIsBuffered, Drops
  <2>2. CASE fifo_enabled /\ fifo_buffer # <<>>
    BY <2>2, <1>1, <1>3 DEF read_rhr, Waiting, ReadyIsBuffered, Front, Reads
  <2>3. CASE ~fifo_enabled /\ "DATA_READY" \in lsr
    <3>1. Waiting = <<rhr>> /\ Waiting' = <<>> /\ last_read' = rhr /\ arrived' = arrived
      BY <2>3, <1>3 DEF read_rhr, Waiting, Front
    <3>2. Tail(<<rhr>>) = <<>> /\ Head(<<rhr>>) = rhr /\ <<rhr>> # <<>>
      OBVIOUS
    <3> QED
      BY <3>1, <3>2 DEF Reads
  <2>4. CASE ~fifo_enabled /\ "DATA_READY" \notin lsr
    BY <2>4, <1>3 DEF read_rhr, Waiting, Drops
  <2> QED
    BY <2>1, <2>2, <2>3, <2>4
<1>4. ASSUME NEW on \in BOOLEAN, NEW clear \in BOOLEAN, write_fcr(on, clear)
      PROVE  Drops
  <2>0. last_read' = last_read /\ arrived' = arrived /\ fifo_enabled' = on
    BY <1>4 DEF write_fcr
  <2>1. CASE clear
    BY <2>0, <2>1, <1>4 DEF write_fcr, Waiting, Drops
  <2>2. CASE ~clear /\ on
    <3>1. CASE ~fifo_enabled /\ "DATA_READY" \in lsr
      <4>1. fifo_buffer' = Append(<<>>, rhr) /\ Waiting = <<rhr>> /\ Waiting' = fifo_buffer'
        BY <2>0, <2>2, <3>1, <1>1, <1>4 DEF write_fcr, Waiting, ReadyIsBuffered
      <4>2. Append(<<>>, rhr) = <<rhr>>
        OBVIOUS
      <4> QED
        BY <2>0, <4>1, <4>2 DEF Drops
    <3>2. CASE fifo_enabled \/ "DATA_READY" \notin lsr
      BY <2>0, <2>2, <3>2, <1>1, <1>4 DEF write_fcr, Waiting, ReadyIsBuffered, Drops
    <3> QED
      BY <3>1, <3>2
  <2>3. CASE ~clear /\ ~on
    BY <2>0, <2>3, <1>1, <1>4 DEF write_fcr, Waiting, ReadyIsBuffered, Drops
  <2> QED
    BY <2>1, <2>2, <2>3
<1>5. CASE \/ read_iir \/ write_thr \/ GuestSetsIer \/ GuestSetsDlab
           \/ ControllerStep \/ UNCHANGED vars
  <2>1. UNCHANGED <<rhr, lsr, fifo_enabled, fifo_buffer, arrived, last_read>>
    BY <1>5 DEF read_iir, write_thr, GuestSetsIer, write_ier, GuestSetsDlab, write_lcr,
                ControllerStep, vars, uartVars
  <2> QED
    BY <2>1 DEF Waiting, Drops
<1> QED
  BY <1>2, <1>3, <1>4, <1>5
  DEF UartNext, TerminalSends, GuestReadsByte, GuestReadsIir, GuestSendsByte, GuestSetsFifo

LEMMA OrderInductive ==
  UartInv /\ BytesInOrder /\ [UartNext]_vars => BytesInOrder'
<1> SUFFICES ASSUME UartInv, BytesInOrder, [UartNext]_vars PROVE BytesInOrder'
  OBVIOUS
<1>1. Waiting \in Seq(Nat) /\ last_read \in Nat /\ arrived \in Nat
  <2>1. Byte \subseteq Nat
    BY DEF Byte
  <2>2. rhr \in Nat /\ fifo_buffer \in Seq(Nat) /\ last_read \in Nat /\ arrived \in Nat
    BY <2>1, SeqSubset DEF UartInv, UartTypeOK
  <2> QED
    BY <2>2 DEF Waiting
<1>2. Ordered(Waiting, last_read, arrived) /\ last_read <= arrived
  BY DEF Ordered, BytesInOrder
<1>3. Ordered(Waiting', last_read', arrived') /\ last_read' <= arrived'
  <2>1. CASE Adds
    BY <2>1, <1>1, <1>2, OrderedAppend DEF Adds
  <2>2. CASE Reads
    BY <2>2, <1>1, <1>2, OrderedTail, OrderedHead DEF Reads
  <2>3. CASE Drops
    <3>1. Ordered(Waiting', last_read, arrived)
      <4>1. CASE Waiting' = Waiting
        BY <4>1, <1>2
      <4>2. CASE Waiting' = <<>>
        BY <4>2 DEF Ordered
      <4>3. CASE Waiting # <<>> /\ Waiting' = <<Head(Waiting)>>
        BY <4>3, <1>1, <1>2, OrderedHead
      <4> QED
        BY <4>1, <4>2, <4>3, <2>3 DEF Drops
    <3>2. \A i \in 1 .. Len(Waiting') : Waiting'[i] \in Nat
      <4>0. Waiting # <<>> => Head(Waiting) \in Nat
        BY <1>1
      <4>1. Waiting' \in Seq(Nat)
        <5>1. CASE Waiting' = Waiting
          BY <5>1, <1>1
        <5>2. CASE Waiting' = <<>>
          BY <5>2
        <5>3. CASE (Waiting # <<>>) /\ (Waiting' = <<Head(Waiting)>>)
          BY <5>3, <4>0
        <5> QED
          BY <5>1, <5>2, <5>3, <2>3 DEF Drops
      <4> QED
        BY <4>1
    <3> QED
      BY <3>1, <3>2, <2>3, <1>1, <1>2 DEF Ordered, Drops
  <2> QED
    BY <2>1, <2>2, <2>3, WaitingStep
<1> QED
  BY <1>3 DEF Ordered, BytesInOrder

(* Through FIFO on and off, clears and overruns, the guest reads every     *)
(* byte at most once and in order of arrival.                              *)
THEOREM BytesStayInOrder == UartSpec => []BytesInOrder
<1>1. UartInit => BytesInOrder
  BY DEF UartInit, BytesInOrder, Waiting
<1> QED
  BY <1>1, OrderInductive, UartInvHolds, PTL DEF UartSpec

-----------------------------------------------------------------------------
(* While its cause lasts, update_iir never lowers the port's source. *)
LEMMA RefreshKeepsSource ==
  ASSUME NEW rxFlag, update_iir(rxFlag), UartIrq \in pending, iir' # "NO_INT"
  PROVE  UartIrq \in pending'
<1>1. set_pending(UartIrq, iir' # "NO_INT")
  BY DEF update_iir
<1> QED
  BY <1>1 DEF set_pending

(* A register of the port or an arriving byte keeps a source whose cause   *)
(* lasts.                                                                  *)
LEMMA PortKeepsSource ==
  ASSUME UartNext, ~ControllerStep, UartIrq \in pending, iir' # "NO_INT"
  PROVE  UartIrq \in pending'
<1>1. CASE TerminalSends \/ GuestReadsByte \/ GuestReadsIir \/ GuestSendsByte
  <2>1. (\E rxFlag : update_iir(rxFlag)) \/ UNCHANGED plicVars
    BY <1>1 DEF TerminalSends, receive_byte, GuestReadsByte, read_rhr, GuestReadsIir,
                read_iir, GuestSendsByte, write_thr
  <2> QED
    BY <2>1, RefreshKeepsSource DEF plicVars
<1>2. CASE GuestSetsIer \/ GuestSetsFifo \/ GuestSetsDlab
  <2>1. (\E rxFlag : update_iir(rxFlag)) \/ UNCHANGED plicVars
    BY <1>2 DEF GuestSetsIer, write_ier, GuestSetsFifo, write_fcr, GuestSetsDlab, write_lcr
  <2> QED
    BY <2>1, RefreshKeepsSource DEF plicVars
<1> QED
  BY <1>1, <1>2 DEF UartNext

(* The other devices and the rest of the controller's registers leave the  *)
(* port's source alone.                                                    *)
LEMMA ControllerKeepsSource ==
  ASSUME ControllerStep, UartIrq \in pending, UartIrq \notin pending'
  PROVE  (GuestClaims \/ GuestCompletes) /\ UNCHANGED uartVars
<1>1. CASE OtherDeviceSignals
  BY <1>1 DEF OtherDeviceSignals, set_pending
<1>2. CASE GuestSetsPriority \/ GuestSetsEnables \/ GuestSetsThreshold
  BY <1>2 DEF GuestSetsPriority, write_priority, GuestSetsEnables, write_enable,
              GuestSetsThreshold, write_threshold
<1> QED
  BY <1>1, <1>2 DEF ControllerStep

(* A byte that is ready cannot be forgotten: its interrupt is only taken   *)
(* back by a claim or a completion, whatever the port's registers do.      *)
THEOREM SourceOnlyAcknowledged == UartSpec => OnlyGuestAcknowledges
<1> DEFINE Acknowledged ==
      (UartIrq \in pending /\ UartIrq \notin pending' /\ iir' # "NO_INT")
        => (GuestClaims \/ GuestCompletes) /\ UNCHANGED uartVars
<1>1. [UartNext]_vars => [Acknowledged]_vars
  BY PortKeepsSource, ControllerKeepsSource DEF UartNext
<1> QED
  BY <1>1, PTL DEF UartSpec, OnlyGuestAcknowledges
=============================================================================
