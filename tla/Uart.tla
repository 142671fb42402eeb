-------------------------------- MODULE Uart --------------------------------
(***************************************************************************)
(* The serial port (src/src/devices/uart.cpp) connected to the interrupt   *)
(* controller: the terminal thread hands it bytes with receive_byte, the   *)
(* guest reads and writes its registers, and update_iir drives the port's  *)
(* source of the PLIC.                                                     *)
(*                                                                         *)
(* A byte is named by the order of its arrival, so that properties can     *)
(* speak about loss and order.  The line status register is the set of its *)
(* bits that change or matter.  Registers that only remember what was      *)
(* written (DLL, DLM, LCR but for DLAB, MCR, SCR, THR) and the bits of IER *)
(* that enable nothing are left out, as is the output of characters.  One  *)
(* operation of the port is one step: see README.md for what the missing   *)
(* lock between the terminal thread and the guest can do.                  *)
(***************************************************************************)
EXTENDS Plic, Sequences

CONSTANTS
  UartIrq,    \* irq_num, from PLIC::acquire_irq
  FifoSize,   \* 16
  MaxBytes    \* bound: the number of bytes that arrive

ASSUME UartIrqAssumption == UartIrq \in IrqLines
ASSUME FifoAssumption == FifoSize \in Nat \ {0} /\ MaxBytes \in Nat

VARIABLES
  rhr,              \* the receiver holding register
  ier,              \* the enabled interrupts, a subset of {"rx", "tx"}
  iir,              \* the interrupt identification register
  lsr,              \* the line status register, a subset of LsrBits
  fifo_enabled,
  fifo_buffer,
  dlab,             \* register 0 and 1 are the divisor latch
  rx_irq_pending,
  tx_irq_pending,
  arrived,          \* history: the bytes that arrived
  last_read         \* history: the newest byte that the guest read as ready

uartVars == <<rhr, ier, iir, lsr, fifo_enabled, fifo_buffer, dlab,
              rx_irq_pending, tx_irq_pending, arrived, last_read>>
vars == <<plicVars, uartVars>>

LsrBits == {"DATA_READY", "THR_EMPTY", "OE"}
Iirs == {"NO_INT", "THR_EMPTY", "RX_AVAILABLE"}
Byte == 0 .. MaxBytes       \* 0 is the initial content of rhr

UartTypeOK ==
  /\ rhr \in Byte
  /\ ier \in SUBSET {"rx", "tx"}
  /\ iir \in Iirs
  /\ lsr \in SUBSET LsrBits
  /\ fifo_enabled \in BOOLEAN
  /\ fifo_buffer \in Seq(Byte) /\ Len(fifo_buffer) <= FifoSize
  /\ dlab \in BOOLEAN
  /\ rx_irq_pending \in BOOLEAN
  /\ tx_irq_pending \in BOOLEAN
  /\ arrived \in Byte
  /\ last_read \in Byte

UartInit ==
  /\ PlicInit
  /\ rhr = 0
  /\ ier = {}
  /\ iir = "NO_INT"
  /\ lsr = {"THR_EMPTY"}
  /\ fifo_enabled = FALSE
  /\ fifo_buffer = <<>>
  /\ dlab = FALSE
  /\ rx_irq_pending = FALSE
  /\ tx_irq_pending = FALSE
  /\ arrived = 0
  /\ last_read = 0

-----------------------------------------------------------------------------
(* Received data is served before the empty transmitter. *)
calc_iir(enabled, status) ==
  IF "rx" \in enabled /\ "DATA_READY" \in status THEN "RX_AVAILABLE"
  ELSE IF "tx" \in enabled /\ "THR_EMPTY" \in status THEN "THR_EMPTY"
  ELSE "NO_INT"

(* Slip: the source becomes pending without a look at the contexts. *)
update_iir_slip(rxFlag) ==
  LET new_iir == calc_iir(ier', lsr')
  IN  /\ iir' = new_iir
      /\ pending' = IF new_iir # "NO_INT" THEN pending \cup {UartIrq} ELSE pending \ {UartIrq}
      /\ rx_irq_pending' = (new_iir = "RX_AVAILABLE" \/ (rxFlag /\ new_iir # "NO_INT"))
      /\ tx_irq_pending' = (new_iir = "THR_EMPTY" \/ (tx_irq_pending /\ new_iir # "NO_INT"))
      /\ UNCHANGED <<priorities, enables, threshold, interrupt_line, ip>>

(* The port's source follows the new iir.  rxFlag is the value that        *)
(* rx_irq_pending has when update_iir is called; ier and lsr are primed.   *)
update_iir(rxFlag) ==
  LET new_iir == calc_iir(ier', lsr')
  IN  /\ iir' = new_iir
      /\ set_pending(UartIrq, new_iir # "NO_INT")
      /\ rx_irq_pending' = (new_iir = "RX_AVAILABLE" \/ (rxFlag /\ new_iir # "NO_INT"))
      /\ tx_irq_pending' = (new_iir = "THR_EMPTY" \/ (tx_irq_pending /\ new_iir # "NO_INT"))

(* What a read of RHR hands to the guest, when there is something. *)
Front == IF fifo_enabled THEN Head(fifo_buffer) ELSE rhr

(* UART::read of register 0. *)
read_rhr ==
  /\ ~dlab
  /\ fifo_buffer' = IF fifo_enabled /\ fifo_buffer # <<>>
                    THEN Tail(fifo_buffer) ELSE fifo_buffer
  /\ lsr' = IF \/ ~fifo_enabled
               \/ fifo_buffer # <<>> /\ Tail(fifo_buffer) = <<>>
            THEN lsr \ {"DATA_READY", "OE"} ELSE lsr \ {"OE"}
  /\ last_read' = IF "DATA_READY" \in lsr THEN Front ELSE last_read
  /\ UNCHANGED <<rhr, ier, fifo_enabled, dlab, arrived>>
  /\ update_iir(rx_irq_pending)

(* Slip: the read acknowledges in the controller, whatever else is ready. *)
read_iir_slip ==
  LET rxRead == iir = "RX_AVAILABLE" /\ rx_irq_pending
      txRead == iir = "THR_EMPTY" /\ tx_irq_pending
  IN  /\ rxRead \/ txRead
      /\ UNCHANGED <<rhr, ier, iir, lsr, fifo_enabled, fifo_buffer, dlab, arrived, last_read>>
      /\ rx_irq_pending' = (rx_irq_pending /\ ~rxRead)
      /\ tx_irq_pending' = (tx_irq_pending /\ ~txRead)
      /\ set_pending(UartIrq, FALSE)

(* UART::read of register 2. *)
read_iir ==
  LET rxRead == iir = "RX_AVAILABLE" /\ rx_irq_pending
      txRead == iir = "THR_EMPTY" /\ tx_irq_pending
  IN  /\ rxRead \/ txRead
      /\ UNCHANGED <<rhr, ier, lsr, fifo_enabled, fifo_buffer, dlab, arrived, last_read>>
      /\ IF calc_iir(ier, lsr) = "NO_INT"
         THEN update_iir(rx_irq_pending /\ ~rxRead)
         ELSE /\ rx_irq_pending' = (rx_irq_pending /\ ~rxRead)
              /\ tx_irq_pending' = (tx_irq_pending /\ ~txRead)
              /\ UNCHANGED <<iir, plicVars>>

(* UART::write of register 0: the character is out at once. *)
write_thr ==
  /\ ~dlab
  /\ UNCHANGED <<rhr, ier, lsr, fifo_enabled, fifo_buffer, dlab, arrived, last_read>>
  /\ update_iir(rx_irq_pending)

(* UART::write of register 1. *)
write_ier(value) ==
  /\ ~dlab
  /\ ier' = value
  /\ UNCHANGED <<rhr, lsr, fifo_enabled, fifo_buffer, dlab, arrived, last_read>>
  /\ update_iir(rx_irq_pending)

(* Slip: turning the FIFO on takes rhr over, ready or not. *)
write_fcr_slip(on, clear) ==
  LET turnedOn == on /\ ~fifo_enabled
      turnedOff == ~on /\ fifo_enabled /\ fifo_buffer # <<>>
  IN  /\ fifo_enabled' = on
      /\ rhr' = IF turnedOff THEN Head(fifo_buffer) ELSE rhr
      /\ fifo_buffer' = IF clear \/ turnedOff THEN <<>>
                        ELSE IF turnedOn THEN Append(fifo_buffer, rhr) ELSE fifo_buffer
      /\ lsr' = IF clear THEN lsr \ {"DATA_READY"}
                ELSE IF turnedOn \/ turnedOff THEN lsr \cup {"DATA_READY"} ELSE lsr
      /\ UNCHANGED <<ier, dlab, arrived, last_read>>
      /\ IF clear THEN update_iir(FALSE)
         ELSE UNCHANGED <<iir, rx_irq_pending, tx_irq_pending, plicVars>>

(* UART::write of register 2: turning the FIFO on moves the byte that is   *)
(* ready into it, turning it off keeps only the oldest byte of it, and     *)
(* bit 1 (clear) drops everything.  iir is only refreshed by the latter.   *)
write_fcr(on, clear) ==
  LET turnedOn == on /\ ~fifo_enabled /\ "DATA_READY" \in lsr
      turnedOff == ~on /\ fifo_enabled /\ fifo_buffer # <<>>
  IN  /\ fifo_enabled' = on
      /\ rhr' = IF turnedOff THEN Head(fifo_buffer) ELSE rhr
      /\ fifo_buffer' = IF clear \/ turnedOff THEN <<>>
                        ELSE IF turnedOn THEN Append(fifo_buffer, rhr)
                        ELSE fifo_buffer
      /\ lsr' = IF clear THEN lsr \ {"DATA_READY"}
                ELSE IF turnedOn \/ turnedOff THEN lsr \cup {"DATA_READY"}
                ELSE lsr
      /\ UNCHANGED <<ier, dlab, arrived, last_read>>
      /\ IF clear THEN update_iir(FALSE)
         ELSE UNCHANGED <<iir, rx_irq_pending, tx_irq_pending, plicVars>>

(* UART::write of register 3. *)
write_lcr(divisorLatch) ==
  /\ dlab' = divisorLatch
  /\ UNCHANGED <<rhr, ier, iir, lsr, fifo_enabled, fifo_buffer, rx_irq_pending,
                 tx_irq_pending, arrived, last_read, plicVars>>

(* Slip: the FIFO takes one byte more than it holds. *)
receive_byte_slip ==
  LET byte == arrived + 1
      full == fifo_enabled /\ Len(fifo_buffer) > FifoSize
  IN  /\ arrived < MaxBytes
      /\ arrived' = byte
      /\ fifo_buffer' = IF fifo_enabled /\ ~full THEN Append(fifo_buffer, byte) ELSE fifo_buffer
      /\ rhr' = IF fifo_enabled THEN rhr ELSE byte
      /\ lsr' = IF full THEN lsr \cup {"OE"} ELSE lsr \cup {"DATA_READY"}
      /\ UNCHANGED <<ier, fifo_enabled, dlab, last_read>>
      /\ update_iir(rx_irq_pending)

(* The terminal thread hands over the next byte.  With a full FIFO the     *)
(* byte is dropped and nothing is signalled.                               *)
receive_byte ==
  LET byte == arrived + 1
      full == fifo_enabled /\ Len(fifo_buffer) >= FifoSize
      late == ~fifo_enabled /\ "DATA_READY" \in lsr
  IN  /\ arrived < MaxBytes
      /\ arrived' = byte
      /\ fifo_buffer' = IF fifo_enabled /\ ~full THEN Append(fifo_buffer, byte)
                        ELSE fifo_buffer
      /\ rhr' = IF fifo_enabled \/ late THEN rhr ELSE byte
      /\ lsr' = IF full THEN lsr \cup {"OE"}
                ELSE IF late THEN lsr \cup {"OE", "DATA_READY"}
                ELSE lsr \cup {"DATA_READY"}
      /\ UNCHANGED <<ier, fifo_enabled, dlab, last_read>>
      /\ IF full THEN UNCHANGED <<iir, rx_irq_pending, tx_irq_pending, plicVars>>
         ELSE update_iir(rx_irq_pending)

-----------------------------------------------------------------------------
TerminalSends == receive_byte
GuestReadsByte == read_rhr
GuestReadsIir == read_iir
GuestSendsByte == write_thr
GuestSetsIer == \E value \in SUBSET {"rx", "tx"} : write_ier(value)
GuestSetsFifo == \E on, clear \in BOOLEAN : write_fcr(on, clear)
GuestSetsDlab == \E divisorLatch \in BOOLEAN : write_lcr(divisorLatch)

(* The other devices, and the guest's accesses to the controller. *)
OtherDeviceSignals ==
  \E id \in IrqLines \ {UartIrq}, on \in BOOLEAN : set_pending(id, on)

ControllerStep ==
  /\ \/ OtherDeviceSignals
     \/ GuestSetsPriority
     \/ GuestSetsEnables
     \/ GuestSetsThreshold
     \/ GuestClaims
     \/ GuestCompletes
  /\ UNCHANGED uartVars

UartNext ==
  \/ TerminalSends
  \/ GuestReadsByte
  \/ GuestReadsIir
  \/ GuestSendsByte
  \/ GuestSetsIer
  \/ GuestSetsFifo
  \/ GuestSetsDlab
  \/ ControllerStep

UartSpec == UartInit /\ [][UartNext]_vars

-----------------------------------------------------------------------------
(* iir is never stale, although a byte dropped by a full FIFO and a change *)
(* of the FIFO mode do not refresh it.                                     *)
IirIsCurrent == iir = calc_iir(ier, lsr)

(* The ready bit says exactly that a read of RHR hands out a fresh byte:   *)
(* with the FIFO on it is set when the FIFO holds something, and the FIFO  *)
(* is empty while it is off.                                               *)
ReadyIsBuffered ==
  IF fifo_enabled THEN "DATA_READY" \in lsr <=> fifo_buffer # <<>>
                  ELSE fifo_buffer = <<>>

(* The bytes that wait to be read, oldest first. *)
Waiting ==
  IF fifo_enabled THEN fifo_buffer
  ELSE IF "DATA_READY" \in lsr THEN <<rhr>> ELSE <<>>

(* No byte is read twice or overtakes another, through every change of the *)
(* FIFO mode: what waits is newer than what was read, in order of arrival. *)
BytesInOrder ==
  /\ last_read <= arrived
  /\ \A i \in 1 .. Len(Waiting) : last_read < Waiting[i] /\ Waiting[i] <= arrived
  /\ \A i, j \in 1 .. Len(Waiting) : i < j => Waiting[i] < Waiting[j]

(* The controller never holds the port's source without a cause the guest  *)
(* can still read from iir.                                                *)
SourceHasCause == UartIrq \in pending => iir # "NO_INT"

UartInv ==
  /\ UartTypeOK
  /\ IirIsCurrent
  /\ ReadyIsBuffered
  /\ SourceHasCause

(* While its cause lasts, the port's source is only taken back by a claim  *)
(* or by a completion at the controller, never by a register of the port.  *)
OnlyGuestAcknowledges ==
  [][(UartIrq \in pending /\ UartIrq \notin pending' /\ iir' # "NO_INT")
       => (GuestClaims \/ GuestCompletes) /\ UNCHANGED uartVars]_vars
=============================================================================
