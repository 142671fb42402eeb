------------------------------- MODULE I2cHid -------------------------------
(***************************************************************************)
(* The I2C bus (src/src/devices/i2c/i2c-core.cpp) with the keyboard on it  *)
(* (src/src/devices/hid/hid-over-i2c.cpp, hid_keyboard.cpp), on top of the *)
(* interrupt controller.                                                   *)
(*                                                                         *)
(* Keys arrive on the window thread (HID_Keyboard::update), the guest's    *)
(* register accesses and the ticks of the bus run on the worker, and there *)
(* is no lock.  Between update and execute_command the steps are split     *)
(* where one of them reads what the other writes: the report queue, the    *)
(* input report and is_transmitting.                                       *)
(*                                                                         *)
(* A report is named by the order of its arrival; 0 is no report.  The     *)
(* bytes of the input report are cells, each with the report it is of.     *)
(* The guest is a polling bus driver and a threaded interrupt handler: it  *)
(* masks and completes the keyboard's source before it reads the report.   *)
(***************************************************************************)
EXTENDS Plic, Sequences

CONSTANTS
  BusIrq, KbdIrq,  \* irq_num of the bus and of the keyboard
  RunDelay,        \* _run_delay (100)
  ReportSize,      \* input_report_size (10)
  QueueMax,        \* the cap of the report queue (64)
  MaxKeys,         \* bound: the number of reports that arrive
  MaxTx            \* bound: the transactions besides reports

ASSUME LinesAssumption == {BusIrq, KbdIrq} \subseteq IrqLines /\ BusIrq # KbdIrq
ASSUME RoutedAssumption == KbdIrq \in MayUse[1]   \* the guest runs in S-mode on hart 0
ASSUME HidAssumption ==
  /\ RunDelay \in Nat \ {0} /\ ReportSize \in Nat \ {0} /\ QueueMax \in Nat /\ MaxKeys \in Nat

VARIABLES
  ctr,              \* bus: a subset of {"EN", "IEN"}
  cr,               \* bus: the command, a subset of CrBits
  sr,               \* bus: the status, a subset of SrBits
  txr, rxr,         \* bus: the byte to send, the byte received
  current_address,  \* bus: NoAddress (0xFFFF) until a start is followed by one
  device_selected,  \* bus: the keyboard answered its address
  int_line, op_active, delay,
  is_transmitting,  \* keyboard: between start_transmit and stop_transmit
  cur_reg, io_offset, last_event,
  command,          \* keyboard: the opcode in the command register
  report_queue, input_report,
  exec,             \* worker: where execute_command is
  wpc,              \* window thread: where update is
  arrived,          \* the number of reports that arrived
  tx,               \* guest: the commands of the transaction under way
  handler,          \* guest: where the keyboard's interrupt handler is
  txs,              \* guest: the transactions it chose to make
  expected,         \* history: the front report when a read of it began
  got               \* history: what the transaction has read

busVars == <<ctr, cr, sr, txr, rxr, current_address, device_selected, int_line, op_active, delay>>
hidVars == <<is_transmitting, cur_reg, io_offset, last_event, command, report_queue, input_report>>
guestVars == <<tx, handler, txs, expected, got>>
vars == <<plicVars, busVars, hidVars, exec, wpc, arrived, guestVars>>

CrBits == {"IACK", "WR", "RD", "STO", "STA"}
NoAddress == 65535       \* 0xFFFF
KbdAddress == KbdIrq     \* the keyboard answers to its irq number
ASSUME AddressAssumption == KbdAddress < NoAddress
Cells == 1 .. ReportSize
Descriptor == 254        \* a byte of a descriptor

I2cTypeOK ==
  /\ PlicTypeOK
  /\ ctr \subseteq {"EN", "IEN"} /\ cr \subseteq CrBits
  /\ sr \subseteq {"IF", "TIP", "BUSY", "RxACK"}
  /\ delay \in 0 .. RunDelay
  /\ cur_reg \in 0 .. 7 /\ io_offset \in 0 .. (ReportSize + 4)
  /\ Len(report_queue) <= QueueMax
  /\ exec \in {"idle", "command", "read", "refill", "stop", "announce", "finish"}
  /\ wpc \in {"idle", "pushed", "writing", "written", "announcing"}

(* cur_reg has no initialiser: it is whatever the memory held, where every *)
(* number that is no register does as well as 0.                           *)
I2cInit ==
  /\ PlicInit
  /\ ctr = {} /\ cr = {} /\ sr = {} /\ txr = 0 /\ rxr = 0
  /\ current_address = NoAddress /\ device_selected = FALSE
  /\ int_line = FALSE /\ op_active = FALSE /\ delay = 0
  /\ is_transmitting = FALSE /\ cur_reg \in 0 .. 7 /\ io_offset = 0
  /\ last_event = "NONE" /\ command = 0
  /\ report_queue = <<>> /\ input_report = [i \in Cells |-> 0]
  /\ exec = "idle" /\ wpc = "idle" /\ arrived = 0
  /\ tx = <<>> /\ handler = "boot" /\ txs = 0 /\ expected = 0 /\ got = <<>>

-----------------------------------------------------------------------------
(* The keyboard. *)

(* hid_input_report_write of report r. *)
hid_input_report_write(r) == [i \in Cells |-> r]

(* The report at the front of the queue is the one to be read. *)
FrontInPlace == report_queue # <<>> /\ input_report = hid_input_report_write(Head(report_queue))

(* What a read at io_offset finds: the input report is register 3. *)
dev_read_value ==
  CASE cur_reg = 3 /\ io_offset < ReportSize -> input_report[io_offset + 1]
    [] cur_reg \in {1, 2} -> Descriptor
    [] OTHER -> 0

(* The last byte of the input report takes the report from the queue. *)
TakesReport == cur_reg = 3 /\ io_offset >= ReportSize - 1

(* A byte from the guest: the register's number first, low byte and high   *)
(* byte, then what goes into the register.  An opcode is the second byte   *)
(* of the command register.                                                *)
dev_write(val) ==
  /\ cur_reg' = IF io_offset = 0 THEN val
                ELSE IF io_offset = 1 THEN cur_reg + (256 * val) ELSE cur_reg
  /\ io_offset' = IF io_offset < 2 \/ cur_reg \in {5, 6, 7} THEN io_offset + 1 ELSE io_offset
  /\ command' = IF io_offset = 3 /\ cur_reg = 5 THEN val ELSE command
  /\ last_event' = CASE io_offset < 2 -> last_event
                     [] cur_reg = 5 -> "COMMAND"
                     [] cur_reg = 6 -> "DATA"
                     [] cur_reg = 7 -> "OUTPUT"
                     [] OTHER -> last_event
  /\ UNCHANGED <<is_transmitting, report_queue, input_report>>

start_transmit ==
  /\ io_offset' = 0 /\ is_transmitting' = TRUE /\ last_event' = "NONE"
  /\ UNCHANGED <<cur_reg, command, report_queue, input_report>>

(* HID_Keyboard::update on the window thread.  First the report is queued, *)
(* unless the queue is full.                                               *)
update_pushes ==
  /\ wpc = "idle" /\ arrived < MaxKeys
  /\ arrived' = arrived + 1
  /\ IF Len(report_queue) >= QueueMax
     THEN UNCHANGED <<report_queue, wpc>>
     ELSE report_queue' = Append(report_queue, arrived + 1) /\ wpc' = "pushed"
  /\ UNCHANGED <<plicVars, busVars, is_transmitting, cur_reg, io_offset, last_event, command,
                 input_report, exec, guestVars>>

(* Slip: every new report goes into the input report at once. *)
update_tests_slip ==
  /\ wpc = "pushed"
  /\ input_report' = hid_input_report_write(arrived)
  /\ wpc' = "written"
  /\ UNCHANGED <<plicVars, busVars, is_transmitting, cur_reg, io_offset, last_event, command,
                 report_queue, exec, arrived, guestVars>>

(* The only report in the queue goes into the input report. *)
update_tests ==
  /\ wpc = "pushed"
  /\ wpc' = IF Len(report_queue) = 1 THEN "writing" ELSE "written"
  /\ UNCHANGED <<plicVars, busVars, hidVars, exec, arrived, guestVars>>

(* The worker may have taken the report since: the front of an empty queue *)
(* is memory that holds an earlier report or none.                         *)
update_writes ==
  /\ wpc = "writing"
  /\ \E r \in 0 .. arrived :
       /\ report_queue # <<>> => r = Head(report_queue)
       /\ input_report' = hid_input_report_write(r)
  /\ wpc' = "written"
  /\ UNCHANGED <<plicVars, busVars, is_transmitting, cur_reg, io_offset, last_event, command,
                 report_queue, exec, arrived, guestVars>>

(* During a transaction the announcement is left to stop_transmit. *)
update_checks ==
  /\ wpc = "written"
  /\ wpc' = IF is_transmitting THEN "idle" ELSE "announcing"
  /\ UNCHANGED <<plicVars, busVars, hidVars, exec, arrived, guestVars>>

update_announces ==
  /\ wpc = "announcing"
  /\ wpc' = "idle"
  /\ set_pending(KbdIrq, TRUE)
  /\ UNCHANGED <<busVars, hidVars, exec, arrived, guestVars>>

-----------------------------------------------------------------------------
(* The bus.  execute_command is split into the parts that the keyboard's   *)
(* window thread can come between.                                         *)

lower_interrupt ==
  /\ int_line' = FALSE
  /\ IF int_line THEN set_pending(BusIrq, FALSE) ELSE UNCHANGED plicVars

raise_interrupt ==
  IF "IEN" \in ctr /\ ~int_line
  THEN int_line' = TRUE /\ set_pending(BusIrq, TRUE)
  ELSE UNCHANGED <<int_line, plicVars>>

(* Slip: a tick in which the delay is not over ends the operation. *)
tick_slip ==
  /\ exec = "idle" /\ op_active
  /\ delay' = delay + 1
  /\ exec' = IF delay + 1 < RunDelay THEN "idle" ELSE "command"
  /\ op_active' = FALSE
  /\ UNCHANGED <<plicVars, ctr, cr, sr, txr, rxr, current_address, device_selected, int_line,
                 hidVars, wpc, arrived, guestVars>>

(* A tick of the bus counts the delay of the command and then executes it. *)
tick ==
  /\ exec = "idle" /\ op_active
  /\ delay' = delay + 1
  /\ exec' = IF delay + 1 < RunDelay THEN "idle" ELSE "command"
  /\ op_active' = (delay + 1 < RunDelay)
  /\ UNCHANGED <<plicVars, ctr, cr, sr, txr, rxr, current_address, device_selected, int_line,
                 hidVars, wpc, arrived, guestVars>>

(* The next part of a command after the parts in done. *)
After(done) ==
  CASE "RD" \in cr \ done -> "read"
    [] "STO" \in cr \ done -> "stop"
    [] OTHER -> "finish"

(* Acknowledgement of the interrupt, start and write of a byte: the first  *)
(* byte after a start is the address.  An address that nobody answers      *)
(* leaves RxACK as it was.                                                 *)
execute_command ==
  LET addressing == "WR" \in cr /\ ("STA" \in cr \/ current_address = NoAddress)
      matches == txr \div 2 = KbdAddress
      sending == "WR" \in cr /\ ~addressing
      acked == (addressing /\ matches) \/ (sending /\ device_selected)
  IN  /\ exec = "command"
      /\ exec' = IF cr \cap {"STA", "STO", "RD", "WR"} = {} THEN "idle" ELSE After({})
      /\ IF "IACK" \in cr THEN lower_interrupt ELSE UNCHANGED <<int_line, plicVars>>
      /\ cr' = cr \ {"IACK"}
      /\ current_address' = IF addressing THEN txr \div 2
                            ELSE IF "STA" \in cr THEN NoAddress ELSE current_address
      /\ device_selected' = IF addressing THEN matches ELSE device_selected
      /\ sr' = (sr \ ((IF "IACK" \in cr THEN {"IF"} ELSE {})
                      \cup (IF acked THEN {"RxACK"} ELSE {})))
               \cup (IF "STA" \in cr THEN {"BUSY"} ELSE {})
               \cup (IF sending THEN {"TIP"} ELSE {})
               \cup (IF sending /\ ~device_selected THEN {"RxACK"} ELSE {})
      /\ IF addressing /\ matches THEN start_transmit
         ELSE IF sending /\ device_selected THEN dev_write(txr)
         ELSE UNCHANGED hidVars
      /\ expected' = IF addressing /\ txr = (2 * KbdAddress) + 1 /\ FrontInPlace /\ cur_reg = 3
                     THEN Head(report_queue) ELSE IF addressing THEN 0 ELSE expected
      /\ got' = IF addressing THEN <<>> ELSE got
      /\ UNCHANGED <<ctr, txr, rxr, op_active, delay, wpc, arrived, tx, handler, txs>>

(* A byte is read; the last byte of a report takes it from the queue. *)
execute_read ==
  /\ exec = "read"
  /\ rxr' = IF device_selected THEN dev_read_value ELSE 255
  /\ sr' = IF device_selected THEN (sr \ {"RxACK"}) \cup {"TIP"} ELSE sr \cup {"RxACK", "TIP"}
  /\ got' = Append(got, rxr')
  /\ IF device_selected /\ TakesReport
     THEN /\ report_queue' = IF report_queue = <<>> THEN <<>> ELSE Tail(report_queue)
          /\ exec' = "refill" /\ UNCHANGED io_offset
     ELSE /\ io_offset' = IF device_selected THEN io_offset + 1 ELSE io_offset
          /\ exec' = After({"RD"}) /\ UNCHANGED report_queue
  /\ UNCHANGED <<plicVars, ctr, cr, txr, current_address, device_selected, int_line, op_active,
                 delay, is_transmitting, cur_reg, last_event, command, input_report, wpc,
                 arrived, tx, handler, txs, expected>>

(* Slip: the next report is announced and not put into the input report. *)
dev_read_refills_slip ==
  /\ exec = "refill"
  /\ exec' = After({"RD"})
  /\ set_pending(KbdIrq, report_queue # <<>>)
  /\ io_offset' = IF report_queue = <<>> THEN io_offset + 1 ELSE io_offset
  /\ UNCHANGED <<busVars, is_transmitting, cur_reg, last_event, command, report_queue,
                 input_report, wpc, arrived, guestVars>>

(* dev_read after the pop: the next report, or the source is lowered. *)
dev_read_refills ==
  /\ exec = "refill"
  /\ exec' = After({"RD"})
  /\ set_pending(KbdIrq, report_queue # <<>>)
  /\ IF report_queue # <<>>
     THEN input_report' = hid_input_report_write(Head(report_queue)) /\ UNCHANGED io_offset
     ELSE io_offset' = io_offset + 1 /\ UNCHANGED input_report
  /\ UNCHANGED <<busVars, is_transmitting, cur_reg, last_event, command, report_queue,
                 wpc, arrived, guestVars>>

(* HID_Keyboard::hid_event_command_register_write: RESET empties the queue *)
(* and leaves a report of length 0 to be read.                             *)
hid_event_command_register_write ==
  IF command = 1
  THEN /\ io_offset' = 0 /\ report_queue' = <<>>
       /\ input_report' = [i \in Cells |-> IF i = 1 THEN 0 ELSE input_report[i]]
       /\ set_pending(KbdIrq, TRUE)
  ELSE UNCHANGED <<plicVars, io_offset, report_queue, input_report>>

(* The stop ends the transaction of the selected device, which then looks  *)
(* at what was written to it; the writes to the data register and of an    *)
(* output report have no effect.                                           *)
stop_transmit ==
  /\ exec = "stop"
  /\ IF device_selected
     THEN /\ is_transmitting' = FALSE /\ cur_reg' = 3
          /\ IF last_event = "COMMAND" THEN hid_event_command_register_write
             ELSE UNCHANGED <<plicVars, io_offset, report_queue, input_report>>
          /\ exec' = "announce"
     ELSE /\ exec' = "finish"
          /\ UNCHANGED <<plicVars, is_transmitting, cur_reg, io_offset, report_queue, input_report>>
  /\ UNCHANGED <<busVars, last_event, command, wpc, arrived, guestVars>>

(* Slip: a report that came during the transaction is not announced. *)
stop_transmit_announces_slip ==
  /\ exec = "announce"
  /\ exec' = "finish"
  /\ UNCHANGED <<plicVars, busVars, hidVars, wpc, arrived, guestVars>>

(* The end of stop_transmit: what came during the transaction. *)
stop_transmit_announces ==
  /\ exec = "announce"
  /\ exec' = "finish"
  /\ IF report_queue # <<>> THEN set_pending(KbdIrq, TRUE) ELSE UNCHANGED plicVars
  /\ UNCHANGED <<busVars, hidVars, wpc, arrived, guestVars>>

(* The end of execute_command.  A start alone leaves TIP set. *)
execute_finish ==
  /\ exec = "finish"
  /\ exec' = "idle"
  /\ device_selected' = (device_selected /\ "STO" \notin cr)
  /\ IF cr \cap {"WR", "RD", "STO"} # {}
     THEN /\ sr' = (sr \ ({"TIP"} \cup (IF "STO" \in cr THEN {"BUSY"} ELSE {}))) \cup {"IF"}
          /\ raise_interrupt
     ELSE UNCHANGED <<sr, int_line, plicVars>>
  /\ UNCHANGED <<ctr, cr, txr, rxr, current_address, op_active, delay, hidVars, wpc, arrived,
                 guestVars>>

(* I2C::write to the control register; clearing EN resets the bus. *)
write_ctr(bits) ==
  /\ ctr' = bits
  /\ IF "EN" \in bits
     THEN UNCHANGED <<sr, device_selected, current_address, int_line, plicVars>>
     ELSE /\ sr' = {} /\ device_selected' = FALSE /\ current_address' = NoAddress
          /\ lower_interrupt
  /\ UNCHANGED <<cr, txr, rxr, op_active, delay>>

(* I2C::write to the command register of an enabled bus. *)
write_cr(bits) ==
  /\ "EN" \in ctr
  /\ cr' = bits /\ op_active' = TRUE /\ delay' = 0
  /\ sr' = (sr \ {"IF"}) \cup {"TIP"}
  /\ UNCHANGED <<plicVars, ctr, rxr, current_address, device_selected, int_line>>

-----------------------------------------------------------------------------
(* The guest. *)

Command(bits, byte) == [cr |-> bits \cup {"IACK"}, txr |-> byte]
Address(dev, rd) == Command({"STA", "WR"}, (2 * dev) + rd)
Write(byte) == Command({"WR"}, byte)
Read == Command({"RD"}, 0)
Stop == Command({"STO"}, 0)

(* Reading a report, resetting the keyboard, reading a byte of the HID     *)
(* descriptor, writing an output report and looking for an absent device.  *)
ReadTx == <<Address(KbdAddress, 1)>> \o [i \in Cells |-> Read] \o <<Stop>>
ResetTx == <<Address(KbdAddress, 0), Write(5), Write(0), Write(0), Write(1), Stop>>
DescTx == <<Address(KbdAddress, 0), Write(1), Write(0), Address(KbdAddress, 1), Read, Stop>>
OutputTx == <<Address(KbdAddress, 0), Write(7), Write(0), Write(1), Stop>>
ProbeTx == <<Address(KbdAddress + 1, 1), Read, Stop>>

BusFree == exec = "idle" /\ ~op_active /\ tx = <<>> /\ ("TIP" \notin sr)

GuestConfigures ==
  /\ exec = "idle" /\ ctr = {}
  /\ \E bits \in {{"EN"}, {"EN", "IEN"}} : write_ctr(bits)
  /\ UNCHANGED <<hidVars, exec, wpc, arrived, guestVars>>

(* The driver goes away: the bus is disabled between two transactions. *)
GuestDisables ==
  /\ BusFree /\ ctr # {} /\ txs < MaxTx
  /\ write_ctr({})
  /\ txs' = txs + 1
  /\ UNCHANGED <<hidVars, exec, wpc, arrived, tx, handler, expected, got>>

GuestRoutes ==
  /\ exec = "idle"
  /\ \/ handler = "boot" /\ write_priority(KbdIrq, 1) /\ handler' = "routing"
     \/ /\ handler = "routing" /\ write_enable(1, KbdIrq \div WordBits, {KbdIrq})
        /\ handler' = "none"
  /\ UNCHANGED <<busVars, hidVars, exec, wpc, arrived, tx, txs, expected, got>>

(* The next command of the transaction, when the last one is over. *)
GuestIssues ==
  /\ exec = "idle" /\ tx # <<>> /\ "TIP" \notin sr
  /\ txr' = Head(tx).txr
  /\ write_cr(Head(tx).cr)
  /\ tx' = Tail(tx)
  /\ UNCHANGED <<hidVars, exec, wpc, arrived, handler, txs, expected, got>>

GuestTransacts ==
  /\ BusFree /\ "EN" \in ctr /\ handler = "none" /\ txs < MaxTx
  /\ tx' \in {ResetTx, DescTx, OutputTx, ProbeTx}
  /\ txs' = txs + 1
  /\ UNCHANGED <<plicVars, busVars, hidVars, exec, wpc, arrived, handler, expected, got>>

(* The keyboard's interrupt: it is masked and completed, a thread reads    *)
(* one report and unmasks it.                                              *)
HandlerClaims ==
  /\ exec = "idle" /\ handler = "none" /\ IRQ_SEXT \in ip[0]
  /\ claim_interrupt(1)
  /\ handler' = "claimed"
  /\ UNCHANGED <<busVars, hidVars, exec, wpc, arrived, tx, txs, expected, got>>

HandlerMasks ==
  /\ exec = "idle" /\ handler = "claimed"
  /\ write_enable(1, KbdIrq \div WordBits, {})
  /\ handler' = "masked"
  /\ UNCHANGED <<busVars, hidVars, exec, wpc, arrived, tx, txs, expected, got>>

HandlerCompletes ==
  /\ exec = "idle" /\ handler = "masked"
  /\ complete_interrupt(1, KbdIrq)
  /\ handler' = "thread"
  /\ UNCHANGED <<busVars, hidVars, exec, wpc, arrived, tx, txs, expected, got>>

HandlerReads ==
  /\ handler = "thread" /\ BusFree /\ "EN" \in ctr
  /\ tx' = ReadTx
  /\ handler' = "reading"
  /\ UNCHANGED <<plicVars, busVars, hidVars, exec, wpc, arrived, txs, expected, got>>

HandlerUnmasks ==
  /\ handler = "reading" /\ BusFree
  /\ write_enable(1, KbdIrq \div WordBits, {KbdIrq})
  /\ handler' = "none"
  /\ UNCHANGED <<busVars, hidVars, exec, wpc, arrived, tx, txs, expected, got>>

WindowStep ==
  update_pushes \/ update_tests \/ update_writes \/ update_checks \/ update_announces
BusStep ==
  \/ tick
  \/ execute_command
  \/ execute_read
  \/ dev_read_refills
  \/ stop_transmit
  \/ stop_transmit_announces
  \/ execute_finish
HandlerStep ==
  \/ HandlerClaims
  \/ HandlerMasks
  \/ HandlerCompletes
  \/ HandlerReads
  \/ HandlerUnmasks
GuestStep == GuestConfigures \/ GuestRoutes \/ GuestIssues

I2cNext == WindowStep \/ BusStep \/ HandlerStep \/ GuestStep \/ GuestTransacts \/ GuestDisables

(* The worker ticks the bus and ends what it began, the window thread ends *)
(* an update it began, and the guest sets up, goes on with a transaction   *)
(* and handles its interrupts.  Nobody has to press a key.                 *)
I2cSpec ==
  /\ I2cInit /\ [][I2cNext]_vars
  /\ WF_vars(update_tests \/ update_writes \/ update_checks \/ update_announces)
  /\ WF_vars(BusStep)
  /\ SF_vars(HandlerStep) /\ SF_vars(GuestStep)

-----------------------------------------------------------------------------
(* Types, and the front of the queue is what the input report register     *)
(* holds, except between the steps of update and of dev_read that put it   *)
(* there: the register always follows the queue that two threads work on.  *)
I2cInv ==
  /\ I2cTypeOK
  /\ (report_queue # <<>> /\ wpc \notin {"pushed", "writing"} /\ exec # "refill") => FrontInPlace

(* A report is read whole and once: a read that begins with a report in    *)
(* place takes exactly this report from the queue, and every byte it read  *)
(* was of it, whatever arrives meanwhile.                                  *)
ReadsWhole ==
  [][(exec = "read" /\ exec' = "refill" /\ expected # 0) =>
       /\ report_queue # <<>> /\ Head(report_queue) = expected
       /\ got' = [i \in Cells |-> expected]]_vars

Queued(r) == \E i \in DOMAIN report_queue : report_queue[i] = r

(* The last byte of report r has been read, after all the others of it. *)
Received(r) == exec = "refill" /\ got = [i \in Cells |-> r]

(* Report r is gone unread: RESET emptied the queue, or it was taken at    *)
(* the last byte of a read that began before a report was in place.        *)
Missed(r) ==
  /\ ~Queued(r)
  /\ \/ exec = "announce" /\ last_event = "COMMAND" /\ command = 1
     \/ exec = "refill" /\ expected = 0

(* Every key that is queued is received, all its bytes, except for the     *)
(* two ways to miss one: although a report that comes during a transaction *)
(* is announced by nobody until its stop, the two threads test the queue   *)
(* and is_transmitting apart, and completing an interrupt clears an        *)
(* announcement.                                                           *)
KeysGetRead == \A r \in 1 .. MaxKeys : Queued(r) ~> (Received(r) \/ Missed(r))

(* A driver that polls TIP gets on: a transfer ends after its delay. *)
TransfersEnd ==
  ("TIP" \in sr /\ cr \cap {"WR", "RD", "STO"} # {}) ~> ("TIP" \notin sr)
=============================================================================
