---------------------------- MODULE I2cHidProofs ----------------------------
(***************************************************************************)
(* For every report size, queue length, delay and number of keys: the bus  *)
(* and the keyboard stay in their types, the front of the report queue is  *)
(* what the guest reads, and a report is read whole and once.              *)
(***************************************************************************)
EXTENDS I2cHid, PlicProofs, SequenceTheorems

(* The guest's transactions, by name: how many commands one has, and which *)
(* its n-th command is.                                                    *)
Names == {"read", "reset", "desc", "output", "probe"}

Tx(t) ==
  CASE t = "read" -> ReadTx
    [] t = "reset" -> ResetTx
    [] t = "desc" -> DescTx
    [] t = "output" -> OutputTx
    [] OTHER -> ProbeTx

N(t) ==
  IF t = "read" THEN ReportSize + 2
  ELSE IF t = "output" THEN 5 ELSE IF t = "probe" THEN 3 ELSE 6

IsAddress(t, n) == n = 1 \/ (t = "desc" /\ n = 4)
IsStop(t, n) == n = N(t)
IsRead(t, n) ==
  \/ t = "read" /\ n \in 2 .. (ReportSize + 1)
  \/ t = "desc" /\ n = 5
  \/ t = "probe" /\ n = 2
IsWrite(t, n) == n \in 2 .. N(t) /\ ~IsAddress(t, n) /\ ~IsStop(t, n) /\ ~IsRead(t, n)

Target(t) == IF t = "reset" THEN 5 ELSE IF t = "desc" THEN 1 ELSE 7

ByteOf(t, n) ==
  IF n = 2 THEN Target(t)
  ELSE IF (t = "reset" /\ n = 5) \/ (t = "output" /\ n = 4) THEN 1 ELSE 0

CmdOf(t, n) ==
  IF IsAddress(t, n)
  THEN Address(IF t = "probe" THEN KbdAddress + 1 ELSE KbdAddress,
               IF t \in {"read", "probe"} \/ n = 4 THEN 1 ELSE 0)
  ELSE IF IsStop(t, n) THEN Stop
  ELSE IF IsRead(t, n) THEN Read
  ELSE Write(ByteOf(t, n))

Rest(t, n) == [i \in 1 .. (N(t) - n) |-> CmdOf(t, n + i)]

(* What the keyboard is after m commands of a transaction. *)
SelAfter(t, m) == t # "probe" /\ 1 <= m /\ m < N(t)
RegsAfter(t, m) ==
  IF t \in {"reset", "desc", "output"} /\ 2 <= m /\ m < N(t) THEN {Target(t)} ELSE 0 .. 7
OffsAfter(t, m) ==
  IF t = "read" /\ m = ReportSize + 1 THEN {ReportSize - 1, ReportSize}
  ELSE IF t = "desc" /\ m >= 4 THEN {m - 4} ELSE {m - 1}

(* While a report is read that was in place when the read began, it stays  *)
(* at the front and in place, and what was read is of it.                  *)
Reading(t, m) ==
  (t = "read" /\ 1 <= m /\ m <= ReportSize /\ expected # 0) =>
    /\ cur_reg = 3
    /\ got = [i \in 1 .. (m - 1) |-> expected]
    /\ report_queue # <<>> /\ Head(report_queue) = expected
    /\ input_report = hid_input_report_write(expected)

At(t, m) ==
  /\ cur_reg \in RegsAfter(t, m)
  /\ device_selected <=> SelAfter(t, m)
  /\ SelAfter(t, m) => current_address = KbdAddress /\ io_offset \in OffsAfter(t, m)
  /\ Reading(t, m)

(* Command n of transaction t is the last one issued. *)
Busy == op_active \/ exec # "idle"

Progress(t, n) ==
  /\ tx = Rest(t, n)
  /\ Busy => /\ n >= 1 /\ "TIP" \in sr
             /\ cr \cup {"IACK"} = CmdOf(t, n).cr /\ txr = CmdOf(t, n).txr
  /\ op_active => exec = "idle"
  /\ ~Busy => At(t, n)
  /\ op_active \/ exec \in {"command", "read", "stop"} => At(t, n - 1)
  /\ op_active \/ exec = "command" => "IACK" \in cr
  /\ exec = "read" => IsRead(t, n)
  /\ exec \in {"stop", "announce"} => IsStop(t, n)
  /\ exec = "refill" =>
       t = "read" /\ n = ReportSize + 1 /\ At(t, n) /\ io_offset = ReportSize - 1
  /\ exec \in {"announce", "finish"} => IF IsStop(t, n) THEN cur_reg \in 0 .. 7 ELSE At(t, n)

(* The parts of the invariant that the steps of the window thread share    *)
(* with those of the worker.                                               *)
QueueOK ==
  /\ report_queue \in Seq(Nat) /\ Len(report_queue) <= QueueMax /\ arrived \in Nat
  /\ input_report \in [Cells -> Nat]
  /\ (report_queue # <<>> /\ exec # "refill" /\ (wpc \in {"pushed", "writing"} => Len(report_queue) >= 2))
       => FrontInPlace

BusOK ==
  /\ ctr \subseteq {"EN", "IEN"} /\ cr \subseteq CrBits
  /\ sr \subseteq {"IF", "TIP", "BUSY", "RxACK"}
  /\ delay \in 0 .. RunDelay /\ (op_active => delay < RunDelay)
  /\ op_active \in BOOLEAN /\ device_selected \in BOOLEAN /\ io_offset \in 0 .. (ReportSize + 4)
  /\ exec \in {"idle", "command", "read", "refill", "stop", "announce", "finish"}
  /\ wpc \in {"idle", "pushed", "writing", "written", "announcing"}

ProgressOK == \E t \in Names : \E n \in 0 .. N(t) : Progress(t, n)

I2cInd == PlicInv /\ QueueOK /\ BusOK /\ ProgressOK

-----------------------------------------------------------------------------
(* The transactions are what the table says. *)
LEMMA Lengths ==
  /\ \A t \in Names : N(t) \in Nat /\ N(t) >= 3
  /\ N("read") = ReportSize + 2 /\ N("reset") = 6 /\ N("desc") = 6
  /\ N("output") = 5 /\ N("probe") = 3
  /\ ReportSize \in Nat /\ ReportSize >= 1
BY HidAssumption DEF Names, N

LEMMA RestStep ==
  ASSUME NEW t \in Names, NEW n \in 0 .. N(t)
  PROVE  /\ Rest(t, n) = <<>> <=> n = N(t)
         /\ n # N(t) => /\ n + 1 \in 0 .. N(t)
                        /\ Head(Rest(t, n)) = CmdOf(t, n + 1)
                        /\ Tail(Rest(t, n)) = Rest(t, n + 1)
<1>0. N(t) \in Nat /\ n \in Nat /\ n <= N(t)
  BY Lengths
<1>1. CASE n = N(t)
  <2>1. Rest(t, n) = [i \in 1 .. 0 |-> CmdOf(t, n + i)]
    BY <1>0, <1>1 DEF Rest
  <2>2. Rest(t, n) = <<>>
    BY <2>1
  <2> QED
    BY <2>2, <1>1
<1>2. CASE n # N(t)
  <2> DEFINE k == N(t) - n
             f == [i \in 1 .. k |-> CmdOf(t, n + i)]
  <2>1. k \in Nat /\ k >= 1
    BY <1>0, <1>2
  <2>2. Rest(t, n) = f
    BY DEF Rest
  <2> HIDE DEF k
  <2>3. f \in Seq({CmdOf(t, n + i) : i \in 1 .. k}) /\ Len(f) = k
    <3> DEFINE C == {CmdOf(t, n + i) : i \in 1 .. k}
    <3>1. f \in [1 .. k -> C]
      OBVIOUS
    <3> HIDE DEF C, f
    <3>2. f \in Seq(C) /\ Len(f) = k
      BY <2>1, <3>1
    <3> QED
      BY <3>2 DEF C
  <2>4. f # <<>> /\ Head(f) = CmdOf(t, n + 1)
    BY <2>1, <2>3
  <2>5. Tail(f) = [i \in 1 .. (k - 1) |-> f[i + 1]]
    BY <2>1, <2>3
  <2>6. \A i \in 1 .. (k - 1) : f[i + 1] = CmdOf(t, (n + 1) + i)
    <3> SUFFICES ASSUME NEW i \in 1 .. (k - 1) PROVE f[i + 1] = CmdOf(t, (n + 1) + i)
      OBVIOUS
    <3>1. i + 1 \in 1 .. k /\ n + (i + 1) = (n + 1) + i
      BY <2>1, <1>0
    <3> QED
      BY <3>1
  <2> HIDE DEF f
  <2>7. Rest(t, n + 1) = [i \in 1 .. (k - 1) |-> CmdOf(t, (n + 1) + i)]
    <3>1. N(t) - (n + 1) = k - 1
      BY <1>0 DEF k
    <3> QED
      BY <3>1 DEF Rest
  <2>8. Tail(f) = Rest(t, n + 1)
    BY <2>5, <2>6, <2>7
  <2> QED
    BY <1>0, <1>2, <2>2, <2>4, <2>8
<1> QED
  BY <1>1, <1>2

LEMMA ReadTxIsRest == ReadTx = Rest("read", 0)
<1> DEFINE R == ReportSize
           reads == [i \in 1 .. R |-> Read]
           S == {Address(KbdAddress, 1), Read, Stop}
<1>0. R \in Nat /\ R >= 1
  BY HidAssumption
<1>1. reads \in Seq(S) /\ Len(reads) = R /\ \A i \in 1 .. R : reads[i] = Read
  BY <1>0
<1>2. /\ <<Address(KbdAddress, 1)>> \in Seq(S) /\ <<Stop>> \in Seq(S)
      /\ Len(<<Address(KbdAddress, 1)>>) = 1 /\ Len(<<Stop>>) = 1
      /\ <<Address(KbdAddress, 1)>>[1] = Address(KbdAddress, 1) /\ <<Stop>>[1] = Stop
  OBVIOUS
<1> DEFINE a == <<Address(KbdAddress, 1)>>
           z == <<Stop>>
<1>3. ReadTx = (a \o reads) \o z
  BY DEF ReadTx, Cells
<1> HIDE DEF R, reads, S, a, z
<1>4. /\ a \o reads \in Seq(S) /\ Len(a \o reads) = R + 1
      /\ (a \o reads)[1] = Address(KbdAddress, 1)
      /\ \A i \in 2 .. (R + 1) : (a \o reads)[i] = Read
  <2>1. a \o reads \in Seq(S) /\ Len(a \o reads) = R + 1
    BY <1>0, <1>1, <1>2 DEF a
  <2>2. \A i \in 1 .. (R + 1) : (a \o reads)[i] = IF i <= 1 THEN a[i] ELSE reads[i - 1]
    BY <1>0, <1>1, <1>2, <2>1 DEF a
  <2> QED
    BY <1>0, <1>1, <1>2, <2>1, <2>2 DEF a
<1>5. /\ ReadTx \in Seq(S) /\ Len(ReadTx) = R + 2
      /\ \A i \in 1 .. (R + 2) : ReadTx[i] = IF i <= R + 1 THEN (a \o reads)[i] ELSE z[i - (R + 1)]
  BY <1>0, <1>2, <1>3, <1>4 DEF z
<1>6. \A i \in 1 .. (R + 2) : ReadTx[i] = CmdOf("read", 0 + i)
  <2> SUFFICES ASSUME NEW i \in 1 .. (R + 2) PROVE ReadTx[i] = CmdOf("read", i)
    BY <1>0
  <2>1. CASE i = 1
    <3>1. ReadTx[i] = Address(KbdAddress, 1)
      BY <2>1, <1>0, <1>4, <1>5
    <3>2. CmdOf("read", 1) = Address(KbdAddress, 1)
      BY DEF CmdOf, IsAddress
    <3> QED
      BY <3>1, <3>2, <2>1
  <2>2. CASE i \in 2 .. (R + 1)
    <3>0. i \in 1 .. (R + 2) /\ i <= R + 1
      BY <2>2, <1>0
    <3>1. ReadTx[i] = Read
      <4>1. ReadTx[i] = (a \o reads)[i]
        BY <3>0, <1>5
      <4> QED
        BY <4>1, <2>2, <1>4
    <3>2. ~IsAddress("read", i) /\ ~IsStop("read", i) /\ IsRead("read", i)
      BY <2>2, <1>0 DEF IsAddress, IsStop, IsRead, N, R
    <3> QED
      BY <3>1, <3>2 DEF CmdOf
  <2>3. CASE i = R + 2
    <3>1. i - (R + 1) = 1 /\ ~(i <= R + 1)
      BY <2>3, <1>0
    <3>2. ReadTx[i] = Stop
      BY <3>1, <1>2, <1>5 DEF z
    <3> QED
      BY <3>2, <2>3, <1>0 DEF CmdOf, IsAddress, IsStop, N, R
  <2> QED
    BY <2>1, <2>2, <2>3, <1>0
<1>7. Rest("read", 0) = [i \in 1 .. (R + 2) |-> CmdOf("read", 0 + i)]
  BY <1>0 DEF Rest, N, R
<1>8. ReadTx = [i \in 1 .. (R + 2) |-> ReadTx[i]]
  BY <1>5, <1>0
<1> QED
  BY <1>6, <1>7, <1>8

LEMMA TxIsRest ==
  ASSUME NEW t \in Names
  PROVE  Tx(t) = Rest(t, 0)
<1>1. CASE t = "read"
  BY <1>1, ReadTxIsRest DEF Tx
<1>2. CASE t = "reset"
  <2>1. ResetTx = [i \in 1 .. 6 |-> CmdOf("reset", 0 + i)]
    BY DEF ResetTx, CmdOf, IsAddress, IsStop, IsRead, N, ByteOf, Target
  <2> QED
    BY <1>2, <2>1 DEF Tx, Rest, N
<1>3. CASE t = "desc"
  <2>1. DescTx = [i \in 1 .. 6 |-> CmdOf("desc", 0 + i)]
    BY DEF DescTx, CmdOf, IsAddress, IsStop, IsRead, N, ByteOf, Target
  <2> QED
    BY <1>3, <2>1 DEF Tx, Rest, N
<1>4. CASE t = "output"
  <2>1. OutputTx = [i \in 1 .. 5 |-> CmdOf("output", 0 + i)]
    BY DEF OutputTx, CmdOf, IsAddress, IsStop, IsRead, N, ByteOf, Target
  <2> QED
    BY <1>4, <2>1 DEF Tx, Rest, N
<1>5. CASE t = "probe"
  <2>1. ProbeTx = [i \in 1 .. 3 |-> CmdOf("probe", 0 + i)]
    BY DEF ProbeTx, CmdOf, IsAddress, IsStop, IsRead, N
  <2> QED
    BY <1>5, <2>1 DEF Tx, Rest, N
<1> QED
  BY <1>1, <1>2, <1>3, <1>4, <1>5 DEF Names

-----------------------------------------------------------------------------
(* The controller. *)
LEMMA KbdIsBit ==
  /\ KbdIrq \in IrqLines /\ BusIrq \in IrqLines /\ KbdIrq \in Sources /\ KbdIrq \in Bits
  /\ 1 \in Contexts /\ KbdIrq \in MayUse[1] /\ KbdIrq \in Nat
<1>1. KbdIrq \in IrqLines /\ BusIrq \in IrqLines
  BY LinesAssumption
<1>2. KbdIrq \in Sources /\ KbdIrq \in Nat
  BY <1>1, IrqLinesAssumption DEF Sources
<1>3. 1 \in Contexts
  BY HartsAssumption DEF Contexts
<1>4. KbdIrq \in MayUse[1] /\ KbdIrq \in Bits
  BY <1>3, RoutedAssumption, MayUseAssumption
<1> QED
  BY <1>1, <1>2, <1>3, <1>4

LEMMA MaskIsGuestStep ==
  ASSUME NEW bits \in SUBSET {KbdIrq}, write_enable(1, KbdIrq \div WordBits, bits)
  PROVE  PlicNext
<1>1. bits \in SUBSET (WordIds(KbdIrq \div WordBits) \cap MayUse[1])
  BY KbdIsBit, WordOfBit
<1> QED
  BY <1>1, KbdIsBit, WordOfBit DEF PlicNext, GuestSetsEnables

LEMMA SignalIsDeviceStep ==
  ASSUME NEW id \in {BusIrq, KbdIrq}, NEW on \in BOOLEAN, set_pending(id, on)
  PROVE  PlicNext
BY KbdIsBit DEF PlicNext, DeviceSignals

LEMMA I2cStepsPlic ==
  ASSUME I2cNext
  PROVE  [PlicNext]_plicVars
<1>1. CASE WindowStep
  BY <1>1, SignalIsDeviceStep DEF WindowStep, update_pushes, update_tests, update_writes, update_checks,
       update_announces
<1>2. CASE tick \/ execute_read
  BY <1>2 DEF tick, execute_read
<1>3. CASE execute_command
  BY <1>3, SignalIsDeviceStep DEF execute_command, lower_interrupt
<1>4. CASE dev_read_refills
  <2>1. set_pending(KbdIrq, report_queue # <<>>) /\ (report_queue # <<>>) \in BOOLEAN
    BY <1>4 DEF dev_read_refills
  <2> QED
    BY <2>1, SignalIsDeviceStep
<1>5. CASE stop_transmit \/ stop_transmit_announces
  BY <1>5, SignalIsDeviceStep
  DEF stop_transmit, hid_event_command_register_write, stop_transmit_announces
<1>6. CASE execute_finish
  BY <1>6, SignalIsDeviceStep DEF execute_finish, raise_interrupt
<1>7. CASE HandlerStep
  <2>1. CASE HandlerClaims
    BY <2>1, KbdIsBit DEF HandlerClaims, PlicNext, GuestClaims
  <2>2. CASE HandlerCompletes
    BY <2>2, KbdIsBit DEF HandlerCompletes, PlicNext, GuestCompletes
  <2>3. CASE HandlerMasks \/ HandlerUnmasks \/ HandlerReads
    BY <2>3, MaskIsGuestStep DEF HandlerMasks, HandlerUnmasks, HandlerReads
  <2> QED
    BY <1>7, <2>1, <2>2, <2>3 DEF HandlerStep
<1>8. CASE GuestRoutes
  <2>1. CASE write_priority(KbdIrq, 1)
    <3>1. 1 \in 0 .. PrioLimit
      BY PrioAssumption
    <3> QED
      BY <2>1, <3>1, KbdIsBit DEF PlicNext, GuestSetsPriority
  <2> QED
    BY <1>8, <2>1, MaskIsGuestStep DEF GuestRoutes
<1>9. CASE GuestConfigures \/ GuestIssues \/ GuestTransacts \/ GuestDisables
  BY <1>9, SignalIsDeviceStep
  DEF GuestConfigures, GuestIssues, GuestTransacts, GuestDisables, write_ctr, write_cr,
      lower_interrupt
<1> QED
  BY <1>1, <1>2, <1>3, <1>4, <1>5, <1>6, <1>7, <1>8, <1>9 DEF I2cNext, BusStep, GuestStep

(* The bus, the keyboard and the guest implement the controller's          *)
(* specification: two devices, two threads and a driver only use it in the *)
(* ways that its own theorems are about.                                   *)
THEOREM I2cDrivesPlic == I2cSpec => PlicSpec
<1>1. I2cInit => PlicInit
  BY DEF I2cInit
<1>2. [I2cNext]_vars => [PlicNext]_plicVars
  BY I2cStepsPlic DEF vars
<1> QED
  BY <1>1, <1>2, PTL DEF I2cSpec, PlicSpec

-----------------------------------------------------------------------------
LEMMA SeqFront ==
  ASSUME NEW q \in Seq(Nat)
  PROVE  /\ Len(q) \in Nat /\ (q = <<>> <=> Len(q) = 0)
         /\ q # <<>> => Head(q) = q[1] /\ Head(q) \in Nat
<1>1. Len(q) \in Nat /\ (q = <<>> <=> Len(q) = 0)
  BY EmptySeq
<1> QED
  BY <1>1, HeadTailProperties, ElementOfSeq

(* The report queue.  A pop leaves the front for dev_read_refills to put   *)
(* in place, a push onto an empty queue for update_writes.                 *)
LEMMA QueueStep ==
  ASSUME QueueOK, BusOK, I2cNext
  PROVE  QueueOK'
<1>0. /\ report_queue \in Seq(Nat) /\ arrived \in Nat /\ QueueMax \in Nat
      /\ Len(report_queue) \in Nat /\ Len(report_queue) <= QueueMax
  BY HidAssumption DEF QueueOK
<1>a. \A r \in Nat : hid_input_report_write(r) \in [Cells -> Nat]
  BY DEF hid_input_report_write
<1>1. CASE update_pushes
  <2>1. CASE Len(report_queue) >= QueueMax
    BY <1>1, <2>1, <1>0 DEF update_pushes, QueueOK, FrontInPlace
  <2>2. CASE ~(Len(report_queue) >= QueueMax)
    <3>1. /\ report_queue' = Append(report_queue, arrived + 1) /\ wpc' = "pushed" /\ wpc = "idle"
          /\ arrived' = arrived + 1 /\ UNCHANGED <<input_report, exec>>
      BY <1>1, <2>2 DEF update_pushes
    <3>2. /\ report_queue' \in Seq(Nat) /\ Len(report_queue') = Len(report_queue) + 1
          /\ report_queue # <<>> => Head(report_queue') = Head(report_queue)
          /\ Len(report_queue') >= 2 => report_queue # <<>>
          /\ report_queue' # <<>>
      BY <3>1, <1>0
    <3> QED
      BY <3>1, <3>2, <2>2, <1>0 DEF QueueOK, FrontInPlace
  <2> QED
    BY <2>1, <2>2
<1>2. CASE update_writes
  <2>0. PICK r \in 0 .. arrived : /\ report_queue # <<>> => r = Head(report_queue)
                                 /\ input_report' = hid_input_report_write(r)
    BY <1>2 DEF update_writes
  <2>1. wpc' = "written" /\ UNCHANGED <<report_queue, exec, arrived>> /\ r \in Nat
    BY <1>2, <1>0 DEF update_writes
  <2> QED
    BY <2>0, <2>1, <1>0, <1>a DEF QueueOK, FrontInPlace
<1>9. CASE update_tests
  <2>1. /\ wpc = "pushed" /\ wpc' = IF Len(report_queue) = 1 THEN "writing" ELSE "written"
        /\ UNCHANGED <<report_queue, exec, arrived, input_report>>
    BY <1>9 DEF update_tests, hidVars
  <2>2. report_queue # <<>> /\ Len(report_queue) # 1 => Len(report_queue) >= 2
    <3>1. report_queue # <<>> => Len(report_queue) # 0
      BY <1>0, SeqFront
    <3>2. \A k \in Nat : k = 0 \/ k = 1 \/ k >= 2
      OBVIOUS
    <3> QED
      BY <3>1, <3>2, <1>0
  <2>3. CASE Len(report_queue) = 1
    BY <2>1, <2>3, <1>0 DEF QueueOK, FrontInPlace
  <2>4. CASE Len(report_queue) # 1
    BY <2>1, <2>2, <2>4 DEF QueueOK, FrontInPlace
  <2> QED
    BY <2>3, <2>4
<1>3. CASE update_checks \/ update_announces
  BY <1>3 DEF update_checks, update_announces, QueueOK, FrontInPlace, hidVars
<1>4. CASE tick \/ execute_command \/ stop_transmit_announces \/ execute_finish
  <2>1. /\ UNCHANGED <<report_queue, input_report, arrived, wpc>> /\ exec # "refill"
    BY <1>4 DEF tick, execute_command, start_transmit, dev_write, stop_transmit_announces,
                execute_finish, hidVars
  <2> QED
    BY <2>1 DEF QueueOK, FrontInPlace
<1>5. CASE execute_read
  <2>1. CASE exec' = "refill"
    <3>1. /\ report_queue' \in {report_queue, IF report_queue = <<>> THEN <<>> ELSE Tail(report_queue)}
          /\ UNCHANGED <<arrived, wpc, input_report>>
      BY <1>5 DEF execute_read
    <3>2. report_queue' \in Seq(Nat) /\ Len(report_queue') <= QueueMax
      BY <3>1, <1>0
    <3> QED
      BY <2>1, <3>1, <3>2 DEF QueueOK, FrontInPlace
  <2>2. CASE exec' # "refill"
    BY <1>5, <2>2 DEF execute_read, QueueOK, FrontInPlace
  <2> QED
    BY <2>1, <2>2
<1>6. CASE dev_read_refills
  <2>1. CASE report_queue # <<>>
    <3>1. /\ input_report' = hid_input_report_write(Head(report_queue))
          /\ UNCHANGED <<report_queue, arrived>>
      BY <1>6, <2>1 DEF dev_read_refills
    <3>2. Head(report_queue) \in Nat
      BY <1>0, <2>1
    <3> QED
      BY <3>1, <3>2, <1>0, <1>a DEF QueueOK, FrontInPlace
  <2>2. CASE report_queue = <<>>
    BY <1>6, <2>2 DEF dev_read_refills, QueueOK, FrontInPlace
  <2> QED
    BY <2>1, <2>2
<1>7. CASE stop_transmit
  <2>1. CASE report_queue' = <<>>
    <3>1. /\ arrived' = arrived
          /\ \/ input_report' = input_report
             \/ input_report' = [i \in Cells |-> IF i = 1 THEN 0 ELSE input_report[i]]
      BY <1>7 DEF stop_transmit, hid_event_command_register_write
    <3>2. input_report' \in [Cells -> Nat]
      BY <3>1 DEF QueueOK
    <3> QED
      BY <2>1, <3>1, <3>2, HidAssumption DEF QueueOK
  <2>2. CASE report_queue' # <<>>
    <3>1. UNCHANGED <<report_queue, input_report, arrived, wpc>> /\ exec # "refill"
      BY <1>7, <2>2 DEF stop_transmit, hid_event_command_register_write
    <3> QED
      BY <3>1 DEF QueueOK, FrontInPlace
  <2> QED
    BY <2>1, <2>2
<1>8. CASE HandlerStep \/ GuestStep \/ GuestTransacts \/ GuestDisables
  <2>1. UNCHANGED <<report_queue, input_report, arrived, wpc, exec>>
    BY <1>8 DEF HandlerStep, HandlerClaims, HandlerMasks, HandlerCompletes, HandlerReads,
                HandlerUnmasks, GuestStep, GuestConfigures, GuestRoutes, GuestIssues,
                GuestTransacts, GuestDisables, hidVars
  <2> QED
    BY <2>1 DEF QueueOK, FrontInPlace
<1> QED
  BY <1>1, <1>2, <1>3, <1>4, <1>5, <1>6, <1>7, <1>8, <1>9 DEF I2cNext, WindowStep, BusStep

-----------------------------------------------------------------------------
(* The commands of a transaction. *)
LEMMA Kinds ==
  ASSUME NEW t \in Names, NEW n \in 1 .. N(t)
  PROVE  /\ IsAddress(t, n) \/ IsStop(t, n) \/ IsRead(t, n) \/ IsWrite(t, n)
         /\ IsAddress(t, n) => /\ ~IsStop(t, n) /\ CmdOf(t, n).cr = {"STA", "WR", "IACK"}
         /\ IsStop(t, n) => CmdOf(t, n).cr = {"STO", "IACK"}
         /\ IsRead(t, n) => ~IsStop(t, n) /\ CmdOf(t, n).cr = {"RD", "IACK"}
         /\ IsWrite(t, n) => /\ ~IsStop(t, n) /\ CmdOf(t, n).cr = {"WR", "IACK"}
                             /\ CmdOf(t, n).txr = ByteOf(t, n)
<1>0. N(t) \in Nat /\ N(t) >= 3 /\ n \in Nat /\ n >= 1
  BY Lengths
<1>1. IsAddress(t, n) \/ IsStop(t, n) \/ IsRead(t, n) \/ IsWrite(t, n)
  BY <1>0 DEF IsWrite, IsAddress
<1>2. IsAddress(t, n) => ~IsStop(t, n) /\ ~IsRead(t, n)
  BY <1>0, Lengths DEF IsAddress, IsStop, IsRead, N
<1>3. IsRead(t, n) => ~IsStop(t, n) /\ ~IsAddress(t, n)
  BY <1>0, Lengths DEF IsAddress, IsStop, IsRead, N
<1>4. IsWrite(t, n) => ~IsStop(t, n) /\ ~IsRead(t, n) /\ ~IsAddress(t, n)
  BY DEF IsWrite
<1>5. IsStop(t, n) => ~IsAddress(t, n)
  BY <1>2
<1>6. /\ IsAddress(t, n) => CmdOf(t, n).cr = {"STA", "WR"} \cup {"IACK"}
      /\ IsStop(t, n) => CmdOf(t, n).cr = {"STO"} \cup {"IACK"}
      /\ IsRead(t, n) => CmdOf(t, n).cr = {"RD"} \cup {"IACK"}
      /\ IsWrite(t, n) => CmdOf(t, n).cr = {"WR"} \cup {"IACK"} /\ CmdOf(t, n).txr = ByteOf(t, n)
  BY <1>2, <1>3, <1>4, <1>5 DEF CmdOf, Address, Stop, Read, Write, Command
<1> QED
  BY <1>1, <1>2, <1>3, <1>4, <1>6

(* A report in place for a read stays so when reports arrive. *)
LEMMA ReadingKept ==
  ASSUME NEW t, NEW m, Reading(t, m), UNCHANGED <<got, expected, cur_reg>>,
         report_queue # <<>> => report_queue' # <<>> /\ Head(report_queue') = Head(report_queue),
         \/ input_report' = input_report \/ report_queue = <<>>
         \/ input_report' = hid_input_report_write(Head(report_queue))
  PROVE  Reading(t, m)'
BY DEF Reading

LEMMA ProgressKept ==
  ASSUME NEW t, NEW n, Progress(t, n),
         UNCHANGED <<tx, op_active, exec, sr, cr, txr, cur_reg, device_selected, current_address,
                     io_offset, got, expected>>,
         report_queue # <<>> => report_queue' # <<>> /\ Head(report_queue') = Head(report_queue),
         \/ input_report' = input_report \/ report_queue = <<>>
         \/ input_report' = hid_input_report_write(Head(report_queue))
  PROVE  Progress(t, n)'
<1>1. \A m : Reading(t, m) => Reading(t, m)'
  BY ReadingKept
<1>2. \A m : At(t, m) => At(t, m)'
  BY <1>1 DEF At
<1> QED
  BY <1>2 DEF Progress, Busy

-----------------------------------------------------------------------------
(* The steps of a command, each from command n of transaction t. *)
OffsetOK == io_offset \in 0 .. (ReportSize + 4)

LEMMA IssueStep ==
  ASSUME NEW t \in Names, NEW n \in 0 .. N(t), Progress(t, n), BusOK, GuestIssues
  PROVE  ProgressOK'
<1>1. /\ exec = "idle" /\ exec' = "idle" /\ tx # <<>> /\ "TIP" \notin sr
      /\ txr' = Head(tx).txr /\ cr' = Head(tx).cr /\ tx' = Tail(tx)
      /\ op_active' = TRUE /\ "TIP" \in sr'
      /\ UNCHANGED <<current_address, device_selected, cur_reg, io_offset, report_queue,
                     input_report, expected, got>>
  BY DEF GuestIssues, write_cr, hidVars
<1>2. tx = Rest(t, n) /\ ~Busy /\ At(t, n)
  BY <1>1 DEF Progress, Busy
<1>3. /\ n + 1 \in 0 .. N(t) /\ n + 1 >= 1 /\ (n + 1) - 1 = n
      /\ Head(tx) = CmdOf(t, n + 1) /\ tx' = Rest(t, n + 1)
  BY <1>1, <1>2, RestStep, Lengths
<1>4. At(t, n)'
  BY <1>1, <1>2 DEF At, Reading
<1>5. "IACK" \in CmdOf(t, n + 1).cr
  <2>1. n + 1 \in 1 .. N(t)
    BY <1>3
  <2> QED
    BY <2>1, Kinds
<1>6. Progress(t, n + 1)'
  BY <1>1, <1>3, <1>4, <1>5 DEF Progress, Busy
<1> QED
  BY <1>3, <1>6 DEF ProgressOK

LEMMA TickStep ==
  ASSUME NEW t \in Names, NEW n \in 0 .. N(t), Progress(t, n), BusOK, tick
  PROVE  Progress(t, n)'
<1>1. /\ exec = "idle" /\ op_active
      /\ (exec' = "idle" /\ op_active') \/ (exec' = "command" /\ ~op_active')
      /\ UNCHANGED <<tx, cr, sr, txr, current_address, device_selected, cur_reg, io_offset,
                     report_queue, input_report, expected, got>>
  BY DEF tick, hidVars, guestVars
<1>2. At(t, n - 1)'
  BY <1>1 DEF Progress, At, Reading
<1> QED
  BY <1>1, <1>2 DEF Progress, Busy

(* A new transaction begins where the last one left the keyboard. *)
LEMMA BeginStep ==
  ASSUME NEW t \in Names, NEW n \in 0 .. N(t), Progress(t, n), BusFree,
         NEW u \in Names, tx' = Tx(u),
         UNCHANGED <<op_active, exec, cur_reg, device_selected>>
  PROVE  ProgressOK'
<1>1. tx = <<>> /\ ~Busy /\ ~Busy' /\ exec' = "idle" /\ op_active' = op_active /\ ~op_active
  BY DEF BusFree, Busy
<1>2. n = N(t) /\ At(t, N(t)) /\ N(t) \in Nat
  BY <1>1, RestStep, Lengths DEF Progress
<1>3. cur_reg \in 0 .. 7 /\ ~device_selected
  BY <1>2 DEF At, RegsAfter, SelAfter
<1>4. At(u, 0)'
  BY <1>3, Lengths DEF At, RegsAfter, SelAfter, Reading
<1>5. Progress(u, 0)' /\ 0 \in 0 .. N(u)
  BY <1>1, <1>4, TxIsRest, Lengths DEF Progress
<1> QED
  BY <1>5 DEF ProgressOK

LEMMA FinishStep ==
  ASSUME NEW t \in Names, NEW n \in 0 .. N(t), Progress(t, n), BusOK, execute_finish
  PROVE  Progress(t, n)'
<1>1. /\ exec = "finish" /\ exec' = "idle" /\ ~op_active /\ ~op_active'
      /\ device_selected' = (device_selected /\ "STO" \notin cr)
      /\ UNCHANGED <<tx, cr, txr, current_address, cur_reg, io_offset,
                     report_queue, input_report, expected, got>>
  BY DEF execute_finish, hidVars, guestVars, Progress
<1>2. n \in 1 .. N(t) /\ cr \cup {"IACK"} = CmdOf(t, n).cr
  BY <1>1, Lengths DEF Progress, Busy
<1>3. CASE IsStop(t, n)
  <2>1. "STO" \in cr
    BY <1>2, <1>3, Kinds
  <2>2. cur_reg' \in 0 .. 7 /\ ~device_selected'
    BY <1>1, <1>3, <2>1 DEF Progress
  <2>3. At(t, n)'
    BY <2>2, <1>3, Lengths DEF At, RegsAfter, SelAfter, Reading, IsStop, N
  <2> QED
    BY <1>1, <2>3 DEF Progress, Busy
<1>4. CASE ~IsStop(t, n)
  <2>1. "STO" \notin cr
    BY <1>2, <1>4, Kinds
  <2>2. device_selected' = device_selected
    BY <1>1, <2>1 DEF BusOK
  <2>3. At(t, n)'
    BY <1>1, <1>4, <2>2 DEF Progress, At, Reading
  <2> QED
    BY <1>1, <2>3 DEF Progress, Busy
<1> QED
  BY <1>3, <1>4

LEMMA StopStep ==
  ASSUME NEW t \in Names, NEW n \in 0 .. N(t), Progress(t, n), BusOK,
         stop_transmit \/ stop_transmit_announces
  PROVE  Progress(t, n)' /\ OffsetOK'
<1>0. /\ exec \in {"stop", "announce"} /\ exec' \in {"announce", "finish"}
      /\ UNCHANGED <<tx, cr, sr, txr, op_active>>
  <2>1. CASE stop_transmit
    BY <2>1 DEF stop_transmit, busVars, guestVars
  <2>2. CASE stop_transmit_announces
    BY <2>2 DEF stop_transmit_announces, busVars, guestVars
  <2> QED
    BY <2>1, <2>2
<1>1. ~op_active /\ ~op_active' /\ IsStop(t, n)
  BY <1>0 DEF Progress
<1>2. cur_reg' \in 0 .. 7 /\ OffsetOK'
  <2>1. CASE stop_transmit /\ device_selected
    <3>1. cur_reg' = 3 /\ (io_offset' = 0 \/ io_offset' = io_offset)
      BY <2>1 DEF stop_transmit, hid_event_command_register_write
    <3> QED
      BY <3>1, Lengths DEF BusOK, OffsetOK
  <2>2. CASE stop_transmit /\ ~device_selected
    <3>1. At(t, n - 1) /\ n = N(t) /\ ~SelAfter(t, n - 1)
      BY <1>0, <1>1, <2>2 DEF stop_transmit, Progress, At, IsStop
    <3>2. t = "probe"
      BY <3>1, Lengths DEF SelAfter
    <3> QED
      BY <2>2, <3>1, <3>2 DEF stop_transmit, At, RegsAfter, BusOK, OffsetOK
  <2>3. CASE stop_transmit_announces
    BY <2>3, <1>0, <1>1 DEF stop_transmit_announces, hidVars, Progress, BusOK, OffsetOK
  <2> QED
    BY <2>1, <2>2, <2>3
<1> QED
  BY <1>0, <1>1, <1>2 DEF Progress, Busy

(* What the read of a byte of the report sees, k bytes after the first. *)
LEMMA OneMore ==
  ASSUME NEW e, NEW k \in Nat, NEW s, s = [i \in 1 .. k |-> e]
  PROVE  Append(s, e) = [i \in 1 .. (k + 1) |-> e]
<1>1. s \in Seq({e}) /\ Len(s) = k
  <2>1. s \in [1 .. k -> {e}]
    OBVIOUS
  <2> QED
    BY <2>1
<1>2. /\ Append(s, e) \in Seq({e}) /\ Len(Append(s, e)) = k + 1
      /\ \A i \in 1 .. (k + 1) : Append(s, e)[i] = e
  BY <1>1
<1>3. Append(s, e) = [i \in 1 .. (k + 1) |-> Append(s, e)[i]]
  BY <1>2
<1> QED
  BY <1>2, <1>3

(* A read of the report finds the keyboard at byte n - 1 of it. *)
LEMMA ReadsByte ==
  ASSUME NEW n \in 0 .. N("read"), Progress("read", n), exec = "read"
  PROVE  /\ n \in 2 .. (ReportSize + 1) /\ At("read", n - 1)
         /\ device_selected /\ cur_reg \in 0 .. 7 /\ io_offset = n - 2
         /\ current_address = KbdAddress
         /\ TakesReport <=> cur_reg = 3 /\ n = ReportSize + 1
         /\ expected # 0 =>
              /\ got = [i \in 1 .. (n - 2) |-> expected]
              /\ report_queue # <<>> /\ Head(report_queue) = expected
              /\ dev_read_value = expected
<1>1. IsRead("read", n) /\ At("read", n - 1)
  BY DEF Progress
<1>2. n \in 2 .. (ReportSize + 1) /\ n \in Nat
  BY <1>1, Lengths DEF IsRead
<1>3. SelAfter("read", n - 1) /\ OffsAfter("read", n - 1) = {n - 2}
  BY <1>2, Lengths DEF SelAfter, OffsAfter
<1>4. device_selected /\ cur_reg \in 0 .. 7 /\ io_offset = n - 2 /\ current_address = KbdAddress
  BY <1>1, <1>3 DEF At, RegsAfter
<1>5. TakesReport <=> cur_reg = 3 /\ n = ReportSize + 1
  BY <1>2, <1>4, Lengths DEF TakesReport
<1>6. expected # 0 => /\ cur_reg = 3
                      /\ got = [i \in 1 .. (n - 2) |-> expected]
                      /\ report_queue # <<>> /\ Head(report_queue) = expected
                      /\ input_report = hid_input_report_write(expected)
  <2>1. 1 <= n - 1 /\ n - 1 <= ReportSize /\ (n - 1) - 1 = n - 2
    BY <1>2, Lengths
  <2> QED
    BY <1>1, <2>1 DEF At, Reading
<1>7. cur_reg = 3 => dev_read_value = input_report[n - 1]
  <2>1. io_offset < ReportSize /\ io_offset + 1 = n - 1
    BY <1>2, <1>4, Lengths
  <2> QED
    BY <1>4, <2>1 DEF dev_read_value
<1>8. n - 1 \in Cells
  BY <1>2, Lengths DEF Cells
<1>9. expected # 0 => dev_read_value = expected
  BY <1>6, <1>7, <1>8 DEF hid_input_report_write
<1> QED
  BY <1>1, <1>2, <1>4, <1>5, <1>6, <1>9

LEMMA ReadStep ==
  ASSUME NEW t \in Names, NEW n \in 0 .. N(t), Progress(t, n), BusOK, execute_read
  PROVE  Progress(t, n)' /\ OffsetOK'
<1>1. /\ exec = "read" /\ rxr' = IF device_selected THEN dev_read_value ELSE 255
      /\ "TIP" \in sr' /\ got' = Append(got, rxr')
      /\ UNCHANGED <<cr, txr, current_address, device_selected, op_active, cur_reg,
                     input_report, tx, expected>>
  BY DEF execute_read
<1>2. ~op_active /\ IsRead(t, n) /\ At(t, n - 1) /\ n \in 1 .. N(t) /\ n \in Nat
  BY <1>1, Lengths DEF Progress, Busy
<1>3. ~("STO" \in cr \ {"RD"}) /\ ~("RD" \in cr \ {"RD"}) /\ ~IsStop(t, n)
  <2>1. cr \cup {"IACK"} = CmdOf(t, n).cr
    BY <1>1 DEF Progress, Busy
  <2> QED
    BY <2>1, <1>2, Kinds
<1>4. After({"RD"}) = "finish"
  BY <1>3 DEF After
<1>5. ASSUME exec' = "finish", At(t, n)'
      PROVE  Progress(t, n)'
  BY <1>1, <1>2, <1>3, <1>5 DEF Progress, Busy
<1>6. CASE t = "read" /\ n = ReportSize + 1
  <2>1. device_selected /\ cur_reg \in 0 .. 7 /\ io_offset = n - 2
        /\ current_address = KbdAddress
    BY <1>1, <1>6, ReadsByte
  <2>2. \/ exec' = "refill" /\ io_offset' = io_offset
        \/ exec' = "finish" /\ io_offset' = io_offset + 1
    BY <1>4, <2>1 DEF execute_read
  <2>3. /\ exec' = "refill" => io_offset' = ReportSize - 1
        /\ io_offset' \in {ReportSize - 1, ReportSize} /\ io_offset' \in OffsAfter("read", n)
    BY <1>6, <2>1, <2>2, Lengths DEF OffsAfter
  <2>4. SelAfter("read", n)
    BY <1>6, Lengths DEF SelAfter
  <2>5. Reading("read", n)'
    BY <1>6, Lengths DEF Reading
  <2>6. At("read", n)'
    BY <1>1, <2>1, <2>3, <2>4, <2>5 DEF At, RegsAfter
  <2>7. CASE exec' = "refill"
    BY <1>1, <1>2, <1>6, <2>3, <2>6, <2>7, Lengths DEF Progress, Busy, OffsetOK
  <2>8. CASE exec' = "finish"
    BY <1>5, <1>6, <2>3, <2>6, <2>8, Lengths DEF OffsetOK
  <2> QED
    BY <2>2, <2>7, <2>8
<1>7. CASE t = "read" /\ n # ReportSize + 1
  <2>1. /\ ~TakesReport /\ device_selected /\ cur_reg \in 0 .. 7 /\ io_offset = n - 2
        /\ current_address = KbdAddress /\ n \in 2 .. ReportSize
    BY <1>1, <1>7, ReadsByte, Lengths
  <2>2. exec' = "finish" /\ io_offset' = io_offset + 1 /\ report_queue' = report_queue
    BY <1>4, <2>1 DEF execute_read
  <2>3. io_offset' = n - 1 /\ OffsAfter("read", n) = {n - 1} /\ SelAfter("read", n)
    BY <2>1, <2>2, Lengths DEF OffsAfter, SelAfter
  <2>4. Reading("read", n)'
    <3>1. SUFFICES ASSUME expected # 0
                   PROVE  /\ cur_reg = 3 /\ got' = [i \in 1 .. (n - 1) |-> expected]
                          /\ report_queue # <<>> /\ Head(report_queue) = expected
                          /\ input_report = hid_input_report_write(expected)
      BY <1>1, <2>2 DEF Reading
    <3>2. /\ got = [i \in 1 .. (n - 2) |-> expected] /\ dev_read_value = expected
          /\ report_queue # <<>> /\ Head(report_queue) = expected
      BY <1>1, <1>7, <3>1, ReadsByte
    <3>3. got' = Append(got, expected)
      BY <1>1, <2>1, <3>2
    <3>4. n - 2 \in Nat /\ (n - 2) + 1 = n - 1
      BY <2>1, Lengths
    <3>5. got' = [i \in 1 .. (n - 1) |-> expected]
      <4>1. Append(got, expected) = [i \in 1 .. ((n - 2) + 1) |-> expected]
        BY <3>2, <3>4, OneMore
      <4> QED
        BY <3>3, <3>4, <4>1
    <3>6. cur_reg = 3 /\ input_report = hid_input_report_write(expected)
      <4>1. 1 <= n - 1 /\ n - 1 <= ReportSize
        BY <2>1, Lengths
      <4> QED
        BY <1>2, <1>7, <3>1, <4>1 DEF At, Reading
    <3> QED
      BY <3>2, <3>5, <3>6
  <2>5. At("read", n)'
    BY <1>1, <2>1, <2>3, <2>4 DEF At, RegsAfter
  <2> QED
    BY <1>5, <1>7, <2>1, <2>2, <2>3, <2>5, Lengths DEF OffsetOK
<1>8. CASE t = "desc"
  <2>1. n = 5
    BY <1>2, <1>8 DEF IsRead
  <2>2. device_selected /\ cur_reg = 1 /\ io_offset = 0 /\ current_address = KbdAddress
    BY <1>2, <1>8, <2>1, Lengths DEF At, SelAfter, RegsAfter, OffsAfter, Target
  <2>3. exec' = "finish" /\ io_offset' = 1
    BY <1>4, <2>2 DEF execute_read, TakesReport
  <2>4. At("desc", 5)'
    BY <1>1, <2>2, <2>3, Lengths DEF At, SelAfter, RegsAfter, OffsAfter, Target, Reading
  <2> QED
    BY <1>5, <1>8, <2>1, <2>3, <2>4, Lengths DEF OffsetOK
<1>9. CASE t = "probe"
  <2>1. n = 2
    BY <1>2, <1>9 DEF IsRead
  <2>2. ~device_selected /\ cur_reg \in 0 .. 7
    BY <1>2, <1>9 DEF At, SelAfter, RegsAfter
  <2>3. exec' = "finish" /\ io_offset' = io_offset
    BY <1>4, <2>2 DEF execute_read
  <2>4. At("probe", 2)'
    BY <1>1, <2>2 DEF At, SelAfter, RegsAfter, Reading
  <2> QED
    BY <1>5, <1>9, <2>1, <2>3, <2>4 DEF OffsetOK, BusOK
<1> QED
  BY <1>2, <1>6, <1>7, <1>8, <1>9 DEF IsRead

LEMMA RefillStep ==
  ASSUME NEW t \in Names, NEW n \in 0 .. N(t), Progress(t, n), BusOK, dev_read_refills
  PROVE  Progress(t, n)' /\ OffsetOK'
<1>1. /\ exec = "refill" /\ exec' = After({"RD"})
      /\ io_offset' \in {io_offset, io_offset + 1}
      /\ UNCHANGED <<cr, sr, txr, current_address, device_selected, op_active, cur_reg, tx,
                     expected, got, report_queue>>
  BY DEF dev_read_refills, busVars, guestVars
<1>2. /\ t = "read" /\ n = ReportSize + 1 /\ At(t, n) /\ io_offset = ReportSize - 1
      /\ ~op_active /\ n \in 1 .. N(t) /\ cr \cup {"IACK"} = CmdOf(t, n).cr
  BY <1>1, Lengths DEF Progress, Busy
<1>3. IsRead(t, n) /\ ~IsStop(t, n)
  BY <1>2, Lengths DEF IsRead, IsStop
<1>4. exec' = "finish"
  <2>1. ~("STO" \in cr \ {"RD"}) /\ ~("RD" \in cr \ {"RD"})
    BY <1>2, <1>3, Kinds
  <2> QED
    BY <1>1, <2>1 DEF After
<1>5. io_offset' \in {ReportSize - 1, ReportSize}
  BY <1>1, <1>2, Lengths
<1>6. Reading(t, n)'
  BY <1>2, Lengths DEF Reading
<1>7. At(t, n)'
  BY <1>1, <1>2, <1>5, <1>6, Lengths DEF At, OffsAfter
<1>8. Progress(t, n)'
  BY <1>1, <1>2, <1>3, <1>4, <1>7 DEF Progress, Busy
<1> QED
  BY <1>5, <1>8, Lengths DEF OffsetOK

(* execute_command, by the kind of the command. *)
LEMMA CommandStep ==
  ASSUME NEW t \in Names, NEW n \in 0 .. N(t), Progress(t, n), BusOK, QueueOK, execute_command
  PROVE  Progress(t, n)' /\ OffsetOK'
<1> DEFINE addressing == "WR" \in cr /\ ("STA" \in cr \/ current_address = NoAddress)
           matches == txr \div 2 = KbdAddress
           sending == "WR" \in cr /\ ~addressing
<1>1. /\ exec = "command"
      /\ exec' = IF cr \cap {"STA", "STO", "RD", "WR"} = {} THEN "idle" ELSE After({})
      /\ cr' = cr \ {"IACK"} /\ UNCHANGED <<txr, op_active, tx, report_queue, input_report>>
      /\ current_address' = IF addressing THEN txr \div 2
                            ELSE IF "STA" \in cr THEN NoAddress ELSE current_address
      /\ device_selected' = IF addressing THEN matches ELSE device_selected
      /\ IF addressing /\ matches THEN start_transmit
         ELSE IF sending /\ device_selected THEN dev_write(txr)
         ELSE UNCHANGED hidVars
      /\ expected' = IF addressing /\ txr = (2 * KbdAddress) + 1 /\ FrontInPlace /\ cur_reg = 3
                     THEN Head(report_queue) ELSE IF addressing THEN 0 ELSE expected
      /\ got' = IF addressing THEN <<>> ELSE got
  BY DEF execute_command, start_transmit, dev_write, hidVars
<1>2. "TIP" \in sr => "TIP" \in sr'
  <2>1. sr \ {"IF", "RxACK"} \subseteq sr'
    BY DEF execute_command
  <2> QED
    BY <2>1
<1>3. /\ ~op_active /\ ~op_active' /\ n \in 1 .. N(t) /\ n \in Nat /\ "TIP" \in sr'
      /\ cr = CmdOf(t, n).cr /\ txr = CmdOf(t, n).txr /\ At(t, n - 1)
      /\ cr' \cup {"IACK"} = cr
  <2>1. "TIP" \in sr /\ "IACK" \in cr /\ cr \cup {"IACK"} = CmdOf(t, n).cr
    BY <1>1 DEF Progress, Busy
  <2>2. cr = CmdOf(t, n).cr /\ cr' \cup {"IACK"} = cr
    BY <1>1, <2>1
  <2> QED
    BY <1>1, <1>2, <2>1, <2>2, Lengths DEF Progress, Busy
<1>4. ASSUME exec' = "finish", ~IsStop(t, n), At(t, n)'
      PROVE  Progress(t, n)'
  BY <1>1, <1>3, <1>4 DEF Progress, Busy
<1> HIDE DEF addressing, matches, sending
<1>5. CASE IsAddress(t, n)
  <2>1. ~IsStop(t, n) /\ cr = {"STA", "WR", "IACK"} /\ addressing
    BY <1>3, <1>5, Kinds DEF addressing
  <2>2. exec' = "finish"
    <3>1. cr \cap {"STA", "STO", "RD", "WR"} # {}
      BY <2>1
    <3>2. After({}) = "finish"
      BY <2>1 DEF After
    <3> QED
      BY <1>1, <3>1, <3>2
  <2>3. txr = IF t = "probe" THEN (2 * (KbdAddress + 1)) + 1
              ELSE IF t = "read" \/ n = 4 THEN (2 * KbdAddress) + 1 ELSE 2 * KbdAddress
    <3>1. CmdOf(t, n) = Address(IF t = "probe" THEN KbdAddress + 1 ELSE KbdAddress,
                                IF t \in {"read", "probe"} \/ n = 4 THEN 1 ELSE 0)
      BY <1>5 DEF CmdOf
    <3> QED
      BY <1>3, <3>1, KbdIsBit DEF Address, Command, KbdAddress
  <2>4. txr \div 2 = IF t = "probe" THEN KbdAddress + 1 ELSE KbdAddress
    BY <2>3, KbdIsBit DEF KbdAddress
  <2>5. matches <=> t # "probe"
    BY <2>4, KbdIsBit DEF matches, KbdAddress
  <2>6. CASE t = "probe"
    <3>1. ~device_selected' /\ UNCHANGED <<cur_reg, io_offset>> /\ n = 1
      BY <1>1, <1>5, <2>1, <2>5, <2>6 DEF hidVars, sending, IsAddress
    <3>2. cur_reg \in 0 .. 7
      BY <1>3, <2>6 DEF At, RegsAfter
    <3>3. At(t, n)'
      BY <2>6, <3>1, <3>2 DEF At, SelAfter, RegsAfter, Reading
    <3> QED
      BY <1>4, <2>1, <2>2, <3>1, <3>3 DEF OffsetOK, BusOK
  <2>7. CASE t # "probe"
    <3>1. /\ device_selected' /\ current_address' = KbdAddress /\ io_offset' = 0
          /\ cur_reg' = cur_reg /\ got' = <<>>
      BY <1>1, <2>1, <2>4, <2>5, <2>7 DEF start_transmit
    <3>2. SelAfter(t, n) /\ RegsAfter(t, n) = RegsAfter(t, n - 1) /\ 0 \in OffsAfter(t, n)
      BY <1>5, <2>7, Lengths DEF IsAddress, SelAfter, RegsAfter, OffsAfter
    <3>3. Reading(t, n)'
      <4>1. SUFFICES ASSUME t = "read", n = 1, expected' # 0
                     PROVE  /\ cur_reg = 3 /\ got' = [i \in 1 .. (n - 1) |-> expected']
                            /\ report_queue # <<>> /\ Head(report_queue) = expected'
                            /\ input_report = hid_input_report_write(expected')
        BY <1>1, <1>5, <3>1 DEF Reading, IsAddress
      <4>2. cur_reg = 3 /\ FrontInPlace /\ expected' = Head(report_queue)
        BY <1>1, <2>1, <4>1
      <4>3. got' = [i \in 1 .. 0 |-> expected']
        BY <3>1
      <4> QED
        BY <4>1, <4>2, <4>3 DEF FrontInPlace
    <3>4. At(t, n)'
      BY <1>3, <3>1, <3>2, <3>3 DEF At
    <3> QED
      BY <1>4, <2>1, <2>2, <3>1, <3>4, Lengths DEF OffsetOK
  <2> QED
    BY <2>6, <2>7
<1>6. CASE IsStop(t, n) \/ IsRead(t, n)
  <2>1. /\ IsStop(t, n) => cr = {"STO", "IACK"}
        /\ IsRead(t, n) => cr = {"RD", "IACK"}
    BY <1>3, Kinds
  <2>2. ~addressing /\ ~sending /\ "STA" \notin cr
    BY <1>6, <2>1 DEF addressing, sending
  <2>3. /\ UNCHANGED <<current_address, device_selected, expected, got>>
        /\ UNCHANGED <<cur_reg, io_offset>>
    BY <1>1, <2>2 DEF hidVars
  <2>4. At(t, n - 1)'
    BY <1>1, <1>3, <2>3 DEF At, Reading
  <2>5. (exec' = "stop" /\ IsStop(t, n)) \/ (exec' = "read" /\ IsRead(t, n))
    <3>1. cr \cap {"STA", "STO", "RD", "WR"} # {}
      BY <1>6, <2>1
    <3>2. exec' = After({})
      BY <1>1, <3>1
    <3>3. CASE IsStop(t, n)
      BY <2>1, <3>2, <3>3 DEF After
    <3>4. CASE IsRead(t, n)
      BY <2>1, <3>2, <3>4 DEF After
    <3> QED
      BY <1>6, <3>3, <3>4
  <2>6. Progress(t, n)'
    BY <1>1, <1>3, <2>4, <2>5 DEF Progress, Busy
  <2> QED
    BY <2>3, <2>6 DEF OffsetOK, BusOK
<1>7. CASE IsWrite(t, n)
  <2>1. ~IsStop(t, n) /\ cr = {"WR", "IACK"} /\ txr = ByteOf(t, n)
    BY <1>3, <1>7, Kinds
  <2>2. t \in {"reset", "desc", "output"} /\ n \in 2 .. 5 /\ (t = "desc" => n \in 2 .. 3)
        /\ n < N(t)
    BY <1>7, Lengths DEF IsWrite, IsAddress, IsStop, IsRead, N, Names
  <2>3. SelAfter(t, n - 1) /\ OffsAfter(t, n - 1) = {n - 2}
    BY <2>2, Lengths DEF SelAfter, OffsAfter
  <2>4. /\ device_selected /\ current_address = KbdAddress /\ io_offset = n - 2
        /\ cur_reg \in RegsAfter(t, n - 1)
    BY <1>3, <2>3 DEF At
  <2>5. ~addressing /\ sending
    BY <2>1, <2>4, AddressAssumption, KbdIsBit DEF addressing, sending, KbdAddress, NoAddress
  <2>6. /\ dev_write(txr) /\ "STA" \notin cr
        /\ UNCHANGED <<current_address, expected, got>> /\ device_selected'
    BY <1>1, <2>1, <2>4, <2>5
  <2>7. exec' = "finish"
    <3>1. cr \cap {"STA", "STO", "RD", "WR"} # {}
      BY <2>1
    <3>2. After({}) = "finish"
      BY <2>1 DEF After
    <3> QED
      BY <1>1, <3>1, <3>2
  <2>8. cur_reg' = Target(t) /\ io_offset' = n - 1
    <3>1. CASE n = 2
      BY <2>1, <2>4, <2>6, <3>1 DEF dev_write, ByteOf
    <3>2. CASE n = 3
      <4>1. cur_reg = Target(t) /\ txr = 0 /\ io_offset = 1
        BY <2>1, <2>2, <2>4, <3>2, Lengths DEF RegsAfter, ByteOf
      <4> QED
        BY <2>6, <3>2, <4>1, Lengths DEF dev_write, Target
    <3>3. CASE n \in 4 .. 5
      <4>1. cur_reg = Target(t) /\ t # "desc" /\ io_offset \in 2 .. 3
        BY <2>1, <2>2, <2>4, <3>3, Lengths DEF RegsAfter
      <4>2. cur_reg \in {5, 7}
        BY <2>2, <4>1 DEF Target
      <4> QED
        BY <2>4, <2>6, <3>3, <4>1, <4>2 DEF dev_write
    <3> QED
      BY <2>2, <3>1, <3>2, <3>3
  <2>9. SelAfter(t, n) /\ OffsAfter(t, n) = {n - 1} /\ RegsAfter(t, n) = {Target(t)}
    BY <2>2, Lengths DEF SelAfter, OffsAfter, RegsAfter
  <2>10. At(t, n)'
    BY <2>2, <2>4, <2>6, <2>8, <2>9 DEF At, Reading
  <2> QED
    BY <1>4, <2>1, <2>2, <2>7, <2>8, <2>10, Lengths DEF OffsetOK
<1> QED
  BY <1>3, <1>5, <1>6, <1>7, Kinds

-----------------------------------------------------------------------------
LEMMA OthersKeep ==
  ASSUME NEW t \in Names, NEW n \in 0 .. N(t), Progress(t, n), QueueOK, BusOK,
         \/ WindowStep \/ GuestConfigures \/ GuestRoutes
         \/ HandlerClaims \/ HandlerMasks \/ HandlerCompletes \/ HandlerUnmasks
  PROVE  Progress(t, n)'
<1>1. UNCHANGED <<tx, op_active, exec, sr, cr, txr, cur_reg, device_selected, current_address,
                  io_offset, got, expected>>
  BY DEF WindowStep, update_pushes, update_tests, update_writes, update_checks,
       update_announces, GuestConfigures, write_ctr,
         GuestRoutes, HandlerClaims, HandlerMasks, HandlerCompletes, HandlerUnmasks,
         busVars, hidVars, guestVars
<1>2. report_queue \in Seq(Nat)
  BY DEF QueueOK
<1>3. CASE update_pushes
  <2>1. report_queue' = report_queue \/ report_queue' = Append(report_queue, arrived + 1)
    BY <1>3 DEF update_pushes
  <2>2. report_queue # <<>> => report_queue' # <<>> /\ Head(report_queue') = Head(report_queue)
    BY <2>1, <1>2 DEF QueueOK
  <2>3. input_report' = input_report
    BY <1>3 DEF update_pushes
  <2> QED
    BY <1>1, <2>2, <2>3, ProgressKept
<1>4. CASE update_writes
  <2>1. PICK r \in 0 .. arrived : /\ report_queue # <<>> => r = Head(report_queue)
                                 /\ input_report' = hid_input_report_write(r)
    BY <1>4 DEF update_writes
  <2>2. report_queue' = report_queue
    BY <1>4 DEF update_writes
  <2> QED
    BY <1>1, <2>1, <2>2, ProgressKept
<1>5. CASE ~update_pushes /\ ~update_writes
  <2>1. UNCHANGED <<report_queue, input_report>>
    BY <1>5 DEF WindowStep, update_tests, update_checks, update_announces, GuestConfigures, GuestRoutes,
                HandlerClaims, HandlerMasks, HandlerCompletes, HandlerUnmasks, hidVars
  <2> QED
    BY <1>1, <2>1, ProgressKept
<1> QED
  BY <1>3, <1>4, <1>5

(* Every step of the bus leaves some transaction under way, and the offset *)
(* inside what the keyboard addresses.                                     *)
LEMMA ProgressStep ==
  ASSUME ProgressOK, QueueOK, BusOK, I2cNext
  PROVE  ProgressOK' /\ OffsetOK'
<1>a. PICK t \in Names : \E n \in 0 .. N(t) : Progress(t, n)
  BY DEF ProgressOK
<1>0. PICK n \in 0 .. N(t) : Progress(t, n)
  BY <1>a
<1>1. io_offset' = io_offset => OffsetOK'
  BY DEF BusOK, OffsetOK
<1>2. Progress(t, n)' => ProgressOK'
  BY DEF ProgressOK
<1>3. CASE \/ WindowStep \/ GuestConfigures \/ GuestRoutes
           \/ HandlerClaims \/ HandlerMasks \/ HandlerCompletes \/ HandlerUnmasks
  <2>1. Progress(t, n)'
    BY <1>0, <1>3, OthersKeep
  <2>2. io_offset' = io_offset
    BY <1>3 DEF WindowStep, update_pushes, update_tests, update_writes, update_checks,
       update_announces, GuestConfigures,
                GuestRoutes, HandlerClaims, HandlerMasks, HandlerCompletes, HandlerUnmasks,
                hidVars
  <2> QED
    BY <1>1, <1>2, <2>1, <2>2
<1>4. CASE tick
  <2>1. Progress(t, n)' /\ io_offset' = io_offset
    BY <1>0, <1>4, TickStep DEF tick, hidVars
  <2> QED
    BY <1>1, <1>2, <2>1
<1>5. CASE execute_command
  BY <1>0, <1>2, <1>5, CommandStep
<1>6. CASE execute_read
  BY <1>0, <1>2, <1>6, ReadStep
<1>7. CASE dev_read_refills
  BY <1>0, <1>2, <1>7, RefillStep
<1>8. CASE stop_transmit \/ stop_transmit_announces
  BY <1>0, <1>2, <1>8, StopStep
<1>9. CASE execute_finish
  <2>1. Progress(t, n)' /\ io_offset' = io_offset
    BY <1>0, <1>9, FinishStep DEF execute_finish, hidVars
  <2> QED
    BY <1>1, <1>2, <2>1
<1>10. CASE GuestIssues
  <2>1. ProgressOK' /\ io_offset' = io_offset
    BY <1>0, <1>10, IssueStep DEF GuestIssues, hidVars
  <2> QED
    BY <1>1, <2>1
<1>11. CASE GuestTransacts \/ HandlerReads
  <2>1. /\ BusFree /\ \E u \in Names : tx' = Tx(u)
        /\ UNCHANGED <<op_active, exec, cur_reg, device_selected, io_offset>>
    BY <1>11 DEF GuestTransacts, HandlerReads, Tx, Names, busVars, hidVars
  <2>2. ProgressOK'
    BY <1>0, <2>1, BeginStep
  <2> QED
    BY <1>1, <2>1, <2>2
<1>12. CASE GuestDisables
  <2>1. /\ tx = <<>> /\ ~op_active /\ exec = "idle" /\ ~device_selected'
        /\ UNCHANGED <<tx, op_active, exec, cur_reg, io_offset>>
    BY <1>12 DEF GuestDisables, BusFree, write_ctr, hidVars
  <2>2. n = N(t) /\ At(t, N(t)) /\ N(t) \in Nat
    BY <1>0, <2>1, RestStep, Lengths DEF Progress, Busy
  <2>3. At(t, n)'
    BY <2>1, <2>2, Lengths DEF At, SelAfter, Reading, N
  <2>4. Progress(t, n)'
    BY <1>0, <2>1, <2>3 DEF Progress, Busy
  <2> QED
    BY <1>1, <1>2, <2>1, <2>4
<1> QED
  BY <1>3, <1>4, <1>5, <1>6, <1>7, <1>8, <1>9, <1>10, <1>11, <1>12
  DEF I2cNext, BusStep, HandlerStep, GuestStep

LEMMA BusStepOK ==
  ASSUME ProgressOK, QueueOK, BusOK, I2cNext
  PROVE  BusOK'
<1>0. io_offset' \in 0 .. (ReportSize + 4)
  BY ProgressStep DEF OffsetOK
<1>1. CASE WindowStep
  <2>1. /\ wpc' \in {wpc, "idle", "pushed", "writing", "written", "announcing"}
        /\ UNCHANGED <<ctr, cr, sr, device_selected, op_active, delay, exec>>
    BY <1>1 DEF WindowStep, update_pushes, update_tests, update_writes, update_checks,
       update_announces, busVars
  <2> QED
    BY <1>0, <2>1 DEF BusOK
<1>2. CASE tick
  <2>1. /\ exec' \in {"idle", "command"} /\ delay' = delay + 1
        /\ op_active' = (delay + 1 < RunDelay) /\ op_active
        /\ UNCHANGED <<ctr, cr, sr, device_selected, wpc>>
    BY <1>2 DEF tick
  <2>2. /\ delay' \in 0 .. RunDelay /\ op_active' \in BOOLEAN
        /\ op_active' => delay' < RunDelay
    <3>1. delay \in 0 .. RunDelay /\ delay < RunDelay /\ RunDelay \in Nat
      BY <2>1, HidAssumption DEF BusOK
    <3>2. delay' \in 0 .. RunDelay
      BY <2>1, <3>1
    <3>3. op_active' \in BOOLEAN
      BY <2>1
    <3>4. op_active' => delay' < RunDelay
      BY <2>1
    <3> QED
      BY <3>2, <3>3, <3>4
  <2> QED
    BY <1>0, <2>1, <2>2 DEF BusOK
<1>3. CASE execute_command
  <2>1. /\ exec' \in {"idle", "read", "stop", "finish"} /\ cr' = cr \ {"IACK"}
        /\ device_selected' \in {device_selected, txr \div 2 = KbdAddress}
        /\ UNCHANGED <<ctr, op_active, delay, wpc>>
    BY <1>3 DEF execute_command, After
  <2>2. sr' \subseteq sr \cup {"BUSY", "TIP", "RxACK"}
    BY <1>3 DEF execute_command
  <2>3. device_selected' \in BOOLEAN
    BY <2>1 DEF BusOK
  <2> QED
    BY <1>0, <2>1, <2>2, <2>3 DEF BusOK
<1>4. CASE execute_read
  <2>1. /\ exec' \in {"refill", "read", "stop", "finish"}
        /\ sr' \subseteq sr \cup {"TIP", "RxACK"}
        /\ UNCHANGED <<ctr, cr, device_selected, op_active, delay, wpc>>
    BY <1>4 DEF execute_read, After
  <2> QED
    BY <1>0, <2>1 DEF BusOK
<1>5. CASE dev_read_refills
  <2>1. /\ exec' \in {"read", "stop", "finish"}
        /\ UNCHANGED <<ctr, cr, sr, device_selected, op_active, delay, wpc>>
    BY <1>5 DEF dev_read_refills, After, busVars
  <2> QED
    BY <1>0, <2>1 DEF BusOK
<1>6. CASE stop_transmit \/ stop_transmit_announces
  <2>1. /\ exec' \in {"announce", "finish"}
        /\ UNCHANGED <<ctr, cr, sr, device_selected, op_active, delay, wpc>>
    BY <1>6 DEF stop_transmit, stop_transmit_announces, busVars
  <2> QED
    BY <1>0, <2>1 DEF BusOK
<1>7. CASE execute_finish
  <2>1. /\ exec' = "idle" /\ sr' \subseteq sr \cup {"IF"}
        /\ device_selected' = (device_selected /\ "STO" \notin cr)
        /\ UNCHANGED <<ctr, cr, op_active, delay, wpc>>
    BY <1>7 DEF execute_finish
  <2> QED
    BY <1>0, <2>1 DEF BusOK
<1>8. CASE HandlerStep \/ GuestRoutes \/ GuestTransacts
  <2>1. UNCHANGED <<ctr, cr, sr, device_selected, op_active, delay, exec, wpc>>
    BY <1>8 DEF HandlerStep, HandlerClaims, HandlerMasks, HandlerCompletes, HandlerReads,
                HandlerUnmasks, GuestRoutes, GuestTransacts, busVars
  <2> QED
    BY <1>0, <2>1 DEF BusOK
<1>9. CASE GuestConfigures \/ GuestDisables
  <2>1. /\ ctr' \subseteq {"EN", "IEN"} /\ sr' \subseteq sr
        /\ device_selected' \in {device_selected, FALSE}
        /\ UNCHANGED <<cr, op_active, delay, exec, wpc>>
    BY <1>9 DEF GuestConfigures, GuestDisables, write_ctr
  <2> QED
    BY <1>0, <2>1 DEF BusOK
<1>10. CASE GuestIssues
  <2>a. PICK t \in Names : \E n \in 0 .. N(t) : Progress(t, n)
    BY DEF ProgressOK
  <2>1. PICK n \in 0 .. N(t) : Progress(t, n)
    BY <2>a
  <2>2. /\ tx # <<>> /\ cr' = Head(tx).cr /\ op_active' = TRUE /\ delay' = 0
        /\ sr' = (sr \ {"IF"}) \cup {"TIP"}
        /\ UNCHANGED <<ctr, device_selected, exec, wpc>>
    BY <1>10 DEF GuestIssues, write_cr
  <2>3. n + 1 \in 1 .. N(t) /\ cr' = CmdOf(t, n + 1).cr
    <3>1. tx = Rest(t, n)
      BY <2>1 DEF Progress
    <3> QED
      BY <2>2, <3>1, RestStep, Lengths
  <2>4. cr' \subseteq CrBits
    BY <2>3, Kinds DEF CrBits
  <2>5. delay' \in 0 .. RunDelay /\ delay' < RunDelay
    BY <2>2, HidAssumption
  <2> QED
    BY <1>0, <2>2, <2>4, <2>5 DEF BusOK
<1> QED
  BY <1>1, <1>2, <1>3, <1>4, <1>5, <1>6, <1>7, <1>8, <1>9, <1>10
  DEF I2cNext, BusStep, GuestStep

-----------------------------------------------------------------------------
LEMMA InitI2c == I2cInit => I2cInd
<1> SUFFICES ASSUME I2cInit PROVE I2cInd
  OBVIOUS
<1>1. PlicInv
  BY InitInv DEF I2cInit
<1>2. QueueOK
  <2>1. Len(<<>>) = 0 /\ <<>> \in Seq(Nat)
    OBVIOUS
  <2> QED
    BY <2>1, HidAssumption DEF I2cInit, QueueOK
<1>3. BusOK
  <2>1. 0 \in 0 .. RunDelay /\ 0 \in 0 .. (ReportSize + 4)
    BY HidAssumption
  <2>2. /\ ctr = {} /\ cr = {} /\ sr = {} /\ delay = 0 /\ ~op_active /\ io_offset = 0
        /\ op_active \in BOOLEAN /\ device_selected \in BOOLEAN /\ exec = "idle" /\ wpc = "idle"
    BY DEF I2cInit
  <2> QED
    BY <2>1, <2>2 DEF BusOK
<1>4. ProgressOK
  <2>1. 3 \in 0 .. N("probe") /\ "probe" \in Names
    BY Lengths DEF Names
  <2>2. Rest("probe", 3) = <<>>
    BY <2>1, RestStep, Lengths
  <2>3. At("probe", 3)
    BY DEF I2cInit, At, SelAfter, RegsAfter, Reading
  <2>4. Progress("probe", 3)
    BY <2>2, <2>3 DEF I2cInit, Progress, Busy
  <2> QED
    BY <2>1, <2>4 DEF ProgressOK
<1> QED
  BY <1>1, <1>2, <1>3, <1>4 DEF I2cInd

LEMMA NextI2c ==
  ASSUME I2cInd, [I2cNext]_vars
  PROVE  I2cInd'
<1>1. CASE I2cNext
  BY <1>1, I2cStepsPlic, InvInductive, QueueStep, BusStepOK, ProgressStep DEF I2cInd
<1>2. CASE UNCHANGED vars
  <2>1. UNCHANGED plicVars
    BY <1>2 DEF vars
  <2>2. PlicInv'
    BY <2>1, InvInductive DEF I2cInd
  <2>3. QueueOK' /\ BusOK'
    BY <1>2 DEF vars, busVars, hidVars, guestVars, I2cInd, QueueOK, BusOK, FrontInPlace
  <2>4. ProgressOK'
    BY <1>2 DEF vars, busVars, hidVars, guestVars, I2cInd, ProgressOK, Progress, Busy, At, Reading
  <2> QED
    BY <2>2, <2>3, <2>4 DEF I2cInd
<1> QED
  BY <1>1, <1>2

LEMMA IndGivesInv == I2cInd => I2cInv
<1> SUFFICES ASSUME I2cInd PROVE I2cInv
  OBVIOUS
<1>1. PICK t \in Names : \E n \in 0 .. N(t) : Progress(t, n)
  BY DEF I2cInd, ProgressOK
<1>2. PICK n \in 0 .. N(t) : Progress(t, n)
  BY <1>1
<1>3. \A m : RegsAfter(t, m) \subseteq 0 .. 7
  BY DEF RegsAfter, Target
<1>4. cur_reg \in 0 .. 7
  BY <1>2, <1>3 DEF I2cInd, BusOK, Progress, Busy, At
<1>5. PlicTypeOK
  BY DEF I2cInd, PlicInv
<1>6. I2cTypeOK
  BY <1>4, <1>5 DEF I2cTypeOK, I2cInd, BusOK, QueueOK
<1> QED
  BY <1>6 DEF I2cInv, I2cInd, QueueOK

(* In every state the bus, the keyboard and the report queue are of their  *)
(* types, the offset of a transaction stays inside the report and what the *)
(* registers hold, and the front of the queue is in the input report except *)
(* between the two steps of update and of dev_read that put it there.      *)
THEOREM I2cInvHolds == I2cSpec => []I2cInv
<1>1. I2cSpec => []I2cInd
  BY InitI2c, NextI2c, PTL DEF I2cSpec
<1> QED
  BY <1>1, IndGivesInv, PTL

(* A report is read whole and once: whatever the window thread pushes      *)
(* while the guest reads, the bytes read are all of the report that was at *)
(* the front when the read began, and this is the one that is taken.       *)
THEOREM ReportsAreReadWhole == I2cSpec => ReadsWhole
<1> DEFINE Whole == (exec = "read" /\ exec' = "refill" /\ expected # 0) =>
                      /\ report_queue # <<>> /\ Head(report_queue) = expected
                      /\ got' = [i \in Cells |-> expected]
<1>1. I2cSpec => []I2cInd
  BY InitI2c, NextI2c, PTL DEF I2cSpec
<1>2. ASSUME I2cInd, I2cNext
      PROVE  Whole
  <2> SUFFICES ASSUME exec = "read", exec' = "refill", expected # 0
               PROVE  /\ report_queue # <<>> /\ Head(report_queue) = expected
                      /\ got' = [i \in Cells |-> expected]
    OBVIOUS
  <2>1. execute_read
    BY <1>2 DEF I2cNext, WindowStep, update_pushes, update_tests, update_writes, update_checks,
       update_announces, BusStep, tick,
       execute_command, dev_read_refills, stop_transmit, stop_transmit_announces, execute_finish,
       HandlerStep, HandlerClaims, HandlerMasks, HandlerCompletes, HandlerReads, HandlerUnmasks,
       GuestStep, GuestConfigures, GuestRoutes, GuestIssues, GuestTransacts, GuestDisables
  <2>2. PICK t \in Names : \E n \in 0 .. N(t) : Progress(t, n)
    BY <1>2 DEF I2cInd, ProgressOK
  <2>3. PICK n \in 0 .. N(t) : Progress(t, n)
    BY <2>2
  <2>4. device_selected /\ TakesReport
    BY <2>1 DEF execute_read, After
  <2>5. t = "read"
    <3>1. IsRead(t, n) /\ At(t, n - 1)
      BY <2>3 DEF Progress
    <3>2. t # "desc"
      BY <2>4, <3>1 DEF IsRead, At, RegsAfter, Target, TakesReport, N
    <3>3. t # "probe"
      BY <2>4, <3>1 DEF At, SelAfter
    <3> QED
      BY <3>1, <3>2, <3>3 DEF IsRead
  <2>6. /\ n = ReportSize + 1 /\ got = [i \in 1 .. (n - 2) |-> expected]
        /\ report_queue # <<>> /\ Head(report_queue) = expected /\ dev_read_value = expected
    BY <2>3, <2>4, <2>5, ReadsByte
  <2>7. got' = Append(got, expected)
    BY <2>1, <2>4, <2>6 DEF execute_read
  <2>8. n - 2 \in Nat /\ (n - 2) + 1 = ReportSize
    BY <2>6, Lengths
  <2>9. Append(got, expected) = [i \in 1 .. ((n - 2) + 1) |-> expected]
    BY <2>6, <2>8, OneMore
  <2> QED
    BY <2>6, <2>7, <2>8, <2>9 DEF Cells
<1>3. I2cInd /\ [I2cNext]_vars => [Whole]_vars
  BY <1>2
<1> QED
  BY <1>1, <1>3, PTL DEF I2cSpec, ReadsWhole
=============================================================================
