----------------------------- MODULE VirtioBlk ------------------------------
(***************************************************************************)
(* The VirtIO block device (src/src/devices/virtio_blk.cpp) on top of the  *)
(* interrupt controller, with a driver that follows the VirtIO protocol.   *)
(*                                                                         *)
(* The guest's memory is what the two sides share: the descriptor table,   *)
(* the avail and the used ring, and the buffers.  A buffer is named by the *)
(* descriptor that points to it and holds a request header, units of data  *)
(* (half a sector each) or a status.  The image is a file on the host: a   *)
(* sequence of units that a write past its end makes longer, and the host  *)
(* may be one whose reads and writes can fail, noticed or not.  Registers  *)
(* that are only read back (identification, DeviceFeaturesSel, the         *)
(* configuration space) are left out.                                      *)
(*                                                                         *)
(* process_queue runs within the guest's write to QueueNotify on the       *)
(* worker; one turn of its loop is one step, and the guest waits for it.   *)
(***************************************************************************)
EXTENDS Plic, Sequences, FiniteSets, SequencesExt

CONSTANTS
  BlkIrq,         \* irq_num, from PLIC::acquire_irq
  IdxMod,         \* the ring indices are taken modulo this (2^16)
  Sizes,          \* the queue sizes that drivers choose
  TableSize,      \* descriptors in the table
  Heads,          \* the descriptors at which the driver's chains start
  Shapes,         \* the requests the driver makes, see ShapeType
  Images,         \* what the image may hold at first
  UnitsPerSector, \* 2: a unit is half a sector
  Values,         \* what a unit holds
  HandlerSubmits  \* the interrupt handler submits and notifies too

Slots == 0 .. (TableSize - 1)
NoReq == [type |-> "none"]
FeatureBits == {"SEG_MAX", "VERSION_1", "RING_PACKED"}
StatusBits == {"ACKNOWLEDGE", "DRIVER", "FEATURES_OK", "DRIVER_OK"}
Table == <<1, 1>>         \* both halves of the address of every ring
Null == <<0, 0>>

(* A request: whether its header is long enough, its data buffers, and     *)
(* what its chain ends in: a writable status, a descriptor that is not     *)
(* writable, nothing, or a descriptor that leads back to the head.         *)
ShapeType ==
  [hdr : BOOLEAN, type : {"IN", "OUT", "OTHER"}, sector : Nat, seed : Values,
   bufs : Seq([len : Nat, write : BOOLEAN]),
   tail : {"status", "readonly", "none", "loop"}]

ASSUME BlkIrqAssumption == BlkIrq \in IrqLines
ASSUME RoutedAssumption == BlkIrq \in MayUse[1]   \* the driver runs in S-mode on hart 0
ASSUME IdxAssumption ==
  /\ IdxMod \in Nat \ {0} /\ Sizes \subseteq Nat
  /\ \A n \in Sizes : n > 0 /\ IdxMod % n = 0

(* A driver that follows the protocol: its descriptors are within the      *)
(* queue, it has fewer requests under way than the indices tell apart, and *)
(* a request without a status has no writable descriptor, which the device *)
(* would take for one.                                                     *)
ASSUME HeadsAssumption ==
  /\ Heads \subseteq Slots /\ Cardinality(Heads) < IdxMod
  /\ TableSize \in Nat /\ \A n \in Sizes : TableSize <= n
ASSUME ShapesAssumption ==
  \A s \in Shapes :
    /\ s \in ShapeType /\ Len(s.bufs) + 2 <= TableSize
    /\ s.tail \in {"readonly", "none"} => \A i \in 1 .. Len(s.bufs) : ~s.bufs[i].write
ASSUME ImageAssumption ==
  /\ Images \subseteq Seq(Values) /\ UnitsPerSector \in Nat \ {0}
  /\ Cardinality(Values) \in Nat \ {0} /\ Values = 0 .. (Cardinality(Values) - 1)

VARIABLES
  driver_features, driver_features_sel, queue_sel, device_status, interrupt_status,
  queue0,       \* VirtQueueState
  disk,         \* the content of the image
  image,        \* whether there is an image, and a host that never fails
  table,        \* guest memory: the descriptor table
  mem,          \* guest memory: the buffer of every descriptor
  avail, used,  \* guest memory: the rings, with their index
  serving,      \* process_queue is running
  avail_idx,    \* its copy of avail.idx
  chain,        \* its copy of the descriptors of a request, or empty
  req,          \* driver: the request under way at every head
  seen,         \* driver: the used index up to which it collected
  live,         \* driver: the device is set up
  handler       \* driver: where its interrupt handler is

regVars == <<driver_features, driver_features_sel, queue_sel, device_status, interrupt_status>>
memVars == <<table, mem, avail, used>>
loopVars == <<serving, avail_idx, chain>>
driverVars == <<req, seen, live, handler>>
blkVars == <<regVars, queue0, disk, image, memVars, loopVars, driverVars>>
vars == <<plicVars, blkVars>>

Idxs == 0 .. (IdxMod - 1)
NoRing == [idx |-> 0, ring |-> [i \in Idxs |-> 0]]
NoDesc == [addr |-> 0, len |-> 0, write |-> FALSE, next |-> 0, more |-> FALSE]
NoQueue == [size |-> 0, ready |-> FALSE, desc_addr |-> Null, avail_addr |-> Null,
            used_addr |-> Null, last_avail_idx |-> 0, last_used_idx |-> 0]

BlkInit ==
  /\ PlicInit
  /\ driver_features = {} /\ driver_features_sel = 0 /\ queue_sel = 0
  /\ device_status = {} /\ interrupt_status = FALSE
  /\ queue0 = NoQueue
  /\ disk \in Images /\ image \in {"none", "sound", "faulty"}
  /\ table = [s \in Slots |-> NoDesc] /\ mem = [s \in Slots |-> <<>>]
  /\ avail = NoRing /\ used = NoRing
  /\ serving = FALSE /\ avail_idx = 0 /\ chain = <<>>
  /\ req = [h \in Heads |-> NoReq] /\ seen = 0 /\ live = FALSE /\ handler = "none"

-----------------------------------------------------------------------------
(* Register writes. *)

write_features_sel(sel) ==
  /\ driver_features_sel' = sel
  /\ UNCHANGED <<plicVars, driver_features, queue_sel, device_status, interrupt_status,
                 queue0, disk, image, memVars, loopVars, driverVars>>

(* The feature bits of the low and of the high word. *)
FeatureWord(sel) == IF sel = 0 THEN {"SEG_MAX"} ELSE {"VERSION_1", "RING_PACKED"}

write_features(bits) ==
  /\ driver_features' =
       (driver_features \ FeatureWord(driver_features_sel))
         \cup (bits \cap FeatureWord(driver_features_sel))
  /\ UNCHANGED <<plicVars, driver_features_sel, queue_sel, device_status, interrupt_status,
                 queue0, disk, image, memVars, loopVars, driverVars>>

write_queue_sel(sel) ==
  /\ queue_sel' = sel
  /\ UNCHANGED <<plicVars, driver_features, driver_features_sel, device_status,
                 interrupt_status, queue0, disk, image, memVars, loopVars, driverVars>>

(* QueueNum, QueueReady and the two halves of the three addresses act on   *)
(* queue 0, and only when it is selected.                                  *)
write_queue(field, value) ==
  /\ queue0' = IF queue_sel = 0 THEN [queue0 EXCEPT ![field] = value] ELSE queue0
  /\ UNCHANGED <<plicVars, regVars, disk, image, memVars, loopVars, driverVars>>

write_queue_half(field, half, value) ==
  write_queue(field, [queue0[field] EXCEPT ![half] = value])

(* A write of 0 to Status; the features the driver wrote stay. *)
write_status_reset ==
  /\ device_status' = {} /\ interrupt_status' = FALSE
  /\ queue0' = NoQueue

(* Other writes add bits, and FEATURES_OK goes again when the driver took  *)
(* a feature that was not offered.                                         *)
write_status(bits) ==
  /\ device_status' =
       IF driver_features \subseteq {"VERSION_1"} THEN device_status \cup bits
       ELSE (device_status \cup bits) \ {"FEATURES_OK"}
  /\ UNCHANGED <<plicVars, driver_features, driver_features_sel, queue_sel, interrupt_status,
                 queue0, disk, image, memVars, loopVars>>

write_interrupt_ack ==
  /\ interrupt_status' = FALSE
  /\ UNCHANGED <<plicVars, driver_features, driver_features_sel, queue_sel, device_status,
                 queue0, disk, image, memVars, loopVars>>

-----------------------------------------------------------------------------
(* The queue. *)

(* The descriptors from head on, at most as many as the queue has. *)
fetch_descriptor_chain(head) ==
  LET walk[n \in 1 .. queue0.size] ==
        IF n = 1 THEN <<table[head]>>
        ELSE LET sofar == walk[n - 1]
             IN  IF Last(sofar).more THEN Append(sofar, table[Last(sofar).next]) ELSE sofar
  IN  walk[queue0.size]

(* A chain that ends, with a header and at least one descriptor more. *)
ChainOk ==
  /\ queue0.desc_addr # Null
  /\ ~Last(chain).more
  /\ Len(chain) >= 2
  /\ chain[1].len >= 1

(* The last writable descriptor after the header, or 0. *)
status_desc ==
  LET writable == {i \in 2 .. Len(chain) : chain[i].write}
  IN  IF writable = {} THEN 0 ELSE CHOOSE i \in writable : \A j \in writable : j <= i

(* The descriptors between the header and the status, the units before     *)
(* each of them (pos) and in all of them.                                  *)
Data == SubSeq(chain, 2, status_desc - 1)
Before(bufs, i) ==
  LET pos[k \in 1 .. (Len(bufs) + 1)] == IF k = 1 THEN 0 ELSE pos[k - 1] + bufs[k - 1].len
  IN  pos[i]
data_total(bufs) == Before(bufs, Len(bufs) + 1)

(* The host never fails. *)
Sound == image # "faulty"

(* What fseek and fread may do for a read of n units: whether disk_read    *)
(* returns true, and the units fread got before its end.  A host error in  *)
(* fread is not told from the end of the file.                             *)
HostReads(n) ==
  CASE image = "none"   -> {[ok |-> FALSE, got |-> 0]}
    [] image = "faulty" -> {[ok |-> FALSE, got |-> 0]} \cup [ok : {TRUE}, got : 0 .. n]
    [] OTHER            -> {[ok |-> TRUE, got |-> n]}

(* The same for fseek, fwrite and fflush: the units that reach the file.   *)
(* fwrite fills a buffer and the result of fflush is not looked at, so     *)
(* disk_write may return true whatever reached the file.                   *)
HostWrites(n) ==
  CASE image = "none"   -> {[ok |-> FALSE, got |-> 0]}
    [] image = "faulty" -> {h \in [ok : BOOLEAN, got : 0 .. n] : h.ok \/ h.got < n \/ n = 0}
    [] OTHER            -> {[ok |-> TRUE, got |-> n]}

(* n units of the image from sector on, zeros after the first got of them  *)
(* and past the end.                                                       *)
disk_read(sector, n, got) ==
  LET off == sector * UnitsPerSector
  IN  [i \in 1 .. n |-> IF i <= got /\ (off + i) \in 1 .. Len(disk) THEN disk[off + i] ELSE 0]

(* The image with the first got units of buf written from sector on; the   *)
(* capacity the driver was told is not looked at, and a write past the end *)
(* makes the file longer, with zeros in between.                           *)
disk_write(sector, buf, got) ==
  LET off == sector * UnitsPerSector
      len == IF got > 0 /\ off + got > Len(disk) THEN off + got ELSE Len(disk)
  IN  [u \in 1 .. len |-> IF u - off \in 1 .. got THEN buf[u - off]
                          ELSE IF u <= Len(disk) THEN disk[u] ELSE 0]

(* The units that the data buffers hold, one after the other. *)
copy_from_dram(bufs) == FlattenSeq([i \in 1 .. Len(bufs) |-> mem[bufs[i].addr]])

(* The buffers a read fills: those up to the first that is not writable,   *)
(* which is still filled before the loop stops.                            *)
Filled(bufs) == {i \in 1 .. Len(bufs) : \A j \in 1 .. (i - 1) : bufs[j].write}

(* Buffer s after a read of tmp into bufs. *)
copy_to_dram(bufs, tmp, s) ==
  LET into == {i \in Filled(bufs) : bufs[i].addr = s}
      i == CHOOSE k \in into : TRUE
  IN  IF into = {} THEN mem[s]
      ELSE SubSeq(tmp, Before(bufs, i) + 1, Before(bufs, i) + bufs[i].len)

(* What a request does: success, the buffers and the image after it. *)
Outcome(ok, newMem, newDisk) == [ok |-> ok, mem |-> newMem, disk |-> newDisk]

ServeIn(sector) ==
  LET bufs == Data
      total == data_total(bufs)
      writable == \A i \in 1 .. Len(bufs) : bufs[i].write
      tmp(h) == disk_read(sector, total, h.got)
  IN  {Outcome(h.ok /\ writable,
               [s \in Slots |-> IF h.ok THEN copy_to_dram(bufs, tmp(h), s) ELSE mem[s]],
               disk) : h \in HostReads(total)}

(* The data is written even when it is not whole sectors, which is then    *)
(* reported as an error.                                                   *)
ServeOut(sector) ==
  LET tmp == copy_from_dram(Data)
      whole == data_total(Data) % UnitsPerSector = 0
  IN  {Outcome(h.ok /\ whole, mem, disk_write(sector, tmp, h.got)) : h \in HostWrites(Len(tmp))}

(* The request of a chain, by the header in its first buffer.  Without a   *)
(* writable descriptor nothing is done.                                    *)
Serve ==
  LET header == mem[chain[1].addr]
  IN  IF status_desc = 0 THEN {Outcome(FALSE, mem, disk)}
      ELSE CASE header.type = "IN"  -> ServeIn(header.sector)
             [] header.type = "OUT" -> ServeOut(header.sector)
             [] OTHER               -> {Outcome(FALSE, mem, disk)}

(* The status byte goes to the last writable descriptor. *)
StoreStatus(o) ==
  IF status_desc = 0 THEN o.mem
  ELSE [o.mem EXCEPT ![chain[status_desc].addr] = IF o.ok THEN "OK" ELSE "IOERR"]

Succ_slip(idx) == idx + 1                 \* slip: an index that is too wide
Succ(idx) == (idx + 1) % IdxMod

(* Slip: the loop stops for good when the index of the driver wraps. *)
More_slip == queue0.last_avail_idx < avail_idx

(* The condition of the loop of process_queue. *)
More == queue0.last_avail_idx # avail_idx

(* The head of the next entry of the avail ring. *)
NextHead == avail.ring[queue0.last_avail_idx % queue0.size]

(* A write to QueueNotify: process_queue reads avail.idx once. *)
process_queue_starts(qsel) ==
  /\ serving' = (qsel = 0 /\ queue0.ready /\ queue0.size # 0)
  /\ avail_idx' = IF serving' THEN avail.idx ELSE avail_idx
  /\ UNCHANGED <<plicVars, regVars, queue0, disk, image, memVars, chain, driverVars>>

(* A turn of the loop begins with the descriptors of the next entry. *)
process_queue_fetches ==
  /\ serving /\ chain = <<>> /\ More
  /\ chain' = fetch_descriptor_chain(NextHead)
  /\ UNCHANGED <<plicVars, regVars, queue0, disk, image, memVars, serving, avail_idx, driverVars>>

(* A chain that cannot be parsed is skipped and nothing is reported. *)
process_queue_skips ==
  /\ serving /\ chain # <<>> /\ ~ChainOk
  /\ queue0' = [queue0 EXCEPT !.last_avail_idx = Succ(@)]
  /\ chain' = <<>>
  /\ UNCHANGED <<plicVars, regVars, disk, image, memVars, serving, avail_idx, driverVars>>

(* Slip: the used element goes to the slot of the avail ring. *)
UsedSlot_slip == queue0.last_avail_idx % queue0.size

UsedSlot == queue0.last_used_idx % queue0.size

(* Slip: the source is raised without telling the driver what for. *)
raise_irq_slip == interrupt_status' = interrupt_status /\ set_pending(BlkIrq, TRUE)

(* Slip: the source becomes pending without a look at the contexts. *)
raise_irq_unseen ==
  /\ interrupt_status' = TRUE /\ pending' = pending \cup {BlkIrq}
  /\ UNCHANGED <<priorities, enables, threshold, interrupt_line, ip>>

raise_irq == interrupt_status' = TRUE /\ set_pending(BlkIrq, TRUE)

(* A request is served, answered and announced. *)
process_queue_serves ==
  /\ serving /\ chain # <<>> /\ ChainOk
  /\ \E o \in Serve : disk' = o.disk /\ mem' = StoreStatus(o)
  /\ used' = [idx |-> Succ(queue0.last_used_idx),
              ring |-> [used.ring EXCEPT ![UsedSlot] = NextHead]]
  /\ queue0' = [queue0 EXCEPT !.last_used_idx = Succ(@), !.last_avail_idx = Succ(@)]
  /\ chain' = <<>>
  /\ raise_irq
  /\ UNCHANGED <<driver_features, driver_features_sel, queue_sel, device_status, image,
                 table, avail, serving, avail_idx, driverVars>>

process_queue_ends ==
  /\ serving /\ chain = <<>> /\ ~More
  /\ serving' = FALSE
  /\ UNCHANGED <<plicVars, regVars, queue0, disk, image, memVars, avail_idx, chain, driverVars>>

-----------------------------------------------------------------------------
(* The driver.  Its steps wait while process_queue runs. *)

(* It may submit from its interrupt handler or only outside of it. *)
MaySubmit == live /\ (handler = "none" \/ HandlerSubmits)

(* The interrupt of the device is routed to the S-mode context of hart 0. *)
DriverRoutes ==
  /\ ~serving /\ device_status = {}
  /\ \/ write_priority(BlkIrq, 1)
     \/ write_enable(1, BlkIrq \div WordBits, {BlkIrq})
  /\ UNCHANGED blkVars

(* The driver acknowledges the device and chooses features before it sets  *)
(* up the queue, as the protocol asks.                                     *)
DriverNegotiates ==
  /\ ~serving /\ "FEATURES_OK" \notin device_status
  /\ \/ device_status = {} /\ write_status({"ACKNOWLEDGE", "DRIVER"}) /\ UNCHANGED driverVars
     \/ /\ device_status # {} /\ "VERSION_1" \in driver_features /\ driver_features_sel = 1
        /\ write_status({"FEATURES_OK"}) /\ UNCHANGED driverVars
     \/ device_status # {} /\ \E sel \in {0, 1} : write_features_sel(sel)
     \/ device_status # {} /\ \E bits \in SUBSET FeatureBits : write_features(bits)

Addresses == {"desc_addr", "avail_addr", "used_addr"}

(* Size, addresses, ready: in this order. *)
DriverSetsQueue ==
  /\ ~serving /\ ~live /\ "FEATURES_OK" \in device_status /\ ~queue0.ready
  /\ \/ \E sel \in {0, 1} : write_queue_sel(sel)
     \/ queue0.size = 0 /\ \E n \in Sizes : write_queue("size", n)
     \/ /\ queue0.size # 0
        /\ \E field \in Addresses, half \in {1, 2} :
             write_queue_half(field, half, Table[half])
     \/ /\ \A field \in Addresses : queue0[field] = Table
        /\ write_queue("ready", TRUE)

(* With everything in place the driver goes live. *)
DriverOk ==
  /\ ~serving /\ ~live
  /\ "FEATURES_OK" \in device_status /\ queue0.ready
  /\ priorities[BlkIrq] > 0 /\ BlkIrq \in enables[1]
  /\ write_status({"DRIVER_OK"})
  /\ live' = TRUE
  /\ UNCHANGED <<req, seen, handler>>

(* The driver starts over, with empty rings. *)
DriverResets ==
  /\ ~serving /\ handler = "none" /\ device_status # {}
  /\ write_status_reset
  /\ live' = FALSE /\ req' = [h \in Heads |-> NoReq] /\ seen' = 0
  /\ table' = [s \in Slots |-> NoDesc] /\ mem' = [s \in Slots |-> <<>>]
  /\ avail' = NoRing /\ used' = NoRing
  /\ UNCHANGED <<plicVars, driver_features, driver_features_sel, queue_sel, disk, image,
                 loopVars, handler>>

(* The data of a request, in the order of its buffers. *)
Payload(shape) ==
  [i \in 1 .. data_total(shape.bufs) |-> (shape.seed + i) % Cardinality(Values)]

(* The descriptors and the buffers of a request, header first: those from  *)
(* h on, LastDesc(shape) of them after the first.                          *)
LastDesc(shape) == IF shape.tail = "none" THEN Len(shape.bufs) ELSE Len(shape.bufs) + 1
SlotsOf(h, shape) == h .. (h + LastDesc(shape))

ChainOf(h, shape) ==
  LET n == Len(shape.bufs)
      last == LastDesc(shape)
  IN  [j \in 0 .. last |->
         [addr |-> h + j,
          len |-> IF j = 0 THEN (IF shape.hdr THEN 1 ELSE 0)
                  ELSE IF j <= n THEN shape.bufs[j].len ELSE 1,
          write |-> IF j = 0 THEN FALSE
                    ELSE IF j <= n THEN shape.bufs[j].write ELSE shape.tail = "status",
          next |-> IF j < last THEN h + j + 1 ELSE h,
          more |-> j < last \/ shape.tail = "loop"]]

BufferOf(shape, j) ==
  IF j = 0 THEN [type |-> shape.type, sector |-> shape.sector]
  ELSE IF j > Len(shape.bufs) THEN "NONE"
  ELSE LET from == Before(shape.bufs, j)
       IN  [i \in 1 .. shape.bufs[j].len |->
              IF shape.type = "OUT" THEN Payload(shape)[from + i] ELSE 0]

(* The descriptors of the requests under way. *)
InUse == UNION {SlotsOf(h, req[h]) : h \in {g \in Heads : req[g] # NoReq}}

(* The driver puts a request at the first free head into the avail ring. *)
DriverSubmits ==
  \E h \in Heads, shape \in Shapes :
    LET new == ChainOf(h, shape)
        mine == SlotsOf(h, shape)
    IN  /\ ~serving /\ MaySubmit
        /\ req[h] = NoReq /\ \A g \in Heads : g < h => req[g] # NoReq
        /\ mine \subseteq Slots \ InUse
        /\ table' = [s \in Slots |-> IF s \in mine THEN new[s - h] ELSE table[s]]
        /\ mem' = [s \in Slots |-> IF s \in mine THEN BufferOf(shape, s - h) ELSE mem[s]]
        /\ avail' = [idx |-> Succ(avail.idx),
                     ring |-> [avail.ring EXCEPT ![avail.idx % queue0.size] = h]]
        /\ req' = [req EXCEPT ![h] = shape]
        /\ UNCHANGED <<plicVars, regVars, queue0, disk, image, used, loopVars,
                       seen, live, handler>>

(* Notifications of other queues than 0 are ignored by the device. *)
DriverNotifies ==
  /\ ~serving /\ MaySubmit
  /\ \E qsel \in {0, 1} : process_queue_starts(qsel)

(* The interrupt handler: claim, acknowledge, collect what is in the used  *)
(* ring, complete.                                                         *)
HandlerClaims ==
  /\ ~serving /\ live /\ handler = "none" /\ IRQ_SEXT \in ip[0]
  /\ claim_interrupt(1)
  /\ handler' = "claimed"
  /\ UNCHANGED <<regVars, queue0, disk, image, memVars, loopVars, req, seen, live>>

(* The used ring is only looked at when InterruptStatus says so. *)
HandlerAcks ==
  /\ ~serving /\ handler = "claimed"
  /\ handler' = IF interrupt_status THEN "collecting" ELSE "leaving"
  /\ write_interrupt_ack
  /\ UNCHANGED <<req, seen, live>>

(* The descriptors and buffers of a request are free once it is collected. *)
HandlerCollects ==
  LET h == used.ring[seen % queue0.size]
      mine == SlotsOf(h, req[h])
  IN  /\ ~serving /\ handler = "collecting" /\ used.idx # seen
      /\ seen' = Succ(seen)
      /\ req' = [req EXCEPT ![h] = NoReq]
      /\ table' = [s \in Slots |-> IF s \in mine THEN NoDesc ELSE table[s]]
      /\ mem' = [s \in Slots |-> IF s \in mine THEN <<>> ELSE mem[s]]
      /\ UNCHANGED <<plicVars, regVars, queue0, disk, image, avail, used, loopVars,
                     live, handler>>

HandlerFinishes ==
  /\ ~serving /\ handler = "collecting" /\ used.idx = seen
  /\ handler' = "leaving"
  /\ UNCHANGED <<plicVars, regVars, queue0, disk, image, memVars, loopVars,
                 req, seen, live>>

HandlerCompletes ==
  /\ ~serving /\ handler = "leaving"
  /\ complete_interrupt(1, BlkIrq)
  /\ handler' = "none"
  /\ UNCHANGED <<regVars, queue0, disk, image, memVars, loopVars, req, seen, live>>

DeviceStep ==
  \/ process_queue_fetches
  \/ process_queue_skips
  \/ process_queue_serves
  \/ process_queue_ends
HandlerStep ==
  \/ HandlerClaims
  \/ HandlerAcks
  \/ HandlerCollects
  \/ HandlerFinishes
  \/ HandlerCompletes
DriverStep ==
  \/ DriverNegotiates
  \/ DriverSetsQueue
  \/ DriverRoutes
  \/ DriverOk
  \/ DriverResets
  \/ DriverSubmits
  \/ DriverNotifies

BlkNext == DeviceStep \/ HandlerStep \/ DriverStep

(* The worker ends a device access it began, and a hart that is shown an   *)
(* interrupt runs its handler to the end.                                  *)
BlkSpec == BlkInit /\ [][BlkNext]_vars /\ WF_vars(DeviceStep) /\ SF_vars(HandlerStep)

-----------------------------------------------------------------------------
BlkTypeOK ==
  /\ PlicTypeOK
  /\ driver_features \subseteq FeatureBits /\ device_status \subseteq StatusBits
  /\ {queue0.last_avail_idx, queue0.last_used_idx, avail.idx, used.idx, seen, avail_idx}
       \subseteq Idxs
  /\ disk \in Seq(Values) /\ image \in {"none", "sound", "faulty"}
  /\ handler \in {"none", "claimed", "collecting", "leaving"}
  /\ \A h \in Heads : req[h] = NoReq \/ req[h] \in Shapes

(* The entries of a ring of n slots from index a up to index b. *)
Entries(ring, n, a, b) ==
  [i \in 1 .. ((b + IdxMod - a) % IdxMod) |-> ring[((a + i - 1) % IdxMod) % n]]

(* A request as the driver means it. *)
Meant(h, shape) ==
  [head |-> h, type |-> shape.type, sector |-> shape.sector, data |-> Payload(shape),
   parses |-> shape.hdr /\ shape.tail # "loop" /\ (shape.tail # "none" \/ shape.bufs # <<>>),
   reports |-> shape.tail = "status"]

Meanings == {Meant(h, shape) : h \in Heads, shape \in Shapes}

(* An answer as the driver finds it in the buffers of a request. *)
Found(h) ==
  LET n == Len(req[h].bufs)
      status == IF req[h].tail = "none" THEN "NONE" ELSE mem[h + n + 1]
  IN  [head |-> h, status |-> status,
       data |-> IF status # "OK" THEN <<>> ELSE FlattenSeq([j \in 1 .. n |-> mem[h + j]])]

WaitingHeads == Entries(avail.ring, queue0.size, queue0.last_avail_idx, avail.idx)
AnsweredHeads == Entries(used.ring, queue0.size, seen, used.idx)

WaitingNow ==
  [i \in 1 .. Len(WaitingHeads) |-> Meant(WaitingHeads[i], req[WaitingHeads[i]])]
AnsweredNow == [i \in 1 .. Len(AnsweredHeads) |-> Found(AnsweredHeads[i])]

Queue == INSTANCE BlkQueue WITH
  Submittable <- Meanings, sound <- Sound,
  waiting <- WaitingNow, answered <- AnsweredNow

(* The device is a queue: through every wrap of the two rings, skipped     *)
(* chain, failed access to the image and reset, requests are served in     *)
(* order and once; on a host that never fails a read that is answered with *)
(* success returns the image and a write that is answered with success is  *)
(* in the image, and on one that may fail, what is missing of either is an *)
(* end of it, which for a read is zeros.                                   *)
QueueSpec == Queue!QueueSpec

(* A notification leaves nothing behind: when process_queue returns, every *)
(* request of the avail ring was served or skipped, also when the driver's *)
(* index is below the device's because it wrapped.                         *)
NotifyDrains == [][(serving /\ ~serving') => WaitingNow' = <<>>]_vars

(* The source is pending and the cause can be read, or the handler is      *)
(* about to look.                                                          *)
Announced ==
  \/ BlkIrq \in pending /\ interrupt_status
  \/ handler = "claimed" /\ interrupt_status
  \/ handler = "collecting"

(* An answer in the used ring always has an interrupt on its way, unless   *)
(* the handler is about to look; and the hart of a driver that is live and *)
(* not handling one sees it in ip.                                         *)
AnswersAreAnnounced ==
  used.idx # seen => /\ Announced
                     /\ live /\ handler = "none" => IRQ_SEXT \in ip[0]

(* The driver gets every answer, as long as its handler does not make new  *)
(* requests between claim and completion.                                  *)
AnswersAreCollected == live /\ used.idx # seen ~> used.idx = seen

-----------------------------------------------------------------------------
(* What AnswersAreAnnounced and NotifyDrains need to be inductive:         *)
(* process_queue runs outside of the handler and knows the whole avail     *)
(* ring, a handler that leaves has collected everything, and a driver that *)
(* is live keeps its source routed.                                        *)
Halves == [1 .. 2 -> {0, 1}]

BlkInv ==
  /\ PlicInv
  /\ queue0 \in [size : Sizes \cup {0}, ready : BOOLEAN, desc_addr : Halves,
                 avail_addr : Halves, used_addr : Halves,
                 last_avail_idx : Idxs, last_used_idx : Idxs]
  /\ {avail.idx, used.idx, seen, avail_idx} \subseteq Idxs
  /\ serving \in BOOLEAN /\ live \in BOOLEAN /\ interrupt_status \in BOOLEAN
  /\ handler \in {"none", "claimed", "collecting", "leaving"}
  /\ serving => avail_idx = avail.idx /\ handler = "none"
  /\ handler = "leaving" => used.idx = seen
  /\ live => device_status # {} /\ priorities[BlkIrq] > 0 /\ BlkIrq \in enables[1]
  /\ threshold[1] = 0
  /\ used.idx # seen => Announced
=============================================================================
