------------------------------ MODULE BlkQueue ------------------------------
(***************************************************************************)
(* What the block device promises its driver (virtio_blk.hpp): a request   *)
(* queue.  The driver submits requests, the device serves them one by one  *)
(* in the order of submission, and the driver collects the answers in the  *)
(* same order.  A request the device cannot parse is dropped.  There are   *)
(* no rings, indices or descriptors here: VirtioBlk implements them.       *)
(*                                                                         *)
(* A request is a record: its head (the name the driver knows it by),      *)
(* whether it can be parsed, whether it has room for a status, its type,   *)
(* its sector, and its data, which a read only takes the length of.        *)
(***************************************************************************)
EXTENDS Naturals, Sequences

CONSTANTS
  Submittable,    \* the requests a driver may submit
  UnitsPerSector, \* a unit is what is read and written at once
  Values          \* the contents of a unit; 0 is in it

VARIABLES
  waiting,    \* the requests submitted and not served, oldest first
  answered,   \* the answers not collected, oldest first
  disk,       \* the content of the image
  sound       \* the host never fails

queueVars == <<waiting, answered, disk, sound>>

QueueInit ==
  /\ waiting = <<>> /\ answered = <<>>
  /\ disk \in Seq(Values) /\ sound \in BOOLEAN

(* The image with the first n units of data written from sector on, made   *)
(* longer by zeros and by them where it ends before.                       *)
Written(image, sector, data, n) ==
  LET off == sector * UnitsPerSector
      len == IF n > 0 /\ off + n > Len(image) THEN off + n ELSE Len(image)
  IN  [u \in 1 .. len |-> IF u - off \in 1 .. n THEN data[u - off]
                          ELSE IF u <= Len(image) THEN image[u] ELSE 0]

(* n units of the image from sector on, of which only the first got came   *)
(* from the host; these, and what is past the image, read as 0.            *)
Content(image, sector, n, got) ==
  LET off == sector * UnitsPerSector
  IN  [i \in 1 .. n |-> IF i <= got /\ (off + i) \in 1 .. Len(image) THEN image[off + i] ELSE 0]

(* How much of n units a request that succeeds may transfer: all, unless   *)
(* the host fails and nobody notices.                                      *)
Transfers(n) == IF sound THEN {n} ELSE 0 .. n

Submit ==
  /\ Len(waiting') = Len(waiting) + 1
  /\ \E r \in Submittable : waiting' = Append(waiting, r)
  /\ UNCHANGED <<answered, disk, sound>>

Drop ==
  /\ waiting # <<>> /\ ~Head(waiting).parses
  /\ waiting' = Tail(waiting)
  /\ UNCHANGED <<answered, disk, sound>>

Answer(a) == waiting' = Tail(waiting) /\ answered' = Append(answered, a)

(* A read is answered with what the image holds now, or the host gives. *)
ServeRead ==
  LET r == Head(waiting)
  IN  /\ waiting # <<>> /\ r.parses /\ r.reports /\ r.type = "IN"
      /\ \E got \in Transfers(Len(r.data)) :
           Answer([head |-> r.head, status |-> "OK",
                   data |-> Content(disk, r.sector, Len(r.data), got)])
      /\ UNCHANGED <<disk, sound>>

(* A write that is answered with success is in the image, all of it or, on *)
(* a host that may fail, its beginning.                                    *)
ServeWrite ==
  LET r == Head(waiting)
  IN  /\ waiting # <<>> /\ r.parses /\ r.reports /\ r.type = "OUT"
      /\ Len(r.data) % UnitsPerSector = 0
      /\ Answer([head |-> r.head, status |-> "OK", data |-> r.data])
      /\ \E n \in Transfers(Len(r.data)) : disk' = Written(disk, r.sector, r.data, n)
      /\ UNCHANGED sound

(* A request may fail; what is left of a failed write is any part of it. *)
Fail ==
  LET r == Head(waiting)
  IN  /\ waiting # <<>> /\ r.parses /\ r.reports
      /\ Answer([head |-> r.head, status |-> "IOERR", data |-> <<>>])
      /\ \E n \in 0 .. Len(r.data) :
           disk' = IF r.type = "OUT" THEN Written(disk, r.sector, r.data, n) ELSE disk
      /\ UNCHANGED sound

(* A request without room for a status comes back untouched. *)
ReturnUnserved ==
  LET r == Head(waiting)
  IN  /\ waiting # <<>> /\ r.parses /\ ~r.reports
      /\ Answer([head |-> r.head, status |-> "NONE", data |-> <<>>])
      /\ UNCHANGED <<disk, sound>>

Collect ==
  /\ answered # <<>>
  /\ answered' = Tail(answered)
  /\ UNCHANGED <<waiting, disk, sound>>

(* The driver starts over: what was under way is forgotten. *)
Reset == waiting' = <<>> /\ answered' = <<>> /\ UNCHANGED <<disk, sound>>

QueueNext ==
  Submit \/ Drop \/ ServeRead \/ ServeWrite \/ Fail \/ ReturnUnserved \/ Collect \/ Reset

QueueSpec == QueueInit /\ [][QueueNext]_queueVars
=============================================================================
