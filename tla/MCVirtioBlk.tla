---------------------------- MODULE MCVirtioBlk -----------------------------
(* A bounded instance of VirtioBlk: two requests under way, a ring that    *)
(* wraps after six requests and an image of one sector that a write past   *)
(* its end makes longer.                                                   *)
EXTENDS VirtioBlk

OneDriver == [c \in Contexts |-> IF c = 1 THEN {BlkIrq} ELSE {}]

Buf(n, w) == [len |-> n, write |-> w]
Shape(type, sector, seed, bufs, tail) ==
  [hdr |-> TRUE, type |-> type, sector |-> sector, seed |-> seed, bufs |-> bufs, tail |-> tail]

OneSector == {<<0, 0>>}

OneShape == {Shape("OTHER", 0, 0, <<>>, "status")}

(* A read of one and a half sectors, a read into a buffer that is not      *)
(* writable, a write of a sector from two buffers, a write of half a       *)
(* sector past the end of the image, a flush, a request without a status   *)
(* and a chain without end.                                                *)
MCShapes ==
  {Shape("IN", 0, 0, <<Buf(2, TRUE), Buf(1, TRUE)>>, "status"),
   Shape("IN", 1, 0, <<Buf(1, FALSE)>>, "status"),
   Shape("OUT", 0, 0, <<Buf(1, FALSE), Buf(1, FALSE)>>, "status"),
   Shape("OUT", 1, 0, <<Buf(1, FALSE)>>, "status"),
   Shape("OTHER", 0, 0, <<>>, "status"),
   Shape("OUT", 0, 0, <<Buf(1, FALSE)>>, "none"),
   Shape("OUT", 0, 0, <<Buf(1, FALSE)>>, "loop")}
=============================================================================
