-------------------------------- MODULE Heap --------------------------------
(***************************************************************************)
(* What the persistent allocator promises its users, vtdb and epgdb: an    *)
(* allocation overlaps no other block, and a block neither moves, grows    *)
(* nor vanishes before it is freed or the whole heap is cleared, over any  *)
(* number of restarts.                                                     *)
(***************************************************************************)
EXTENDS Naturals

VARIABLE live   (* the allocated blocks: records with a pointer and a size *)

Overlap(a, b) == a.p < b.p + b.size /\ b.p < a.p + a.size

HeapInit == live = {}

(* fphMalloc, fphCalloc *)
Alloc ==
  \E b \in live' :
    /\ live' = live \cup {b}
    /\ b.size > 0
    /\ \A other \in live : ~Overlap(b, other)

(* fphFree *)
Release == \E b \in live : live' = live \ {b}

(* fphZero *)
Clear == live' = {}

HeapSpec == HeapInit /\ [][Alloc \/ Release \/ Clear]_live
=============================================================================
