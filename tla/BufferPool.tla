----------------------------- MODULE BufferPool -----------------------------
(***************************************************************************)
(* The reference-counted payload pool (rcptr.c and item_list.c as used by  *)
(* selector.c) seen from the holders of its references.                    *)
(*                                                                         *)
(* A holder is anything that keeps payload pointers: the queue of a port,  *)
(* the client that has read elements from a port, the DvbVec of the        *)
(* transfer thread, the senders of events.  hold[h] is what h keeps; it is *)
(* the ground truth the code does not have.  The code has only the counter *)
(* of every block (ref) and num_buffers, and frees a block when its        *)
(* counter says so.  The theorems of BufferPoolProofs say the two agree.   *)
(*                                                                         *)
(* SelectorProofs proves that Selector.tla implements this specification.  *)
(***************************************************************************)
EXTENDS Naturals, FiniteSets

CONSTANTS
  Holders,  (* whatever may keep a reference to a payload block            *)
  Bufs,     (* identities of payload blocks, free ones included            *)
  Limit     (* Selector.limit, "upper bound on allocated elements"         *)

ASSUME PoolAssumption ==
  /\ IsFiniteSet(Holders)
  /\ IsFiniteSet(Bufs)
  /\ Limit \in Nat

VARIABLES
  hold,         (* hold[h]: the blocks holder h has a reference to         *)
  ref,          (* RcHdr.ctr of every block, 0 when it is free             *)
  data,         (* the allocated blocks whose SelBuf.type is 0: packets    *)
  num_buffers   (* Selector.num_buffers                                    *)

vars == <<hold, ref, data, num_buffers>>

(* The holders of b. *)
HoldersOf(b) == {h \in Holders : b \in hold[h]}

(* The blocks in use. *)
Live == {b \in Bufs : ref[b] > 0}

TypeOK ==
  /\ hold \in [Holders -> SUBSET Bufs]
  /\ ref \in [Bufs -> Nat]
  /\ data \in SUBSET Bufs
  /\ num_buffers \in Nat

Init ==
  /\ hold = [h \in Holders |-> {}]
  /\ ref = [b \in Bufs |-> 0]
  /\ data = {}
  /\ num_buffers = 0

-----------------------------------------------------------------------------
(* rcptrMallocIl: a free block gets its first reference.                   *)
Malloc(h, b) ==
  /\ ref[b] = 0
  /\ ref' = [ref EXCEPT ![b] = 1]
  /\ hold' = [hold EXCEPT ![h] = @ \cup {b}]
  /\ num_buffers' = num_buffers + 1

(* Mutant: the limit is forgotten.                                         *)
AllocElementNoLimit(h, b) ==
  /\ Malloc(h, b)
  /\ data' = data \cup {b}

(* selectorAllocElementUnsafe: packets are refused at the limit.           *)
AllocElement(h, b) ==
  /\ num_buffers < Limit
  /\ Malloc(h, b)
  /\ data' = data \cup {b}

(* The first critical section of selectorSndEvt: no limit.                 *)
AllocEvent(h, b) ==
  /\ Malloc(h, b)
  /\ UNCHANGED data

(* Mutant: the feeder never gives up its own reference.                    *)
FeedKeepsFeedersRef(h, b, receivers) ==
  /\ b \in hold[h]
  /\ receivers \cap HoldersOf(b) = {}
  /\ ref' = [ref EXCEPT ![b] = @ + Cardinality(receivers)]
  /\ hold' = [g \in Holders |->
                IF g \in receivers THEN hold[g] \cup {b}
                ELSE IF g = h THEN hold[g] \ {b} ELSE hold[g]]
  /\ UNCHANGED <<num_buffers, data>>

(* selectorFeedUnsafe: one rcptrAcquire for every receiver of the block,   *)
(* then the feeder's own reference is released.                            *)
Feed(h, b, receivers) ==
  /\ b \in hold[h]
  /\ receivers \cap HoldersOf(b) = {}
  /\ ref' = [ref EXCEPT ![b] = (@ + Cardinality(receivers)) - 1]
  /\ hold' = [g \in Holders |->
                IF g \in receivers THEN hold[g] \cup {b}
                ELSE IF g = h THEN hold[g] \ {b} ELSE hold[g]]
  /\ IF ref'[b] = 0
     THEN num_buffers' = num_buffers - 1 /\ data' = data \ {b}
     ELSE UNCHANGED <<num_buffers, data>>

(* selector_read_element_internal: the reference moves, no counter does.   *)
Read(h, g, b) ==
  /\ h # g
  /\ UNCHANGED <<ref, data, num_buffers>>
  /\ b \in hold[h]
  /\ b \notin hold[g]
  /\ hold' = [hold EXCEPT ![h] = @ \ {b}, ![g] = @ \cup {b}]

(* The holders that give up their reference to b in this step. *)
Dropping(b) == {h \in Holders : b \in hold[h] \ hold'[h]}

(* rcptrReleaseIl once per reference given up: a block whose counter comes *)
(* to zero is freed and num_buffers goes down.                             *)
Freed == {b \in Bufs : ref[b] > 0 /\ ref[b] = Cardinality(Dropping(b))}

(* Mutant: every release counts a buffer down, not only the last.          *)
ReleaseCountsEvery ==
  /\ hold' \in [Holders -> SUBSET Bufs]
  /\ \A h \in Holders : hold'[h] \subseteq hold[h]
  /\ ref' = [b \in Bufs |-> ref[b] - Cardinality(Dropping(b))]
  /\ num_buffers' = num_buffers - Cardinality({b \in Bufs : Dropping(b) # {}})
  /\ data' = data \ Freed

(* Any holders give up any of their blocks.                                *)
Release ==
  /\ hold' \in [Holders -> SUBSET Bufs]
  /\ \A h \in Holders : hold'[h] \subseteq hold[h]
  /\ ref' = [b \in Bufs |-> ref[b] - Cardinality(Dropping(b))]
  /\ num_buffers' = num_buffers - Cardinality(Freed)
  /\ data' = data \ Freed

Next ==
  \/ \E h \in Holders, b \in Bufs : AllocElement(h, b)
  \/ \E h \in Holders, b \in Bufs : AllocEvent(h, b)
  \/ \E h \in Holders : \E b \in hold[h] :
       \E receivers \in SUBSET (Holders \ HoldersOf(b)) : Feed(h, b, receivers)
  \/ \E h, g \in Holders : \E b \in hold[h] : Read(h, g, b)
  \/ Release

Spec == Init /\ [][Next]_vars

-----------------------------------------------------------------------------
(* selector.h on SelE.data: "Element's reference count reflects their      *)
(* number."  The counter of a block is the number of its holders, so a     *)
(* block is freed by its last holder and by nobody else.                   *)
RefcountExact == \A b \in Bufs : ref[b] = Cardinality(HoldersOf(b))

(* num_buffers, which the allocation limit is checked against, counts      *)
(* exactly the blocks in use: no path of selector.c forgets to count one   *)
(* up or down, however references end.                                     *)
NumBuffersExact == num_buffers = Cardinality(Live)

(* A packet lives only while somebody holds it.                            *)
DataLive == data \subseteq Live

(* The limit bounds the packets in use, whatever the number of events.     *)
DataWithinLimit == Cardinality(data) <= Limit

(* The inductive invariant.                                                *)
PoolInv ==
  /\ TypeOK
  /\ RefcountExact
  /\ NumBuffersExact
  /\ DataLive
  /\ DataWithinLimit
=============================================================================
