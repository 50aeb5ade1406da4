------------------------------ MODULE Selector ------------------------------
(***************************************************************************)
(* The packet selector (stream/selector.c), its feeder dvb_transfer and    *)
(* the hardware pid filters dvb_restart keeps (stream/dvb.c).              *)
(*                                                                         *)
(* Every operation of selector.c runs under Selector.mx, so one operation  *)
(* is one action, except where the code leaves the mutex in between: an    *)
(* event is allocated in one critical section and fed in another, and the  *)
(* transfer thread keeps the mutex over a whole batch, which it works off  *)
(* call by call here (step = "work"; nobody else moves meanwhile).         *)
(*                                                                         *)
(* Ports are the buffering ports (packet_here = buf_packet_here).  Their   *)
(* pid arrays hold no pid twice: every caller merges them with             *)
(* pidbufMergeUniq or pidbufAddPid, so they are sets here.                 *)
(***************************************************************************)
EXTENDS Naturals, FiniteSets, Sequences

CONSTANTS
  Ports,     (* output ports, linked or not                                *)
  Pids,      (* packet ids                                                 *)
  Bufs,      (* payload blocks                                             *)
  Limit,     (* Selector.limit                                             *)
  NumBuf,    (* NUM_BUF: size of the transfer thread's DvbVec              *)
  MaxHand,   (* bound: elements a client keeps before it releases one      *)
  MaxSend,   (* bound: events between their two critical sections          *)
  Evt,       (* content of a block that holds an event                     *)
  Unfilled,  (* content of a packet block no packet was read into yet      *)
  Free       (* content of a block that is not allocated                   *)

ASSUME SelectorAssumption ==
  /\ IsFiniteSet(Ports) /\ IsFiniteSet(Bufs)
  /\ Limit \in Nat /\ NumBuf \in Nat \ {0}
  /\ MaxHand \in Nat \ {0} /\ MaxSend \in Nat \ {0}
  /\ {Evt, Unfilled, Free} \cap Pids = {}
  /\ Cardinality({Evt, Unfilled, Free}) = 3

VARIABLES
  linked,       (* Selector.ports                                          *)
  pids,         (* SelPort.pids                                            *)
  queue,        (* SelPort.q, oldest first                                 *)
  hand,         (* elements the client of a port has read, not yet released*)
  ref,          (* reference counter of every block                        *)
  content,      (* Evt, the pid of the packet, Unfilled or Free            *)
  num_buffers,  (* Selector.num_buffers                                    *)
  sending,      (* selectorSndEvt: blocks allocated and not yet fed        *)
  iov,          (* DvbVec.baseptr[0 .. num_avail-1]                        *)
  step,         (* of the transfer thread: "stopped", "poll" or "work"     *)
  left,         (* packets of the current readv still to be fed            *)
  misaligned,   (* the packet after those does not start with a sync byte  *)
  fds,          (* dvb_s.pid_fds: pids with an open filter                 *)
  lost          (* wanted pids whose filter could not be opened            *)

vars == <<linked, pids, queue, hand, ref, content, num_buffers, sending,
          iov, step, left, misaligned, fds, lost>>

blocks   == <<ref, content, num_buffers>>
transfer == <<iov, step, left, misaligned>>
filters  == <<fds, lost>>

TypeOK ==
  /\ linked \in SUBSET Ports
  /\ pids \in [Ports -> SUBSET Pids]
  /\ \A p \in Ports : queue[p] \in Seq(Bufs)
  /\ hand \in [Ports -> SUBSET Bufs]
  /\ ref \in [Bufs -> Nat]
  /\ content \in [Bufs -> Pids \cup {Evt, Unfilled, Free}]
  /\ num_buffers \in Nat
  /\ sending \in SUBSET Bufs
  /\ iov \in Seq(Bufs) /\ Len(iov) <= NumBuf
  /\ step \in {"stopped", "poll", "work"}
  /\ left \in 0..NumBuf
  /\ misaligned \in BOOLEAN
  /\ fds \in SUBSET Pids
  /\ lost \in SUBSET Pids

Init ==
  /\ linked = {}
  /\ pids = [p \in Ports |-> {}]
  /\ queue = [p \in Ports |-> <<>>]
  /\ hand = [p \in Ports |-> {}]
  /\ ref = [b \in Bufs |-> 0]
  /\ content = [b \in Bufs |-> Free]
  /\ num_buffers = 0
  /\ sending = {}
  /\ iov = <<>>
  /\ step = "stopped"
  /\ left = 0
  /\ misaligned = FALSE
  /\ fds = {}
  /\ lost = {}

-----------------------------------------------------------------------------
(* Helpers.                                                                *)

(* selectorLock: the transfer thread has the mutex while it works.         *)
MutexFree == step # "work"

Entries(q) == {q[i] : i \in DOMAIN q}

(* selector_get_pids_internal *)
AllPids == UNION {pids[p] : p \in linked}

(* rcptrMallocIl and the num_buffers++ that follows it.                    *)
Malloc(b, c) ==
  /\ ref[b] = 0
  /\ ref' = [ref EXCEPT ![b] = 1]
  /\ content' = [content EXCEPT ![b] = c]
  /\ num_buffers' = num_buffers + 1

(* n[b] calls of selector_release_element_internal for every block b.      *)
ReleaseRefs(n) ==
  LET freed == {b \in Bufs : n[b] > 0 /\ ref[b] = n[b]}
  IN  /\ ref' = [b \in Bufs |-> ref[b] - n[b]]
      /\ content' = [b \in Bufs |-> IF b \in freed THEN Free ELSE content[b]]
      /\ num_buffers' = num_buffers - Cardinality(freed)

Occurrences(q, b) == Cardinality({i \in DOMAIN q : q[i] = b})

(* Where b is queued: ports of P and places in their queues.               *)
Places(P, b) == UNION {{p} \X {i \in DOMAIN queue[p] : queue[p][i] = b} : p \in P}

(* The elements of a queue that are in S, in their order.                  *)
Filter(q, S) ==
  LET kept[i \in 0 .. Len(q)] ==
        IF i = 0 THEN <<>>
        ELSE IF q[i] \in S THEN Append(kept[i - 1], q[i]) ELSE kept[i - 1]
  IN  kept[Len(q)]

(* The elements not in Keep(p) leave the queue of every port p of P.       *)
Purge(P, Keep(_)) ==
  /\ queue' = [p \in Ports |-> IF p \in P THEN Filter(queue[p], Keep(p)) ELSE queue[p]]
  /\ ReleaseRefs([b \in Bufs |-> Cardinality({x \in Places(P, b) : b \notin Keep(x[1])})])

(* Mutant: filters nobody wants are not closed.                            *)
dvb_restart_NoClose(add, rmv) ==
  \E failed \in SUBSET add :
    /\ fds' = fds \cup (add \ failed)
    /\ lost' = (lost \ rmv) \cup failed

(* dvb_restart: filters are closed before others are opened; opening one   *)
(* may fail (dvb_ins_pid_fd only logs it), closing a missing one is logged.*)
dvb_restart(add, rmv) ==
  \E failed \in SUBSET add :
    /\ fds' = (fds \ rmv) \cup (add \ failed)
    /\ lost' = (lost \ rmv) \cup failed

(* The difference of the wanted pids before and after the step is reported *)
(* to Selector.pid_change unless it is empty.                              *)
PidChange ==
  IF AllPids' = AllPids THEN UNCHANGED filters
  ELSE dvb_restart(AllPids' \ AllPids, AllPids \ AllPids')

(* Mutant: a packet nobody wants stays counted.                            *)
DeliverNoDiscard(b, receivers) ==
  LET n == (ref[b] + Cardinality(receivers)) - 1
  IN  /\ queue' = [p \in Ports |->
                     IF p \in receivers THEN Append(queue[p], b) ELSE queue[p]]
      /\ ref' = [ref EXCEPT ![b] = n]
      /\ num_buffers' = num_buffers

(* Mutant: the feeder never gives up its reference.                        *)
DeliverKeepsFeedersRef(b, receivers) ==
  /\ queue' = [p \in Ports |->
                 IF p \in receivers THEN Append(queue[p], b) ELSE queue[p]]
  /\ ref' = [ref EXCEPT ![b] = @ + Cardinality(receivers)]
  /\ UNCHANGED num_buffers

(* Mutant: list_add_head instead of the tail.                              *)
DeliverInFront(b, receivers) ==
  LET n == (ref[b] + Cardinality(receivers)) - 1
  IN  /\ queue' = [p \in Ports |->
                     IF p \in receivers THEN <<b>> \o queue[p] ELSE queue[p]]
      /\ ref' = [ref EXCEPT ![b] = n]
      /\ num_buffers' = IF n = 0 THEN num_buffers - 1 ELSE num_buffers

(* selectorFeedUnsafe: each receiver's queue gets the block and a reference*)
(* of its own, then the feeder's reference is released.                    *)
Deliver(b, receivers) ==
  LET n == (ref[b] + Cardinality(receivers)) - 1
  IN  /\ queue' = [p \in Ports |->
                     IF p \in receivers THEN Append(queue[p], b) ELSE queue[p]]
      /\ ref' = [ref EXCEPT ![b] = n]
      /\ num_buffers' = IF n = 0 THEN num_buffers - 1 ELSE num_buffers

-----------------------------------------------------------------------------
(* Operations of the clients.                                              *)

(* selectorAddPort: "no pids, events only". *)
AddPort(p) ==
  /\ MutexFree
  /\ p \notin linked
  /\ linked' = linked \cup {p}
  /\ pids' = [pids EXCEPT ![p] = {}]
  /\ queue' = [queue EXCEPT ![p] = <<>>]
  /\ UNCHANGED <<hand, blocks, sending, transfer, filters>>

(* selectorRemovePort empties the queue, reports the pids nobody wants any *)
(* more and unlinks the port. *)
Nothing(p) == {}

RemovePort(p) ==
  /\ MutexFree
  /\ p \in linked
  /\ linked' = linked \ {p}
  /\ pids' = [pids EXCEPT ![p] = {}]
  /\ Purge({p}, Nothing)
  /\ PidChange
  /\ UNCHANGED <<hand, sending, transfer>>

(* Mutant: events are purged like packets.                                 *)
WantedNoEvents(p) == {b \in Bufs : content[b] \in pids'[p]}

(* selPortRSU's test: events stay, packets stay if the port wants them.    *)
Wanted(p) == {b \in Bufs : content[b] = Evt \/ content[b] \in pids'[p]}

(* selectorModPort: stale packets are purged only if a filter was touched. *)
ModPort(p, set) ==
  /\ MutexFree
  /\ p \in linked
  /\ pids' = [pids EXCEPT ![p] = set]
  /\ UNCHANGED <<linked, hand, sending, transfer>>
  /\ PidChange
  /\ IF AllPids' = AllPids THEN UNCHANGED <<queue, blocks>>
     ELSE Purge({p}, Wanted)

(* selectorReadElement *)
ReadElement(p) ==
  /\ MutexFree
  /\ p \in linked
  /\ queue[p] # <<>>
  /\ Cardinality(hand[p]) < MaxHand
  /\ queue' = [queue EXCEPT ![p] = Tail(@)]
  /\ hand' = [hand EXCEPT ![p] = @ \cup {Head(queue[p])}]
  /\ UNCHANGED <<linked, pids, blocks, sending, transfer, filters>>

(* selectorReleaseElement, also after the port is gone *)
ReleaseElement(p, b) ==
  /\ MutexFree
  /\ b \in hand[p]
  /\ hand' = [hand EXCEPT ![p] = @ \ {b}]
  /\ ReleaseRefs([x \in Bufs |-> IF x = b THEN 1 ELSE 0])
  /\ UNCHANGED <<linked, pids, queue, sending, transfer, filters>>

(* selectorSndEvt, first critical section: the limit is not consulted. *)
SndEvtAlloc(b) ==
  /\ MutexFree
  /\ Cardinality(sending) < MaxSend
  /\ Malloc(b, Evt)
  /\ sending' = sending \cup {b}
  /\ UNCHANGED <<linked, pids, queue, hand, transfer, filters>>

(* selectorSndEvt, second critical section: every linked port gets it. *)
SndEvtFeed(b) ==
  /\ MutexFree
  /\ b \in sending
  /\ sending' = sending \ {b}
  /\ Deliver(b, linked)
  /\ content' = [content EXCEPT ![b] = IF linked = {} THEN Free ELSE @]
  /\ UNCHANGED <<linked, pids, hand, transfer, filters>>

(* selectorReinit.  dvbTuneS and dvbTuneT call it with the transfer thread *)
(* stopped, after assert (NULL == a->pid_fds).                             *)
Reinit ==
  /\ step = "stopped"
  /\ fds = {}
  /\ pids' = [p \in Ports |-> {}]
  /\ Purge(linked, Wanted)
  /\ lost' = {}
  /\ UNCHANGED <<linked, hand, sending, transfer, fds>>

-----------------------------------------------------------------------------
(* The transfer thread.                                                    *)

(* dvb_transfer up to its loop: the vector is filled first. *)
TransferStart ==
  /\ step = "stopped"
  /\ step' = "work"
  /\ UNCHANGED <<linked, pids, queue, hand, blocks, sending, iov, left,
                 misaligned, filters>>

(* poll and readv: some packets, then perhaps one that is not aligned.     *)
(* None at all is a read error (EOVERFLOW, or no buffer to read into).     *)
Readv ==
  /\ step = "poll"
  /\ step' = "work"
  /\ left' \in 0..Len(iov)
  /\ misaligned' \in BOOLEAN
  /\ misaligned' => left' < Len(iov)
  /\ UNCHANGED <<linked, pids, queue, hand, blocks, sending, iov, filters>>

(* dvb_proc_iov feeds the next aligned packet.  Its pid may be one whose   *)
(* filter is closed: the kernel's ring buffer is not emptied.              *)
FeedPacket(pid) ==
  /\ step = "work"
  /\ left > 0
  /\ left' = left - 1
  /\ iov' = Tail(iov)
  /\ LET b == Head(iov)
         receivers == {p \in linked : pid \in pids[p]}
     IN  /\ Deliver(b, receivers)
         /\ content' = [content EXCEPT ![b] = IF receivers = {} THEN Free ELSE pid]
  /\ UNCHANGED <<linked, pids, hand, sending, step, misaligned, filters>>

(* dvb_proc_iov: "release all buffers and start over". *)
NotAligned ==
  /\ step = "work"
  /\ left = 0
  /\ misaligned
  /\ misaligned' = FALSE
  /\ iov' = <<>>
  /\ ReleaseRefs([b \in Bufs |-> Occurrences(iov, b)])
  /\ UNCHANGED <<linked, pids, queue, hand, sending, step, left, filters>>

(* Batch done: dvb_init_iov tops the vector up to NUM_BUF as long as       *)
(* selectorAllocElementUnsafe gives blocks.                                *)
CanAlloc ==
  /\ Len(iov) < NumBuf
  /\ num_buffers < Limit
  /\ \E b \in Bufs : ref[b] = 0

AllocElement(b) ==
  /\ step = "work" /\ left = 0 /\ ~misaligned
  /\ CanAlloc
  /\ Malloc(b, Unfilled)
  /\ iov' = Append(iov, b)
  /\ UNCHANGED <<linked, pids, queue, hand, sending, step, left, misaligned, filters>>

BatchDone ==
  /\ step = "work" /\ left = 0 /\ ~misaligned
  /\ ~CanAlloc
  /\ step' = "poll"
  /\ UNCHANGED <<linked, pids, queue, hand, blocks, sending, iov, left,
                 misaligned, filters>>

(* taskStop seen at the loop head: dvb_clear_iov. *)
TransferStop ==
  /\ step = "poll"
  /\ step' = "stopped"
  /\ iov' = <<>>
  /\ ReleaseRefs([b \in Bufs |-> Occurrences(iov, b)])
  /\ UNCHANGED <<linked, pids, queue, hand, sending, left, misaligned, filters>>

-----------------------------------------------------------------------------
Next ==
  \/ \E p \in Ports :
       \/ AddPort(p)
       \/ RemovePort(p)
       \/ \E set \in SUBSET Pids : ModPort(p, set)
       \/ ReadElement(p)
       \/ \E b \in Bufs : ReleaseElement(p, b)
  \/ \E b \in Bufs : SndEvtAlloc(b) \/ SndEvtFeed(b) \/ AllocElement(b)
  \/ Reinit
  \/ TransferStart \/ Readv \/ NotAligned \/ BatchDone \/ TransferStop
  \/ \E pid \in Pids : FeedPacket(pid)

Spec == Init /\ [][Next]_vars

(* A thread that waits for the mutex gets it (the transfer thread sleeps   *)
(* in poll and usleep without it), clients keep reading and releasing, and *)
(* the transfer thread finishes its batch.                                 *)
Fairness ==
  /\ \A p \in Ports :
       /\ SF_vars(ReadElement(p))
       /\ SF_vars(\E b \in Bufs : ReleaseElement(p, b))
  /\ SF_vars(\E b \in Bufs : SndEvtFeed(b))
  /\ WF_vars(Readv)
  /\ WF_vars(\/ NotAligned \/ BatchDone
             \/ \E b \in Bufs : AllocElement(b)
             \/ \E pid \in Pids : FeedPacket(pid))

LiveSpec == Spec /\ Fairness

-----------------------------------------------------------------------------
(* Properties.                                                             *)

InQueues(b) == Cardinality(Places(Ports, b))

(* selector.h on SelE.data: "Element's reference count reflects their      *)
(* number."  The counter of a block is exactly the number of queue entries,*)
(* clients, vector slots and event senders that still have it: ModPort,    *)
(* RemovePort, Reinit, a misaligned read and a stopped transfer neither    *)
(* leak a block nor free one that somebody can still reach.                *)
RefcountExact ==
  \A b \in Bufs :
    ref[b] = InQueues(b) + Cardinality({p \in Ports : b \in hand[p]})
           + Occurrences(iov, b) + (IF b \in sending THEN 1 ELSE 0)

(* num_buffers never drifts from the number of blocks in use, and packets  *)
(* (not events) stay within the limit, nor does any of the state leave its *)
(* type.                                                                   *)
BuffersCounted ==
  /\ TypeOK
  /\ num_buffers = Cardinality({b \in Bufs : ref[b] > 0})
  /\ Cardinality({b \in Bufs : content[b] \notin {Evt, Free}}) <= Limit

(* The filters dvb_restart has opened are those of the pids some port asks *)
(* for, less those that failed to open: no filter outlives its last port   *)
(* and no wanted pid goes unfiltered, through any order of ModPort,        *)
(* RemovePort and Reinit.                                                  *)
FiltersFollowPorts ==
  /\ fds \cup lost = AllPids
  /\ fds \cap lost = {}

(* An event that reached a port is never dropped by retuning or by a       *)
(* change of pids: it leaves the queue by being read, or with the port.    *)
EventsSurvive ==
  [][\A p \in linked \cap linked' :
       \A b \in Entries(queue[p]) :
         content[b] = Evt =>
           \/ b \in Entries(queue'[p])
           \/ b = Head(queue[p]) /\ b \in hand'[p]]_vars

(* Elements of a port never overtake each other: what stays queued keeps   *)
(* its order, and what is new comes after it.                              *)
FifoOrder ==
  [][\A p \in Ports :
       LET kept == Filter(queue[p], Entries(queue'[p]))
       IN  kept = SubSeq(queue'[p], 1, Len(kept))]_vars

(* Out of buffers ("selector: out of buffers") is not for ever: when no    *)
(* events are pending any more, a running transfer thread has a block to   *)
(* read into again and again.                                              *)
BuffersComeBack ==
  <>[](\A b \in Bufs : content[b] # Evt) => []<>(step = "stopped" \/ iov # <<>>)

(* The pool the selector implements.                                       *)
PoolHolders == ({"queue", "hand"} \X Ports) \cup ({"dvb"} \X {"iov", "evt"})

PoolHold ==
  [h \in PoolHolders |->
     CASE h[1] = "queue" -> Entries(queue[h[2]])
       [] h[1] = "hand"  -> hand[h[2]]
       [] h = <<"dvb", "iov">> -> Entries(iov)
       [] h = <<"dvb", "evt">> -> sending]

PoolData == {b \in Bufs : content[b] \notin {Evt, Free}}

Pool == INSTANCE BufferPool WITH Holders <- PoolHolders, hold <- PoolHold, data <- PoolData

(* Every step of the selector is a step of the reference-counted pool or   *)
(* leaves it alone.                                                        *)
ImplementsPool == Pool!Spec
=============================================================================
