------------------------------ MODULE VtStore -------------------------------
(***************************************************************************)
(* How the videotext database keeps its magazines (stream/vtdb.c): the     *)
(* most used ones in memory, on the list of lru.c, the others in blocks of *)
(* a file managed by fp_mm.c, and an index in the file from a clean stop   *)
(* to the next start.                                                      *)
(*                                                                         *)
(* The store thread and the clients' calls hold VtDb.t.mx, so a packet, an *)
(* event and a call are one action each.  Starting and stopping write the  *)
(* file in several steps, and a crash may fall between any two of them.    *)
(* stdio flushes a write before the next seek, so writes reach the file in *)
(* the order of the program.  Of the allocator only its promise is used    *)
(* (module Heap, implemented by FpMm).                                     *)
(*                                                                         *)
(* A magazine's contents are the number of packets stored in it.           *)
(***************************************************************************)
EXTENDS Integers, FiniteSets, SequencesExt, Functions

CONSTANTS
  Mags,      (* magazines: position, tsid, pid, service and number         *)
  Ptrs,      (* blocks of the file                                         *)
  NoMag,     (* NULL                                                       *)
  NoPtr,     (* the file pointer 0                                         *)
  mag_limit, (* configured number of magazines in memory                   *)
  PerPnr,    (* 8: magazines more for every program received               *)
  MaxPnrs,   (* bound: programs received at a time                         *)
  MaxPk      (* bound: packets stored in a magazine                        *)

ASSUME VtStoreAssumption ==
  /\ IsFiniteSet(Mags) /\ NoMag \notin Mags
  /\ IsFiniteSet(Ptrs) /\ NoPtr \notin Ptrs
  /\ Cardinality(Ptrs) > Cardinality(Mags)
  /\ mag_limit \in Nat \ {0} /\ PerPnr \in Nat
  /\ MaxPnrs \in Nat /\ MaxPk \in Nat

L == INSTANCE Lru WITH NoElem <- NoMag

VARIABLES
  pc,             (* "down", "attached", "up", "closing"                   *)
  file,           (* [root, blocks]: what the file holds                   *)
  mag,            (* VtMagNode of every known magazine                     *)
  lru,            (* VtDb.mag_lru                                          *)
  num_pnrs,       (* VtDb.num_pnrs                                         *)
  real_mag_limit, (* VtDb.real_mag_limit                                   *)
  current,        (* current_pos and current_tsid are set                  *)
  od_root,        (* vtdbInit, vtdb_write_idx: the block of the index      *)
  put             (* history: packets put into every magazine              *)

vars == <<pc, file, mag, lru, num_pnrs, real_mag_limit, current, od_root, put>>

(* The union of VtMagNode. *)
InMemory(n) == [on_disk |-> FALSE, n |-> n]
OnDisk(p)   == [on_disk |-> TRUE, p |-> p]

Nothing == <<>>   (* a function without arguments *)

TypeOK ==
  /\ pc \in {"down", "attached", "up", "closing"}
  /\ file.root \in Ptrs \cup {NoPtr} /\ DOMAIN file.blocks \subseteq Ptrs
  /\ DOMAIN mag \subseteq Mags /\ DOMAIN put \subseteq Mags
  /\ \A m \in DOMAIN mag : mag[m] \in {InMemory(n) : n \in 0 .. MaxPk}
                                        \cup {OnDisk(p) : p \in Ptrs}
  /\ ToSet(lru.l) \subseteq Mags /\ lru.mid \in Mags \cup {NoMag}
  /\ num_pnrs \in 0 .. MaxPnrs
  /\ real_mag_limit \in mag_limit .. mag_limit + PerPnr * MaxPnrs
  /\ current \in BOOLEAN /\ od_root \in Ptrs \cup {NoPtr}

-----------------------------------------------------------------------------
(* The store: what a call works on.                                        *)

Store == [mag |-> mag, lru |-> lru, blocks |-> file.blocks]

SetStore(s) ==
  /\ mag' = s.mag /\ lru' = s.lru
  /\ file' = [file EXCEPT !.blocks = s.blocks]

(* k rounds of LRURemoveLast, vtdb_write_mag; where says which block each  *)
(* magazine gets from fphCalloc.                                           *)
Victims(s, k) == {s.lru.l[i] : i \in Len(s.lru.l) - k + 1 .. Len(s.lru.l)}

Places(s, k) == Injection(Victims(s, k), Ptrs \ DOMAIN s.blocks)

(* The list after k calls of LRURemoveLast. *)
Shortened(q, k) ==
  LET last[i \in 0 .. k] == IF i = 0 THEN q ELSE L!LRURemoveLast(last[i - 1])
  IN  last[k]

SwapOut(s, k, where) ==
  LET gone == Victims(s, k)
      new == Range(where)
  IN [mag |-> [m \in DOMAIN s.mag |-> IF m \in gone THEN OnDisk(where[m]) ELSE s.mag[m]],
      lru |-> Shortened(s.lru, k),
      blocks |-> [p \in DOMAIN s.blocks \cup new |->
                    IF p \in new THEN [n |-> s.mag[CHOOSE m \in gone : where[m] = p].n]
                    ELSE s.blocks[p]]]

(* Mutant: no room is made for the one to come. *)
ExcessByOne(s, limit) ==
  IF L!LRUGetSize(s.lru) <= limit THEN 0 ELSE L!LRUGetSize(s.lru) - limit

(* vtdb_check_swapout: room for one magazine more. *)
Excess(s, limit) ==
  IF L!LRUGetSize(s.lru) < limit THEN 0 ELSE L!LRUGetSize(s.lru) - limit + 1

(* Mutant: the block is not freed. *)
SwapInLeaks(s, m) ==
  [mag |-> [s.mag EXCEPT ![m] = InMemory(s.blocks[s.mag[m].p].n)],
   lru |-> L!LRUPutMid(s.lru, m), blocks |-> s.blocks]

(* Mutant: the packets are not read. *)
SwapInEmpty(s, m) ==
  [mag |-> [s.mag EXCEPT ![m] = InMemory(0)],
   lru |-> L!LRUPutMid(s.lru, m),
   blocks |-> Restrict(s.blocks, DOMAIN s.blocks \ {s.mag[m].p})]

(* vtdb_read_mag, on_disk = 0 and LRUPutMid. *)
SwapIn(s, m) ==
  LET p == s.mag[m].p
  IN [mag |-> [s.mag EXCEPT ![m] = InMemory(s.blocks[p].n)],
      lru |-> L!LRUPutMid(s.lru, m),
      blocks |-> Restrict(s.blocks, DOMAIN s.blocks \ {p})]

(* Magazine m in memory, after a swap-out if it was not; vtdb_get_mag and  *)
(* vtdb_get_or_ins_mag have this in common.                                *)
Loaded(s, m, where) ==
  IF m \notin DOMAIN s.mag
  THEN LET t == SwapOut(s, Excess(s, real_mag_limit), where)
       IN [t EXCEPT !.mag = [x \in DOMAIN @ \cup {m} |-> IF x = m THEN InMemory(0) ELSE @[x]],
                    !.lru = L!LRUPutMid(@, m)]
  ELSE IF s.mag[m].on_disk
  THEN SwapIn(SwapOut(s, Excess(s, real_mag_limit), where), m)
  ELSE s

LoadPlaces(s, m) ==
  Places(s, IF m \in DOMAIN s.mag /\ ~s.mag[m].on_disk THEN 0 ELSE Excess(s, real_mag_limit))

-----------------------------------------------------------------------------
(* Packets, events and calls of a running database.                        *)

(* vtdb_put of a packet that belongs to a magazine. *)
vtdb_put(m) ==
  /\ pc = "up" /\ current
  /\ (IF m \in DOMAIN put THEN put[m] ELSE 0) < MaxPk
  /\ \E where \in LoadPlaces(Store, m) :
       LET s == Loaded(Store, m, where)
       IN SetStore([s EXCEPT !.mag[m].n = @ + 1])
  /\ put' = [x \in DOMAIN put \cup {m} |->
               IF x # m THEN put[x] ELSE IF m \in DOMAIN put THEN put[m] + 1 ELSE 1]
  /\ UNCHANGED <<pc, num_pnrs, real_mag_limit, current, od_root>>

(* vtdbGetMagPk, vtdbGetPg: vtdb_get_mag of a known magazine. *)
vtdb_get_mag(m) ==
  /\ pc = "up" /\ m \in DOMAIN mag
  /\ \E where \in LoadPlaces(Store, m) :
       LET s == Loaded(Store, m, where)
       IN SetStore([s EXCEPT !.lru = L!LRUFwd(@, m)])
  /\ UNCHANGED <<pc, num_pnrs, real_mag_limit, current, od_root, put>>

(* The end of vtdb_add_pids, vtdb_rmv_pids and vtdb_add_all_pids. *)
SetPnrs(s, n) ==
  /\ num_pnrs' = n
  /\ real_mag_limit' = mag_limit + PerPnr * n
  /\ LET k == Excess(s, real_mag_limit')
     IN \E where \in Places(s, k) : SetStore(SwapOut(s, k, where))
  /\ UNCHANGED <<pc, current, od_root, put>>

(* E_PNR_ADD, E_PNR_RMV *)
vtdb_add_pids == pc = "up" /\ num_pnrs < MaxPnrs /\ SetPnrs(Store, num_pnrs + 1)
vtdb_rmv_pids == pc = "up" /\ num_pnrs > 0 /\ SetPnrs(Store, num_pnrs - 1)

(* E_ALL_VT, with all the programs of the transponder. *)
vtdb_add_all_pids ==
  /\ pc = "up"
  /\ \E n \in num_pnrs .. MaxPnrs, where \in Places(Store, Len(lru.l)) :
       SetPnrs(SwapOut(Store, Len(lru.l), where), n)

(* E_TUNING, E_IDLE: the limit stays until a program comes or goes. *)
GoIdle ==
  /\ pc = "up"
  /\ current' = FALSE /\ num_pnrs' = 0
  /\ UNCHANGED <<pc, file, mag, lru, real_mag_limit, od_root, put>>

(* E_TUNED *)
GoTuned ==
  /\ pc = "up"
  /\ current' = TRUE
  /\ UNCHANGED <<pc, file, mag, lru, num_pnrs, real_mag_limit, od_root, put>>

(* E_CONFIG: vtdb_reconfig *)
vtdb_reconfig ==
  /\ pc = "up"
  /\ mag' = Nothing /\ put' = Nothing
  /\ file' = [file EXCEPT !.blocks = Nothing]
  /\ lru' = L!LRUInit
  /\ num_pnrs' = 0 /\ current' = FALSE
  /\ UNCHANGED <<pc, real_mag_limit, od_root>>

-----------------------------------------------------------------------------
(* Stopping, crashing and starting.                                        *)

(* vtdb_write_idx: the block for the index ... *)
CloseBegin ==
  /\ pc = "up" /\ file.root = NoPtr
  /\ \E p \in Ptrs \ DOMAIN file.blocks :
       /\ od_root' = p
       /\ file' = [file EXCEPT !.blocks =
                     [q \in DOMAIN @ \cup {p} |-> IF q = p THEN [idx |-> Nothing] ELSE @[q]]]
  /\ pc' = "closing"
  /\ UNCHANGED <<mag, lru, num_pnrs, real_mag_limit, current, put>>

(* ... the entry of a magazine, and the magazine if it is in memory        *)
(* (vtdb_btree_write_magn) ...                                             *)
CloseMag(m) ==
  LET AddEntry(blocks, p) ==
        [blocks EXCEPT ![od_root].idx =
           [x \in DOMAIN @ \cup {m} |-> IF x = m THEN p ELSE @[x]]]
  IN /\ pc = "closing" /\ m \notin DOMAIN file.blocks[od_root].idx
     /\ \/ /\ mag[m].on_disk
           /\ file' = [file EXCEPT !.blocks = AddEntry(@, mag[m].p)]
           /\ UNCHANGED <<mag, lru>>
        \/ /\ ~mag[m].on_disk
           /\ lru' = L!LRURemove(lru, m)
           /\ \E p \in Ptrs \ DOMAIN file.blocks :
                /\ mag' = [mag EXCEPT ![m] = OnDisk(p)]
                /\ file' = [file EXCEPT !.blocks =
                     AddEntry([q \in DOMAIN @ \cup {p} |->
                                 IF q = p THEN [n |-> mag[m].n] ELSE @[q]], p)]
     /\ UNCHANGED <<pc, num_pnrs, real_mag_limit, current, od_root, put>>

(* What is only in memory is gone. *)
Forget ==
  /\ mag' = Nothing /\ lru' = L!LRUInit
  /\ num_pnrs' = 0 /\ real_mag_limit' = mag_limit
  /\ current' = FALSE /\ od_root' = NoPtr

(* ... and the pointer to the index last. *)
CloseEnd ==
  /\ pc = "closing" /\ DOMAIN file.blocks[od_root].idx = DOMAIN mag
  /\ file' = [file EXCEPT !.root = od_root]
  /\ pc' = "down"
  /\ Forget /\ UNCHANGED put

(* The server dies. *)
Crash ==
  /\ pc # "down"
  /\ pc' = "down"
  /\ Forget /\ UNCHANGED <<file, put>>

(* vtdbInit of a file without index: fphInit. *)
InitFile ==
  /\ pc = "down" /\ file.root = NoPtr
  /\ file' = [root |-> NoPtr, blocks |-> Nothing]
  /\ put' = Nothing
  /\ pc' = "up"
  /\ UNCHANGED <<mag, lru, num_pnrs, real_mag_limit, current, od_root>>

(* Mutant: the pointer to the index stays. *)
AttachFileKeepsRoot ==
  /\ pc = "down" /\ file.root # NoPtr
  /\ od_root' = file.root
  /\ pc' = "attached"
  /\ UNCHANGED <<file, mag, lru, num_pnrs, real_mag_limit, current, put>>

(* vtdbInit of a file with index: fphAttach, and the pointer is cleared    *)
(* first ...                                                               *)
AttachFile ==
  /\ pc = "down" /\ file.root # NoPtr
  /\ od_root' = file.root
  /\ file' = [file EXCEPT !.root = NoPtr]
  /\ pc' = "attached"
  /\ UNCHANGED <<mag, lru, num_pnrs, real_mag_limit, current, put>>

(* ... before vtdb_read_index, and fphFree of the index. *)
ReadIndex ==
  /\ pc = "attached"
  /\ LET idx == file.blocks[od_root].idx
     IN mag' = [m \in DOMAIN idx |-> OnDisk(idx[m])]
  /\ file' = [file EXCEPT !.blocks = Restrict(@, DOMAIN @ \ {od_root})]
  /\ od_root' = NoPtr
  /\ pc' = "up"
  /\ UNCHANGED <<lru, num_pnrs, real_mag_limit, current, put>>

-----------------------------------------------------------------------------
Init ==
  /\ pc = "down"
  /\ file = [root |-> NoPtr, blocks |-> Nothing]
  /\ mag = Nothing /\ lru = L!LRUInit /\ put = Nothing
  /\ num_pnrs = 0 /\ real_mag_limit = mag_limit
  /\ current = FALSE /\ od_root = NoPtr

Next ==
  \/ \E m \in Mags : vtdb_put(m) \/ vtdb_get_mag(m)
  \/ vtdb_add_pids \/ vtdb_rmv_pids \/ vtdb_add_all_pids
  \/ GoIdle \/ GoTuned \/ vtdb_reconfig
  \/ CloseBegin \/ (\E m \in DOMAIN mag : CloseMag(m)) \/ CloseEnd
  \/ Crash \/ InitFile \/ AttachFile \/ ReadIndex

Spec == Init /\ [][Next]_vars

-----------------------------------------------------------------------------
(* Properties.                                                             *)

Running == pc \in {"up", "closing"}
Cached == ToSet(lru.l)

(* A magazine is on the list exactly when it is in memory, and the blocks  *)
(* of the file are exactly those of the magazines on disk and of the       *)
(* index, one each: nothing leaks or is shared however swapping, clients'  *)
(* reads, events, restarts and reconfiguration follow each other.          *)
OneHome ==
  /\ TypeOK
  /\ Running =>
      LET away == {m \in DOMAIN mag : mag[m].on_disk}
          at == [m \in away |-> mag[m].p]
      IN /\ Cached = DOMAIN mag \ away /\ Len(lru.l) = Cardinality(Cached)
         /\ IsInjective(at)
         /\ DOMAIN file.blocks = Range(at) \cup ({od_root} \ {NoPtr})
         /\ od_root \notin Range(at)

(* No packet is lost or stored twice by swapping a magazine out and in     *)
(* (vtdb_write_mag, vtdb_read_mag): memory or its block holds exactly what *)
(* vtdb_put was given since the database was created.                      *)
PacketsKept ==
  Running =>
    /\ DOMAIN mag = DOMAIN put
    /\ \A m \in DOMAIN mag :
         put[m] = IF mag[m].on_disk THEN file.blocks[mag[m].p].n ELSE mag[m].n

(* The middle, the counters and the sides of the list are right and it is  *)
(* balanced after every operation, also LRURemove ("this is broken" says   *)
(* the comment on it) and at most real_mag_limit magazines are in memory   *)
(* (vtdb_check_swapout).                                                   *)
ListSound ==
  /\ L!Placed(lru) /\ L!Balanced(lru)
  /\ Len(lru.l) <= real_mag_limit

(* A file whose pointer to the index is set is complete: the next vtdbInit *)
(* finds every magazine with all its packets.  A crash during start, use   *)
(* or stop leaves the pointer clear, never a partial index in use.         *)
ImageComplete ==
  file.root # NoPtr =>
    /\ file.root \in DOMAIN file.blocks
    /\ LET idx == file.blocks[file.root].idx
       IN /\ DOMAIN idx = DOMAIN put /\ IsInjective(idx)
          /\ DOMAIN file.blocks = Range(idx) \cup {file.root}
          /\ \A m \in DOMAIN idx : file.blocks[idx[m]].n = put[m]
=============================================================================
