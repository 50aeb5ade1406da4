------------------------------ MODULE RecSched ------------------------------
(***************************************************************************)
(* The recording schedule: the list and the file of stream/rec_sched.c,    *)
(* the entries of common/rs_entry.c, and what rec_task, the recordings and *)
(* the clients do to them (stream/rec_tsk.c, stream/server.c), through     *)
(* crashes, power cuts and restarts.                                       *)
(*                                                                         *)
(* RecTask.t protects list and file.  The file is truncated by fopen and   *)
(* filled up to fclose; either may fail, and no caller looks.  What was    *)
(* written is safe from the end of the process, and from a power cut when  *)
(* the kernel has written it back: nothing calls fsync.                    *)
(***************************************************************************)
EXTENDS Naturals, FiniteSets, SequencesExt

CONSTANTS
  Ids,          (* identities of entries                                   *)
  Repeats,      (* those whose type is not RST_ONCE                        *)
  StartTime,    (* RsEntry.start_time as the client sets it                *)
  Period,       (* what rsNextTime adds                                    *)
  ClientStates, (* RsEntry.state as clients send it                        *)
  MaxTime       (* bound: the last moment considered                       *)

ASSUME RecSchedAssumption ==
  /\ IsFiniteSet(Ids) /\ Repeats \subseteq Ids
  /\ StartTime \in [Ids -> Nat]
  /\ Period \in Nat \ {0} /\ MaxTime \in Nat
  /\ ClientStates \subseteq {"RS_IDLE", "RS_WAITING"}

VARIABLES
  now,      (* time(NULL), in a coarse unit                                *)
  sched,    (* RecSchedFile.sched                                          *)
  recorded, (* entries owned by a recording: not on the list               *)
  schfile,  (* the list a reader of the file finds                         *)
  disk,     (* the list a power cut leaves of it                           *)
  writing,  (* between fopen and fclose of rsWrite                         *)
  stale,    (* history: the last update or write of the list went wrong    *)
  missed    (* history: entries being recorded when it was last written    *)

storage == <<schfile, disk, writing, stale>>
schedVars == <<now, sched, recorded, storage, missed>>

Entry == [id : Ids, start : Nat, state : {"RS_IDLE", "RS_WAITING"}]

(* The entry of id as a client sends it. *)
Sent(id, s) == [id |-> id, start |-> StartTime[id], state |-> s]

Listed == {x.id : x \in Range(sched)}
Recording == {x.id : x \in recorded}

SchedTypeOK ==
  /\ now \in 0..MaxTime
  /\ sched \in Seq(Entry) /\ schfile \in Seq(Entry) /\ disk \in Seq(Entry)
  /\ recorded \in SUBSET Entry
  /\ writing \in BOOLEAN /\ stale \in BOOLEAN /\ missed \in SUBSET Entry
  /\ IsInjective([i \in DOMAIN sched |-> sched[i].id])
  /\ Listed \cap Recording = {}

SchedInit ==
  /\ now = 0
  /\ sched = <<>> /\ recorded = {}
  /\ schfile = <<>> /\ disk = <<>> /\ writing = FALSE
  /\ stale = FALSE /\ missed = {}

-----------------------------------------------------------------------------
(* rsPending: two minutes before start_time, and for ever after.           *)
rsPending(x) == x.state = "RS_WAITING" /\ now >= x.start

(* Mutant: the comparison of rsEntryCmp is turned round.                   *)
rsInsertEntryReversed(list, x) ==
  LET i == SelectInSeq(list, LAMBDA y : x.start >= y.start)
  IN  IF i = 0 THEN Append(list, x) ELSE InsertAt(list, i, x)

(* rsInsertEntry: before the first entry that does not start earlier.  (If *)
(* they start together, pos, freq, pol, pnr and evt_id decide.)            *)
rsInsertEntry(list, x) ==
  LET i == SelectInSeq(list, LAMBDA y : x.start <= y.start)
  IN  IF i = 0 THEN Append(list, x) ELSE InsertAt(list, i, x)

rsInsertAll(list, entries) ==
  FoldSet(LAMBDA x, l : rsInsertEntry(l, x), list, entries)

(* The entries of a list that are not in gone, in their order. *)
Without(list, gone) ==
  LET kept[i \in 0 .. Len(list)] ==
        IF i = 0 THEN <<>>
        ELSE IF list[i] \in gone THEN kept[i - 1] ELSE Append(kept[i - 1], list[i])
  IN  kept[Len(list)]

(* rsDone for a repeating entry. *)
rsDone(x) == [x EXCEPT !.start = @ + Period]

(* rsWrite up to fclose: the file is empty.  If fopen fails it returns 1,  *)
(* and no caller looks.                                                    *)
rsWrite ==
  /\ UNCHANGED disk
  /\ \/ writing' = TRUE /\ schfile' = <<>> /\ UNCHANGED stale
     \/ stale' = TRUE /\ UNCHANGED <<writing, schfile>>

(* dlistWrite and fclose; the mutex is released.  What fwrite, fputc and   *)
(* fclose return is ignored: on a full disk the rest is missing.           *)
Written ==
  /\ writing
  /\ writing' = FALSE
  /\ schfile' \in Prefixes(sched)
  /\ stale' = (schfile' # sched) /\ missed' = recorded
  /\ UNCHANGED <<now, sched, recorded, disk>>

(* The kernel writes the file back, whenever it likes.                     *)
WriteBack ==
  /\ disk' \in Prefixes(IF writing THEN sched ELSE schfile)
  /\ UNCHANGED <<now, sched, recorded, schfile, writing, stale, missed>>

-----------------------------------------------------------------------------
(* Clients.  Two entries with one identity would be two entries.           *)

Offers == {S \in SUBSET {Sent(id, s) : id \in Ids \ Recording, s \in ClientStates} :
             \A x, y \in S : x.id = y.id => x = y}

(* srvRecSched, recTaskRcvSched: a new list for the old one. *)
RcvSched(new) ==
  /\ ~writing
  /\ sched' = rsInsertAll(<<>>, new)
  /\ rsWrite
  /\ UNCHANGED <<now, recorded, missed>>

(* The connection is lost on the way: abort_flag and the count are not     *)
(* initialised then, and what has come is kept without rsWrite.            *)
RcvSchedCut(new) ==
  /\ ~writing
  /\ sched' = rsInsertAll(<<>>, new)
  /\ stale' = TRUE
  /\ UNCHANGED <<now, recorded, schfile, disk, writing, missed>>

(* srvAddSched, recTaskRcvEntry *)
RcvEntry(id, s) ==
  /\ ~writing
  /\ id \notin Listed \cup Recording
  /\ sched' = rsInsertEntry(sched, Sent(id, s))
  /\ rsWrite
  /\ UNCHANGED <<now, recorded, missed>>

-----------------------------------------------------------------------------
(* Mutant: the head of the list is skipped.                                *)
DueNotFirst ==
  {sched[i] : i \in {j \in DOMAIN sched : j > 1 /\ \A k \in 2..j : rsPending(sched[k])}}

(* rec_task: from the head of the list as long as entries are pending; for *)
(* each rt_start works or it does not.  No write.  (RecTask.t is held over *)
(* the walk but for rt_abort_all; see Arbiter.tla.)                        *)
Due == {sched[i] : i \in {j \in DOMAIN sched : \A k \in 1..j : rsPending(sched[k])}}

Walk(started) ==
  /\ ~writing
  /\ started \subseteq Due
  /\ started # {}
  /\ sched' = Without(sched, started)
  /\ recorded' = recorded \cup started
  /\ UNCHANGED <<now, storage, missed>>

(* Mutant: the list is not written.                                        *)
rt_done_NoWrite(x) ==
  /\ ~writing
  /\ x \in recorded
  /\ recorded' = recorded \ {x}
  /\ sched' = IF x.id \in Repeats THEN rsInsertEntry(sched, rsDone(x)) ELSE sched
  /\ missed' = missed \ {x}
  /\ UNCHANGED <<now, storage>>

(* rt_done: a repeating entry goes back to the list, "so it does not loose *)
(* data on power outage..."; any other is gone.                            *)
rt_done(x) ==
  /\ ~writing
  /\ x \in recorded
  /\ recorded' = recorded \ {x}
  /\ IF x.id \in Repeats
     THEN sched' = rsInsertEntry(sched, rsDone(x)) /\ rsWrite
     ELSE UNCHANGED <<sched, storage>>
  /\ missed' = missed \ {x}
  /\ UNCHANGED now

(* rsInit, in a new process: the list is what the file holds.  A file that *)
(* it cannot open is an empty list.                                        *)
rsInit(list) ==
  /\ schfile' = list
  /\ sched' \in {list, <<>>}
  /\ recorded' = {} /\ writing' = FALSE /\ stale' = FALSE /\ missed' = {}
  /\ UNCHANGED now

(* recTaskClear when the recordings are aborted, each with its rt_done:    *)
(* rsClear writes the list, or fails to.                                   *)
Shutdown ==
  /\ ~writing /\ recorded = {}
  /\ \E list \in {schfile} \cup Prefixes(sched) : rsInit(list)
  /\ UNCHANGED disk

(* The process ends in any other way.  An unfinished file is read as far   *)
(* as it goes (a record that is cut in two is left out here).              *)
Crash ==
  /\ \E list \in IF writing THEN Prefixes(sched) ELSE {schfile} : rsInit(list)
  /\ UNCHANGED disk

PowerCut == rsInit(disk) /\ UNCHANGED disk

TimePasses ==
  /\ now < MaxTime
  /\ now' = now + 1
  /\ UNCHANGED <<sched, recorded, storage, missed>>

SchedNext ==
  \/ Written \/ WriteBack
  \/ \E id \in Ids, s \in ClientStates : RcvEntry(id, s)
  \/ \E new \in Offers : RcvSched(new) \/ RcvSchedCut(new)
  \/ \E started \in SUBSET Due : Walk(started)
  \/ \E x \in recorded : rt_done(x)
  \/ Shutdown \/ Crash \/ PowerCut \/ TimePasses

SchedSpec == SchedInit /\ [][SchedNext]_schedVars

(* rec_task looks every two seconds, and a recording that can be started   *)
(* is, sooner or later (the entry stays pending until it is).              *)
LiveSchedSpec ==
  /\ SchedSpec
  /\ WF_schedVars(Written)
  /\ \A id \in Ids :
       SF_schedVars(\E started \in SUBSET Due : id \in {x.id : x \in started} /\ Walk(started))

-----------------------------------------------------------------------------
(* Properties.                                                             *)

(* rec_task stops at the first entry that is not pending.  Among waiting   *)
(* entries that is right: none that is due lies behind one that is not,    *)
(* whatever was inserted, repeated, removed or read from the file.         *)
DueFirst ==
  /\ SchedTypeOK
  /\ \A i, j \in DOMAIN sched :
      i < j /\ sched[i].state = "RS_WAITING" /\ rsPending(sched[j]) => rsPending(sched[i])

(* Outside a write, and unless the last update or write went wrong, the    *)
(* end of the process loses no entry that waits for its time, and none     *)
(* that is being recorded but those that were when the list was last       *)
(* written: rt_start takes them off the list, rt_done writes it "so it     *)
(* does not loose data on power outage...".                                *)
EntriesInFile ==
  ~writing /\ ~stale => Range(sched) \cup (recorded \ missed) \subseteq Range(schfile)

(* rs_entry.h on rsPending: "returns true if rec should be started".  An   *)
(* entry for which it is true is started, or taken off the list.           *)
PendingStarted ==
  \A id \in Ids :
    (\E x \in Range(sched) : x.id = id /\ rsPending(x))
      ~> ~(\E x \in Range(sched) : x.id = id /\ rsPending(x))
=============================================================================
