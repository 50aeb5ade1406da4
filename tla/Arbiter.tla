------------------------------- MODULE Arbiter -------------------------------
(***************************************************************************)
(* Who may use the one frontend: the client connections (stream/main.c,    *)
(* stream/server.c, stream/pgmstate.c), the recording schedule             *)
(* (stream/rec_tsk.c with the threads of stream/eit_rec.c) and the offline *)
(* task (stream/off_tsk.c).                                                *)
(*                                                                         *)
(* Every command runs under PgmState.conn_mutex and is one action.  The    *)
(* recorder task keeps conn_mutex for a whole iteration but drops its own  *)
(* mutex RecTask.t around rt_abort_all, so an iteration is several actions *)
(* and recorders that end by themselves come in between.                   *)
(*                                                                         *)
(* Tuning is one step here, with its outcomes; Tuning.tla opens it up.     *)
(* A program is represented by the transponder it is on.  Time is the      *)
(* moment an entry becomes pending and the moment a recording ends.        *)
(* Not modelled: TERMINATING and the clean-up after it.                    *)
(***************************************************************************)
EXTENDS Integers, FiniteSets, Sequences, Functions

CONSTANTS
  Conns,     (* connections                                                *)
  Super,     (* those from SERVER/super_addr                               *)
  TPs,       (* transponders                                               *)
  Entries,   (* RsEntry: recordings to be scheduled                        *)
  EntryTp,   (* the transponder of an entry                                *)
  Repeats,   (* the entries whose type is not RST_ONCE                     *)
  NoConn,    (* PgmState.master == NULL                                    *)
  NoTp,      (* not tuned, not streaming, not recording                    *)
  NoRec      (* end of a list                                              *)

ASSUME ArbiterAssumption ==
  /\ Super \subseteq Conns
  /\ EntryTp \in [Entries -> TPs]
  /\ Repeats \subseteq Entries
  /\ NoConn \notin Conns /\ NoTp \notin TPs /\ NoRec \notin Entries

VARIABLES
  up,           (* control_run has come to its accept loop                 *)
  conn_active,  (* PgmState.conn_active                                    *)
  active,       (* the connections whose active flag is set                *)
  master,       (* PgmState.master                                         *)
  pnr,          (* Connection.pnr, by the transponder of the program       *)
  quickrec,     (* Connection.quickrec, by the transponder it records      *)
  tp,           (* the transponder dvb_s is tuned to                       *)
  switched,     (* and the switch would now select another frequency for it*)
  ot,           (* the offline task runs                                   *)
  sched,        (* RecTask.sch.sched                                       *)
  pending,      (* its entries for which rsPending holds                   *)
  recs,         (* RecTask.active, recorders named by their entry          *)
  done,         (* RecTask.done                                            *)
  step,         (* of rec_task, see below                                  *)
  tried,        (* entries this iteration has dealt with                   *)
  entry,        (* the entry being started                                 *)
  ae, next      (* the pointers of rt_abort_all                            *)

clients  == <<conn_active, active, master>>
streams  == <<pnr, quickrec>>
frontend == <<tp, switched>>
schedule == <<sched, pending, recs, done>>
rectask  == <<step, tried, entry, ae, next>>
arbVars == <<up, clients, streams, frontend, ot, schedule, rectask>>

(* rec_task: "sleep" without locks; "walk" and "start" with conn_mutex and *)
(* RecTask.t; "fetch" and "join" in rt_abort_all with conn_mutex only.     *)

ArbInit ==
  /\ up = FALSE /\ ot = FALSE
  /\ conn_active = {} /\ active = {} /\ master = NoConn
  /\ pnr = [c \in Conns |-> NoTp] /\ quickrec = [c \in Conns |-> NoTp]
  /\ tp = NoTp /\ switched = FALSE
  /\ sched \in SUBSET Entries /\ pending = {}
  /\ recs = <<>> /\ done = <<>>
  /\ step = "sleep" /\ tried = {} /\ entry = NoRec /\ ae = NoRec /\ next = NoRec

-----------------------------------------------------------------------------
ConnMutexFree == step = "sleep"
RecTaskMutexFree == step \in {"sleep", "fetch", "join"}

(* recTaskActive *)
RecTaskActive == recs # <<>>

(* dvbWouldTune: t is not what the frontend is tuned to, be it that the    *)
(* switch has changed since.                                               *)
dvbWouldTune(t) == tp # t \/ switched

(* The end of a tuning, which goes by the present switch, or of untuning.  *)
TunedTo(t) == tp' = t /\ switched' = FALSE

(* Tuning leaves the frontend untuned if it fails; but tuned, without      *)
(* data, if it fails because the dvr device cannot be opened.              *)
TuningEnds(t) == TunedTo(NoTp) \/ TunedTo(t)

(* Mutant: quick recordings go on. *)
RmvAllPnrsOnly ==
  /\ pnr' = [c \in Conns |-> IF c \in conn_active THEN NoTp ELSE pnr[c]]
  /\ UNCHANGED quickrec

(* pgmRmvAllPnrs: "iterate over all connections stopping their recordings  *)
(* and removing pnrs".                                                     *)
RmvAllPnrs ==
  /\ pnr' = [c \in Conns |-> IF c \in conn_active THEN NoTp ELSE pnr[c]]
  /\ quickrec' = [c \in Conns |-> IF c \in conn_active THEN NoTp ELSE quickrec[c]]

(* Where e is in a list, and dlistRemove.                                  *)
Position(s, e) == CHOOSE i \in DOMAIN s : s[i] = e

Without(s, e) ==
  LET i == Position(s, e)
  IN  SubSeq(s, 1, i - 1) \o SubSeq(s, i + 1, Len(s))

(* rt_done: the recorder of e goes to the list of ended ones; a repeating  *)
(* entry goes back to the schedule, any other is gone.                     *)
rt_done(e) ==
  /\ recs' = Without(recs, e)
  /\ done' = Append(done, e)
  /\ sched' = IF e \in Repeats THEN sched \cup {e} ELSE sched
  /\ UNCHANGED pending

-----------------------------------------------------------------------------
(* Connections.                                                            *)

(* control_run, before the accept loop. *)
ControlRun ==
  /\ ~up
  /\ RecTaskMutexFree
  /\ up' = TRUE
  /\ ot' = (ot \/ ~RecTaskActive)
  /\ UNCHANGED <<clients, streams, frontend, schedule, rectask>>

(* Mutant: the offline task goes on. *)
ConnectBeside(c) ==
  /\ up
  /\ ConnMutexFree
  /\ c \notin conn_active
  /\ conn_active' = conn_active \cup {c}
  /\ active' = active \ {c}
  /\ UNCHANGED <<up, master, frontend, ot, streams, schedule, rectask>>

(* create_connection.  An offline task that is stopped leaves untuned. *)
Connect(c) ==
  /\ up
  /\ ConnMutexFree
  /\ c \notin conn_active
  /\ ot' = FALSE
  /\ IF ot THEN TunedTo(NoTp) ELSE UNCHANGED frontend
  /\ conn_active' = conn_active \cup {c}
  /\ active' = active \ {c}
  /\ UNCHANGED <<up, master, streams, schedule, rectask>>

(* The end of server(): connectionClear, and the frontend goes to the      *)
(* offline task if "no one else is using" it.                              *)
Disconnect(c) ==
  /\ ConnMutexFree
  /\ c \in conn_active
  /\ conn_active' = conn_active \ {c}
  /\ pnr' = [pnr EXCEPT ![c] = NoTp]
  /\ quickrec' = [quickrec EXCEPT ![c] = NoTp]
  /\ master' = IF master = c THEN NoConn ELSE master
  /\ IF conn_active' = {} /\ ~RecTaskActive
     THEN TunedTo(NoTp) /\ ot' = TRUE
     ELSE UNCHANGED <<frontend, ot>>
  /\ UNCHANGED <<up, active, schedule, rectask>>

(* Mutant: the recorder task is not asked. *)
CanGoActiveAnyway(c) ==
  master # NoConn => c \in Super /\ master \notin Super

(* can_go_active *)
CanGoActive(c) ==
  /\ ~RecTaskActive
  /\ master # NoConn => c \in Super /\ master \notin Super

(* Mutant: the old master keeps its flag. *)
GoActiveToo(c) ==
  /\ ConnMutexFree
  /\ c \in conn_active
  /\ CanGoActive(c)
  /\ active' = active \cup {c}
  /\ master' = c
  /\ UNCHANGED <<up, conn_active, streams, frontend, ot, schedule, rectask>>

(* srvGoActive and activate_connection: the old master loses its flag. *)
GoActive(c) ==
  /\ ConnMutexFree
  /\ c \in conn_active
  /\ CanGoActive(c)
  /\ active' = (active \ {master}) \cup {c}
  /\ master' = c
  /\ UNCHANGED <<up, conn_active, streams, frontend, ot, schedule, rectask>>

(* srvGoInactive and deactivate_connection *)
GoInactive(c) ==
  /\ ConnMutexFree
  /\ c \in conn_active
  /\ c = master
  /\ active' = active \ {c}
  /\ master' = NoConn
  /\ UNCHANGED <<up, conn_active, streams, frontend, ot, schedule, rectask>>

(* srvTunePg on the tuned transponder: anybody may. *)
TunePgHere(c) ==
  /\ ConnMutexFree
  /\ c \in conn_active
  /\ tp # NoTp /\ ~switched
  /\ pnr' = [pnr EXCEPT ![c] = tp]
  /\ UNCHANGED <<up, clients, quickrec, frontend, ot, schedule, rectask>>

(* srvTunePg if dvbWouldTune *)
TunePgElsewhere(c, t) ==
  /\ ConnMutexFree
  /\ c \in conn_active
  /\ dvbWouldTune(t)
  /\ c \in active /\ ~RecTaskActive
  /\ \/ RmvAllPnrs /\ TuningEnds(t)
     \/ /\ TunedTo(t)
        /\ pnr' = [d \in Conns |-> IF d = c THEN t
                                   ELSE IF d \in conn_active THEN NoTp ELSE pnr[d]]
        /\ quickrec' = [d \in Conns |->
                          IF d \in conn_active THEN NoTp ELSE quickrec[d]]
  /\ UNCHANGED <<up, clients, ot, schedule, rectask>>

(* It does not tune; the switch may also be set back.                      *)
srvSetSwitch(c) ==
  /\ ConnMutexFree
  /\ c \in conn_active \cap Super \cap active
  /\ tp # NoTp
  /\ switched' = ~switched
  /\ UNCHANGED <<up, clients, streams, tp, ot, schedule, rectask>>

(* srvScanTp does not ask whether the recorder task is active. *)
ScanTp(c, t) ==
  /\ ConnMutexFree
  /\ c \in conn_active \cap Super \cap active
  /\ RmvAllPnrs
  /\ TuningEnds(t)
  /\ UNCHANGED <<up, clients, ot, schedule, rectask>>

(* srvTpFt and srvSetFcorr tune again with the new correction.             *)
Retune(c, t) ==
  /\ ConnMutexFree
  /\ c \in conn_active \cap Super \cap active
  /\ ~RecTaskActive
  /\ RmvAllPnrs
  /\ TuningEnds(t)
  /\ UNCHANGED <<up, clients, ot, schedule, rectask>>

(* srvRecPgm, for whoever is streaming *)
RecPgm(c) ==
  /\ ConnMutexFree
  /\ c \in conn_active
  /\ tp # NoTp /\ pnr[c] # NoTp
  /\ quickrec[c] = NoTp
  /\ quickrec' = [quickrec EXCEPT ![c] = tp]
  /\ UNCHANGED <<up, clients, pnr, frontend, ot, schedule, rectask>>

(* srvRecPgmStop *)
RecPgmStop(c) ==
  /\ ConnMutexFree
  /\ c \in conn_active
  /\ quickrec[c] # NoTp
  /\ quickrec' = [quickrec EXCEPT ![c] = NoTp]
  /\ UNCHANGED <<up, clients, pnr, frontend, ot, schedule, rectask>>

(* srvRecSched and srvAddSched: a schedule from the client.  Entries that  *)
(* are being recorded are not on the list and stay.                        *)
RecSched(c, new) ==
  /\ ConnMutexFree
  /\ c \in conn_active \cap Super
  /\ sched' = new \ (Range(recs) \cup Range(done))
  /\ pending' = pending \cap sched'
  /\ UNCHANGED <<up, clients, streams, frontend, ot, recs, done, rectask>>

(* srvAbortRec and recTaskCancelRunning: the first of the active recorders *)
(* until there is none.                                                    *)
AbortRec(c) ==
  /\ ConnMutexFree
  /\ c \in conn_active \cap Super
  /\ recs' = <<>>
  /\ done' = done \o recs
  /\ sched' = sched \cup (Range(recs) \cap Repeats)
  /\ UNCHANGED <<up, clients, streams, frontend, ot, pending, rectask>>

-----------------------------------------------------------------------------
(* Recordings.                                                             *)

(* The start time of e comes near.  A repeating entry is due again after a *)
(* day at the earliest, long after its last recorder was joined.           *)
ComesDue(e) ==
  /\ e \in sched \ (pending \cup Range(done))
  /\ pending' = pending \cup {e}
  /\ UNCHANGED <<up, clients, streams, frontend, ot, sched, recs, done, rectask>>

(* A recorder thread ends by itself (end of the programme, end of time).   *)
RecorderEnds(e) ==
  /\ RecTaskMutexFree
  /\ e \in Range(recs)
  /\ rt_done(e)
  /\ UNCHANGED <<up, clients, streams, frontend, ot, rectask>>

(* rec_task: an iteration takes both locks. *)
Wake ==
  /\ step = "sleep"
  /\ step' = "walk"
  /\ tried' = {}
  /\ UNCHANGED <<up, clients, streams, frontend, ot, schedule, entry, ae, next>>

(* rt_check_tp: some recorder is on a different transponder. *)
OtherTp(e) == \E r \in Range(recs) : EntryTp[r] # EntryTp[e]

Pick(e) ==
  /\ step = "walk"
  /\ e \in pending \ tried
  /\ entry' = e
  /\ tried' = tried \cup {e}
  /\ IF OtherTp(e) THEN step' = "fetch" /\ ae' = Head(recs)
                   ELSE step' = "start" /\ ae' = NoRec
  /\ UNCHANGED <<up, clients, streams, frontend, ot, schedule, next>>

(* dlistENext in whichever list the element is by now. *)
Successor(s, e) ==
  LET i == Position(s, e)
  IN  IF i < Len(s) THEN s[i + 1] ELSE NoRec

(* rt_abort_all: next = dlistENext (ae), without RecTask.t. *)
AbortFetch ==
  /\ step = "fetch"
  /\ step' = "join"
  /\ next' = Successor(IF ae \in Range(recs) THEN recs ELSE done, ae)
  /\ UNCHANGED <<up, clients, streams, frontend, ot, schedule, tried, entry, ae>>

(* rt_abort_all: eitRecAbort joins the thread, which calls rt_done unless  *)
(* it has done so before; then ae = next.                                  *)
AbortJoin ==
  /\ step = "join"
  /\ IF ae \in Range(recs) THEN rt_done(ae) ELSE UNCHANGED schedule
  /\ ae' = next
  /\ next' = NoRec
  /\ step' = IF next = NoRec THEN "start" ELSE "fetch"
  /\ UNCHANGED <<up, clients, streams, frontend, ot, tried, entry>>

(* Mutant: the deposed master keeps its flag. *)
StartPreemptMasterOnly ==
  /\ step = "start"
  /\ step' = "walk"
  /\ entry' = NoRec
  /\ master' = NoConn
  /\ UNCHANGED <<up, conn_active, active, tried, ae, next, done>>

(* rt_start after rt_ot_stop, both outcomes.  The master is deactivated    *)
(* first, whatever comes of it; streams go only if dvbWouldTune.  An       *)
(* offline task that was stopped has left the frontend untuned.            *)
StartPreempt ==
  /\ step = "start"
  /\ step' = "walk"
  /\ entry' = NoRec
  /\ active' = active \ {master}
  /\ master' = NoConn
  /\ UNCHANGED <<up, conn_active, tried, ae, next, done>>

Start ==
  LET want == EntryTp[entry]
  IN  /\ StartPreempt
      /\ TunedTo(want)
      /\ IF ot \/ dvbWouldTune(want) THEN RmvAllPnrs ELSE UNCHANGED streams
      /\ ot' = FALSE
      /\ recs' = Append(recs, entry)
      /\ sched' = sched \ {entry}
      /\ pending' = pending \ {entry}

(* The entry stays on the schedule and rt_ot_start is called.  Without     *)
(* tuning: no such transponder, or on the tuned one no recorder; after it: *)
(* no lock, or no recorder.                                                *)
StartFails ==
  LET want == EntryTp[entry]
  IN  /\ StartPreempt
      /\ \/ /\ IF ot THEN TunedTo(NoTp) ELSE UNCHANGED frontend
            /\ UNCHANGED streams
         \/ /\ ot \/ dvbWouldTune(want)
            /\ RmvAllPnrs /\ TuningEnds(want)
      /\ ot' = (conn_active = {} /\ ~RecTaskActive)
      /\ UNCHANGED <<sched, pending, recs>>

(* Mutant: rt_ot_start is forgotten. *)
ReapOnly ==
  /\ step = "walk"
  /\ pending \subseteq tried
  /\ step' = "sleep"
  /\ done' = IF done = <<>> THEN done ELSE Tail(done)
  /\ UNCHANGED <<up, clients, streams, frontend, ot, sched, pending, recs>>
  /\ UNCHANGED <<tried, entry, ae, next>>

(* The rest of the iteration joins one recorder that has ended. *)
Reap ==
  /\ step = "walk"
  /\ pending \subseteq tried
  /\ step' = "sleep"
  /\ IF done = <<>> THEN UNCHANGED <<done, ot>>
     ELSE /\ done' = Tail(done)
          /\ ot' = (ot \/ (conn_active = {} /\ ~RecTaskActive))
  /\ UNCHANGED <<up, clients, streams, frontend, sched, pending, recs>>
  /\ UNCHANGED <<tried, entry, ae, next>>

-----------------------------------------------------------------------------
(* offline_task tunes from transponder to transponder and idles between.   *)
OfflineTune(t) ==
  /\ ot
  /\ TuningEnds(t)
  /\ UNCHANGED <<up, clients, streams, ot, schedule, rectask>>

ArbNext ==
  \/ ControlRun
  \/ \E c \in Conns :
       \/ Connect(c) \/ Disconnect(c) \/ GoActive(c) \/ GoInactive(c)
       \/ TunePgHere(c)
       \/ \E t \in TPs : TunePgElsewhere(c, t) \/ ScanTp(c, t) \/ Retune(c, t)
       \/ srvSetSwitch(c) \/ RecPgm(c) \/ RecPgmStop(c) \/ AbortRec(c)
       \/ \E new \in SUBSET Entries : RecSched(c, new)
  \/ \E e \in Entries : ComesDue(e) \/ RecorderEnds(e) \/ Pick(e)
  \/ Wake \/ AbortFetch \/ AbortJoin \/ Start \/ StartFails \/ Reap
  \/ \E t \in TPs : OfflineTune(t)

ArbSpec == ArbInit /\ [][ArbNext]_arbVars

-----------------------------------------------------------------------------
(* Properties.                                                             *)

(* pgmstate.h on master: "there may only be one.  That one is allowed to   *)
(* do actions which require exclusive access."  The flag that the commands *)
(* test and the pointer that arbitration uses never disagree for a         *)
(* connection that exists, through take-over, pre-emption and disconnect.  *)
OneMaster ==
  /\ master # NoConn => master \in conn_active
  /\ active \cap conn_active = {master} \ {NoConn}

(* srvAbortRec: "no need to be active as we can't be when recorder is      *)
(* active".  No connection is active while a scheduled recording runs.     *)
ClientsYield == RecTaskActive => master = NoConn /\ active \cap conn_active = {}

(* off_tsk.h: "We stop it when we get new connection or start recording."  *)
(* The offline task, which tunes without conn_mutex, never runs beside a   *)
(* connection or a recording.                                              *)
OfflineExclusive == ot => conn_active = {} /\ ~RecTaskActive

(* What a connection streams or records is on the tuned transponder: no    *)
(* retuning, by whomever, leaves a stream or a quick recording behind.     *)
StreamsOnTunedTp ==
  \A c \in Conns : pnr[c] \in {NoTp, tp} /\ quickrec[c] \in {NoTp, tp}

(* off_tsk.h: "We start this task when the last connection terminates and  *)
(* no recording is active."  An unused frontend is given to the offline    *)
(* task, or will be when the ended recorder is joined.                     *)
FrontendNotForgotten ==
  up /\ conn_active = {} /\ ~RecTaskActive /\ step = "sleep" => ot \/ done # <<>>

(* The inductive invariant.  A connection that is gone has nothing left,   *)
(* and the frontend is not forgotten while rec_task is between entries.    *)
NothingLeft ==
  \A c \in Conns \ conn_active : pnr[c] = NoTp /\ quickrec[c] = NoTp

NotForgottenYet ==
  up /\ conn_active = {} /\ ~RecTaskActive /\ step \in {"sleep", "walk"} =>
    ot \/ done # <<>>

(* While a scheduled recording runs only rec_task itself retunes.          *)
(* srvScanTp relies on this without asking recTaskActive.                  *)
OnlyRecTaskRetunes ==
  [][RecTaskActive /\ tp' # tp => step = "start"]_arbVars

(* rec_tsk.c on rt_abort_all: "stop active recorders", and eit_rec.h: the  *)
(* recorder runs "with the desired transponder tuned".  Every active       *)
(* recorder is on the tuned transponder.                                   *)
RecordersOnTunedTp == \A e \in Range(recs) : EntryTp[e] = tp
=============================================================================
