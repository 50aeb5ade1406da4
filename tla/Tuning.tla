------------------------------- MODULE Tuning -------------------------------
(***************************************************************************)
(* Retuning the frontend: dvbTuneS, dvbTuneT and dvbUnTune (stream/dvb.c), *)
(* srvTuneTpi and the commands around it (stream/server.c, stream/main.c), *)
(* and the threads that follow the frontend by its events: the program     *)
(* database (pgmdb.c), videotext (vtdb.c), EPG (epgdb.c), the streamer     *)
(* (net_writer.c) and the announcer (sap.c).                               *)
(*                                                                         *)
(* The caller is one thread at a time (conn_mutex, or the offline task     *)
(* when there is no connection; see Arbiter.tla).  It sends events to the  *)
(* queues of the listeners (Selector.tla: none is lost, none overtakes)    *)
(* and polls their idle flags.  dvbTuneS and dvbTuneT assert that no pid   *)
(* filter is open; by Selector!FiltersFollowPorts that is so exactly when  *)
(* no listener wants a pid.                                                *)
(*                                                                         *)
(* Not modelled here: recorders, which are stopped synchronously before    *)
(* tuning (Arbiter.tla), and the optional mheg downloader.                 *)
(***************************************************************************)
EXTENDS Naturals, Sequences, FiniteSets

CONSTANTS
  Transponders,
  Pnrs,       (* program numbers                                           *)
  Untuned,    (* no transponder is tuned                                   *)
  StreamEit,  (* net_writer's stream_eit option                            *)
  MaxQueue    (* bound: a command starts only if no queue is longer        *)

ASSUME TuningAssumption ==
  /\ Untuned \notin Transponders
  /\ IsFiniteSet(Pnrs)    (* 16 bits *)
  /\ StreamEit \in BOOLEAN
  /\ MaxQueue \in Nat

Listeners == {"pgmdb", "vtdb", "epgdb", "net_writer", "sap"}

VARIABLES
  tuned,      (* dvb_s.tuned with pos, ifreq and pol; Untuned if not tuned *)
  streaming,  (* the program numbers of the connections                    *)
  pc,         (* where the caller is                                       *)
  goal,       (* transponder and program the caller is tuning for          *)
  queue,      (* the events each listener has not read                     *)
  idle,       (* what pgmdbUntuned, vtdbIdle, ... return                   *)
  pnrs,       (* the programs a listener has been told of                  *)
  pids,       (* the listener has pids open                                *)
  known,      (* the transponders in the program database                  *)
  disturbed   (* history: the switch was reconfigured or the dvr device    *)
              (* failed, and no tuning has been completed since            *)

vars == <<tuned, streaming, pc, goal, queue, idle, pnrs, pids, known, disturbed>>
listening == <<idle, pnrs, pids, known>>

(* Events.  A tuned event carries its transponder, a pnr event its program.*)
Ev(id, arg) == [id |-> id, arg |-> arg]
Events == [id : {"E_IDLE", "E_TUNING", "E_CONFIG", "E_ALL_VT"}, arg : {Untuned}]
          \cup [id : {"E_TUNED"}, arg : Transponders]
          \cup [id : {"E_PNR_ADD", "E_PNR_RMV"}, arg : Pnrs]

NoGoal == [tp |-> Untuned, pnr |-> {}]

TypeOK ==
  /\ tuned \in Transponders \cup {Untuned}
  /\ streaming \in SUBSET Pnrs
  /\ pc \in {"ready", "wait_idle", "tune", "wait_tuned", "tuned", "wait_untuned"}
  /\ goal \in [tp : Transponders \cup {Untuned}, pnr : SUBSET Pnrs]
  /\ queue \in [Listeners -> Seq(Events)]
  /\ idle \in [Listeners -> BOOLEAN]
  /\ pnrs \in [Listeners -> SUBSET Pnrs]
  /\ pids \in [Listeners -> BOOLEAN]
  /\ known \in SUBSET Transponders
  /\ disturbed \in BOOLEAN

Init ==
  /\ tuned = Untuned
  /\ streaming = {}
  /\ pc = "ready"
  /\ goal = NoGoal
  /\ queue = [l \in Listeners |-> <<>>]
  /\ idle = [l \in Listeners |-> TRUE]
  /\ pnrs = [l \in Listeners |-> {}]
  /\ pids = [l \in Listeners |-> FALSE]
  /\ known = Transponders
  /\ disturbed = FALSE

(* selectorSndEvt for each of evs in turn. *)
Send(evs) == queue' = [l \in Listeners |-> queue[l] \o evs]

Room == \A l \in Listeners : Len(queue[l]) <= MaxQueue

-----------------------------------------------------------------------------
(* The caller.                                                             *)

(* srvTunePg on the transponder that is tuned, in place of the program the *)
(* connection had.                                                         *)
AddPnr(old, new) ==
  /\ pc = "ready" /\ Room
  /\ tuned \in known
  /\ old \in SUBSET streaming /\ Cardinality(old) <= 1
  /\ new \in Pnrs \ streaming
  /\ streaming' = (streaming \ old) \cup {new}
  /\ Send(IF old = {} THEN <<Ev("E_PNR_ADD", new)>>
          ELSE <<Ev("E_PNR_RMV", CHOOSE o \in old : TRUE), Ev("E_PNR_ADD", new)>>)
  /\ UNCHANGED <<tuned, pc, goal, listening, disturbed>>

(* connectionClear *)
RmvPnr(p) ==
  /\ pc = "ready" /\ Room
  /\ p \in streaming
  /\ streaming' = streaming \ {p}
  /\ Send(<<Ev("E_PNR_RMV", p)>>)
  /\ UNCHANGED <<tuned, pc, goal, listening, disturbed>>

(* srvSetSwitch and dvbSetSwitch: nothing is untuned. *)
SetSwitch ==
  /\ pc = "ready" /\ Room
  /\ Send(<<Ev("E_CONFIG", Untuned)>>)
  /\ disturbed' = TRUE
  /\ UNCHANGED <<tuned, streaming, pc, goal, listening>>

(* pgmRmvAllPnrs and srvTuneTpi up to the first loop.  srvTunePg tunes for *)
(* a program nobody streams (pgmStreaming), srvScanTp, the offline task    *)
(* and others for none.                                                    *)
BeginTune(t, want) ==
  /\ pc = "ready" /\ Room
  /\ t \in known
  /\ want \in SUBSET Pnrs /\ Cardinality(want) <= 1
  /\ want # {} => (t # tuned \/ disturbed) /\ want \cap streaming = {}
  /\ streaming' = {}
  /\ goal' = [tp |-> t, pnr |-> want]
  /\ tuned' = Untuned
  /\ IF tuned # Untuned THEN Send(<<Ev("E_IDLE", Untuned)>>) ELSE UNCHANGED queue
  /\ pc' = "wait_idle"
  /\ UNCHANGED <<listening, disturbed>>

(* Mutant: pgmdb alone is waited for, as dvbUnTune's callers do. *)
AllIdlePgmdbOnly ==
  /\ pc = "wait_idle"
  /\ idle["pgmdb"]
  /\ pc' = "tune"
  /\ UNCHANGED <<tuned, streaming, goal, queue, listening, disturbed>>

(* "wait for state change to propagate" *)
AllIdle ==
  /\ pc = "wait_idle"
  /\ \A l \in Listeners : idle[l]
  /\ pc' = "tune"
  /\ UNCHANGED <<tuned, streaming, goal, queue, listening, disturbed>>

(* dvbTuneS, dvbTuneT: assert, selectorReinit (which takes the pids of     *)
(* every port), E_TUNING, and what the hardware makes of it.  An           *)
(* unconfigured switch is found before any of it.                          *)
TuneFails ==
  /\ pc = "tune"
  /\ \/ UNCHANGED <<queue, pids>>
     \/ /\ \/ Send(<<Ev("E_TUNING", Untuned)>>)
           \/ Send(<<Ev("E_TUNING", Untuned), Ev("E_IDLE", Untuned)>>)
        /\ pids' = [l \in Listeners |-> FALSE]
  /\ goal' = NoGoal
  /\ pc' = "ready"
  /\ UNCHANGED <<tuned, streaming, idle, pnrs, known, disturbed>>

(* Tuned, but the dvr device cannot be opened: no event, no transfer. *)
TuneNoDvr ==
  /\ pc = "tune"
  /\ disturbed' = TRUE
  /\ Send(<<Ev("E_TUNING", Untuned)>>)
  /\ pids' = [l \in Listeners |-> FALSE]
  /\ tuned' = goal.tp
  /\ goal' = NoGoal
  /\ pc' = "ready"
  /\ UNCHANGED <<streaming, idle, pnrs, known>>

TuneLocks ==
  /\ pc = "tune"
  /\ Send(<<Ev("E_TUNING", Untuned), Ev("E_TUNED", goal.tp)>>)
  /\ pids' = [l \in Listeners |-> FALSE]
  /\ tuned' = goal.tp
  /\ pc' = "wait_tuned"
  /\ UNCHANGED <<streaming, goal, idle, pnrs, known, disturbed>>

(* "again.." *)
AllTuned ==
  /\ pc = "wait_tuned"
  /\ disturbed' = FALSE
  /\ \A l \in Listeners : ~idle[l]
  /\ pc' = "tuned"
  /\ UNCHANGED <<tuned, streaming, goal, queue, listening>>

(* The rest of srvTunePg; or of the offline task, which asks for all the   *)
(* videotext; or of srvScanTp.                                             *)
EndTune ==
  /\ pc = "tuned"
  /\ IF goal.pnr # {}
     THEN LET p == CHOOSE p \in goal.pnr : TRUE
          IN  Send(<<Ev("E_PNR_ADD", p)>>) /\ streaming' = {p}
     ELSE /\ \/ UNCHANGED queue \/ Send(<<Ev("E_ALL_VT", Untuned)>>)
          /\ UNCHANGED streaming
  /\ goal' = NoGoal
  /\ pc' = "ready"
  /\ UNCHANGED <<tuned, listening, disturbed>>

(* dvbUnTune when the last connection has gone, or the offline task idles: *)
(* both wait for pgmdb alone.                                              *)
UnTune ==
  /\ pc = "ready" /\ Room
  /\ streaming = {}
  /\ Send(<<Ev("E_IDLE", Untuned)>>)
  /\ tuned' = Untuned
  /\ pc' = "wait_untuned"
  /\ UNCHANGED <<streaming, goal, listening, disturbed>>

PgmdbUntuned ==
  /\ pc = "wait_untuned"
  /\ idle["pgmdb"]
  /\ pc' = "ready"
  /\ UNCHANGED <<tuned, streaming, goal, queue, listening, disturbed>>

-----------------------------------------------------------------------------
(* The listeners.  Each handler is one event of the listener's loop.       *)

Set(f, l, v) == f' = [f EXCEPT ![l] = v]

(* pgmdb_proc_evt: a transponder that is not in the database leaves it     *)
(* untuned; reconfiguration empties the database and reads the initial     *)
(* tuning files again.                                                     *)
pgmdb_proc_evt(ev) ==
  /\ CASE ev.id \in {"E_IDLE", "E_TUNING"} ->
            Set(idle, "pgmdb", TRUE) /\ Set(pids, "pgmdb", FALSE) /\ UNCHANGED known
       [] ev.id = "E_TUNED" ->
            /\ IF ev.arg \in known
               THEN Set(idle, "pgmdb", FALSE) /\ Set(pids, "pgmdb", TRUE)
               ELSE UNCHANGED <<idle, pids>>
            /\ UNCHANGED known
       [] ev.id = "E_CONFIG" ->
            /\ Set(idle, "pgmdb", TRUE) /\ Set(pids, "pgmdb", FALSE)
            /\ known' \in SUBSET Transponders
       [] OTHER -> UNCHANGED <<idle, pids, known>>
  /\ UNCHANGED pnrs

(* vtdb_proc_evt: its idle flag is current_pos == NULL, which E_CONFIG     *)
(* sets too; programs are added whether it is idle or not.                 *)
vtdb_proc_evt(ev) ==
  /\ CASE ev.id \in {"E_IDLE", "E_TUNING", "E_CONFIG"} ->
            /\ Set(idle, "vtdb", TRUE) /\ Set(pids, "vtdb", FALSE)
            /\ Set(pnrs, "vtdb", {})
       [] ev.id = "E_TUNED" -> Set(idle, "vtdb", FALSE) /\ UNCHANGED <<pids, pnrs>>
       [] ev.id = "E_PNR_ADD" ->
            /\ Set(pnrs, "vtdb", pnrs["vtdb"] \cup {ev.arg})
            /\ Set(pids, "vtdb", TRUE) /\ UNCHANGED idle
       [] ev.id = "E_PNR_RMV" ->
            /\ Set(pnrs, "vtdb", pnrs["vtdb"] \ {ev.arg})
            /\ Set(pids, "vtdb", pnrs'["vtdb"] # {}) /\ UNCHANGED idle
       [] ev.id = "E_ALL_VT" ->
            /\ \E listed \in SUBSET Pnrs : Set(pnrs, "vtdb", pnrs["vtdb"] \cup listed)
            /\ Set(pids, "vtdb", pnrs'["vtdb"] # {}) /\ UNCHANGED idle
  /\ UNCHANGED known

(* Mutant: the tuned event does not end epgdb's idling. *)
epgdb_proc_evt_StaysIdle(ev) ==
  /\ IF ev.id = "E_TUNED"
     THEN UNCHANGED idle /\ Set(pids, "epgdb", TRUE)
     ELSE IF ev.id \in {"E_IDLE", "E_TUNING"}
     THEN Set(idle, "epgdb", TRUE) /\ Set(pids, "epgdb", FALSE)
     ELSE UNCHANGED <<idle, pids>>
  /\ UNCHANGED <<pnrs, known>>

(* epgdb_proc_evt *)
epgdb_proc_evt(ev) ==
  /\ CASE ev.id \in {"E_IDLE", "E_TUNING"} ->
            Set(idle, "epgdb", TRUE) /\ Set(pids, "epgdb", FALSE)
       [] ev.id = "E_TUNED" -> Set(idle, "epgdb", FALSE) /\ Set(pids, "epgdb", TRUE)
       [] OTHER -> UNCHANGED <<idle, pids>>
  /\ UNCHANGED <<pnrs, known>>

(* do_stream and net_writer_reinit: with stream_eit the pid of the event   *)
(* information is open even if no program is.                              *)
do_stream(ev) ==
  /\ CASE ev.id \in {"E_IDLE", "E_TUNING"} ->
            /\ Set(idle, "net_writer", TRUE) /\ Set(pids, "net_writer", FALSE)
            /\ Set(pnrs, "net_writer", {})
       [] ev.id = "E_TUNED" -> Set(idle, "net_writer", FALSE) /\ UNCHANGED <<pids, pnrs>>
       [] ev.id \in {"E_PNR_ADD", "E_PNR_RMV"} ->
            /\ Set(pnrs, "net_writer", IF ev.id = "E_PNR_ADD"
                                       THEN pnrs["net_writer"] \cup {ev.arg}
                                       ELSE pnrs["net_writer"] \ {ev.arg})
            /\ Set(pids, "net_writer", StreamEit \/ pnrs'["net_writer"] # {})
            /\ UNCHANGED idle
       [] OTHER -> UNCHANGED <<idle, pnrs, pids>>
  /\ UNCHANGED known

(* Mutant: the programs stay announced when the frontend goes idle. *)
sap_proc_evt_KeepsPnrs(ev) ==
  /\ CASE ev.id \in {"E_IDLE", "E_TUNING"} -> Set(idle, "sap", TRUE) /\ UNCHANGED pnrs
       [] ev.id = "E_TUNED" -> Set(idle, "sap", FALSE) /\ UNCHANGED pnrs
       [] ev.id = "E_PNR_ADD" -> Set(pnrs, "sap", pnrs["sap"] \cup {ev.arg}) /\ UNCHANGED idle
       [] ev.id = "E_PNR_RMV" -> Set(pnrs, "sap", pnrs["sap"] \ {ev.arg}) /\ UNCHANGED idle
       [] OTHER -> UNCHANGED <<idle, pnrs>>
  /\ UNCHANGED <<pids, known>>

(* sap_proc_evt: announces programs, opens no pid.                         *)
sap_proc_evt(ev) ==
  /\ CASE ev.id \in {"E_IDLE", "E_TUNING"} -> Set(idle, "sap", TRUE) /\ Set(pnrs, "sap", {})
       [] ev.id = "E_TUNED" -> Set(idle, "sap", FALSE) /\ UNCHANGED pnrs
       [] ev.id = "E_PNR_ADD" -> Set(pnrs, "sap", pnrs["sap"] \cup {ev.arg}) /\ UNCHANGED idle
       [] ev.id = "E_PNR_RMV" -> Set(pnrs, "sap", pnrs["sap"] \ {ev.arg}) /\ UNCHANGED idle
       [] OTHER -> UNCHANGED <<idle, pnrs>>
  /\ UNCHANGED <<pids, known>>

Handle(l, ev) ==
  \/ l = "pgmdb" /\ pgmdb_proc_evt(ev)
  \/ l = "vtdb" /\ vtdb_proc_evt(ev)
  \/ l = "epgdb" /\ epgdb_proc_evt(ev)
  \/ l = "net_writer" /\ do_stream(ev)
  \/ l = "sap" /\ sap_proc_evt(ev)

Listen(l) ==
  /\ queue[l] # <<>>
  /\ queue' = [queue EXCEPT ![l] = Tail(@)]
  /\ Handle(l, Head(queue[l]))
  /\ UNCHANGED <<tuned, streaming, pc, goal, disturbed>>

-----------------------------------------------------------------------------
(* The caller inside srvTuneTpi and the like.                              *)
Caller ==
  \/ AllIdle \/ TuneFails \/ TuneNoDvr \/ TuneLocks
  \/ AllTuned \/ EndTune \/ PgmdbUntuned

Next ==
  \/ \E old \in SUBSET streaming, new \in Pnrs : AddPnr(old, new)
  \/ \E p \in Pnrs : RmvPnr(p)
  \/ SetSwitch
  \/ \E t \in Transponders, want \in SUBSET Pnrs : BeginTune(t, want)
  \/ Caller
  \/ UnTune
  \/ \E l \in Listeners : Listen(l)

Spec == Init /\ [][Next]_vars

(* Listener threads go on reading (selectorWaitData times out and retries),*)
(* the polling loops go on polling, and tuning ends after tune_wait_s.  No *)
(* more is assumed than that one of those who can go on does: a command    *)
(* inside srvTuneTpi is the only one, so that every queue runs empty.      *)
Fairness == WF_vars(Caller \/ \E l \in Listeners : Listen(l))

LiveSpec == Spec /\ Fairness

-----------------------------------------------------------------------------
(* Properties.                                                             *)

(* dvbTuneS and dvbTuneT: assert (NULL == adapter->pid_fds).               *)
PidsClosed == \A l \in Listeners : ~pids[l]

AssertHolds == pc = "tune" => PidsClosed

(* The polling of the idle flags in srvTuneTpi is enough for that assert   *)
(* although events are handled late and pnr events open pids on an untuned *)
(* frontend; unless the switch was reconfigured or the dvr device failed   *)
(* since the last tuning that was completed.                               *)
QuiesceBeforeTuning == ~disturbed => AssertHolds

(* net_writer and sap, once they have read their events, serve exactly the *)
(* programs of the connections: pgmRmvAllPnrs, which sends no event, the   *)
(* failed tunings and reconfiguration never make them differ.              *)
StreamersFollow ==
  /\ TypeOK
  /\ \A l \in {"net_writer", "sap"} :
       pc = "ready" /\ queue[l] = <<>> => pnrs[l] = streaming

(* A command that tunes ends: the listeners all become idle, then all      *)
(* tuned, and conn_mutex is released; with the same exception.             *)
TuneEnds == pc # "ready" /\ ~disturbed ~> pc = "ready"
=============================================================================
