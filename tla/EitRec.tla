------------------------------- MODULE EitRec -------------------------------
(***************************************************************************)
(* One scheduled recording: the thread of stream/eit_rec.c, which follows  *)
(* the running status of its event in the event information table, the     *)
(* thread of its recorder (stream/recorder.c), which writes the file, and  *)
(* the recorder task (stream/rec_tsk.c), which aborts, joins and frees it. *)
(*                                                                         *)
(* Both threads listen to the frontend by ports of their own.  A retuning  *)
(* ends both, each when it reads the event.  Arbiter.tla shows how a       *)
(* recording can meet a retuning: rt_abort_all may pass it over.           *)
(*                                                                         *)
(* Time is kept as far as the code tells it apart: how long ago a table    *)
(* and the event were seen, and where now is relative to the planned end.  *)
(***************************************************************************)
EXTENDS Naturals

VARIABLES
  eit,        (* RsEntry.flags & RSF_EIT: eit_rec_loop, else plain_rec_loop*)
  thread,     (* where the thread of the recording is, see Threads         *)
  running,    (* EitRec.t.running                                          *)
  eit_state,  (* EitRec.eit_state                                          *)
  rec,        (* Recorder: "off"; "on"; "left": do_record has returned by  *)
              (* itself, running still set                                 *)
  paused,     (* Recorder.paused                                           *)
  unread,     (* the ports, "eit" and "rec", with an E_TUNING not yet read *)
  retuned,    (* history: the frontend was retuned during the recording    *)
  eit_old,    (* last_eit_seen + 60 < now                                  *)
  id_old,     (* 1: last_id_seen + 60 < now, 2: last_id_seen + 3600 < now  *)
  late,       (* 1: now >= planned end + 60, 2: now >= planned end + 120   *)
  gone        (* the event has left the present/following table            *)

(* Before eitRecScan; at the head of the loop; in it; behind it; rt_done   *)
(* was called; joined and freed by rec_task.                               *)
Threads == {"new", "head", "loop", "exit", "ended", "freed"}

threads == <<thread, running, eit_state>>
file    == <<rec, paused>>
clock   == <<eit_old, id_old, late>>
vars == <<eit, threads, file, unread, retuned, clock, gone>>

Rst == {"EIT_RST_NOT", "EIT_RST_SOON", "EIT_RST_PAUSED", "EIT_RST_RUNNING",
        "EIT_RST_OFF"}

TypeOK ==
  /\ eit \in BOOLEAN
  /\ thread \in Threads
  /\ running \in BOOLEAN
  /\ eit_state \in {"EIT_DONE", "EIT_SCAN", "EIT_RUNNING", "EIT_PAUSE", "EIT_TC"}
  /\ rec \in {"off", "on", "left"}
  /\ paused \in BOOLEAN
  /\ unread \in SUBSET {"eit", "rec"}
  /\ retuned \in BOOLEAN
  /\ eit_old \in BOOLEAN /\ id_old \in 0..2 /\ late \in 0..2
  /\ eit_old => id_old >= 1    (* last_eit_seen >= last_id_seen *)
  /\ gone \in BOOLEAN

(* The structure is calloc'ed: eit_state is EIT_DONE.  An entry is pending *)
(* however late it is (rsPending).                                         *)
Init ==
  /\ eit \in BOOLEAN
  /\ thread = "new" /\ running = FALSE /\ eit_state = "EIT_DONE"
  /\ rec = "off" /\ paused = FALSE
  /\ unread = {} /\ retuned = FALSE
  /\ eit_old = FALSE /\ id_old = 0 /\ late \in 0..2
  /\ gone \in BOOLEAN

(* recorderStart, which may fail; r is the outcome.                        *)
recorderStart(r) ==
  /\ rec' = IF r THEN "on" ELSE rec
  /\ paused' = IF r THEN FALSE ELSE paused
  /\ unread' = IF r THEN unread \ {"rec"} ELSE unread

(* recorderStop joins the thread; events it has not read go with the port. *)
recorderStop == rec' = "off" /\ unread' = unread \ {"rec"} /\ UNCHANGED paused

KeepFile == UNCHANGED <<file, unread>>

-----------------------------------------------------------------------------
(* eitRecScan: the frontend is tuned, the thread starts.                   *)
eitRecScan ==
  /\ thread = "new"
  /\ thread' = "head" /\ running' = TRUE /\ eit_state' = "EIT_SCAN"
  /\ UNCHANGED <<eit, file, unread, retuned, clock, gone>>

(* The loop condition of eit_rec_loop or of plain_rec_loop.                *)
LoopHead ==
  /\ thread = "head"
  /\ thread' = IF running /\ (IF eit THEN eit_state # "EIT_DONE" ELSE late < 2)
               THEN "loop" ELSE "exit"
  /\ UNCHANGED <<eit, running, eit_state, file, unread, retuned, clock, gone>>

(* Mutant: recorderResume is not called.                                   *)
eit_rec_process_NoResume(rst, started) ==
  CASE eit_state = "EIT_SCAN" /\ rst \in {"EIT_RST_SOON", "EIT_RST_RUNNING"} ->
         /\ recorderStart(started)
         /\ eit_state' = IF started THEN "EIT_RUNNING" ELSE eit_state
    [] eit_state \in {"EIT_RUNNING", "EIT_TC"} /\ rst \in {"EIT_RST_PAUSED", "EIT_RST_OFF"} ->
         eit_state' = "EIT_PAUSE" /\ paused' = TRUE /\ UNCHANGED <<rec, unread>>
    [] eit_state \in {"EIT_RUNNING", "EIT_TC", "EIT_PAUSE"} /\ rst = "EIT_RST_NOT" ->
         eit_state' = "EIT_DONE" /\ recorderStop
    [] eit_state \in {"EIT_PAUSE", "EIT_TC"} /\ rst = "EIT_RST_RUNNING" ->
         eit_state' = "EIT_RUNNING" /\ KeepFile
    [] OTHER -> UNCHANGED eit_state /\ KeepFile

(* What a section with status rst does; started is the outcome of          *)
(* recorderStart where it is called.                                       *)
eit_rec_process(rst, started) ==
  CASE eit_state = "EIT_SCAN" /\ rst \in {"EIT_RST_SOON", "EIT_RST_RUNNING"} ->
         /\ recorderStart(started)
         /\ eit_state' = IF started THEN "EIT_RUNNING" ELSE eit_state
    [] eit_state \in {"EIT_RUNNING", "EIT_TC"} /\ rst \in {"EIT_RST_PAUSED", "EIT_RST_OFF"} ->
         eit_state' = "EIT_PAUSE" /\ paused' = TRUE /\ UNCHANGED <<rec, unread>>
    [] eit_state \in {"EIT_RUNNING", "EIT_TC", "EIT_PAUSE"} /\ rst = "EIT_RST_NOT" ->
         eit_state' = "EIT_DONE" /\ recorderStop
    [] eit_state = "EIT_PAUSE" /\ rst = "EIT_RST_RUNNING" ->
         eit_state' = "EIT_RUNNING" /\ paused' = FALSE /\ UNCHANGED <<rec, unread>>
    [] eit_state = "EIT_TC" /\ rst = "EIT_RST_RUNNING" ->
         eit_state' = "EIT_RUNNING" /\ KeepFile
    [] OTHER -> UNCHANGED eit_state /\ KeepFile

(* eit_rec_loop reads a section of its program with its event ...          *)
ReadSection(rst) ==
  /\ thread = "loop" /\ eit /\ ~gone
  /\ eit_old' = FALSE /\ id_old' = 0
  /\ \E started \in BOOLEAN : eit_rec_process(rst, started)
  /\ UNCHANGED <<eit, thread, running, retuned, late, gone>>

(* ... or without it.                                                      *)
ReadOtherSection ==
  /\ thread = "loop" /\ eit
  /\ eit_old' = FALSE
  /\ UNCHANGED <<eit, threads, file, unread, retuned, id_old, late, gone>>

(* eit_rec_proc_evt: the recorder is left to itself.                       *)
eit_rec_proc_evt ==
  /\ thread = "loop"
  /\ "eit" \in unread
  /\ unread' = unread \ {"eit"}
  /\ eit_state' = "EIT_DONE"
  /\ UNCHANGED <<eit, thread, running, file, retuned, clock, gone>>

(* The timers of eit_rec_loop, after the sections of an iteration.  No     *)
(* table for a minute: record by the clock.  The event not seen for a      *)
(* minute: the planned end counts; not seen for an hour: give up.          *)
NoEit == eit_state = "EIT_SCAN" /\ eit_old
GivenUp == eit_state = "EIT_SCAN" /\ id_old = 2
TimeOver == eit_state = "EIT_TC" /\ late = 2

(* Mutant: a paused recording waits for its event for ever.                *)
EvtOverNotPaused == eit_state = "EIT_RUNNING" /\ id_old >= 1 /\ late >= 1

(* Mutant: the planned end does not matter.                                *)
EvtOverUnseen == eit_state \in {"EIT_RUNNING", "EIT_PAUSE"} /\ id_old >= 1

EvtOver == eit_state \in {"EIT_RUNNING", "EIT_PAUSE"} /\ id_old >= 1 /\ late >= 1

(* A recorder started by NoEit after the end is stopped at once.           *)
EitTimers ==
  /\ thread = "loop" /\ eit
  /\ thread' = "head"
  /\ \/ NoEit /\ late < 2 /\ eit_state' = "EIT_TC" /\ recorderStart(TRUE)
     \/ NoEit /\ late = 2 /\ eit_state' = "EIT_DONE" /\ KeepFile
     \/ GivenUp /\ eit_state' = "EIT_DONE" /\ KeepFile
     \/ (EvtOver \/ TimeOver) /\ eit_state' = "EIT_DONE" /\ recorderStop
     \/ ~(GivenUp \/ EvtOver \/ TimeOver) /\ UNCHANGED eit_state /\ KeepFile
  /\ UNCHANGED <<eit, running, retuned, clock, gone>>

(* plain_rec_loop: "this may fail, so we retry".                           *)
PlainTimer ==
  /\ thread = "loop" /\ ~eit
  /\ thread' = "head"
  /\ \/ eit_state = "EIT_SCAN" /\ eit_state' = "EIT_TC" /\ recorderStart(TRUE)
     \/ UNCHANGED eit_state /\ KeepFile
  /\ UNCHANGED <<eit, running, retuned, clock, gone>>

(* Behind the loops: the port is removed, the recorder stopped unless the  *)
(* state says there is none, and rt_done called.                           *)
Exit ==
  /\ thread = "exit"
  /\ thread' = "ended"
  /\ IF eit_state \in {"EIT_TC", "EIT_RUNNING", "EIT_PAUSE"}
     THEN rec' = "off" /\ unread' = {}
     ELSE rec' = rec /\ unread' = unread \ {"eit"}
  /\ UNCHANGED <<eit, running, eit_state, paused, retuned, clock, gone>>

-----------------------------------------------------------------------------
(* do_record reads E_TUNING and returns.                                   *)
RecorderLeaves ==
  /\ rec = "on" /\ "rec" \in unread
  /\ rec' = "left"
  /\ unread' = unread \ {"rec"}
  /\ UNCHANGED <<eit, threads, paused, retuned, clock, gone>>

(* eitRecAbort by rt_abort_all or recTaskCancelRunning, up to the join.    *)
eitRecAbort ==
  /\ thread \in {"head", "loop", "exit"}
  /\ running
  /\ running' = FALSE
  /\ UNCHANGED <<eit, thread, eit_state, file, unread, retuned, clock, gone>>

(* rec_task takes it off the done list: eitRecAbort joins, then it is      *)
(* freed, the Recorder inside too.                                         *)
Reap ==
  /\ thread = "ended"
  /\ thread' = "freed" /\ running' = FALSE /\ eit_state' = "EIT_DONE"
  /\ UNCHANGED <<eit, file, unread, retuned, clock, gone>>

(* dvbTuneS, dvbTuneT: E_TUNING to every port.  E_CONFIG is handled alike. *)
Retune ==
  /\ thread \in {"head", "loop", "exit"}
  /\ retuned' = TRUE
  /\ unread' = unread \cup (IF eit THEN {"eit"} ELSE {})
                      \cup (IF rec = "on" THEN {"rec"} ELSE {})
  /\ UNCHANGED <<eit, threads, file, clock, gone>>

(* Time, and the end of the event.                                         *)
EitGetsOld ==
  /\ thread # "freed" /\ ~eit_old /\ id_old >= 1
  /\ eit_old' = TRUE
  /\ UNCHANGED <<eit, threads, file, unread, retuned, id_old, late, gone>>

IdGetsOld ==
  /\ thread \notin {"new", "freed"} /\ id_old < 2
  /\ id_old' = id_old + 1
  /\ UNCHANGED <<eit, threads, file, unread, retuned, eit_old, late, gone>>

GetsLate ==
  /\ thread # "freed" /\ late < 2
  /\ late' = late + 1
  /\ UNCHANGED <<eit, threads, file, unread, retuned, eit_old, id_old, gone>>

EventGoes ==
  /\ ~gone
  /\ gone' = TRUE
  /\ UNCHANGED <<eit, threads, file, unread, retuned, clock>>

Thread == LoopHead \/ EitTimers \/ PlainTimer \/ Exit

Next ==
  \/ eitRecScan \/ Thread
  \/ \E rst \in Rst : ReadSection(rst)
  \/ ReadOtherSection \/ eit_rec_proc_evt
  \/ RecorderLeaves \/ eitRecAbort \/ Reap \/ Retune
  \/ EitGetsOld \/ IdGetsOld \/ GetsLate \/ EventGoes

Spec == Init /\ [][Next]_vars

(* The thread goes on (its waits time out), rec_task comes by every two    *)
(* seconds, and time passes.                                               *)
LiveSpec == Spec /\ WF_vars(Thread) /\ WF_vars(eitRecScan) /\ WF_vars(Reap)
                 /\ WF_vars(IdGetsOld) /\ WF_vars(GetsLate)

-----------------------------------------------------------------------------
(* Properties.                                                             *)

(* As long as the frontend stays, what eit_state says of the recorder is   *)
(* so: through pauses, lost tables, timed mode, failed starts and aborts   *)
(* the file is written exactly in EIT_RUNNING and EIT_TC, and a recording  *)
(* that has ended has no recorder behind it.                               *)
RecorderFollows ==
  /\ TypeOK
  /\ ~retuned =>
      IF thread \in {"ended", "freed"} THEN rec = "off"
      ELSE /\ rec = "on" <=> eit_state \in {"EIT_RUNNING", "EIT_PAUSE", "EIT_TC"}
           /\ rec = "on" => (paused <=> eit_state = "EIT_PAUSE")

(* A recording is stopped before a minute after its planned end only by    *)
(* the broadcaster's "not running" or by eitRecAbort, whatever happens to  *)
(* the tables.                                                             *)
NoEarlyStop ==
  [][rec = "on" /\ rec' = "off" =>
       late >= 1 \/ ~running \/ ReadSection("EIT_RST_NOT")]_vars

(* Once the event has left the tables the recording ends and is freed: in  *)
(* no state does eit_rec_loop wait for something that will not come.       *)
RecordingEnds == gone ~> thread = "freed"
=============================================================================
