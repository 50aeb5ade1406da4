-------------------------------- MODULE Svt ---------------------------------
(***************************************************************************)
(* The service trackers (stream/svt.c): an output asks for programs and    *)
(* functions (audio, videotext ...) instead of pids, and a tracker follows *)
(* PAT and PMT of a program and keeps the pids of the output's port right. *)
(*                                                                         *)
(* The calls of the outputs' owners (dvbDmxOutAdd, -Mod, -Rmv) and the     *)
(* delivery of packets by dvb_transfer hold the lock of the adapter, so a  *)
(* call and a complete section are one action each.                        *)
(*                                                                         *)
(* find_or_new_svt never puts a tracker into svt_root, so find_svt finds   *)
(* none: each output has a tracker of its own for each of its programs,    *)
(* with one reference, and n_out is 1.                                     *)
(*                                                                         *)
(* The broadcast is external: which pid and version the PMT of a program   *)
(* has, whether the version to come is sent along (current_next 0), and    *)
(* that a section may arrive damaged.                                      *)
(***************************************************************************)
EXTENDS Integers, FiniteSets, Sequences, Functions

CONSTANTS
  Outs,       (* SvcOut                                                    *)
  Pnrs,       (* programs                                                  *)
  PmtPids,    (* pids a PMT may be on                                      *)
  Streams,    (* Streams[p][v]: the sections of version v of the PMT of p, *)
              (* each a set of streams [pid, kinds]; Len(Streams[p]), less *)
              (* than 32, bounds the versions                              *)
  Wants,      (* Wants[o]: what the owner of o may ask for, [funcs, hpids] *)
  MaxSecs,    (* most sections a PMT has (256 at most), also by a damaged  *)
              (* header                                                    *)
  MaxMoves,   (* bound: changes of a PMT's pid                             *)
  MaxDamages, (* bound: damaged sections                                   *)
  NoTable     (* NULL                                                      *)

LastVer(p) == Len(Streams[p])
NumSecs(p, v) == Len(Streams[p][v])

FUNC_ALL == {"AUDIO", "VIDEO", "VT", "SPU", "PSI", "OTHER"}
UNKNOWN == 8191   (* 0x1fff *)
PAT_PID == 0
SDT_PID == 17

ASSUME SvtAssumption ==
  /\ IsFiniteSet(Outs) /\ IsFiniteSet(Pnrs)
  /\ PmtPids \subseteq 1 .. UNKNOWN - 1
  /\ \A p \in Pnrs : /\ LastVer(p) \in 1 .. 31
                      /\ \A v \in 1 .. LastVer(p) :
                           /\ NumSecs(p, v) \in 1 .. MaxSecs
                           /\ DOMAIN Streams[p][v] = 1 .. NumSecs(p, v)
  /\ MaxSecs \in Nat \ {0}
  /\ NoTable \notin [version : Int, num : Nat, secs : {<<>>}, alloc : {TRUE}]
  /\ MaxMoves \in Nat /\ MaxDamages \in Nat
  /\ \A o \in Outs : \A w \in Wants[o] :
       DOMAIN w.funcs \subseteq Pnrs /\ \A p \in DOMAIN w.funcs : w.funcs[p] \subseteq FUNC_ALL
  (* the owners never change the functions of a program *)
  /\ \A o \in Outs : \A w, x \in Wants[o] :
       \A p \in DOMAIN w.funcs \cap DOMAIN x.funcs : w.funcs[p] = x.funcs[p]

VARIABLES
  out,     (* [port, hpids, r] of every output there is; r[p] is the       *)
           (* FuncRec of program p with its tracker                        *)
  dead,    (* the server was killed by a write through NULL                *)
  air,     (* air[p]: [pid, ver, next] of the PMT of p on air              *)
  moves,   (* PMT pids changed so far                                      *)
  damages  (* damaged sections so far                                      *)

vars == <<out, dead, air, moves, damages>>

Trackers == {t \in Outs \X Pnrs : t[1] \in DOMAIN out /\ t[2] \in DOMAIN out[t[1]].r}
Trk(t) == out[t[1]].r[t[2]]

-----------------------------------------------------------------------------
(* Pids of functions.                                                      *)

(* includes_stream; the pcr pid counts as a stream of kinds AUDIO, VIDEO   *)
(* (includes_pcr).                                                         *)
includes_stream(func, s) == func = FUNC_ALL \/ func \cap s.kinds # {}

(* get_pms_func, for one section. *)
get_pms_func(func, sec) == {s.pid : s \in {x \in sec : includes_stream(func, x)}}

(* collect_pmt_pids; a table remembers for every occupied section the      *)
(* version it was sent with.                                               *)
collect_pmt_pids(p, func, table) ==
  IF table = NoTable THEN {}
  ELSE UNION {get_pms_func(func, Streams[p][table.secs[i]][i]) : i \in DOMAIN table.secs}

get_pids_for_func(p, r) ==
  collect_pmt_pids(p, r.func, r.pmt[0]) \cup collect_pmt_pids(p, r.func, r.pmt[1])
  \cup IF "PSI" \in r.func THEN {PAT_PID, SDT_PID} \cup ({r.pid} \ {UNKNOWN}) ELSE {}

get_out_pids(r) == UNION {get_pids_for_func(p, r[p]) : p \in DOMAIN r}

(* The port of an output with FuncRecs r: refresh_output, svtOutMod. *)
Refreshed(r, hpids) == [port |-> get_out_pids(r) \cup hpids, hpids |-> hpids, r |-> r]

-----------------------------------------------------------------------------
(* Tables.                                                                 *)

new_tbl(n) == [version |-> -1, num |-> n, secs |-> <<>>, alloc |-> TRUE]

(* clear_tbl: the sections and their memory go, version and number stay. *)
clear_tbl(table) ==
  IF table = NoTable THEN NoTable
  ELSE [version |-> table.version, num |-> table.num, secs |-> <<>>, alloc |-> FALSE]

(* Mutant: no new memory. *)
reinit_pmtNoInit(table, n) == [new_tbl(n) EXCEPT !.alloc = FALSE]

(* Mutant: the old sections stay. *)
reinit_pmtNoClear(table, n) ==
  IF table.alloc THEN [table EXCEPT !.num = n, !.version = -1] ELSE new_tbl(n)

(* clear_tbl, then init_pmt sets all of the table. *)
reinit_pmt(table, n) == new_tbl(n)

(* Section s = [version, num, nr, ok] of the next table (idx 1) or the     *)
(* current one (idx 0): the next table becomes current if it has the       *)
(* version of a current section ...                                        *)
Present(pmt, s, idx) == IF pmt[idx] = NoTable THEN new_tbl(s.num) ELSE pmt[idx]

Copies(pmt, s, idx) ==
  /\ idx = 0 /\ s.version # Present(pmt, s, idx).version
  /\ pmt[1] # NoTable /\ pmt[1].version = s.version

Chosen(pmt, s, idx) == IF Copies(pmt, s, idx) THEN pmt[1] ELSE Present(pmt, s, idx)

(* ... a table of another version or length is emptied ... *)
Differs(table, s) == table.num # s.num \/ table.version # s.version

Fitted(table, s) == IF Differs(table, s) THEN reinit_pmt(table, s.num) ELSE table

(* ... and the section enters it if it is new and parse_pms accepts it. *)
Enters(table, s) == s.ok /\ s.nr \notin DOMAIN table.secs

Entered(secs, s) == [i \in DOMAIN secs \cup {s.nr} |-> IF i = s.nr THEN s.version ELSE secs[i]]

enter_sec(table, s) ==
  [version |-> s.version, num |-> table.num, secs |-> Entered(table.secs, s), alloc |-> table.alloc]

(* The tables after section s, whether the outputs are to be refreshed,    *)
(* and whether the section was written to memory that is not there.        *)
svt_handle_pms2(pmt, s, idx) ==
  LET table == Chosen(pmt, s, idx)
      fitted == Fitted(table, s)
      entered == IF Enters(fitted, s) THEN enter_sec(fitted, s) ELSE fitted
  IN [pmt |-> IF Copies(pmt, s, idx) THEN [pmt EXCEPT ![0] = entered, ![1] = NoTable]
              ELSE [pmt EXCEPT ![idx] = entered],
      reopen |-> Copies(pmt, s, idx) \/ Differs(table, s) \/ Enters(fitted, s),
      null_write |-> Enters(fitted, s) /\ ~fitted.alloc]

-----------------------------------------------------------------------------
(* The owners of outputs.                                                  *)

Init ==
  /\ out = <<>> /\ dead = FALSE
  /\ air \in [Pnrs -> {[pid |-> q, ver |-> 1, next |-> FALSE] : q \in PmtPids}]
  /\ moves = 0 /\ damages = 0

SetOut(o, v) == out' = [x \in DOMAIN out \cup {o} |-> IF x = o THEN v ELSE out[x]]

svtOutAdd(o) ==
  /\ ~dead /\ o \notin DOMAIN out
  /\ SetOut(o, Refreshed(<<>>, {}))
  /\ UNCHANGED <<dead, air, moves, damages>>

(* find_or_new_svt; moved is history: the PMT of the tracker changed pids. *)
find_or_new_svt(func) ==
  [func |-> func, pid |-> UNKNOWN, input |-> {PAT_PID},
   pmt |-> [i \in 0 .. 1 |-> NoTable], moved |-> FALSE]

(* add_func for the programs of get_funcs_to_add: not asked for before. *)
add_func(r, funcs) ==
  [p \in DOMAIN r \cup DOMAIN funcs |-> IF p \in DOMAIN r THEN r[p] ELSE find_or_new_svt(funcs[p])]

(* rmv_func and remove_tracker for those of get_funcs_to_remove: not asked *)
(* for any more.                                                           *)
rmv_func(r, funcs) == Restrict(r, DOMAIN funcs)

svtOutMod(o, w) ==
  /\ ~dead /\ o \in DOMAIN out
  /\ SetOut(o, Refreshed(rmv_func(add_func(out[o].r, w.funcs), w.funcs), w.hpids))
  /\ UNCHANGED <<dead, air, moves, damages>>

(* svtOutRmv, also by swdmxClear. *)
svtOutRmv(o) ==
  /\ ~dead /\ o \in DOMAIN out
  /\ out' = Restrict(out, DOMAIN out \ {o})
  /\ UNCHANGED <<dead, air, moves, damages>>

-----------------------------------------------------------------------------
(* svt_packet_put, when the section extractor of tracker t returns a       *)
(* complete section.                                                       *)

(* Mutant: the output is not refreshed. *)
UpdateSilent(t, r, reopen) ==
  SetOut(t[1], [out[t[1]] EXCEPT !.r[t[2]] = r])

Update(t, r, reopen) ==
  LET o == out[t[1]]
      rs == [o.r EXCEPT ![t[2]] = r]
  IN SetOut(t[1], IF reopen THEN Refreshed(rs, o.hpids) ELSE [o EXCEPT !.r = rs])

(* Mutant: only the first PAS counts. *)
PutPasOnce(t) ==
  LET r == Trk(t)
      pid == air[t[2]].pid
  IN /\ ~dead /\ t \in Trackers
     /\ r.pid = UNKNOWN
     /\ Update(t, [r EXCEPT !.pid = pid, !.input = {PAT_PID, pid}], TRUE)
     /\ UNCHANGED <<dead, air, moves, damages>>

(* A current PAS with the program in it; others change nothing. *)
PutPas(t) ==
  LET r == Trk(t)
      pid == air[t[2]].pid
  IN /\ ~dead /\ t \in Trackers
     /\ pid # r.pid
     /\ Update(t, [func |-> r.func, pid |-> pid, input |-> {PAT_PID, pid},
                   pmt |-> [i \in 0 .. 1 |-> clear_tbl(r.pmt[i])],
                   moved |-> r.moved \/ r.pid # UNKNOWN], TRUE)
     /\ UNCHANGED <<dead, air, moves, damages>>

(* A PMS with the tracker's pnr: svt_handle_pms *)
PutPms(t, s, idx) ==
  /\ ~dead /\ t \in Trackers
  /\ air[t[2]].pid \in Trk(t).input
  /\ \E h \in {svt_handle_pms2(Trk(t).pmt, s, idx)} :
       /\ dead' = h.null_write
       /\ IF h.null_write THEN UNCHANGED out
          ELSE Update(t, [Trk(t) EXCEPT !.pmt = h.pmt], h.reopen)
  /\ UNCHANGED <<air, moves>>

(* Section nr of the PMT on air, current or next. *)
PutSent(t, nr, idx) ==
  LET v == air[t[2]].ver + idx
  IN /\ idx = 1 => air[t[2]].next
     /\ nr \in DOMAIN Streams[t[2]][v]
     /\ PutPms(t, [version |-> v, num |-> NumSecs(t[2], v), nr |-> nr, ok |-> TRUE], idx)
     /\ UNCHANGED damages

(* A section with a damaged header: parse_pms finds the crc wrong, after   *)
(* version and number of sections have been used.                          *)
PutDamaged(t, version, num, idx) ==
  /\ damages < MaxDamages
  /\ damages' = damages + 1
  /\ PutPms(t, [version |-> version, num |-> num, nr |-> 1, ok |-> FALSE], idx)

-----------------------------------------------------------------------------
(* The broadcast.                                                          *)

Announce(p) ==
  /\ ~dead /\ air[p].ver < LastVer(p) /\ ~air[p].next
  /\ air' = [air EXCEPT ![p].next = TRUE]
  /\ UNCHANGED <<out, dead, moves, damages>>

Switch(p) ==
  /\ ~dead /\ air[p].ver < LastVer(p)
  /\ air' = [air EXCEPT ![p] = [pid |-> @.pid, ver |-> @.ver + 1, next |-> FALSE]]
  /\ UNCHANGED <<out, dead, moves, damages>>

Move(p, pid) ==
  /\ ~dead /\ moves < MaxMoves /\ pid # air[p].pid
  /\ air' = [air EXCEPT ![p].pid = pid]
  /\ moves' = moves + 1
  /\ UNCHANGED <<out, dead, damages>>

Next ==
  \/ \E o \in Outs : \/ svtOutAdd(o)
                     \/ svtOutRmv(o)
                     \/ \E w \in Wants[o] : svtOutMod(o, w)
  \/ \E t \in Trackers :
       \/ PutPas(t)
       \/ \E idx \in 0 .. 1 :
            \/ \E nr \in 1 .. MaxSecs : PutSent(t, nr, idx)
            \/ \E version \in 1 .. LastVer(t[2]), num \in 1 .. MaxSecs : PutDamaged(t, version, num, idx)
  \/ \E p \in Pnrs : Announce(p) \/ Switch(p) \/ \E pid \in PmtPids : Move(p, pid)

Spec == Init /\ [][Next]_vars

(* PAT and PMT are repeated for ever and read by the transfer thread. *)
LiveSpec ==
  /\ Spec
  /\ \A t \in Outs \X Pnrs :
       /\ WF_vars(PutPas(t))
       /\ \A nr \in 1 .. MaxSecs, idx \in 0 .. 1 : WF_vars(PutSent(t, nr, idx))

-----------------------------------------------------------------------------
(* Properties.                                                             *)

Tables(t) == {Trk(t).pmt[i] : i \in 0 .. 1} \ {NoTable}

TypeOK ==
  /\ DOMAIN out \subseteq Outs /\ dead \in BOOLEAN
  /\ \A o \in DOMAIN out : DOMAIN out[o].r \subseteq Pnrs
  /\ \A t \in Trackers :
       /\ Trk(t).func \subseteq FUNC_ALL
       /\ Trk(t).pid \in PmtPids \cup {UNKNOWN}
       /\ \A table \in Tables(t) :
            /\ table.version \in {-1} \cup 1 .. LastVer(t[2]) /\ table.num \in 1 .. MaxSecs
            /\ DOMAIN table.secs \subseteq 1 .. table.num
  /\ moves \in 0 .. MaxMoves /\ damages \in 0 .. MaxDamages

(* After every call, section, change of version or of pid and every        *)
(* damaged section the port of each output lets through its own pids and   *)
(* those the tables of its trackers name for its functions, no more and no *)
(* fewer (do_reopen in svt_handle_pms2, refresh_output, svtOutMod).        *)
OutputsFollow ==
  \A o \in DOMAIN out : out[o].port = get_out_pids(out[o].r) \cup out[o].hpids

(* A table never mixes sections of two versions, however next tables are   *)
(* handed over, reinitialised and damaged, and its sections have memory;   *)
(* a tracker listens to the PAT and to the PMT it knows of.                *)
TablesSound ==
  /\ TypeOK
  /\ \A t \in Trackers :
      /\ Trk(t).input = {PAT_PID} \cup ({Trk(t).pid} \ {UNKNOWN})
      /\ \A table \in Tables(t) :
           /\ \A i \in DOMAIN table.secs : table.secs[i] = table.version
           /\ table.secs # <<>> => table.alloc

(* enter_sec writes through NULL, and the server dies, only after the PAT  *)
(* has moved the PMT of a tracker that already had one: clear_tbl alone    *)
(* frees the sections and keeps version and number of the table.           *)
NullWriteOnlyAfterMove ==
  /\ dead => \E t \in Trackers : Trk(t).moved
  /\ \A t \in Trackers : (\E table \in Tables(t) : ~table.alloc) => Trk(t).moved

Holds(table, p, v) ==
  /\ table # NoTable
  /\ table.version = v /\ table.secs = [i \in DOMAIN Streams[p][v] |-> v]

CaughtUp(t) ==
  LET a == air[t[2]]
  IN /\ t \in Trackers /\ Trk(t).pid = a.pid
     /\ Holds(Trk(t).pmt[0], t[2], a.ver)
     /\ a.next => Holds(Trk(t).pmt[1], t[2], a.ver + 1)

(* A tracker that stays ends up with the complete PMT on air, and the next *)
(* one if it is sent, whatever was announced, switched or damaged before   *)
(* and in whatever order the sections came, unless the server has died.    *)
TablesCatchUp ==
  \A t \in Outs \X Pnrs : <>[](t \in Trackers) => <>[](dead \/ CaughtUp(t))
=============================================================================
