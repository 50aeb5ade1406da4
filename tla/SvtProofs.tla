----------------------------- MODULE SvtProofs ------------------------------
(***************************************************************************)
(* Proofs about Svt: ports follow the tables of the trackers, a write      *)
(* through NULL needs a PMT that has changed its pid, and no table mixes   *)
(* versions.                                                               *)
(***************************************************************************)
EXTENDS Svt, TLAPS

(* The shape of the records, and what a tracker knows before its first     *)
(* PAS: no pid, no table, and nothing but the PAT to listen to.            *)
TableShape(T) ==
  T = NoTable \/ \E v, n, ss, al :
                   T = [version |-> v, num |-> n, secs |-> ss, alloc |-> al]

RecShape(r) ==
  /\ \E f, q, i, p, m :
       r = [func |-> f, pid |-> q, input |-> i, pmt |-> p, moved |-> m]
  /\ DOMAIN r.pmt = 0 .. 1
  /\ \A i \in 0 .. 1 : TableShape(r.pmt[i])

OutShape ==
  \A o \in DOMAIN out :
    /\ \E q, h, r : out[o] = [port |-> q, hpids |-> h, r |-> r]
    /\ \A p \in DOMAIN out[o].r : RecShape(out[o].r[p])

(* Proof of OutputsFollow. *)

(* NULL is not a table. *)
LEMMA NewTable ==
  ASSUME NEW n \in Nat
  PROVE  new_tbl(n) # NoTable /\ TableShape(new_tbl(n))
<1>1. new_tbl(n) \in [version : Int, num : Nat, secs : {<<>>}, alloc : {TRUE}]
  BY DEF new_tbl
<1>2. new_tbl(n) # NoTable
  BY <1>1, SvtAssumption
<1> QED BY <1>2 DEF TableShape, new_tbl

(* svt_handle_pms2 keeps the shape of tables. *)
LEMMA HandleShape ==
  ASSUME NEW pmt, NEW s, NEW idx \in 0 .. 1, s.num \in Nat,
         DOMAIN pmt = 0 .. 1, \A i \in 0 .. 1 : TableShape(pmt[i])
  PROVE  /\ DOMAIN svt_handle_pms2(pmt, s, idx).pmt = 0 .. 1
         /\ \A i \in 0 .. 1 : TableShape(svt_handle_pms2(pmt, s, idx).pmt[i])
<1> DEFINE a == Chosen(pmt, s, idx)
           b == Fitted(a, s)
           c == IF Enters(b, s) THEN enter_sec(b, s) ELSE b
<1>0. new_tbl(s.num) # NoTable /\ TableShape(new_tbl(s.num))
  BY NewTable
<1>1. Present(pmt, s, idx) # NoTable /\ TableShape(Present(pmt, s, idx))
  BY <1>0 DEF Present
<1>2. a # NoTable /\ TableShape(a)
  BY <1>1 DEF Chosen, Copies
<1>3. b # NoTable /\ TableShape(b)
  BY <1>0, <1>2 DEF reinit_pmt, Fitted
<1>4. TableShape(c)
  BY <1>3 DEF TableShape, enter_sec
<1>5. TableShape(NoTable)
  BY DEF TableShape
<1>6. svt_handle_pms2(pmt, s, idx).pmt =
        IF Copies(pmt, s, idx) THEN [pmt EXCEPT ![0] = c, ![1] = NoTable]
        ELSE [pmt EXCEPT ![idx] = c]
  BY DEF svt_handle_pms2
<1> HIDE DEF c
<1> QED BY <1>4, <1>5, <1>6

(* A section after which the outputs are not refreshed leaves no trace in  *)
(* the pids: at most an empty table is new.                                *)
LEMMA HandleQuiet ==
  ASSUME NEW pmt, NEW s, NEW idx \in 0 .. 1, s.num \in Nat, DOMAIN pmt = 0 .. 1,
         ~svt_handle_pms2(pmt, s, idx).reopen, NEW p, NEW func, NEW i \in 0 .. 1
  PROVE  collect_pmt_pids(p, func, svt_handle_pms2(pmt, s, idx).pmt[i]) =
           collect_pmt_pids(p, func, pmt[i])
<1> DEFINE table == Present(pmt, s, idx)
<1>1. ~Copies(pmt, s, idx) /\ ~Differs(Chosen(pmt, s, idx), s)
      /\ ~Enters(Fitted(Chosen(pmt, s, idx), s), s)
  BY DEF svt_handle_pms2
<1>2. Chosen(pmt, s, idx) = table /\ Fitted(table, s) = table
  BY <1>1 DEF Chosen, Fitted
<1>3. svt_handle_pms2(pmt, s, idx).pmt = [pmt EXCEPT ![idx] = table]
  BY <1>1, <1>2 DEF svt_handle_pms2
<1>4. collect_pmt_pids(p, func, new_tbl(s.num)) = {}
  <2>1. DOMAIN new_tbl(s.num).secs = {}
    BY DEF new_tbl
  <2> QED BY <2>1, NewTable DEF collect_pmt_pids
<1>5. collect_pmt_pids(p, func, NoTable) = {}
  BY DEF collect_pmt_pids
<1>6. collect_pmt_pids(p, func, table) = collect_pmt_pids(p, func, pmt[idx])
  BY <1>4, <1>5 DEF Present
<1> HIDE DEF table
<1> QED BY <1>3, <1>6

(* The broadcast stays within its bounds. *)
AirShape ==
  /\ DOMAIN air = Pnrs
  /\ \A p \in Pnrs :
       /\ \E q, v, n : air[p] = [pid |-> q, ver |-> v, next |-> n]
       /\ air[p].pid \in PmtPids
       /\ air[p].ver \in 1 .. LastVer(p)
       /\ air[p].next \in BOOLEAN
       /\ air[p].next => air[p].ver < LastVer(p)

(* A new or changed output has the right port. *)
LEMMA SetOutFollows ==
  ASSUME OutShape, OutputsFollow, NEW o, NEW v, SetOut(o, v),
         \E q, h, r : v = [port |-> q, hpids |-> h, r |-> r],
         \A p \in DOMAIN v.r : RecShape(v.r[p]),
         v.port = get_out_pids(v.r) \cup v.hpids
  PROVE  OutShape' /\ OutputsFollow'
BY DEF SetOut, OutShape, OutputsFollow

LEMMA RefreshedFollows ==
  ASSUME NEW r, NEW h, \A p \in DOMAIN r : RecShape(r[p])
  PROVE  LET v == Refreshed(r, h)
         IN /\ \E q, hh, rr : v = [port |-> q, hpids |-> hh, r |-> rr]
            /\ \A p \in DOMAIN v.r : RecShape(v.r[p])
            /\ v.port = get_out_pids(v.r) \cup v.hpids
            /\ v.r = r
BY DEF Refreshed

(* An update of a tracker: refreshed, or with the pids it had. *)
LEMMA UpdateFollows ==
  ASSUME OutShape, OutputsFollow, NEW t \in Trackers, NEW r, RecShape(r),
         NEW reopen \in BOOLEAN, Update(t, r, reopen),
         reopen \/ get_pids_for_func(t[2], r) = get_pids_for_func(t[2], Trk(t))
  PROVE  OutShape' /\ OutputsFollow'
<1> DEFINE o == out[t[1]]
           rs == [o.r EXCEPT ![t[2]] = r]
<1>1. t[1] \in DOMAIN out /\ t[2] \in DOMAIN o.r /\ Trk(t) = o.r[t[2]]
  BY DEF Trackers, Trk
<1>2. PICK q, h, rr : o = [port |-> q, hpids |-> h, r |-> rr]
  BY <1>1 DEF OutShape
<1>3. DOMAIN rs = DOMAIN o.r /\ \A p \in DOMAIN rs : RecShape(rs[p])
  BY <1>1 DEF OutShape
<1>4. CASE reopen
  <2>1. SetOut(t[1], Refreshed(rs, o.hpids))
    BY <1>4 DEF Update
  <2> HIDE DEF rs, o
  <2> QED BY <2>1, <1>3, RefreshedFollows, SetOutFollows
<1>5. CASE ~reopen
  <2> DEFINE v == [o EXCEPT !.r = rs]
  <2>1. SetOut(t[1], v)
    BY <1>5 DEF Update
  <2>2. v = [port |-> q, hpids |-> h, r |-> rs]
    <3> HIDE DEF rs, o
    <3> QED BY <1>2
  <2>3. get_out_pids(rs) = get_out_pids(o.r)
    <3>1. \A p \in DOMAIN rs : get_pids_for_func(p, rs[p]) = get_pids_for_func(p, o.r[p])
      BY <1>1, <1>3, <1>5
    <3> HIDE DEF rs, o
    <3> QED BY <1>3, <3>1 DEF get_out_pids
  <2>4. o.port = get_out_pids(o.r) \cup o.hpids
    BY <1>1 DEF OutputsFollow
  <2>5. v.port = get_out_pids(v.r) \cup v.hpids
    <3> HIDE DEF rs, o, v
    <3> QED BY <1>2, <2>2, <2>3, <2>4
  <2> HIDE DEF rs, o, v
  <2>6. v.r = rs
    BY <2>2
  <2> QED BY <1>3, <2>1, <2>2, <2>5, <2>6, SetOutFollows
<1> QED BY <1>4, <1>5

(* Proof of NullWriteOnlyAfterMove. *)

Freed(T) == T # NoTable /\ ~T.alloc

(* A tracker without a PMT has no table and cannot hear a PMS; only one    *)
(* whose PMT has moved has tables without memory.                          *)
KnownRec(r) ==
  /\ r.pid = UNKNOWN => r.input = {PAT_PID} /\ \A i \in 0 .. 1 : r.pmt[i] = NoTable
  /\ (\E i \in 0 .. 1 : Freed(r.pmt[i])) => r.moved

Known ==
  /\ \A o \in DOMAIN out : \A p \in DOMAIN out[o].r : KnownRec(out[o].r[p])
  /\ dead => \E t \in Trackers : Trk(t).moved

(* svt_handle_pms2 frees no memory, and writes through NULL only if it was *)
(* given a table without memory.                                           *)
LEMMA HandleFreed ==
  ASSUME NEW pmt, NEW s, NEW idx \in 0 .. 1, s.num \in Nat, DOMAIN pmt = 0 .. 1,
         \A i \in 0 .. 1 : ~Freed(pmt[i])
  PROVE  /\ ~svt_handle_pms2(pmt, s, idx).null_write
         /\ \A i \in 0 .. 1 : ~Freed(svt_handle_pms2(pmt, s, idx).pmt[i])
<1> DEFINE a == Chosen(pmt, s, idx)
           b == Fitted(a, s)
           c == IF Enters(b, s) THEN enter_sec(b, s) ELSE b
<1>0. new_tbl(s.num) # NoTable /\ new_tbl(s.num).alloc
  BY NewTable DEF new_tbl
<1>1. Present(pmt, s, idx) # NoTable /\ Present(pmt, s, idx).alloc
  BY <1>0 DEF Present, Freed
<1>2. a # NoTable /\ a.alloc
  BY <1>1 DEF Chosen, Copies, Freed
<1>3. b # NoTable /\ b.alloc
  BY <1>0, <1>2 DEF reinit_pmt, Fitted
<1>4. ~Freed(c)
  BY <1>3 DEF Freed, enter_sec
<1>5. ~Freed(NoTable)
  BY DEF Freed
<1>6. /\ svt_handle_pms2(pmt, s, idx).pmt =
            IF Copies(pmt, s, idx) THEN [pmt EXCEPT ![0] = c, ![1] = NoTable]
            ELSE [pmt EXCEPT ![idx] = c]
      /\ svt_handle_pms2(pmt, s, idx).null_write = (Enters(b, s) /\ ~b.alloc)
  BY DEF svt_handle_pms2
<1>7. ~svt_handle_pms2(pmt, s, idx).null_write
  BY <1>3, <1>6
<1> HIDE DEF c
<1> QED BY <1>4, <1>5, <1>6, <1>7

LEMMA SetOutKnown ==
  ASSUME Known, ~dead, ~dead', NEW o, NEW v, SetOut(o, v),
         \A p \in DOMAIN v.r : KnownRec(v.r[p])
  PROVE  Known'
BY DEF Known, SetOut

LEMMA UpdateKnown ==
  ASSUME OutShape, Known, ~dead, ~dead', NEW t \in Trackers, NEW r, KnownRec(r),
         NEW reopen \in BOOLEAN, Update(t, r, reopen)
  PROVE  Known'
<1> DEFINE o == out[t[1]]
           rs == [o.r EXCEPT ![t[2]] = r]
           v == IF reopen THEN Refreshed(rs, o.hpids) ELSE [o EXCEPT !.r = rs]
<1>1. t[1] \in DOMAIN out /\ t[2] \in DOMAIN o.r
  BY DEF Trackers
<1>2. \A p \in DOMAIN rs : KnownRec(rs[p])
  BY <1>1 DEF Known
<1>3. SetOut(t[1], v)
  BY DEF Update
<1>4. v.r = rs
  <2>1. PICK q, h, rr : o = [port |-> q, hpids |-> h, r |-> rr]
    BY <1>1 DEF OutShape
  <2> HIDE DEF rs, o
  <2> QED BY <2>1 DEF Refreshed
<1> HIDE DEF v, rs
<1> QED BY <1>2, <1>3, <1>4, SetOutKnown

-----------------------------------------------------------------------------
(* The inductive invariant. *)

SvtInv == OutShape /\ OutputsFollow /\ AirShape /\ Known

LEMMA SvtInit == Init => SvtInv
<1> SUFFICES ASSUME Init PROVE SvtInv
  OBVIOUS
<1>1. DOMAIN out = {}
  BY DEF Init
<1>2. \A p \in Pnrs : LastVer(p) \in 1 .. 31
  BY Zenon, SvtAssumption
<1>3. AirShape
  <2> SUFFICES ASSUME NEW p \in Pnrs
               PROVE  /\ \E q, v, n : air[p] = [pid |-> q, ver |-> v, next |-> n]
                      /\ air[p].pid \in PmtPids
                      /\ air[p].ver \in 1 .. LastVer(p)
                      /\ air[p].next \in BOOLEAN
                      /\ air[p].next => air[p].ver < LastVer(p)
    BY DEF AirShape, Init
  <2>1. PICK q \in PmtPids : air[p] = [pid |-> q, ver |-> 1, next |-> FALSE]
    BY DEF Init
  <2>2. 1 \in 1 .. LastVer(p)
    BY <1>2
  <2>3. \E r, v, n : air[p] = [pid |-> r, ver |-> v, next |-> n]
    BY <2>1
  <2>4. air[p].pid = q /\ air[p].ver = 1 /\ air[p].next = FALSE
    BY <2>1
  <2> QED BY <2>2, <2>3, <2>4
<1> QED BY <1>1, <1>3 DEF Init, SvtInv, OutShape, OutputsFollow, Known

(* What a new tracker knows. *)
LEMMA NewTracker ==
  ASSUME NEW func
  PROVE  RecShape(find_or_new_svt(func)) /\ KnownRec(find_or_new_svt(func))
<1> DEFINE n == find_or_new_svt(func)
<1>1. n = [func |-> func, pid |-> UNKNOWN, input |-> {PAT_PID},
           pmt |-> [i \in 0 .. 1 |-> NoTable], moved |-> FALSE]
  BY DEF find_or_new_svt
<1> HIDE DEF n
<1>2. n.pmt = [i \in 0 .. 1 |-> NoTable] /\ n.input = {PAT_PID}
  BY <1>1
<1>3. RecShape(n)
  BY <1>1, <1>2 DEF RecShape, TableShape
<1>4. KnownRec(n)
  BY <1>2 DEF KnownRec, Freed
<1> QED BY <1>3, <1>4 DEF n

LEMMA OwnersStep ==
  ASSUME SvtInv, NEW o \in Outs,
         \/ svtOutAdd(o) \/ svtOutRmv(o) \/ \E w \in Wants[o] : svtOutMod(o, w)
  PROVE  SvtInv'
<1>a. air' = air /\ dead' = dead /\ ~dead
  BY DEF svtOutAdd, svtOutRmv, svtOutMod
<1>0. AirShape' /\ ~dead /\ ~dead'
  BY <1>a DEF SvtInv, AirShape
<1>1. ASSUME NEW r, NEW h, SetOut(o, Refreshed(r, h)),
             \A p \in DOMAIN r : RecShape(r[p]) /\ KnownRec(r[p])
      PROVE  SvtInv'
  <2>1. OutShape' /\ OutputsFollow'
    BY <1>1, RefreshedFollows, SetOutFollows DEF SvtInv
  <2>2. Refreshed(r, h).r = r
    BY DEF Refreshed
  <2>3. Known'
    BY <1>0, <1>1, <2>2, SetOutKnown DEF SvtInv
  <2> QED BY <1>0, <2>1, <2>3 DEF SvtInv
<1>2. CASE svtOutAdd(o)
  <2>1. DOMAIN <<>> = {}
    OBVIOUS
  <2> QED BY <1>1, <1>2, <2>1 DEF svtOutAdd
<1>3. CASE svtOutRmv(o)
  BY <1>0, <1>3 DEF svtOutRmv, Restrict, SvtInv, OutShape, OutputsFollow, Known
<1>4. ASSUME NEW w \in Wants[o], svtOutMod(o, w)
      PROVE  SvtInv'
  <2> DEFINE r == rmv_func(add_func(out[o].r, w.funcs), w.funcs)
  <2>1. o \in DOMAIN out /\ SetOut(o, Refreshed(r, w.hpids))
    BY <1>4 DEF svtOutMod
  <2>2. DOMAIN r = DOMAIN w.funcs
        /\ \A p \in DOMAIN r : \/ p \in DOMAIN out[o].r /\ r[p] = out[o].r[p]
                               \/ r[p] = find_or_new_svt(w.funcs[p])
    BY DEF rmv_func, add_func, Restrict
  <2>3. \A p \in DOMAIN r : RecShape(r[p]) /\ KnownRec(r[p])
    BY <2>1, <2>2, NewTracker DEF SvtInv, OutShape, Known
  <2> HIDE DEF r
  <2> QED BY <1>1, <2>1, <2>2, <2>3
<1> QED BY <1>2, <1>3, <1>4

LEMMA PutPasStep ==
  ASSUME SvtInv, NEW t \in Trackers, PutPas(t)
  PROVE  SvtInv'
<1> DEFINE r == Trk(t)
           q == air[t[2]].pid
           n == [func |-> r.func, pid |-> q, input |-> {PAT_PID, q},
                 pmt |-> [i \in 0 .. 1 |-> clear_tbl(r.pmt[i])],
                 moved |-> r.moved \/ r.pid # UNKNOWN]
<1>0. Update(t, n, TRUE) /\ ~dead /\ dead' = dead /\ air' = air
  BY DEF PutPas
<1>a. air' = air
  BY <1>0
<1>b. AirShape'
  BY <1>a DEF SvtInv, AirShape
<1>c. Update(t, n, TRUE)
  BY <1>0
<1>d. ~dead /\ ~dead'
  BY <1>0
<1>1. Update(t, n, TRUE) /\ ~dead /\ ~dead' /\ AirShape'
  BY <1>b, <1>c, <1>d
<1>2. t[2] \in Pnrs /\ RecShape(r) /\ KnownRec(r)
  BY DEF Trackers, Trk, SvtInv, OutShape, Known
<1>3. q \in PmtPids /\ q # UNKNOWN
  BY <1>2, SvtAssumption DEF SvtInv, AirShape, UNKNOWN
<1>4. n.pmt = [i \in 0 .. 1 |-> clear_tbl(r.pmt[i])] /\ n.pid = q
      /\ n.moved = (r.moved \/ r.pid # UNKNOWN)
  OBVIOUS
<1>5. \A i \in 0 .. 1 : TableShape(clear_tbl(r.pmt[i]))
  BY <1>2 DEF RecShape, TableShape, clear_tbl
<1>6. RecShape(n)
  <2>1. DOMAIN n.pmt = 0 .. 1 /\ \A i \in 0 .. 1 : TableShape(n.pmt[i])
    BY <1>4, <1>5
  <2> QED BY <2>1 DEF RecShape
<1>7. KnownRec(n)
  <2>1. r.pid = UNKNOWN => \A i \in 0 .. 1 : n.pmt[i] = NoTable
    BY <1>2, <1>4 DEF KnownRec, clear_tbl
  <2>2. (\E i \in 0 .. 1 : Freed(n.pmt[i])) => n.moved
    BY <1>4, <2>1 DEF Freed
  <2> HIDE DEF n
  <2> QED BY <1>3, <1>4, <2>2 DEF KnownRec
<1> HIDE DEF n
<1>8. OutShape' /\ OutputsFollow'
  BY <1>1, <1>6, UpdateFollows DEF SvtInv
<1>9. Known'
  BY <1>1, <1>7, UpdateKnown DEF SvtInv
<1> QED BY <1>1, <1>8, <1>9 DEF SvtInv

LEMMA PutPmsStep ==
  ASSUME SvtInv, NEW t \in Trackers, NEW s, NEW idx \in 0 .. 1, s.num \in Nat, PutPms(t, s, idx)
  PROVE  SvtInv'
<1> DEFINE r == Trk(t)
           h == svt_handle_pms2(r.pmt, s, idx)
           n == [r EXCEPT !.pmt = h.pmt]
<1>1. /\ ~dead /\ air' = air /\ dead' = h.null_write
      /\ air[t[2]].pid \in r.input
      /\ IF h.null_write THEN UNCHANGED out ELSE Update(t, n, h.reopen)
  BY DEF PutPms
<1>2. t[2] \in Pnrs /\ RecShape(r) /\ KnownRec(r)
  BY DEF Trackers, Trk, SvtInv, OutShape, Known
<1>3. AirShape'
  BY <1>1 DEF SvtInv, AirShape
<1>4. PICK f, q, i, p, m : r = [func |-> f, pid |-> q, input |-> i, pmt |-> p, moved |-> m]
  BY <1>2 DEF RecShape
<1>5. n = [func |-> f, pid |-> q, input |-> i, pmt |-> h.pmt, moved |-> m]
  <2> HIDE DEF h, r
  <2> QED BY <1>4
<1>6. n.func = r.func /\ n.pid = r.pid /\ n.input = r.input /\ n.pmt = h.pmt /\ n.moved = r.moved
  <2> HIDE DEF h, n, r
  <2> QED BY <1>4, <1>5
<1>7. h.reopen \in BOOLEAN /\ h.null_write \in BOOLEAN
  BY DEF svt_handle_pms2
<1>8. DOMAIN r.pmt = 0 .. 1 /\ \A j \in 0 .. 1 : TableShape(r.pmt[j])
  BY <1>2 DEF RecShape
<1>9. r.pid # UNKNOWN
  <2>1. air[t[2]].pid \in PmtPids /\ air[t[2]].pid # PAT_PID
    BY <1>2, SvtAssumption DEF SvtInv, AirShape, PAT_PID
  <2> QED BY <1>1, <1>2, <2>1 DEF KnownRec
<1>10. CASE h.null_write
  <2>1. r.moved
    BY <1>2, <1>8, <1>10, HandleFreed DEF KnownRec
  <2>2. out' = out /\ dead'
    BY <1>1, <1>10
  <2>3. Known'
    BY <2>1, <2>2 DEF SvtInv, Known, Trackers, Trk
  <2> QED BY <1>3, <2>2, <2>3 DEF SvtInv, OutShape, OutputsFollow
<1>11. CASE ~h.null_write
  <2>1. Update(t, n, h.reopen) /\ ~dead'
    BY <1>1, <1>11
  <2>2. RecShape(n)
    <3>1. DOMAIN h.pmt = 0 .. 1 /\ \A j \in 0 .. 1 : TableShape(h.pmt[j])
      BY <1>8, HandleShape
    <3> HIDE DEF h, n, r
    <3> QED BY <1>5, <1>6, <3>1 DEF RecShape
  <2>3. KnownRec(n)
    <3>1. (\E j \in 0 .. 1 : Freed(h.pmt[j])) => \E j \in 0 .. 1 : Freed(r.pmt[j])
      BY <1>8, HandleFreed
    <3> HIDE DEF h, n, r
    <3> QED BY <1>2, <1>6, <1>9, <3>1 DEF KnownRec
  <2>4. h.reopen \/ get_pids_for_func(t[2], n) = get_pids_for_func(t[2], r)
    <3> SUFFICES ASSUME ~h.reopen
                 PROVE  get_pids_for_func(t[2], n) = get_pids_for_func(t[2], r)
      OBVIOUS
    <3>1. \A j \in 0 .. 1 : collect_pmt_pids(t[2], r.func, h.pmt[j]) =
                            collect_pmt_pids(t[2], r.func, r.pmt[j])
      BY <1>8, HandleQuiet
    <3> HIDE DEF h, n, r
    <3> QED BY <1>6, <3>1 DEF get_pids_for_func
  <2> HIDE DEF h, n
  <2>5. OutShape' /\ OutputsFollow'
    BY <1>7, <2>1, <2>2, <2>4, UpdateFollows DEF SvtInv
  <2>6. Known'
    BY <1>1, <1>7, <2>1, <2>3, UpdateKnown DEF SvtInv
  <2> QED BY <1>3, <2>5, <2>6 DEF SvtInv
<1> QED BY <1>10, <1>11

LEMMA AirStep ==
  ASSUME SvtInv, NEW p \in Pnrs,
         Announce(p) \/ Switch(p) \/ \E q \in PmtPids : Move(p, q)
  PROVE  SvtInv'
<1>1. out' = out /\ dead' = dead /\ ~dead
  BY DEF Announce, Switch, Move
<1>2. LastVer(p) \in 1 .. 31
  BY Zenon, SvtAssumption
<1>3. PICK q, v, n : air[p] = [pid |-> q, ver |-> v, next |-> n]
  BY DEF SvtInv, AirShape
<1>4. q \in PmtPids /\ v \in 1 .. LastVer(p) /\ n \in BOOLEAN /\ (n => v < LastVer(p))
  BY <1>3 DEF SvtInv, AirShape
<1>5. ASSUME NEW qq \in PmtPids, NEW vv \in 1 .. LastVer(p), NEW nn \in BOOLEAN,
             nn => vv < LastVer(p),
             air' = [air EXCEPT ![p] = [pid |-> qq, ver |-> vv, next |-> nn]]
      PROVE  AirShape'
  <2>1. DOMAIN air' = Pnrs /\ air'[p] = [pid |-> qq, ver |-> vv, next |-> nn]
        /\ \A x \in Pnrs \ {p} : air'[x] = air[x]
    BY <1>5 DEF SvtInv, AirShape
  <2>2. \E r, w, m : air'[p] = [pid |-> r, ver |-> w, next |-> m]
    BY <2>1
  <2>3. air'[p].pid = qq /\ air'[p].ver = vv /\ air'[p].next = nn
    BY <2>1
  <2>4. air'[p].next => air'[p].ver < LastVer(p)
    BY <1>5, <2>3
  <2> QED BY <2>1, <2>2, <2>3, <2>4 DEF SvtInv, AirShape
<1>6. AirShape'
  <2>1. CASE Announce(p)
    <3>1. ASSUME NEW x
          PROVE  [air[p] EXCEPT !.next = x] = [pid |-> q, ver |-> v, next |-> x]
      BY <1>3
    <3>2. air' = [air EXCEPT ![p] = [pid |-> q, ver |-> v, next |-> TRUE]] /\ v < LastVer(p)
      BY <1>3, <2>1, <3>1 DEF Announce
    <3> QED BY <1>4, <1>5, <3>2
  <2>2. CASE Switch(p)
    <3>1. air' = [air EXCEPT ![p] = [pid |-> q, ver |-> v + 1, next |-> FALSE]] /\ v < LastVer(p)
      BY <1>3, <2>2 DEF Switch
    <3>2. v + 1 \in 1 .. LastVer(p)
      BY <1>2, <1>4, <3>1
    <3> QED BY <1>4, <1>5, <3>1, <3>2
  <2>3. ASSUME NEW x \in PmtPids, Move(p, x)
        PROVE  AirShape'
    <3>1. [air[p] EXCEPT !.pid = x] = [pid |-> x, ver |-> v, next |-> n]
      BY <1>3
    <3>2. air' = [air EXCEPT ![p] = [pid |-> x, ver |-> v, next |-> n]]
      BY <2>3, <3>1 DEF Move
    <3> QED BY <1>4, <1>5, <3>2
  <2> QED BY <2>1, <2>2, <2>3
<1> QED BY <1>1, <1>6 DEF SvtInv, OutShape, OutputsFollow, Known, Trackers, Trk

LEMMA SvtStep == SvtInv /\ [Next]_vars => SvtInv'
<1> SUFFICES ASSUME SvtInv, [Next]_vars PROVE SvtInv'
  OBVIOUS
<1>1. CASE UNCHANGED vars
  BY <1>1 DEF vars, SvtInv, OutShape, OutputsFollow, AirShape, Known, Trackers, Trk
<1>2. ASSUME NEW o \in Outs,
             svtOutAdd(o) \/ svtOutRmv(o) \/ \E w \in Wants[o] : svtOutMod(o, w)
      PROVE  SvtInv'
  BY <1>2, OwnersStep
<1>3. ASSUME NEW t \in Trackers, PutPas(t) PROVE SvtInv'
  BY <1>3, PutPasStep
<1>4. ASSUME NEW t \in Trackers, NEW idx \in 0 .. 1, NEW nr \in 1 .. MaxSecs, PutSent(t, nr, idx)
      PROVE  SvtInv'
  <2> DEFINE v == air[t[2]].ver + idx
             s == [version |-> v, num |-> NumSecs(t[2], v), nr |-> nr, ok |-> TRUE]
  <2>1. t[2] \in Pnrs
    BY DEF Trackers
  <2>2. LastVer(t[2]) \in 1 .. 31
    BY <2>1, Zenon, SvtAssumption
  <2>3. air[t[2]].ver \in 1 .. LastVer(t[2])
        /\ (air[t[2]].next => air[t[2]].ver < LastVer(t[2]))
    BY <2>1 DEF SvtInv, AirShape
  <2>4. idx = 1 => air[t[2]].next
    BY <1>4 DEF PutSent
  <2>5. v \in 1 .. LastVer(t[2])
    BY <2>2, <2>3, <2>4
  <2>6. NumSecs(t[2], v) \in Nat
    <3> HIDE DEF v
    <3>1. NumSecs(t[2], v) \in 1 .. MaxSecs
      BY <2>1, <2>5, Zenon, SvtAssumption
    <3> QED BY <3>1
  <2>7. s.num \in Nat
    BY <2>6
  <2>8. PutPms(t, s, idx)
    BY <1>4 DEF PutSent
  <2> HIDE DEF s
  <2> QED BY <2>7, <2>8, PutPmsStep
<1>5. ASSUME NEW t \in Trackers, NEW idx \in 0 .. 1, NEW version, NEW num \in 1 .. MaxSecs,
             PutDamaged(t, version, num, idx)
      PROVE  SvtInv'
  <2> DEFINE s == [version |-> version, num |-> num, nr |-> 1, ok |-> FALSE]
  <2>1. s.num \in Nat
    BY SvtAssumption
  <2>2. PutPms(t, s, idx)
    BY <1>5 DEF PutDamaged
  <2> HIDE DEF s
  <2> QED BY <2>1, <2>2, PutPmsStep
<1>6. ASSUME NEW p \in Pnrs, Announce(p) \/ Switch(p) \/ \E q \in PmtPids : Move(p, q)
      PROVE  SvtInv'
  BY <1>6, AirStep
<1> QED BY <1>1, <1>2, <1>3, <1>4, <1>5, <1>6 DEF Next

(* The inductive invariant: the shape of the state, the two properties     *)
(* below and what connects them, a tracker's ignorance before its first    *)
(* PAS.                                                                    *)
THEOREM SvtInvariant == Spec => []SvtInv
BY SvtInit, SvtStep, PTL DEF Spec

(* For any outputs, programs, contents of PMTs and requests: after every   *)
(* call and every section, good or damaged, the port of an output lets     *)
(* through exactly what its owner and its trackers' tables say             *)
(* (refresh_output, svtOutMod).                                            *)
THEOREM PortsAlwaysFollow == Spec => []OutputsFollow
<1>1. SvtInv => OutputsFollow
  BY DEF SvtInv
<1> QED BY <1>1, SvtInvariant, PTL

(* In any broadcast in which no PMT moves to another pid while it is       *)
(* tracked, svt_handle_pms2 never writes through NULL: damaged sections,   *)
(* handed-over next tables and changes of length cannot make it.           *)
THEOREM NullWriteNeedsMove == Spec => []NullWriteOnlyAfterMove
<1>1. SvtInv => NullWriteOnlyAfterMove
  <2> SUFFICES ASSUME SvtInv PROVE NullWriteOnlyAfterMove
    OBVIOUS
  <2>1. dead => \E t \in Trackers : Trk(t).moved
    BY DEF SvtInv, Known
  <2>2. ASSUME NEW t \in Trackers, NEW table \in Tables(t), ~table.alloc
        PROVE  Trk(t).moved
    <3>1. KnownRec(Trk(t))
      BY DEF SvtInv, Known, Trackers, Trk
    <3>2. \E i \in 0 .. 1 : Freed(Trk(t).pmt[i])
      BY <2>2 DEF Tables, Freed
    <3> QED BY <3>1, <3>2 DEF KnownRec
  <2> QED BY <2>1, <2>2 DEF NullWriteOnlyAfterMove
<1> QED BY <1>1, SvtInvariant, PTL
-----------------------------------------------------------------------------
(* Proof of TablesSound. *)

(* One version, and memory for what is in it; the memory of a table that   *)
(* was cleared is gone, so a section that enters it kills the server       *)
(* instead of entering it.                                                 *)
TableGood(p, T) ==
  T = NoTable \/ /\ T.version \in {-1} \cup 1 .. LastVer(p) /\ T.num \in 1 .. MaxSecs
                 /\ DOMAIN T.secs \subseteq 1 .. T.num
                 /\ \A i \in DOMAIN T.secs : T.secs[i] = T.version
                 /\ T.secs # <<>> => T.alloc

RecGood(p, r) ==
  /\ r.func \subseteq FUNC_ALL
  /\ r.pid \in PmtPids \cup {UNKNOWN}
  /\ r.input = {PAT_PID} \cup ({r.pid} \ {UNKNOWN})
  /\ \A i \in 0 .. 1 : TableGood(p, r.pmt[i])

AllGood ==
  /\ DOMAIN out \subseteq Outs
  /\ \A o \in DOMAIN out : /\ DOMAIN out[o].r \subseteq Pnrs
                           /\ \A p \in DOMAIN out[o].r : RecGood(p, out[o].r[p])

Counts == dead \in BOOLEAN /\ moves \in 0 .. MaxMoves /\ damages \in 0 .. MaxDamages

SoundInv == SvtInv /\ AllGood /\ Counts

(* A section as the broadcast sends it, or with a damaged header.          *)
SectionGood(p, s) ==
  /\ s.version \in 1 .. LastVer(p) /\ s.num \in 1 .. MaxSecs
  /\ s.ok => s.nr \in 1 .. s.num

LEMMA NewGood ==
  ASSUME NEW p, NEW n \in 1 .. MaxSecs
  PROVE  TableGood(p, new_tbl(n)) /\ new_tbl(n).num = n /\ new_tbl(n) # NoTable
         /\ DOMAIN new_tbl(n).secs = {} /\ new_tbl(n).alloc
<1>1. n \in Nat
  BY SvtAssumption
<1>2. new_tbl(n) # NoTable
  BY <1>1, NewTable
<1>3. /\ new_tbl(n).version = -1 /\ new_tbl(n).num = n /\ new_tbl(n).secs = <<>>
      /\ new_tbl(n).alloc = TRUE
  BY DEF new_tbl
<1>4. DOMAIN <<>> = {}
  OBVIOUS
<1> QED BY <1>2, <1>3, <1>4 DEF TableGood

(* svt_handle_pms2 keeps tables good unless it writes through NULL.        *)
LEMMA HandleGood ==
  ASSUME NEW p, NEW pmt, NEW s, NEW idx \in 0 .. 1, SectionGood(p, s),
         DOMAIN pmt = 0 .. 1, \A i \in 0 .. 1 : TableGood(p, pmt[i]),
         ~svt_handle_pms2(pmt, s, idx).null_write
  PROVE  \A i \in 0 .. 1 : TableGood(p, svt_handle_pms2(pmt, s, idx).pmt[i])
<1> DEFINE a == Chosen(pmt, s, idx)
           b == Fitted(a, s)
           c == IF Enters(b, s) THEN enter_sec(b, s) ELSE b
<1>0. s.num \in 1 .. MaxSecs /\ s.version \in 1 .. LastVer(p)
  BY DEF SectionGood
<1>a. /\ TableGood(p, new_tbl(s.num)) /\ new_tbl(s.num).num = s.num /\ new_tbl(s.num) # NoTable
      /\ DOMAIN new_tbl(s.num).secs = {} /\ new_tbl(s.num).alloc
  BY <1>0, NewGood
<1>1. Present(pmt, s, idx) # NoTable /\ TableGood(p, Present(pmt, s, idx))
  BY <1>a DEF Present
<1>2. a # NoTable /\ TableGood(p, a)
  BY <1>1 DEF Chosen, Copies
<1>3. /\ b # NoTable /\ TableGood(p, b) /\ b.num = s.num
      /\ DOMAIN b.secs = {} \/ b.version = s.version
  <2>1. CASE Differs(a, s)
    BY <1>a, <2>1 DEF reinit_pmt, Fitted
  <2>2. CASE ~Differs(a, s)
    BY <1>2, <2>2 DEF Fitted, Differs
  <2> QED BY <2>1, <2>2
<1>4. svt_handle_pms2(pmt, s, idx).null_write = (Enters(b, s) /\ ~b.alloc)
  BY DEF svt_handle_pms2
<1>5. svt_handle_pms2(pmt, s, idx).pmt =
        IF Copies(pmt, s, idx) THEN [pmt EXCEPT ![0] = c, ![1] = NoTable]
        ELSE [pmt EXCEPT ![idx] = c]
  BY DEF svt_handle_pms2
<1> HIDE DEF b
<1>6. TableGood(p, c)
  <2>1. CASE Enters(b, s)
    <3> DEFINE e == enter_sec(b, s)
    <3>1. b.alloc /\ s.nr \in 1 .. s.num
      BY <1>4, <2>1 DEF Enters, SectionGood
    <3>2. e.version = s.version /\ e.num = b.num /\ e.secs = Entered(b.secs, s) /\ e.alloc = b.alloc
      BY DEF enter_sec
    <3>3. DOMAIN e.secs = DOMAIN b.secs \cup {s.nr}
      BY <3>2 DEF Entered
    <3>4. \A i \in DOMAIN e.secs : e.secs[i] = s.version
      BY <1>3, <3>2 DEF Entered, TableGood
    <3>5. DOMAIN b.secs \subseteq 1 .. b.num
      BY <1>3 DEF TableGood
    <3> HIDE DEF e
    <3>6. TableGood(p, e)
      BY <1>0, <1>3, <3>1, <3>2, <3>3, <3>4, <3>5 DEF TableGood
    <3> QED BY <2>1, <3>6 DEF e
  <2>2. CASE ~Enters(b, s)
    BY <1>3, <2>2
  <2> QED BY <2>1, <2>2
<1>7. TableGood(p, NoTable)
  BY DEF TableGood
<1> HIDE DEF c
<1> QED BY <1>5, <1>6, <1>7

(* A new or changed output keeps the others as they are.                   *)
LEMMA SetOutGood ==
  ASSUME AllGood, NEW o \in Outs, NEW v, SetOut(o, v),
         DOMAIN v.r \subseteq Pnrs, \A p \in DOMAIN v.r : RecGood(p, v.r[p])
  PROVE  AllGood'
BY DEF AllGood, SetOut

LEMMA UpdateGood ==
  ASSUME OutShape, AllGood, NEW t \in Trackers, NEW r, RecGood(t[2], r),
         NEW reopen \in BOOLEAN, Update(t, r, reopen)
  PROVE  AllGood'
<1> DEFINE o == out[t[1]]
           rs == [o.r EXCEPT ![t[2]] = r]
           v == IF reopen THEN Refreshed(rs, o.hpids) ELSE [o EXCEPT !.r = rs]
<1>1. t[1] \in DOMAIN out /\ t[2] \in DOMAIN o.r /\ t[1] \in Outs
  BY DEF Trackers, AllGood
<1>2. DOMAIN rs = DOMAIN o.r /\ \A p \in DOMAIN rs : RecGood(p, rs[p])
  BY <1>1 DEF AllGood
<1>3. SetOut(t[1], v)
  BY DEF Update
<1>4. v.r = rs
  <2>1. PICK q, h, rr : o = [port |-> q, hpids |-> h, r |-> rr]
    BY <1>1 DEF OutShape
  <2> HIDE DEF rs, o
  <2> QED BY <2>1 DEF Refreshed
<1>5. DOMAIN o.r \subseteq Pnrs
  BY <1>1 DEF AllGood
<1> HIDE DEF v, rs, o
<1> QED BY <1>1, <1>2, <1>3, <1>4, <1>5, SetOutGood

LEMMA OwnersGood ==
  ASSUME SoundInv, NEW o \in Outs,
         \/ svtOutAdd(o) \/ svtOutRmv(o) \/ \E w \in Wants[o] : svtOutMod(o, w)
  PROVE  AllGood'
<1>1. CASE svtOutAdd(o)
  <2>1. SetOut(o, Refreshed(<<>>, {})) /\ Refreshed(<<>>, {}).r = <<>> /\ DOMAIN <<>> = {}
    BY <1>1 DEF svtOutAdd, Refreshed
  <2> QED BY <2>1, SetOutGood DEF SoundInv
<1>2. CASE svtOutRmv(o)
  BY <1>2 DEF svtOutRmv, Restrict, SoundInv, AllGood
<1>3. ASSUME NEW w \in Wants[o], svtOutMod(o, w)
      PROVE  AllGood'
  <2> DEFINE r == rmv_func(add_func(out[o].r, w.funcs), w.funcs)
  <2>1. o \in DOMAIN out /\ SetOut(o, Refreshed(r, w.hpids)) /\ Refreshed(r, w.hpids).r = r
    BY <1>3 DEF svtOutMod, Refreshed
  <2>2. DOMAIN r = DOMAIN w.funcs
        /\ \A p \in DOMAIN r : \/ p \in DOMAIN out[o].r /\ r[p] = out[o].r[p]
                               \/ r[p] = find_or_new_svt(w.funcs[p])
    BY DEF rmv_func, add_func, Restrict
  <2>3. DOMAIN w.funcs \subseteq Pnrs /\ \A p \in DOMAIN w.funcs : w.funcs[p] \subseteq FUNC_ALL
    BY Zenon, SvtAssumption
  <2>4. ASSUME NEW p, NEW func, func \subseteq FUNC_ALL PROVE RecGood(p, find_or_new_svt(func))
    <3> DEFINE n == find_or_new_svt(func)
    <3>1. /\ n.func = func /\ n.pid = UNKNOWN /\ n.input = {PAT_PID}
          /\ n.pmt = [i \in 0 .. 1 |-> NoTable]
      BY DEF find_or_new_svt
    <3>2. \A i \in 0 .. 1 : TableGood(p, n.pmt[i])
      BY <3>1 DEF TableGood
    <3> HIDE DEF n
    <3>3. RecGood(p, n)
      BY <2>4, <3>1, <3>2 DEF RecGood
    <3> QED BY <3>3 DEF n
  <2> HIDE DEF r
  <2>5. \A p \in DOMAIN r : RecGood(p, r[p])
    BY <2>1, <2>2, <2>3, <2>4 DEF SoundInv, AllGood
  <2> QED BY <2>1, <2>2, <2>3, <2>5, SetOutGood DEF SoundInv
<1> QED BY <1>1, <1>2, <1>3

LEMMA PutPasGood ==
  ASSUME SoundInv, NEW t \in Trackers, PutPas(t)
  PROVE  AllGood'
<1> DEFINE r == Trk(t)
           q == air[t[2]].pid
           n == [func |-> r.func, pid |-> q, input |-> {PAT_PID, q},
                 pmt |-> [i \in 0 .. 1 |-> clear_tbl(r.pmt[i])],
                 moved |-> r.moved \/ r.pid # UNKNOWN]
<1>1. Update(t, n, TRUE)
  BY DEF PutPas
<1>2. t[2] \in Pnrs /\ RecGood(t[2], r) /\ RecShape(r)
  BY DEF Trackers, Trk, SoundInv, AllGood, SvtInv, OutShape
<1>3. q \in PmtPids /\ q # UNKNOWN
  <2>1. q \in PmtPids
    BY <1>2 DEF SoundInv, SvtInv, AirShape
  <2>2. PmtPids \subseteq 1 .. UNKNOWN - 1
    BY SvtAssumption
  <2> QED BY <2>1, <2>2 DEF UNKNOWN
<1>4. ASSUME NEW i \in 0 .. 1 PROVE TableGood(t[2], clear_tbl(r.pmt[i]))
  <2> DEFINE T == r.pmt[i]
  <2>1. TableGood(t[2], T)
    BY <1>2 DEF RecGood
  <2> HIDE DEF T
  <2>2. ASSUME T = NoTable PROVE TableGood(t[2], clear_tbl(T))
    BY <2>2 DEF TableGood, clear_tbl
  <2>3. ASSUME T # NoTable PROVE TableGood(t[2], clear_tbl(T))
    <3> DEFINE e == clear_tbl(T)
    <3>1. e.version = T.version /\ e.num = T.num /\ e.secs = <<>> /\ DOMAIN <<>> = {}
      BY <2>3 DEF clear_tbl
    <3> HIDE DEF e
    <3>2. TableGood(t[2], e)
      BY <2>1, <2>3, <3>1 DEF TableGood
    <3> QED BY <3>2 DEF e
  <2>4. TableGood(t[2], clear_tbl(T))
    BY <2>2, <2>3
  <2> QED BY <2>4 DEF T
<1>5. n.func = r.func /\ n.pid = q /\ n.input = {PAT_PID, q} /\ n.pmt = [i \in 0 .. 1 |-> clear_tbl(r.pmt[i])]
  OBVIOUS
<1> HIDE DEF n
<1>6. \A i \in 0 .. 1 : TableGood(t[2], n.pmt[i])
  BY <1>4, <1>5
<1>7. n.func \subseteq FUNC_ALL
  BY <1>2, <1>5 DEF RecGood
<1> HIDE DEF r, q
<1>8. RecGood(t[2], n)
  BY <1>3, <1>5, <1>6, <1>7 DEF RecGood
<1> QED BY <1>1, <1>8, UpdateGood DEF SoundInv, SvtInv

LEMMA PutPmsGood ==
  ASSUME SoundInv, NEW t \in Trackers, NEW s, NEW idx \in 0 .. 1, SectionGood(t[2], s), PutPms(t, s, idx)
  PROVE  AllGood' /\ dead' \in BOOLEAN /\ moves' = moves
<1> DEFINE r == Trk(t)
           h == svt_handle_pms2(r.pmt, s, idx)
           n == [r EXCEPT !.pmt = h.pmt]
<1>1. /\ moves' = moves /\ dead' = h.null_write
      /\ IF h.null_write THEN UNCHANGED out ELSE Update(t, n, h.reopen)
  BY DEF PutPms
<1>2. RecShape(r) /\ RecGood(t[2], r)
  BY DEF Trackers, Trk, SoundInv, SvtInv, OutShape, AllGood
<1>3. h.reopen \in BOOLEAN /\ h.null_write \in BOOLEAN
  BY DEF svt_handle_pms2
<1>4. CASE h.null_write
  <2>1. out' = out
    BY <1>1, <1>4
  <2>2. AllGood'
    BY <2>1 DEF SoundInv, AllGood
  <2> QED BY <1>1, <1>3, <2>2
<1>5. CASE ~h.null_write
  <2>1. Update(t, n, h.reopen)
    BY <1>1, <1>5
  <2>2. \A i \in 0 .. 1 : TableGood(t[2], h.pmt[i])
    BY <1>2, <1>5, HandleGood DEF RecShape, RecGood
  <2>3. PICK f, q, i, p, m : r = [func |-> f, pid |-> q, input |-> i, pmt |-> p, moved |-> m]
    BY <1>2 DEF RecShape
  <2>4. n.func = r.func /\ n.pid = r.pid /\ n.input = r.input /\ n.pmt = h.pmt
    <3> HIDE DEF h, r
    <3>1. n = [func |-> f, pid |-> q, input |-> i, pmt |-> h.pmt, moved |-> m]
      BY <2>3
    <3> HIDE DEF n
    <3> QED BY <2>3, <3>1
  <2> HIDE DEF h, n, r
  <2>5. RecGood(t[2], n)
    BY <1>2, <2>2, <2>4 DEF RecGood
  <2>6. AllGood'
    BY <1>3, <2>1, <2>5, UpdateGood DEF SoundInv, SvtInv
  <2> QED BY <1>1, <1>3, <2>6
<1> QED BY <1>4, <1>5

LEMMA SoundStep == SoundInv /\ [Next]_vars => SoundInv'
<1> SUFFICES ASSUME SoundInv, [Next]_vars PROVE SoundInv'
  OBVIOUS
<1>0. SvtInv'
  BY SvtStep DEF SoundInv
<1> SUFFICES AllGood' /\ Counts'
  BY <1>0 DEF SoundInv
<1>a. MaxMoves \in Nat /\ MaxDamages \in Nat /\ MaxSecs \in Nat \ {0}
  BY SvtAssumption
<1>1. CASE UNCHANGED vars
  <2>1. out' = out /\ dead' = dead /\ moves' = moves /\ damages' = damages
    BY <1>1 DEF vars
  <2> QED BY <2>1 DEF SoundInv, AllGood, Counts
<1>2. ASSUME NEW o \in Outs,
             svtOutAdd(o) \/ svtOutRmv(o) \/ \E w \in Wants[o] : svtOutMod(o, w)
      PROVE  AllGood' /\ Counts'
  <2>1. dead' = dead /\ moves' = moves /\ damages' = damages
    BY <1>2 DEF svtOutAdd, svtOutRmv, svtOutMod
  <2> QED BY <1>2, <2>1, OwnersGood DEF SoundInv, Counts
<1>3. ASSUME NEW t \in Trackers, PutPas(t) PROVE AllGood' /\ Counts'
  <2>1. dead' = dead /\ moves' = moves /\ damages' = damages
    BY <1>3 DEF PutPas
  <2> QED BY <1>3, <2>1, PutPasGood DEF SoundInv, Counts
<1>4. ASSUME NEW t \in Trackers, NEW idx \in 0 .. 1, NEW nr \in 1 .. MaxSecs, PutSent(t, nr, idx)
      PROVE  AllGood' /\ Counts'
  <2> DEFINE v == air[t[2]].ver + idx
             s == [version |-> v, num |-> NumSecs(t[2], v), nr |-> nr, ok |-> TRUE]
  <2>1. t[2] \in Pnrs
    BY DEF Trackers
  <2>2. LastVer(t[2]) \in 1 .. 31
    BY <2>1, Zenon, SvtAssumption
  <2>3. air[t[2]].ver \in 1 .. LastVer(t[2])
        /\ (air[t[2]].next => air[t[2]].ver < LastVer(t[2]))
    BY <2>1 DEF SoundInv, SvtInv, AirShape
  <2>4. (idx = 1 => air[t[2]].next) /\ nr \in DOMAIN Streams[t[2]][v] /\ PutPms(t, s, idx) /\ damages' = damages
    BY <1>4 DEF PutSent
  <2>5. v \in 1 .. LastVer(t[2])
    BY <2>2, <2>3, <2>4
  <2>6. NumSecs(t[2], v) \in 1 .. MaxSecs /\ DOMAIN Streams[t[2]][v] = 1 .. NumSecs(t[2], v)
    <3> HIDE DEF v
    <3> QED BY <2>1, <2>5, Zenon, SvtAssumption
  <2>7. SectionGood(t[2], s)
    <3> HIDE DEF v
    <3>1. s.version = v /\ s.num = NumSecs(t[2], v) /\ s.nr = nr
      OBVIOUS
    <3> HIDE DEF s
    <3> QED BY <2>4, <2>5, <2>6, <3>1 DEF SectionGood
  <2> HIDE DEF s
  <2>8. AllGood' /\ dead' \in BOOLEAN /\ moves' = moves
    BY <2>4, <2>7, PutPmsGood
  <2> QED BY <2>4, <2>8 DEF SoundInv, Counts
<1>5. ASSUME NEW t \in Trackers, NEW idx \in 0 .. 1, NEW version \in 1 .. LastVer(t[2]), NEW num \in 1 .. MaxSecs,
             PutDamaged(t, version, num, idx)
      PROVE  AllGood' /\ Counts'
  <2> DEFINE s == [version |-> version, num |-> num, nr |-> 1, ok |-> FALSE]
  <2>1. PutPms(t, s, idx) /\ damages < MaxDamages /\ damages' = damages + 1
    BY <1>5 DEF PutDamaged
  <2>2. SectionGood(t[2], s)
    BY DEF SectionGood
  <2> HIDE DEF s
  <2>3. AllGood' /\ dead' \in BOOLEAN /\ moves' = moves
    BY <2>1, <2>2, PutPmsGood
  <2>4. damages' \in 0 .. MaxDamages
    BY <1>a, <2>1 DEF SoundInv, Counts
  <2> QED BY <2>3, <2>4 DEF SoundInv, Counts
<1>6. ASSUME NEW p \in Pnrs, Announce(p) \/ Switch(p) \/ \E q \in PmtPids : Move(p, q)
      PROVE  AllGood' /\ Counts'
  <2>1. out' = out /\ dead' = dead /\ damages' = damages
    BY <1>6 DEF Announce, Switch, Move
  <2>2. moves' \in 0 .. MaxMoves
    BY <1>6, <1>a DEF Announce, Switch, Move, SoundInv, Counts
  <2>3. AllGood'
    BY <2>1 DEF SoundInv, AllGood
  <2> QED BY <2>1, <2>2, <2>3 DEF SoundInv, Counts
<1> QED BY <1>1, <1>2, <1>3, <1>4, <1>5, <1>6 DEF Next

(* For any outputs, programs, PMTs, requests, moves and damages: a table   *)
(* never mixes versions, its sections have memory, and a tracker listens   *)
(* to the PAT and to the PMT it knows of (svt_handle_pms2, clear_tbl,      *)
(* svt_packet_put).                                                        *)
THEOREM TablesAlwaysSound == Spec => []TablesSound
<1>1. Init => SoundInv
  <2> SUFFICES ASSUME Init PROVE SoundInv
    OBVIOUS
  <2>1. SvtInv
    BY SvtInit
  <2>2. DOMAIN out = {}
    BY DEF Init
  <2>3. AllGood
    BY <2>2 DEF AllGood
  <2>4. dead \in BOOLEAN
    BY DEF Init
  <2>5. moves \in 0 .. MaxMoves /\ damages \in 0 .. MaxDamages
    BY SvtAssumption DEF Init
  <2> QED BY <2>1, <2>3, <2>4, <2>5 DEF SoundInv, Counts
<1>2. SoundInv => TablesSound
  <2> SUFFICES ASSUME SoundInv PROVE TablesSound
    OBVIOUS
  <2>1. ASSUME NEW t \in Trackers
        PROVE  /\ RecGood(t[2], Trk(t))
               /\ \A table \in Tables(t) : table # NoTable /\ TableGood(t[2], table)
    <3>1. RecGood(t[2], Trk(t))
      BY DEF SoundInv, AllGood, Trackers, Trk
    <3> QED BY <3>1 DEF RecGood, Tables
  <2>2. TypeOK
    <3>1. DOMAIN out \subseteq Outs /\ \A o \in DOMAIN out : DOMAIN out[o].r \subseteq Pnrs
      BY DEF SoundInv, AllGood
    <3>2. ASSUME NEW t \in Trackers
          PROVE  /\ Trk(t).func \subseteq FUNC_ALL /\ Trk(t).pid \in PmtPids \cup {UNKNOWN}
                 /\ \A table \in Tables(t) :
                      /\ table.version \in {-1} \cup 1 .. LastVer(t[2]) /\ table.num \in 1 .. MaxSecs
                      /\ DOMAIN table.secs \subseteq 1 .. table.num
      BY <2>1 DEF RecGood, TableGood
    <3> QED BY <3>1, <3>2 DEF SoundInv, Counts, TypeOK
  <2>3. ASSUME NEW t \in Trackers
        PROVE  /\ Trk(t).input = {PAT_PID} \cup ({Trk(t).pid} \ {UNKNOWN})
               /\ \A table \in Tables(t) :
                    /\ \A i \in DOMAIN table.secs : table.secs[i] = table.version
                    /\ table.secs # <<>> => table.alloc
    BY <2>1 DEF RecGood, TableGood
  <2> QED BY <2>2, <2>3 DEF TablesSound
<1> QED BY <1>1, <1>2, SoundStep, PTL DEF Spec

=============================================================================
