------------------------------- MODULE SecEx --------------------------------
(***************************************************************************)
(* The section extractor (stream/sec_ex.c): sections from the packets of   *)
(* pids.  It checks no continuity counters and does not look at the length *)
(* of a section: a section is returned when the next one starts, and the   *)
(* packet that starts it is kept until the next call.  Users read as many  *)
(* bytes of the buffer as the section says it has.                         *)
(*                                                                         *)
(* The broadcast is external: sections are sent round and round, packets   *)
(* of various lengths (adaptation fields) are filled as the broadcaster    *)
(* likes, and any of them may be lost, garbled or without payload.  That   *)
(* no SecExState can be allocated, and that a pid is given up for a while, *)
(* is a loss, too.                                                         *)
(*                                                                         *)
(* Bytes are counted in units; a unit is known by its section and place.   *)
(***************************************************************************)
EXTENDS Integers, FiniteSets, SequencesExt

CONSTANTS
  Pids,
  Size,        (* Size[s]: units of section s; sent in this order          *)
  Lens,        (* payload units of a packet, the pointer_field included    *)
  MAX_SEC_SZ,  (* units of SecBuf.data                                     *)
  Bufs,        (* packets of the selector's pool                           *)
  NoBuf,       (* NULL                                                     *)
  MaxGarbles,  (* bound: garbled packets                                   *)
  NoPid        (* nothing returned                                         *)

ASSUME SecExAssumption ==
  /\ IsFiniteSet(Pids) /\ NoPid \notin Pids
  /\ IsFiniteSet(Bufs) /\ NoBuf \notin Bufs
  /\ Cardinality(Bufs) > Cardinality(Pids)
  /\ MAX_SEC_SZ \in Nat \ {0}
  /\ Size \in Seq(1 .. MAX_SEC_SZ) /\ Len(Size) > 0
  /\ Lens # {} /\ Lens \subseteq Nat \ {0, 1} /\ MaxGarbles \in Nat

VARIABLES
  st,     (* SecExState of every pid seen: [state, data, idx, aux]         *)
  ref,    (* references to packets held by the extractor                   *)
  mem,    (* the contents of those packets: [bad, pusi, head, tail]        *)
  ret,    (* the pid whose section the last call returned                  *)
  sent,   (* broadcast: [cur, rest], the section being sent and what is    *)
          (* left of it                                                    *)
  start,  (* history: [sec, ok], the section whose start arrived last, and *)
          (* whether everything has arrived since                          *)
  done,   (* history: the same of the section before, ended by that start  *)
  garbles (* packets garbled so far                                        *)

vars == <<st, ref, mem, ret, sent, start, done, garbles>>

Stuffing == <<0, 0>>
Unit == {Stuffing} \cup UNION {{<<s, i>> : i \in 1 .. Size[s]} : s \in DOMAIN Size}
Units(s) == [i \in 1 .. Size[s] |-> <<s, i>>]
Nowhere == [sec |-> 0, ok |-> FALSE]
NoPacket == [bad |-> TRUE, pusi |-> FALSE, head |-> <<>>, tail |-> <<>>]

TypeOK ==
  /\ DOMAIN st \subseteq Pids
  /\ \A p \in DOMAIN st :
       /\ st[p].state \in 0 .. 2 /\ st[p].idx \in 0 .. MAX_SEC_SZ
       /\ st[p].data \in Seq(Unit) /\ Len(st[p].data) = MAX_SEC_SZ
       /\ st[p].aux \in Bufs \cup {NoBuf}
  /\ ref \in [Bufs -> Int] /\ ret \in DOMAIN st \cup {NoPid}

-----------------------------------------------------------------------------
(* The extractor.                                                          *)

(* Mutant: packets with pusi are refused. *)
sec_ex_get_ranges_NoStart(pk) == pk.bad \/ pk.pusi

(* sec_ex_get_ranges fails: no usable payload.  Else head is a..b, the end *)
(* of a section, and with pusi tail is b..c, the start of the next.        *)
sec_ex_get_ranges(pk) == pk.bad

(* sec_ex_get_or_ins_state, for a pid not seen before. *)
NewState ==
  [state |-> 0, data |-> [i \in 1 .. MAX_SEC_SZ |-> Stuffing], idx |-> 0, aux |-> NoBuf]

(* Mutant: one unit too many. *)
memmove_Over(s, units) ==
  LET n == IF Len(units) + s.idx > MAX_SEC_SZ + 1 THEN MAX_SEC_SZ - s.idx ELSE Len(units)
  IN [s EXCEPT !.data = SubSeq(@, 1, s.idx) \o SubSeq(units, 1, n) \o SubSeq(@, s.idx + n + 1, Len(@)),
               !.idx = @ + n]

(* To the buffer goes as much as there is room for. *)
memmove(s, units) ==
  LET n == IF Len(units) + s.idx > MAX_SEC_SZ THEN MAX_SEC_SZ - s.idx ELSE Len(units)
  IN [s EXCEPT !.data = SubSeq(@, 1, s.idx) \o SubSeq(units, 1, n) \o SubSeq(@, s.idx + n + 1, Len(@)),
               !.idx = @ + n]

(* case 0, new *)
New(s, b, pk) ==
  [s |-> IF pk.pusi THEN [memmove(s, pk.tail) EXCEPT !.state = 1] ELSE s,
   released |-> <<b>>, ready |-> FALSE]

(* case 1, first packet seen *)
FirstSeen(s, b, pk) ==
  LET t == memmove(s, pk.head)
  IN IF pk.pusi
     THEN [s |-> [t EXCEPT !.aux = b, !.state = 2, !.idx = 0], released |-> <<>>, ready |-> TRUE]
     ELSE [s |-> t, released |-> <<b>>, ready |-> FALSE]

(* Mutant: aux is not released. *)
PartialKept(s, b, pk) ==
  FirstSeen([memmove(s, mem[s.aux].tail) EXCEPT !.state = 1, !.aux = NoBuf], b, pk)

(* case 2, a partial buffer is waiting; that pk has a payload has been     *)
(* tested already.                                                         *)
Partial(s, b, pk) ==
  IF sec_ex_get_ranges(mem[s.aux])
  THEN [s |-> [s EXCEPT !.state = 0, !.idx = 0, !.aux = NoBuf],
        released |-> <<s.aux, b>>, ready |-> FALSE]
  ELSE LET t == [memmove(s, mem[s.aux].tail) EXCEPT !.state = 1, !.aux = NoBuf]
           r == FirstSeen(t, b, pk)
       IN [r EXCEPT !.released = <<s.aux>> \o @]

sec_ex_process_buf(s, b, pk) ==
  IF sec_ex_get_ranges(pk) THEN [s |-> s, released |-> <<b>>, ready |-> FALSE]
  ELSE CASE s.state = 0 -> New(s, b, pk)
         [] s.state = 1 -> FirstSeen(s, b, pk)
         [] s.state = 2 -> Partial(s, b, pk)

(* release_element for the members of a sequence, of references r. *)
Released(r, bufs) == [b \in Bufs |-> r[b] - Cardinality({i \in DOMAIN bufs : bufs[i] = b})]

(* secExPut: the packet comes with a reference the extractor takes over. *)
secExPut(p, pk) ==
  \E b \in {x \in Bufs : ref[x] = 0} :
    LET s == IF p \in DOMAIN st THEN st[p] ELSE NewState
        r == sec_ex_process_buf(s, b, pk)
    IN /\ st' = [q \in DOMAIN st \cup {p} |-> IF q = p THEN r.s ELSE st[q]]
       /\ ref' = Released([ref EXCEPT ![b] = 1], r.released)
       /\ mem' = [x \in Bufs |-> IF ref'[x] = 0 THEN NoPacket ELSE IF x = b THEN pk ELSE mem[x]]
       /\ ret' = IF r.ready THEN p ELSE NoPid

(* sec_ex_st_destroy, for every state. *)
sec_ex_st_destroy == Released(ref, SetToSeq({st[p].aux : p \in DOMAIN st} \ {NoBuf}))

(* secExFlush; or secExClear, and secExInit when the user starts again. *)
secExFlush ==
  /\ DOMAIN st # {}
  /\ ref' = sec_ex_st_destroy
  /\ st' = <<>> /\ mem' = [b \in Bufs |-> NoPacket] /\ ret' = NoPid
  /\ start' = [p \in Pids |-> Nowhere]
  /\ UNCHANGED <<sent, done, garbles>>

-----------------------------------------------------------------------------
(* The broadcast.                                                          *)

Following(s) == (s % Len(Size)) + 1

(* n units: as many of units as fit, the rest stuffed. *)
Fill(units, n) == [i \in 1 .. n |-> IF i <= Len(units) THEN units[i] ELSE Stuffing]

Rest(units, n) == SubSeq(units, n + 1, Len(units))

(* The packets that may come next on pid p, with what is left after them:  *)
(* the current section goes on ...                                         *)
Continued(p) ==
  {[pk |-> [bad |-> FALSE, pusi |-> FALSE, head |-> Fill(sent[p].rest, n), tail |-> <<>>],
    left |-> [cur |-> sent[p].cur, rest |-> Rest(sent[p].rest, n)]] :
   n \in {k \in Lens : sent[p].rest # <<>>}}

(* ... or ends, and others start: one, or a short one and another, which   *)
(* the extractor cannot find ("BUG: there may be more sections in here").  *)
Started(p) ==
  LET rest == sent[p].rest
      one == Following(sent[p].cur)
      two == Following(one)
      Packet(units, cur, n) ==
        [pk |-> [bad |-> FALSE, pusi |-> TRUE, head |-> rest, tail |-> Fill(units, n)],
         left |-> [cur |-> cur, rest |-> Rest(units, n)]]
      rooms == {n - 1 - Len(rest) : n \in {k \in Lens : k > Len(rest) + 1}}
  IN {Packet(Units(one), one, n) : n \in rooms}
     \cup {Packet(Units(one) \o Units(two), two, n) : n \in {k \in rooms : k > Size[one]}}

Init ==
  /\ st = <<>> /\ ref = [b \in Bufs |-> 0] /\ mem = [b \in Bufs |-> NoPacket] /\ ret = NoPid
  /\ sent = [p \in Pids |-> [cur |-> Len(Size), rest |-> <<>>]]
  /\ start = [p \in Pids |-> Nowhere] /\ done = [p \in Pids |-> Nowhere]
  /\ garbles = 0

(* A packet arrives ... *)
Arrive(p) ==
  \E x \in Continued(p) \cup Started(p) :
    /\ secExPut(p, x.pk)
    /\ sent' = [sent EXCEPT ![p] = x.left]
    /\ IF x.pk.pusi
       THEN /\ start' = [start EXCEPT ![p] = [sec |-> x.pk.tail[1][1], ok |-> TRUE]]
            /\ done' = [done EXCEPT ![p] = start[p]]
       ELSE UNCHANGED <<start, done>>
    /\ UNCHANGED garbles

(* ... or one without payload ... *)
ArriveEmpty(p) ==
  /\ secExPut(p, NoPacket)
  /\ UNCHANGED <<sent, start, done, garbles>>

(* ... or it is lost ... *)
Lose(p) ==
  /\ \E x \in Continued(p) \cup Started(p) : sent' = [sent EXCEPT ![p] = x.left]
  /\ start' = [start EXCEPT ![p].ok = FALSE]
  /\ ret' = NoPid
  /\ UNCHANGED <<st, ref, mem, done, garbles>>

(* ... or its pusi or pointer_field are wrong. *)
Garble(p) ==
  /\ garbles < MaxGarbles
  /\ garbles' = garbles + 1
  /\ \E x \in Continued(p) \cup Started(p), pusi \in BOOLEAN :
       LET units == x.pk.head \o x.pk.tail
       IN \E n \in IF pusi THEN 0 .. Len(units) ELSE {Len(units)} :
            /\ secExPut(p, [bad |-> FALSE, pusi |-> pusi,
                            head |-> SubSeq(units, 1, n), tail |-> Rest(units, n)])
            /\ sent' = [sent EXCEPT ![p] = x.left]
  /\ start' = [start EXCEPT ![p].ok = FALSE]
  /\ done' = [done EXCEPT ![p] = Nowhere]

Next ==
  \/ \E p \in Pids : Arrive(p) \/ ArriveEmpty(p) \/ Lose(p) \/ Garble(p)
  \/ secExFlush

Spec == Init /\ [][Next]_vars

(* Packets go on arriving. *)
LiveSpec == Spec /\ \A p \in Pids : WF_vars(Arrive(p))

-----------------------------------------------------------------------------
(* Properties.                                                             *)

Exact(p) == \A i \in 1 .. Size[done[p].sec] : st[p].data[i] = <<done[p].sec, i>>

(* A section all of whose packets arrived is returned as it was sent,      *)
(* whatever was lost or garbled before, however it was cut into packets    *)
(* and whatever an earlier one has left in the buffer, which never         *)
(* overflows (buf_idx and the clamping in sec_ex_process_buf).             *)
SectionsExact ==
  /\ TypeOK
  /\ ret # NoPid /\ done[ret].ok => Exact(ret)

(* The extractor holds one reference to the packet in aux of every pid     *)
(* with a partial buffer waiting, and none to any other: every packet      *)
(* given to secExPut is released once, on every path, over flushes.        *)
PacketsReleased ==
  /\ \A p \in DOMAIN st : st[p].state = 2 <=> st[p].aux # NoBuf
  /\ \A b \in Bufs : ref[b] = Cardinality({p \in DOMAIN st : st[p].aux = b})

(* If losses end, sections are returned intact again, for ever: no loss    *)
(* leaves the extractor in a state it does not get out of by itself.       *)
SectionsResume ==
  \A p \in Pids : <>[]start[p].ok => []<>(ret = p /\ done[p].ok)
=============================================================================
