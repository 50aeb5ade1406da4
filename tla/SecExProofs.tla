----------------------------- MODULE SecExProofs ----------------------------
(***************************************************************************)
(* The section extractor: every packet is released once, and a section     *)
(* that arrived whole is returned whole, for sections and packets of any   *)
(* size and any number of pids.                                            *)
(***************************************************************************)
EXTENDS SecEx, FiniteSetTheorems, SequenceTheorems, TLAPS

Packets == [bad : BOOLEAN, pusi : BOOLEAN, head : Seq(Unit), tail : Seq(Unit)]

States == {s \in [state : 0 .. 2, data : Seq(Unit), idx : 0 .. MAX_SEC_SZ, aux : Bufs \cup {NoBuf}] :
             Len(s.data) = MAX_SEC_SZ}

Marks == [sec : 0 .. Len(Size), ok : BOOLEAN]

Types ==
  /\ DOMAIN st \subseteq Pids
  /\ \A p \in DOMAIN st : st[p] \in States
  /\ ref \in [Bufs -> Int] /\ mem \in [Bufs -> Packets]
  /\ ret \in DOMAIN st \cup {NoPid}
  /\ sent \in [Pids -> [cur : 1 .. Len(Size), rest : Seq(Unit)]]
  /\ start \in [Pids -> Marks] /\ done \in [Pids -> Marks]

(* The packets held are those in aux, each for one pid, all with payload.  *)
Holds(x) == \E p \in DOMAIN st : st[p].aux = x

Held ==
  /\ \A p \in DOMAIN st :
       /\ st[p].state = 2 <=> st[p].aux # NoBuf
       /\ st[p].state # 1 => st[p].idx = 0
       /\ st[p].state = 2 => ~mem[st[p].aux].bad
  /\ \A p, q \in DOMAIN st : st[p].aux = st[q].aux /\ st[p].aux # NoBuf => p = q
  /\ \A b \in Bufs : ref[b] = IF Holds(b) THEN 1 ELSE 0

(* What is left of the section being sent is its end.                      *)
Ending(cur, rest) ==
  /\ Len(rest) <= Size[cur]
  /\ \A i \in 1 .. Len(rest) : rest[i] = <<cur, Size[cur] - Len(rest) + i>>

(* The first n units u are those of section s, and the rest of them is     *)
(* still to be sent; l is what is left to send.                            *)
Prefix(s, u, n) == \A i \in 1 .. n : i <= Size[s] => u[i] = <<s, i>>

Comes(s, n, l) == n < Size[s] => l.cur = s /\ Len(l.rest) = Size[s] - n

(* As long as everything has arrived since the start of a section, its     *)
(* first units are in the buffer or in the packet kept.                    *)
Collected(p) ==
  start[p].ok =>
    /\ p \in DOMAIN st /\ start[p].sec \in 1 .. Len(Size)
    /\ \/ /\ st[p].state = 1
          /\ Prefix(start[p].sec, st[p].data, st[p].idx)
          /\ Comes(start[p].sec, st[p].idx, sent[p])
       \/ /\ st[p].state = 2
          /\ Prefix(start[p].sec, mem[st[p].aux].tail, Len(mem[st[p].aux].tail))
          /\ Comes(start[p].sec, Len(mem[st[p].aux].tail), sent[p])

Returned == ret # NoPid /\ done[ret].ok => done[ret].sec \in 1 .. Len(Size) /\ Exact(ret)

SecExInv ==
  /\ Types
  /\ Held
  /\ \A p \in Pids : Ending(sent[p].cur, sent[p].rest)
  /\ \A p \in Pids : Collected(p)
  /\ Returned
-----------------------------------------------------------------------------
(* The buffer.                                                             *)

(* What memmove makes of it: as many units as fit follow the idx that are  *)
(* there, and nothing else of the state changes.                           *)
LEMMA MemmoveEffect ==
  ASSUME NEW s \in States, NEW units \in Seq(Unit)
  PROVE  LET t == memmove(s, units)
         IN  /\ t \in States /\ t.state = s.state /\ t.aux = s.aux
             /\ t.idx = IF Len(units) + s.idx > MAX_SEC_SZ THEN MAX_SEC_SZ ELSE s.idx + Len(units)
             /\ \A i \in 1 .. s.idx : t.data[i] = s.data[i]
             /\ \A i \in 1 .. (t.idx - s.idx) :
                  t.data[s.idx + i] = units[i] /\ i \in 1 .. Len(units)
<1> DEFINE k == s.idx
           d == s.data
           n == IF Len(units) + k > MAX_SEC_SZ THEN MAX_SEC_SZ - k ELSE Len(units)
           a == SubSeq(d, 1, k)
           b == SubSeq(units, 1, n)
           c == SubSeq(d, k + n + 1, Len(d))
           e == a \o b \o c
           t == memmove(s, units)
<1>1. /\ k \in Nat /\ k <= MAX_SEC_SZ /\ MAX_SEC_SZ \in Nat /\ Len(units) \in Nat
      /\ d \in Seq(Unit) /\ Len(d) = MAX_SEC_SZ
  BY SecExAssumption DEF States
<1>2. n \in Nat /\ n <= Len(units) /\ k + n <= MAX_SEC_SZ
  BY <1>1
<1>3. t = [s EXCEPT !.data = e, !.idx = k + n]
  BY DEF memmove
<1> HIDE DEF k, d, t
<1> HIDE DEF n
<1>4. a \in Seq(Unit) /\ Len(a) = k /\ \A i \in 1 .. k : a[i] = d[i]
  <2>1. \A i \in 1 .. k : d[i] \in Unit
    BY <1>1
  <2>2. /\ a \in Seq(Unit) /\ Len(a) = IF 1 <= k THEN k - 1 + 1 ELSE 0
        /\ \A i \in 1 .. k - 1 + 1 : a[i] = d[1 + i - 1]
    BY <1>1, <2>1, SubSeqProperties
  <2> HIDE DEF a
  <2> QED BY <1>1, <2>2
<1>5. b \in Seq(Unit) /\ Len(b) = n /\ \A i \in 1 .. n : b[i] = units[i]
  <2>1. \A i \in 1 .. n : units[i] \in Unit
    BY <1>1, <1>2
  <2>2. /\ b \in Seq(Unit) /\ Len(b) = IF 1 <= n THEN n - 1 + 1 ELSE 0
        /\ \A i \in 1 .. n - 1 + 1 : b[i] = units[1 + i - 1]
    BY <1>1, <1>2, <2>1, SubSeqProperties
  <2> HIDE DEF b
  <2> QED BY <1>1, <1>2, <2>2
<1>6. c \in Seq(Unit) /\ Len(c) = MAX_SEC_SZ - (k + n)
  <2>1. \A i \in (k + n + 1) .. Len(d) : d[i] \in Unit
    BY <1>1, <1>2
  <2>2. /\ c \in Seq(Unit)
        /\ Len(c) = IF k + n + 1 <= Len(d) THEN Len(d) - (k + n + 1) + 1 ELSE 0
    BY <1>1, <1>2, <2>1, SubSeqProperties
  <2> HIDE DEF c
  <2> QED BY <1>1, <1>2, <2>2
<1> HIDE DEF a, b, c
<1>7. /\ a \o b \in Seq(Unit) /\ Len(a \o b) = k + n
      /\ \A i \in 1 .. k + n : (a \o b)[i] = IF i <= k THEN a[i] ELSE b[i - k]
  BY <1>4, <1>5, ConcatProperties
<1>8. /\ e \in Seq(Unit) /\ Len(e) = MAX_SEC_SZ
      /\ \A i \in 1 .. k + n : e[i] = (a \o b)[i]
  <2> DEFINE ab == a \o b
  <2> HIDE DEF ab
  <2>1. /\ ab \in Seq(Unit) /\ Len(ab) = k + n
    BY <1>7 DEF ab
  <2>2. /\ ab \o c \in Seq(Unit) /\ Len(ab \o c) = Len(ab) + Len(c)
        /\ \A i \in 1 .. Len(ab) + Len(c) :
             (ab \o c)[i] = IF i <= Len(ab) THEN ab[i] ELSE c[i - Len(ab)]
    BY <2>1, <1>6, ConcatProperties
  <2>3. Len(ab) + Len(c) = MAX_SEC_SZ /\ \A i \in 1 .. k + n : i \in 1 .. Len(ab) + Len(c) /\ i <= Len(ab)
    BY <1>1, <1>2, <1>6, <2>1
  <2> QED BY <2>2, <2>3 DEF ab
<1> HIDE DEF e
<1>9. /\ t \in [state : 0 .. 2, data : Seq(Unit), idx : 0 .. MAX_SEC_SZ, aux : Bufs \cup {NoBuf}]
      /\ t.data = e /\ t.idx = k + n /\ t.state = s.state /\ t.aux = s.aux
  <2> DEFINE R == [state : 0 .. 2, data : Seq(Unit), idx : 0 .. MAX_SEC_SZ, aux : Bufs \cup {NoBuf}]
             kn == k + n
  <2>1. s \in R
    BY DEF States
  <2>2. kn \in 0 .. MAX_SEC_SZ
    BY <1>1, <1>2
  <2>3. t = [s EXCEPT !.data = e, !.idx = kn]
    BY <1>3
  <2> HIDE DEF kn
  <2>4. t \in R
    BY <1>8, <2>1, <2>2, <2>3
  <2>5. t.data = e /\ t.idx = kn /\ t.state = s.state /\ t.aux = s.aux
    BY <2>1, <2>3
  <2> QED BY <2>4, <2>5 DEF kn
<1>10. t \in States
  BY <1>8, <1>9 DEF States
<1>11. t.idx = IF Len(units) + k > MAX_SEC_SZ THEN MAX_SEC_SZ ELSE k + Len(units)
  BY <1>1, <1>9 DEF n
<1>12. \A i \in 1 .. k : t.data[i] = d[i]
  <2>1. \A i \in 1 .. k : i \in 1 .. k + n /\ i <= k
    BY <1>1, <1>2
  <2> QED BY <1>4, <1>7, <1>8, <1>9, <2>1
<1>13. \A i \in 1 .. (t.idx - k) : t.data[k + i] = units[i] /\ i \in 1 .. Len(units)
  <2> SUFFICES ASSUME NEW i \in 1 .. (t.idx - k)
               PROVE  t.data[k + i] = units[i] /\ i \in 1 .. Len(units)
    OBVIOUS
  <2>1. i \in 1 .. n /\ k + i \in 1 .. k + n /\ ~(k + i <= k) /\ (k + i) - k = i
        /\ i \in 1 .. Len(units)
    BY <1>1, <1>2, <1>9
  <2>2. (a \o b)[k + i] = b[i]
    BY <1>7, <2>1
  <2> QED BY <1>5, <1>8, <1>9, <2>1, <2>2
<1> QED BY <1>9, <1>10, <1>11, <1>12, <1>13 DEF k, d, t

(* A prefix of a section in the buffer grows by the units that follow it.  *)
LEMMA MemmoveCollects ==
  ASSUME NEW s \in States, NEW units \in Seq(Unit), NEW x \in 1 .. Len(Size),
         Prefix(x, s.data, s.idx),
         \A i \in 1 .. Len(units) : s.idx + i <= Size[x] => units[i] = <<x, s.idx + i>>
  PROVE  Prefix(x, memmove(s, units).data, memmove(s, units).idx)
<1> DEFINE t == memmove(s, units)
<1>1. /\ t \in States
      /\ \A i \in 1 .. s.idx : t.data[i] = s.data[i]
      /\ \A i \in 1 .. (t.idx - s.idx) : t.data[s.idx + i] = units[i] /\ i \in 1 .. Len(units)
  BY MemmoveEffect
<1> HIDE DEF t
<1>2. s.idx \in Nat /\ t.idx \in Nat /\ Size[x] \in Nat
  BY <1>1, SecExAssumption DEF States
<1>3. ASSUME NEW i \in 1 .. t.idx, i <= Size[x] PROVE t.data[i] = <<x, i>>
  <2>1. CASE i <= s.idx
    BY <1>1, <1>2, <1>3, <2>1 DEF Prefix
  <2>2. CASE ~(i <= s.idx)
    <3> DEFINE k == i - s.idx
    <3>1. k \in 1 .. (t.idx - s.idx) /\ s.idx + k = i
      BY <1>2, <2>2
    <3> HIDE DEF k
    <3>2. t.data[s.idx + k] = units[k] /\ k \in 1 .. Len(units)
      BY <1>1, <3>1
    <3> QED BY <1>3, <3>1, <3>2
  <2> QED BY <2>1, <2>2
<1> QED BY <1>3 DEF Prefix, t

-----------------------------------------------------------------------------
(* sec_ex_process_buf.                                                     *)

(* A state as Held has it.                                                 *)
Sound(s) ==
  /\ s \in States
  /\ s.state = 2 <=> s.aux # NoBuf
  /\ s.state # 1 => s.idx = 0
  /\ s.state = 2 => ~mem[s.aux].bad

(* The state with the packet that was kept moved to the buffer.            *)
Moved(s) ==
  IF s.state = 2 THEN [memmove(s, mem[s.aux].tail) EXCEPT !.state = 1, !.aux = NoBuf] ELSE s

LEMMA MovedEffect ==
  ASSUME mem \in [Bufs -> Packets], NEW s, Sound(s), s.state # 0
  PROVE  /\ Moved(s) \in States /\ Moved(s).state = 1 /\ Moved(s).aux = NoBuf
         /\ s.state = 2 => /\ mem[s.aux].tail \in Seq(Unit)
                           /\ Moved(s).data = memmove(s, mem[s.aux].tail).data
                           /\ Moved(s).idx = memmove(s, mem[s.aux].tail).idx
<1>1. CASE s.state = 2
  <2> DEFINE u == mem[s.aux].tail
             t == memmove(s, u)
  <2>1. s.aux \in Bufs
    BY <1>1 DEF Sound, States
  <2>2. u \in Seq(Unit)
    BY <2>1 DEF Packets
  <2>3. t \in States
    BY <2>2, MemmoveEffect DEF Sound
  <2>4. Moved(s) = [t EXCEPT !.state = 1, !.aux = NoBuf]
    BY <1>1 DEF Moved
  <2> HIDE DEF u, t
  <2>5. Moved(s) \in States /\ Moved(s).state = 1 /\ Moved(s).aux = NoBuf
        /\ Moved(s).data = t.data /\ Moved(s).idx = t.idx
    <3> DEFINE R == [state : 0 .. 2, data : Seq(Unit), idx : 0 .. MAX_SEC_SZ, aux : Bufs \cup {NoBuf}]
    <3>1. t \in R /\ Len(t.data) = MAX_SEC_SZ
      BY <2>3 DEF States
    <3>2. Moved(s) \in R
      <4>1. Moved(s) = [state |-> 1, data |-> t.data, idx |-> t.idx, aux |-> NoBuf]
        BY <2>4, <3>1
      <4>2. t.data \in Seq(Unit) /\ t.idx \in 0 .. MAX_SEC_SZ
        BY <3>1
      <4> QED BY <4>1, <4>2
    <3>3. Moved(s).state = 1 /\ Moved(s).aux = NoBuf /\ Moved(s).data = t.data /\ Moved(s).idx = t.idx
      BY <2>4, <3>1
    <3> QED BY <3>1, <3>2, <3>3 DEF States
  <2> QED BY <2>2, <2>5 DEF u, t
<1>2. CASE s.state # 2
  BY <1>2 DEF Sound, States, Moved
<1> QED BY <1>1, <1>2

LEMMA ConcatPair ==
  ASSUME NEW x \in Bufs, NEW y \in Bufs
  PROVE  <<x>> \o <<y>> = <<x, y>>
<1>1. /\ <<x>> \in Seq(Bufs) /\ <<y>> \in Seq(Bufs) /\ <<x, y>> \in Seq(Bufs)
      /\ Len(<<x>>) = 1 /\ Len(<<y>>) = 1 /\ Len(<<x, y>>) = 2
  OBVIOUS
<1>2. <<x>> \o <<y>> \in Seq(Bufs) /\ Len(<<x>> \o <<y>>) = 2
  BY <1>1, ConcatProperties
<1>3. \A i \in 1 .. 2 : (<<x>> \o <<y>>)[i] = <<x, y>>[i]
  OBVIOUS
<1> QED BY <1>1, <1>2, <1>3, SeqEqual

(* What becomes of a packet with payload, by the state it meets.           *)
LEMMA ProcessContent ==
  ASSUME mem \in [Bufs -> Packets], NEW s, Sound(s), NEW b \in Bufs,
         NEW pk \in Packets, ~pk.bad
  PROVE  LET r == sec_ex_process_buf(s, b, pk)
             m == memmove(s, pk.tail)
             t == memmove(Moved(s), pk.head)
             old == IF s.aux = NoBuf THEN <<>> ELSE <<s.aux>>
         IN  \/ /\ s.state = 0 /\ pk.pusi
                /\ r = [s |-> [m EXCEPT !.state = 1], released |-> <<b>>, ready |-> FALSE]
             \/ /\ s.state = 0 /\ ~pk.pusi
                /\ r = [s |-> s, released |-> <<b>>, ready |-> FALSE]
             \/ /\ s.state # 0 /\ pk.pusi
                /\ r.s = [t EXCEPT !.aux = b, !.state = 2, !.idx = 0]
                /\ r.released = old /\ r.ready = TRUE
             \/ /\ s.state # 0 /\ ~pk.pusi
                /\ r.s = t /\ r.ready = FALSE
                /\ r.released = IF s.aux = NoBuf THEN <<b>> ELSE <<s.aux, b>>
<1> DEFINE r == sec_ex_process_buf(s, b, pk)
<1>1. s.state \in {0, 1, 2}
  BY DEF Sound, States
<1>2. CASE s.state = 0
  <2>1. r = New(s, b, pk)
    BY <1>2 DEF sec_ex_process_buf, sec_ex_get_ranges
  <2> QED BY <1>2, <2>1 DEF New
<1>3. CASE s.state = 1
  <2>1. r = FirstSeen(s, b, pk)
    BY <1>3 DEF sec_ex_process_buf, sec_ex_get_ranges
  <2>2. Moved(s) = s /\ s.aux = NoBuf
    BY <1>3 DEF Moved, Sound
  <2> QED BY <1>3, <2>1, <2>2 DEF FirstSeen
<1>4. CASE s.state = 2
  <2> DEFINE f == FirstSeen(Moved(s), b, pk)
  <2>1. r = Partial(s, b, pk)
    BY <1>4 DEF sec_ex_process_buf, sec_ex_get_ranges
  <2>2. s.aux # NoBuf /\ ~mem[s.aux].bad
    BY <1>4 DEF Sound
  <2>3. r = [f EXCEPT !.released = <<s.aux>> \o @]
    BY <1>4, <2>1, <2>2 DEF Partial, sec_ex_get_ranges, Moved
  <2>4. CASE pk.pusi
    <3> DEFINE g == [memmove(Moved(s), pk.head) EXCEPT !.aux = b, !.state = 2, !.idx = 0]
    <3>1. f = [s |-> g, released |-> <<>>, ready |-> TRUE]
      BY <2>4 DEF FirstSeen
    <3> HIDE DEF g, f
    <3>2. r.s = g /\ r.ready = TRUE /\ r.released = <<s.aux>> \o <<>>
      BY <2>3, <3>1
    <3>3. <<s.aux>> \o <<>> = <<s.aux>>
      OBVIOUS
    <3> QED BY <1>4, <2>2, <2>4, <3>2, <3>3 DEF g
  <2>5. CASE ~pk.pusi
    <3> DEFINE g == memmove(Moved(s), pk.head)
    <3>1. f = [s |-> g, released |-> <<b>>, ready |-> FALSE]
      BY <2>5 DEF FirstSeen
    <3> HIDE DEF g, f
    <3>2. r.s = g /\ r.ready = FALSE /\ r.released = <<s.aux>> \o <<b>>
      BY <2>3, <3>1
    <3>3. <<s.aux>> \o <<b>> = <<s.aux, b>>
      <4>1. \A x, y \in Bufs : <<x>> \o <<y>> = <<x, y>>
        BY ConcatPair
      <4>2. s.aux \in Bufs
        BY <2>2 DEF Sound, States
      <4> QED BY <4>1, <4>2
    <3> QED BY <1>4, <2>2, <2>5, <3>2, <3>3 DEF g
  <2> QED BY <2>4, <2>5
<1> QED BY <1>1, <1>2, <1>3, <1>4

(* What sec_ex_process_buf keeps and what it releases.                     *)
LEMMA ProcessAux ==
  ASSUME mem \in [Bufs -> Packets], NEW s, Sound(s), NEW b \in Bufs, NEW pk \in Packets
  PROVE  LET r == sec_ex_process_buf(s, b, pk)
         IN  /\ r.s \in States
             /\ r.s.state = 2 <=> r.s.aux # NoBuf
             /\ r.s.state # 1 => r.s.idx = 0
             /\ r.ready \in BOOLEAN
             /\ \/ r.released = <<b>> /\ r.s.aux = s.aux
                \/ r.released = <<>> /\ s.aux = NoBuf /\ r.s.aux = b /\ ~pk.bad
                \/ r.released = <<s.aux, b>> /\ s.aux # NoBuf /\ r.s.aux = NoBuf
                \/ r.released = <<s.aux>> /\ s.aux # NoBuf /\ r.s.aux = b /\ ~pk.bad
<1> DEFINE r == sec_ex_process_buf(s, b, pk)
           m == memmove(s, pk.tail)
           t == memmove(Moved(s), pk.head)
           R == [state : 0 .. 2, data : Seq(Unit), idx : 0 .. MAX_SEC_SZ, aux : Bufs \cup {NoBuf}]
<1>1. s \in States /\ (s.state = 2 <=> s.aux # NoBuf) /\ (s.state # 1 => s.idx = 0) /\ b # NoBuf
  BY SecExAssumption DEF Sound
<1>2. pk.head \in Seq(Unit) /\ pk.tail \in Seq(Unit)
  BY DEF Packets
<1>3. CASE pk.bad
  <2>1. r = [s |-> s, released |-> <<b>>, ready |-> FALSE]
    BY <1>3 DEF sec_ex_process_buf, sec_ex_get_ranges
  <2> QED BY <1>1, <2>1
<1>4. ASSUME ~pk.bad, s.state = 0, pk.pusi,
             r = [s |-> [m EXCEPT !.state = 1], released |-> <<b>>, ready |-> FALSE]
      PROVE  r.s \in States /\ r.s.state = 1 /\ r.s.aux = s.aux /\ r.released = <<b>> /\ r.ready \in BOOLEAN
  <2>1. m \in States /\ m.aux = s.aux
    BY <1>1, <1>2, MemmoveEffect
  <2> HIDE DEF m, r
  <2>2. m \in R /\ Len(m.data) = MAX_SEC_SZ
    BY <2>1 DEF States
  <2>3. r.s = [state |-> 1, data |-> m.data, idx |-> m.idx, aux |-> m.aux]
    BY <1>4, <2>2
  <2>4. m.data \in Seq(Unit) /\ m.idx \in 0 .. MAX_SEC_SZ /\ m.aux \in Bufs \cup {NoBuf}
    BY <2>2
  <2>5. r.s \in R /\ Len(r.s.data) = MAX_SEC_SZ
    BY <2>2, <2>3, <2>4
  <2> QED BY <1>4, <2>1, <2>3, <2>5 DEF States
<1>5. ASSUME ~pk.bad, s.state # 0, pk.pusi, r.s = [t EXCEPT !.aux = b, !.state = 2, !.idx = 0]
      PROVE  r.s \in States /\ r.s.state = 2 /\ r.s.aux = b /\ r.s.idx = 0
  <2>1. t \in States
    BY <1>2, <1>5, MovedEffect, MemmoveEffect
  <2> HIDE DEF t, r
  <2>2. t \in R /\ Len(t.data) = MAX_SEC_SZ
    BY <2>1 DEF States
  <2>3. r.s = [state |-> 2, data |-> t.data, idx |-> 0, aux |-> b]
    BY <1>5, <2>2
  <2>4. t.data \in Seq(Unit) /\ 0 \in 0 .. MAX_SEC_SZ
    BY <2>2, SecExAssumption
  <2>5. r.s \in R /\ Len(r.s.data) = MAX_SEC_SZ
    BY <2>2, <2>3, <2>4
  <2> QED BY <2>3, <2>5 DEF States
<1>6. ASSUME ~pk.bad, s.state # 0, r.s = t
      PROVE  r.s \in States /\ r.s.state = 1 /\ r.s.aux = NoBuf
  BY <1>2, <1>6, MovedEffect, MemmoveEffect
<1>7. CASE ~pk.bad
  <2> DEFINE old == IF s.aux = NoBuf THEN <<>> ELSE <<s.aux>>
  <2>1. \/ /\ s.state = 0 /\ pk.pusi
           /\ r = [s |-> [m EXCEPT !.state = 1], released |-> <<b>>, ready |-> FALSE]
        \/ /\ s.state = 0 /\ ~pk.pusi
           /\ r = [s |-> s, released |-> <<b>>, ready |-> FALSE]
        \/ /\ s.state # 0 /\ pk.pusi
           /\ r.s = [t EXCEPT !.aux = b, !.state = 2, !.idx = 0]
           /\ r.released = old /\ r.ready = TRUE
        \/ /\ s.state # 0 /\ ~pk.pusi
           /\ r.s = t /\ r.ready = FALSE
           /\ r.released = IF s.aux = NoBuf THEN <<b>> ELSE <<s.aux, b>>
    BY <1>7, ProcessContent
  <2> HIDE DEF m, t
  <2>2. CASE s.state = 0 /\ pk.pusi
             /\ r = [s |-> [m EXCEPT !.state = 1], released |-> <<b>>, ready |-> FALSE]
    BY <1>1, <1>4, <1>7, <2>2
  <2>3. CASE s.state = 0 /\ ~pk.pusi
             /\ r = [s |-> s, released |-> <<b>>, ready |-> FALSE]
    BY <1>1, <2>3
  <2>4. CASE s.state # 0 /\ pk.pusi /\ r.s = [t EXCEPT !.aux = b, !.state = 2, !.idx = 0]
             /\ r.released = old /\ r.ready = TRUE
    BY <1>1, <1>5, <1>7, <2>4
  <2>5. CASE s.state # 0 /\ r.s = t /\ r.ready = FALSE
             /\ r.released = IF s.aux = NoBuf THEN <<b>> ELSE <<s.aux, b>>
    <3>1. r.s \in States /\ r.s.state = 1 /\ r.s.aux = NoBuf
      BY <1>6, <1>7, <2>5
    <3>2. r.ready \in BOOLEAN
      BY <2>5
    <3>3. CASE s.aux = NoBuf
      <4>1. r.released = <<b>>
        BY <2>5, <3>3
      <4> QED BY <3>1, <3>2, <3>3, <4>1
    <3>4. CASE s.aux # NoBuf
      <4>1. r.released = <<s.aux, b>>
        BY <2>5, <3>4
      <4> QED BY <3>1, <3>2, <3>4, <4>1
    <3> QED BY <3>3, <3>4
  <2> QED BY <2>1, <2>2, <2>3, <2>4, <2>5
<1> QED BY <1>3, <1>7

(* References released, for the sequences there are.                       *)
LEMMA ReleasedEffect ==
  ASSUME NEW r \in [Bufs -> Int]
  PROVE  /\ Released(r, <<>>) = r
         /\ \A a \in Bufs : Released(r, <<a>>) = [r EXCEPT ![a] = r[a] - 1]
         /\ \A a, c \in Bufs :
              a # c => Released(r, <<a, c>>) = [r EXCEPT ![a] = r[a] - 1, ![c] = r[c] - 1]
<1> DEFINE N(bufs, x) == Cardinality({i \in DOMAIN bufs : bufs[i] = x})
<1>0. \A bufs : Released(r, bufs) = [x \in Bufs |-> r[x] - N(bufs, x)]
  BY DEF Released
<1>c. Cardinality({1}) = 1 /\ Cardinality({2}) = 1 /\ Cardinality({}) = 0
  BY FS_EmptySet, FS_Singleton
<1>1. Released(r, <<>>) = r
  <2>1. \A x \in Bufs : {i \in DOMAIN <<>> : <<>>[i] = x} = {}
    OBVIOUS
  <2>2. \A x \in Bufs : N(<<>>, x) = 0
    BY <1>c, <2>1
  <2> HIDE DEF N
  <2> QED BY <1>0, <2>2
<1>2. ASSUME NEW a \in Bufs PROVE Released(r, <<a>>) = [r EXCEPT ![a] = r[a] - 1]
  <2>1. {i \in DOMAIN <<a>> : <<a>>[i] = a} = {1}
    OBVIOUS
  <2>2. \A x \in Bufs : x # a => {i \in DOMAIN <<a>> : <<a>>[i] = x} = {}
    OBVIOUS
  <2>3. N(<<a>>, a) = 1
    BY <1>c, <2>1
  <2>4. \A x \in Bufs : x # a => N(<<a>>, x) = 0
    BY <1>c, <2>2
  <2> HIDE DEF N
  <2>5. Released(r, <<a>>) = [x \in Bufs |-> r[x] - N(<<a>>, x)]
    BY <1>0
  <2>6. \A x \in Bufs : r[x] - N(<<a>>, x) = IF x = a THEN r[a] - 1 ELSE r[x]
    BY <2>3, <2>4
  <2> QED BY <2>5, <2>6
<1>3. ASSUME NEW a \in Bufs, NEW c \in Bufs, a # c
      PROVE  Released(r, <<a, c>>) = [r EXCEPT ![a] = r[a] - 1, ![c] = r[c] - 1]
  <2>1. {i \in DOMAIN <<a, c>> : <<a, c>>[i] = a} = {1}
    BY <1>3
  <2>2. {i \in DOMAIN <<a, c>> : <<a, c>>[i] = c} = {2}
    BY <1>3
  <2>3. \A x \in Bufs : x \notin {a, c} => {i \in DOMAIN <<a, c>> : <<a, c>>[i] = x} = {}
    OBVIOUS
  <2>4. N(<<a, c>>, a) = 1 /\ N(<<a, c>>, c) = 1
    BY <1>c, <2>1, <2>2
  <2>5. \A x \in Bufs : x \notin {a, c} => N(<<a, c>>, x) = 0
    BY <1>c, <2>3
  <2> HIDE DEF N
  <2>6. Released(r, <<a, c>>) = [x \in Bufs |-> r[x] - N(<<a, c>>, x)]
    BY <1>0
  <2>7. \A x \in Bufs : r[x] - N(<<a, c>>, x) = IF x \in {a, c} THEN r[x] - 1 ELSE r[x]
    BY <2>4, <2>5
  <2> QED BY <1>3, <2>6, <2>7
<1> QED BY <1>1, <1>2, <1>3

-----------------------------------------------------------------------------
(* secExPut.                                                               *)

(* A pid not seen before starts sound, and the others are.                 *)
Before(p) == IF p \in DOMAIN st THEN st[p] ELSE NewState

LEMMA BeforeSound ==
  ASSUME Types, Held, NEW p
  PROVE  Sound(Before(p)) /\ (p \notin DOMAIN st => Before(p).aux = NoBuf /\ Before(p).state = 0)
<1>1. CASE p \in DOMAIN st
  BY <1>1 DEF Before, Sound, Held, Types
<1>2. CASE p \notin DOMAIN st
  <2>1. NewState = [state |-> 0, data |-> [i \in 1 .. MAX_SEC_SZ |-> Stuffing], idx |-> 0, aux |-> NoBuf]
    BY DEF NewState
  <2> DEFINE d == [i \in 1 .. MAX_SEC_SZ |-> Stuffing]
  <2>2. MAX_SEC_SZ \in Nat /\ Stuffing \in Unit
    BY SecExAssumption DEF Unit
  <2>3. d \in Seq(Unit) /\ Len(d) = MAX_SEC_SZ
    <3> HIDE DEF Unit, Stuffing
    <3>1. \A i \in 1 .. MAX_SEC_SZ : d[i] \in Unit
      BY <2>2
    <3> QED BY <2>2, <3>1, IsASeq
  <2>4. NewState.data = d /\ NewState.state = 0 /\ NewState.idx = 0 /\ NewState.aux = NoBuf
    BY <2>1
  <2> HIDE DEF d
  <2>5. NewState \in States
    BY <2>1, <2>2, <2>3, <2>4 DEF States, d
  <2> QED BY <1>2, <2>4, <2>5 DEF Before, Sound
<1> QED BY <1>1, <1>2

(* Another packet is kept, the one kept before is released, or nothing     *)
(* changes: what is held stays what is in aux.                             *)
LEMMA PutEffect ==
  ASSUME Types, Held, NEW p \in Pids, NEW pk \in Packets, secExPut(p, pk)
  PROVE  \E b \in Bufs :
           LET r == sec_ex_process_buf(Before(p), b, pk)
           IN  /\ Before(p).aux # b
               /\ DOMAIN st' = DOMAIN st \cup {p} /\ st'[p] = r.s
               /\ \A q \in DOMAIN st \ {p} : st'[q] = st[q]
               /\ \A q \in DOMAIN st' : st'[q] \in States
               /\ ret' = IF r.ready THEN p ELSE NoPid
               /\ r.ready \in BOOLEAN
               /\ ref' \in [Bufs -> Int] /\ mem' \in [Bufs -> Packets]
               /\ Held'
               /\ \A q \in DOMAIN st \ {p} : st[q].state = 2 => mem'[st[q].aux] = mem[st[q].aux]
               /\ r.s.aux = b => mem'[b] = pk
               /\ r.s.aux # NoBuf /\ r.s.aux # b => mem'[r.s.aux] = mem[r.s.aux]
<1> DEFINE s == Before(p)
<1>1. PICK b \in {x \in Bufs : ref[x] = 0} :
        LET r == sec_ex_process_buf(s, b, pk)
        IN /\ st' = [q \in DOMAIN st \cup {p} |-> IF q = p THEN r.s ELSE st[q]]
           /\ ref' = Released([ref EXCEPT ![b] = 1], r.released)
           /\ mem' = [x \in Bufs |-> IF ref'[x] = 0 THEN NoPacket ELSE IF x = b THEN pk ELSE mem[x]]
           /\ ret' = IF r.ready THEN p ELSE NoPid
  BY DEF secExPut, Before
<1> DEFINE r == sec_ex_process_buf(s, b, pk)
           f == [ref EXCEPT ![b] = 1]
<1>2. b \in Bufs /\ ref[b] = 0 /\ b # NoBuf
  BY SecExAssumption
<1>3. /\ Sound(s) /\ mem \in [Bufs -> Packets] /\ ref \in [Bufs -> Int]
      /\ p \notin DOMAIN st => s.aux = NoBuf /\ s.state = 0
      /\ p \in DOMAIN st => s = st[p]
  BY BeforeSound DEF Types, Before
<1>4. /\ r.s \in States
      /\ r.s.state = 2 <=> r.s.aux # NoBuf
      /\ r.s.state # 1 => r.s.idx = 0
      /\ r.ready \in BOOLEAN
      /\ \/ r.released = <<b>> /\ r.s.aux = s.aux
         \/ r.released = <<>> /\ s.aux = NoBuf /\ r.s.aux = b /\ ~pk.bad
         \/ r.released = <<s.aux, b>> /\ s.aux # NoBuf /\ r.s.aux = NoBuf
         \/ r.released = <<s.aux>> /\ s.aux # NoBuf /\ r.s.aux = b /\ ~pk.bad
  BY <1>2, <1>3, ProcessAux
<1>5. /\ DOMAIN st' = DOMAIN st \cup {p} /\ st'[p] = r.s
      /\ \A q \in DOMAIN st \ {p} : st'[q] = st[q]
  BY <1>1
<1>6. s.aux \in Bufs \cup {NoBuf} /\ (s.aux # NoBuf => p \in DOMAIN st /\ ref[s.aux] = 1 /\ s.aux # b)
  <2>1. s.aux \in Bufs \cup {NoBuf}
    BY <1>3 DEF Sound, States
  <2>2. s.aux # NoBuf => p \in DOMAIN st /\ s.aux \in Bufs /\ Holds(s.aux)
    BY <1>3, <2>1 DEF Holds
  <2> QED BY <1>2, <2>1, <2>2 DEF Held
<1>7. \A x \in Bufs : ref[x] = IF Holds(x) THEN 1 ELSE 0
  BY DEF Held
<1>8. \A q \in DOMAIN st \ {p} : /\ st[q].aux # b
                                 /\ st[q].aux # NoBuf => st[q].aux # s.aux
  BY <1>2, <1>3, <1>7 DEF Holds, Held
<1> DEFINE new == r.s.aux
<1>9. /\ ref' \in [Bufs -> Int]
      /\ \A x \in Bufs : ref'[x] = IF x = new THEN 1
                                   ELSE IF x \in {b, s.aux} THEN 0
                                   ELSE ref[x]
  <2>1. f \in [Bufs -> Int] /\ f[b] = 1 /\ \A x \in Bufs : x # b => f[x] = ref[x]
    BY <1>2, <1>3
  <2>2. ref' = Released(f, r.released)
    BY <1>1
  <2>3. ref[s.aux] = 1 \/ s.aux = NoBuf
    BY <1>6
  <2> HIDE DEF f, r, s
  <2>4. CASE r.released = <<b>> /\ new = s.aux
    <3>1. Released(f, <<b>>) = [f EXCEPT ![b] = f[b] - 1]
      BY <1>2, <2>1, ReleasedEffect
    <3>2. ref' = [f EXCEPT ![b] = f[b] - 1]
      BY <2>2, <2>4, <3>1
    <3>3. f[b] - 1 = 0 /\ (s.aux # NoBuf => f[s.aux] - 1 = 0)
      BY <1>2, <1>6, <2>1, <2>3
    <3> QED BY <1>2, <1>6, <2>1, <2>4, <3>2, <3>3, SecExAssumption
  <2>5. CASE r.released = <<>> /\ s.aux = NoBuf /\ new = b
    <3>1. Released(f, <<>>) = f
      BY <2>1, ReleasedEffect
    <3>2. ref' = f
      BY <2>2, <2>5, <3>1
    <3>3. f[b] - 1 = 0 /\ (s.aux # NoBuf => f[s.aux] - 1 = 0)
      BY <1>2, <1>6, <2>1, <2>3
    <3> QED BY <1>2, <1>6, <2>1, <2>5, <3>2, <3>3, SecExAssumption
  <2>6. CASE r.released = <<s.aux, b>> /\ s.aux # NoBuf /\ new = NoBuf
    <3>1. Released(f, <<s.aux, b>>) = [f EXCEPT ![s.aux] = f[s.aux] - 1, ![b] = f[b] - 1]
      <4>1. \A a, c \in Bufs :
              a # c => Released(f, <<a, c>>) = [f EXCEPT ![a] = f[a] - 1, ![c] = f[c] - 1]
        BY <2>1, ReleasedEffect
      <4>2. s.aux \in Bufs /\ s.aux # b
        BY <1>6, <2>6
      <4> QED BY <1>2, <4>1, <4>2
    <3>2. ref' = [f EXCEPT ![s.aux] = f[s.aux] - 1, ![b] = f[b] - 1]
      BY <2>2, <2>6, <3>1
    <3>3. f[b] - 1 = 0 /\ (s.aux # NoBuf => f[s.aux] - 1 = 0)
      BY <1>2, <1>6, <2>1, <2>3
    <3> QED BY <1>2, <1>6, <2>1, <2>6, <3>2, <3>3, SecExAssumption
  <2>7. CASE r.released = <<s.aux>> /\ s.aux # NoBuf /\ new = b
    <3>1. Released(f, <<s.aux>>) = [f EXCEPT ![s.aux] = f[s.aux] - 1]
      BY <1>2, <1>6, <2>1, <2>7, ReleasedEffect
    <3>2. ref' = [f EXCEPT ![s.aux] = f[s.aux] - 1]
      BY <2>2, <2>7, <3>1
    <3>3. f[b] - 1 = 0 /\ (s.aux # NoBuf => f[s.aux] - 1 = 0)
      BY <1>2, <1>6, <2>1, <2>3
    <3> QED BY <1>2, <1>6, <2>1, <2>7, <3>2, <3>3, SecExAssumption
  <2> QED BY <1>4, <2>4, <2>5, <2>6, <2>7
<1>10. mem' = [x \in Bufs |-> IF ref'[x] = 0 THEN NoPacket ELSE IF x = b THEN pk ELSE mem[x]]
  BY <1>1
<1>11. mem' \in [Bufs -> Packets]
  <2>1. NoPacket \in Packets
    BY DEF NoPacket, Packets
  <2> QED BY <1>3, <1>10, <2>1
<1>12. new \in Bufs \cup {NoBuf} /\ (new = b \/ new = s.aux \/ new = NoBuf)
  BY <1>2, <1>4, <1>6
<1>13. new = b => mem'[b] = pk /\ ~pk.bad
  <2>1. new = b => ref'[b] # 0
    BY <1>2, <1>9
  <2> QED BY <1>2, <1>4, <1>6, <1>10, <2>1
<1>14. new # NoBuf /\ new # b => mem'[new] = mem[new] /\ new = s.aux /\ s.state = 2
  <2>1. new # NoBuf /\ new # b => new \in Bufs /\ ref'[new] # 0 /\ new = s.aux
    BY <1>9, <1>12
  <2> QED BY <1>3, <1>10, <2>1 DEF Sound
<1>15. \A q \in DOMAIN st \ {p} : st[q].state = 2 => mem'[st[q].aux] = mem[st[q].aux]
  <2> SUFFICES ASSUME NEW q \in DOMAIN st \ {p}, st[q].state = 2
               PROVE  mem'[st[q].aux] = mem[st[q].aux]
    OBVIOUS
  <2> DEFINE x == st[q].aux
  <2>1. x \in Bufs /\ x # b /\ x # s.aux /\ ref[x] = 1
    <3>1. x # NoBuf /\ x \in Bufs
      BY DEF Held, Types, States
    <3>2. Holds(x)
      BY DEF Holds
    <3> QED BY <1>7, <1>8, <3>1, <3>2
  <2>2. ref'[x] # 0
    BY <1>9, <2>1
  <2> HIDE DEF x
  <2>3. mem'[x] = mem[x]
    BY <1>10, <2>1, <2>2
  <2> QED BY <2>3 DEF x
<1>16. \A q \in DOMAIN st' : st'[q] \in States
  BY <1>4, <1>5 DEF Types
<1>17. Held'
  <2> HIDE DEF s, r
  <2>1. ASSUME NEW q \in DOMAIN st'
        PROVE  /\ st'[q].state = 2 <=> st'[q].aux # NoBuf
               /\ st'[q].state # 1 => st'[q].idx = 0
               /\ st'[q].state = 2 => ~mem'[st'[q].aux].bad
    <3>1. CASE q = p
      <4>1. st'[q] = r.s
        BY <1>5, <3>1
      <4>2. r.s.state = 2 => ~mem'[r.s.aux].bad
        <5>1. CASE new = b
          BY <1>13, <5>1
        <5>2. CASE new # b
          BY <1>3, <1>4, <1>14, <5>2 DEF Sound
        <5> QED BY <5>1, <5>2
      <4> QED BY <1>4, <4>1, <4>2
    <3>2. CASE q # p
      <4>1. q \in DOMAIN st \ {p} /\ st'[q] = st[q]
        BY <1>5, <3>2
      <4> QED BY <1>15, <4>1 DEF Held
    <3> QED BY <3>1, <3>2
  <2>2. ASSUME NEW q1 \in DOMAIN st', NEW q2 \in DOMAIN st',
               st'[q1].aux = st'[q2].aux, st'[q1].aux # NoBuf
        PROVE  q1 = q2
    <3>1. \A q \in DOMAIN st \ {p} : st'[q].aux # NoBuf => st'[q].aux # new
      BY <1>5, <1>8, <1>12
    <3>2. st'[p].aux = new
      BY <1>5
    <3>3. CASE q1 = p
      BY <1>5, <2>2, <3>1, <3>2, <3>3
    <3>4. CASE q2 = p
      BY <1>5, <2>2, <3>1, <3>2, <3>4
    <3>5. CASE q1 # p /\ q2 # p
      BY <1>5, <2>2, <3>5 DEF Held
    <3> QED BY <3>3, <3>4, <3>5
  <2>3. ASSUME NEW x \in Bufs
        PROVE  ref'[x] = IF \E q \in DOMAIN st' : st'[q].aux = x THEN 1 ELSE 0
    <3>1. (\E q \in DOMAIN st' : st'[q].aux = x) <=>
            (x = new \/ \E q \in DOMAIN st \ {p} : st[q].aux = x)
      BY <1>5
    <3>2. CASE x = new
      BY <1>9, <3>1, <3>2
    <3>3. CASE x # new /\ x \in {b, s.aux}
      <4>1. ref'[x] = 0
        BY <1>9, <3>3
      <4>2. ~\E q \in DOMAIN st \ {p} : st[q].aux = x
        BY <1>8, <3>3, SecExAssumption
      <4> QED BY <3>1, <3>3, <4>1, <4>2
    <3>4. CASE x # new /\ x \notin {b, s.aux}
      <4>1. ref'[x] = ref[x]
        BY <1>9, <3>4
      <4>2. Holds(x) <=> \E q \in DOMAIN st \ {p} : st[q].aux = x
        BY <1>3, <3>4 DEF Holds
      <4> QED BY <1>7, <3>1, <3>4, <4>1, <4>2
    <3> QED BY <3>2, <3>3, <3>4
  <2> QED BY <2>1, <2>2, <2>3 DEF Held, Holds
<1>18. ret' = IF r.ready THEN p ELSE NoPid
  BY <1>1
<1> QED BY <1>2, <1>4, <1>5, <1>6, <1>9, <1>11, <1>13, <1>14, <1>15, <1>16, <1>17, <1>18

-----------------------------------------------------------------------------
(* The broadcast.                                                          *)

(* What a packet is filled with, and what is left.                         *)
LEMMA FillEffect ==
  ASSUME NEW u \in Seq(Unit), NEW n \in Nat
  PROVE  /\ Fill(u, n) \in Seq(Unit) /\ Len(Fill(u, n)) = n
         /\ \A i \in 1 .. n : Fill(u, n)[i] = IF i <= Len(u) THEN u[i] ELSE Stuffing
<1> DEFINE F == [i \in 1 .. n |-> IF i <= Len(u) THEN u[i] ELSE Stuffing]
<1>0. Stuffing \in Unit
  BY DEF Unit
<1>1. \A i \in 1 .. n : F[i] \in Unit
  BY <1>0
<1>2. F \in Seq(Unit) /\ Len(F) = n
  BY <1>1, IsASeq
<1> QED BY <1>2 DEF Fill

LEMMA RestEffect ==
  ASSUME NEW u \in Seq(Unit), NEW n \in Nat
  PROVE  /\ Rest(u, n) \in Seq(Unit)
         /\ Len(Rest(u, n)) = IF n < Len(u) THEN Len(u) - n ELSE 0
         /\ \A i \in 1 .. Len(Rest(u, n)) : n + i \in 1 .. Len(u) /\ Rest(u, n)[i] = u[n + i]
<1> DEFINE v == SubSeq(u, n + 1, Len(u))
<1>1. \A i \in (n + 1) .. Len(u) : u[i] \in Unit
  OBVIOUS
<1>2. /\ v \in Seq(Unit)
      /\ Len(v) = IF n + 1 <= Len(u) THEN Len(u) - (n + 1) + 1 ELSE 0
      /\ \A i \in 1 .. Len(u) - (n + 1) + 1 : v[i] = u[n + 1 + i - 1]
  BY <1>1, SubSeqProperties
<1> HIDE DEF v
<1>3. Len(u) \in Nat /\ Len(v) = IF n < Len(u) THEN Len(u) - n ELSE 0
  BY <1>2
<1>4. ASSUME NEW i \in 1 .. Len(v) PROVE n + i \in 1 .. Len(u) /\ v[i] = u[n + i]
  <2>1. i \in 1 .. Len(u) - (n + 1) + 1 /\ n + 1 + i - 1 = n + i /\ n + i \in 1 .. Len(u)
    BY <1>3
  <2> QED BY <1>2, <2>1
<1> QED BY <1>2, <1>3, <1>4 DEF v, Rest

LEMMA SizeType ==
  /\ Len(Size) \in Nat \ {0} /\ MAX_SEC_SZ \in Nat
  /\ \A s \in 1 .. Len(Size) : Size[s] \in Nat \ {0} /\ Size[s] <= MAX_SEC_SZ
BY SecExAssumption

LEMMA FollowingType ==
  ASSUME NEW s \in 1 .. Len(Size)
  PROVE  Following(s) \in 1 .. Len(Size)
<1> DEFINE n == Len(Size)
<1>1. n \in Nat /\ n > 0 /\ s \in Nat
  BY SizeType
<1> HIDE DEF n
<1>2. s % n \in 0 .. (n - 1)
  BY <1>1
<1>3. (s % n) + 1 \in 1 .. n
  BY <1>1, <1>2
<1> QED BY <1>3 DEF Following, n

LEMMA UnitsEffect ==
  ASSUME NEW s \in 1 .. Len(Size)
  PROVE  /\ Units(s) \in Seq(Unit) /\ Len(Units(s)) = Size[s]
         /\ \A i \in 1 .. Size[s] : Units(s)[i] = <<s, i>>
<1> DEFINE n == Size[s]
           U == [i \in 1 .. n |-> <<s, i>>]
<1>1. n \in Nat /\ s \in DOMAIN Size
  BY SecExAssumption, SizeType
<1>2. \A i \in 1 .. n : <<s, i>> \in Unit
  BY <1>1 DEF Unit
<1> HIDE DEF n
<1>3. U \in Seq(Unit) /\ Len(U) = n
  <2>1. \A i \in 1 .. n : U[i] \in Unit
    BY <1>2
  <2> HIDE DEF U
  <2>2. U = [i \in 1 .. n |-> U[i]]
    BY DEF U
  <2> QED BY <1>1, <2>1, <2>2, IsASeq
<1> QED BY <1>3 DEF n, Units

(* A section and the next, one after the other. *)
LEMMA TwoUnits ==
  ASSUME NEW s \in 1 .. Len(Size), NEW t \in 1 .. Len(Size)
  PROVE  /\ Units(s) \o Units(t) \in Seq(Unit)
         /\ Len(Units(s) \o Units(t)) = Size[s] + Size[t]
         /\ \A i \in 1 .. Size[s] : (Units(s) \o Units(t))[i] = <<s, i>>
         /\ \A i \in 1 .. Size[t] : (Units(s) \o Units(t))[Size[s] + i] = <<t, i>>
<1> DEFINE a == Units(s)
           b == Units(t)
           m == Size[s]
           n == Size[t]
<1>1. /\ a \in Seq(Unit) /\ Len(a) = m /\ \A i \in 1 .. m : a[i] = <<s, i>>
      /\ b \in Seq(Unit) /\ Len(b) = n /\ \A i \in 1 .. n : b[i] = <<t, i>>
  BY UnitsEffect
<1>2. m \in Nat /\ n \in Nat
  BY SizeType
<1> HIDE DEF a, b, m, n
<1>3. /\ a \o b \in Seq(Unit) /\ Len(a \o b) = m + n
      /\ \A i \in 1 .. m + n : (a \o b)[i] = IF i <= m THEN a[i] ELSE b[i - m]
  BY <1>1, ConcatProperties
<1>4. \A i \in 1 .. m : (a \o b)[i] = <<s, i>>
  <2>1. \A i \in 1 .. m : i \in 1 .. m + n /\ i <= m
    BY <1>2
  <2> QED BY <1>1, <1>3, <2>1
<1>5. \A i \in 1 .. n : (a \o b)[m + i] = <<t, i>>
  <2>1. \A i \in 1 .. n : m + i \in 1 .. m + n /\ ~(m + i <= m) /\ (m + i) - m = i
    BY <1>2
  <2> QED BY <1>1, <1>3, <2>1
<1> QED BY <1>3, <1>4, <1>5 DEF a, b, m, n

(* The current section goes on: the packet has what comes next of it.      *)
LEMMA ContinuedEffect ==
  ASSUME Types, NEW p \in Pids, Ending(sent[p].cur, sent[p].rest), NEW x \in Continued(p)
  PROVE  /\ x.pk \in Packets /\ ~x.pk.bad /\ ~x.pk.pusi
         /\ x.left \in [cur : 1 .. Len(Size), rest : Seq(Unit)]
         /\ Ending(x.left.cur, x.left.rest)
         /\ x.left.cur = sent[p].cur
         /\ \A i \in 1 .. Len(x.pk.head) : i <= Len(sent[p].rest) => x.pk.head[i] = sent[p].rest[i]
         /\ Len(x.pk.head) < Len(sent[p].rest) =>
              Len(x.left.rest) = Len(sent[p].rest) - Len(x.pk.head)
<1> DEFINE u == sent[p].rest
           c == sent[p].cur
<1>1. PICK n \in Lens :
        x = [pk |-> [bad |-> FALSE, pusi |-> FALSE, head |-> Fill(u, n), tail |-> <<>>],
             left |-> [cur |-> c, rest |-> Rest(u, n)]]
  BY DEF Continued
<1>2. n \in Nat /\ u \in Seq(Unit) /\ c \in 1 .. Len(Size)
  BY SecExAssumption DEF Types
<1> DEFINE h == Fill(u, n)
           v == Rest(u, n)
<1>3. h \in Seq(Unit) /\ Len(h) = n /\ \A i \in 1 .. n : h[i] = IF i <= Len(u) THEN u[i] ELSE Stuffing
  BY <1>2, FillEffect
<1>4. /\ v \in Seq(Unit) /\ Len(v) = IF n < Len(u) THEN Len(u) - n ELSE 0
      /\ \A i \in 1 .. Len(v) : n + i \in 1 .. Len(u) /\ v[i] = u[n + i]
  BY <1>2, RestEffect
<1>5. Len(u) <= Size[c] /\ \A i \in 1 .. Len(u) : u[i] = <<c, Size[c] - Len(u) + i>>
  BY DEF Ending
<1> HIDE DEF u, c, h, v
<1>6. Size[c] \in Nat
  BY <1>2, SizeType
<1>7. Ending(c, v)
  <2>1. Len(v) <= Size[c]
    BY <1>2, <1>4, <1>5, <1>6
  <2>2. ASSUME NEW i \in 1 .. Len(v) PROVE v[i] = <<c, Size[c] - Len(v) + i>>
    <3>1. n + i \in 1 .. Len(u) /\ v[i] = u[n + i]
      BY <1>4
    <3>2. Size[c] - Len(u) + (n + i) = Size[c] - Len(v) + i
      BY <1>2, <1>4, <1>6, <3>1
    <3> QED BY <1>5, <3>1, <3>2
  <2> QED BY <2>1, <2>2 DEF Ending
<1>8. /\ x.pk = [bad |-> FALSE, pusi |-> FALSE, head |-> h, tail |-> <<>>]
      /\ x.left = [cur |-> c, rest |-> v]
  BY <1>1 DEF h, v
<1>9. x.pk \in Packets
  BY <1>3, <1>8 DEF Packets
<1>10. /\ x.pk.head = h /\ ~x.pk.bad /\ ~x.pk.pusi
       /\ x.left.cur = c /\ x.left.rest = v
       /\ x.left \in [cur : 1 .. Len(Size), rest : Seq(Unit)]
  BY <1>2, <1>4, <1>8
<1>11. \A i \in 1 .. Len(h) : i <= Len(u) => h[i] = u[i]
  BY <1>3
<1>12. Len(h) < Len(u) => Len(v) = Len(u) - Len(h)
  BY <1>3, <1>4
<1> QED BY <1>7, <1>9, <1>10, <1>11, <1>12 DEF u, c

(* A section starts: the packet has the end of the one before, and the     *)
(* first units of the next, whose others are still to come.                *)
LEMMA StartedEffect ==
  ASSUME Types, NEW p \in Pids, Ending(sent[p].cur, sent[p].rest), NEW x \in Started(p)
  PROVE  /\ x.pk \in Packets /\ ~x.pk.bad /\ x.pk.pusi
         /\ x.left \in [cur : 1 .. Len(Size), rest : Seq(Unit)]
         /\ Ending(x.left.cur, x.left.rest)
         /\ x.pk.head = sent[p].rest
         /\ x.pk.tail[1][1] \in 1 .. Len(Size)
         /\ Prefix(x.pk.tail[1][1], x.pk.tail, Len(x.pk.tail))
         /\ Comes(x.pk.tail[1][1], Len(x.pk.tail), x.left)
<1> DEFINE rest == sent[p].rest
           one == Following(sent[p].cur)
           two == Following(one)
           rooms == {n - 1 - Len(rest) : n \in {k \in Lens : k > Len(rest) + 1}}
           Is(units, cur, n) ==
             x = [pk |-> [bad |-> FALSE, pusi |-> TRUE, head |-> rest, tail |-> Fill(units, n)],
                  left |-> [cur |-> cur, rest |-> Rest(units, n)]]
           U1 == Units(one)
           U2 == Units(one) \o Units(two)
<1>1. \E n \in rooms : Is(U1, one, n) \/ (n > Size[one] /\ Is(U2, two, n))
  BY DEF Started
<1>2. rest \in Seq(Unit) /\ Len(rest) \in Nat /\ sent[p].cur \in 1 .. Len(Size)
  BY DEF Types
<1>3. one \in 1 .. Len(Size) /\ two \in 1 .. Len(Size)
  BY <1>2, FollowingType
<1>4. Size[one] \in Nat \ {0} /\ Size[two] \in Nat \ {0}
  BY <1>3, SizeType
<1>5. rooms \subseteq Nat \ {0}
  <2> DEFINE l == Len(rest)
  <2>1. l \in Nat
    BY <1>2
  <2> HIDE DEF l
  <2>2. \A k \in Lens : k > l + 1 => k - 1 - l \in Nat \ {0}
    BY <2>1, SecExAssumption
  <2> QED BY <2>2 DEF l
<1>6. /\ U1 \in Seq(Unit) /\ Len(U1) = Size[one]
      /\ \A i \in 1 .. Size[one] : U1[i] = <<one, i>>
  BY <1>3, UnitsEffect
<1>7. /\ U2 \in Seq(Unit) /\ Len(U2) = Size[one] + Size[two]
      /\ \A i \in 1 .. Size[one] : U2[i] = <<one, i>>
      /\ \A i \in 1 .. Size[two] : U2[Size[one] + i] = <<two, i>>
  BY <1>3, TwoUnits
<1> HIDE DEF rest, one, two, rooms, U1, U2
<1>8. ASSUME NEW u \in Seq(Unit), NEW cur \in 1 .. Len(Size), NEW n \in Nat \ {0}, Is(u, cur, n),
             Len(u) >= Size[one], \A i \in 1 .. Size[one] : u[i] = <<one, i>>,
             Ending(cur, Rest(u, n)), n < Size[one] => cur = one /\ Len(Rest(u, n)) = Size[one] - n
      PROVE  /\ x.pk \in Packets /\ ~x.pk.bad /\ x.pk.pusi
             /\ x.left \in [cur : 1 .. Len(Size), rest : Seq(Unit)]
             /\ Ending(x.left.cur, x.left.rest)
             /\ x.pk.head = rest
             /\ x.pk.tail[1][1] = one
             /\ Prefix(one, x.pk.tail, Len(x.pk.tail))
             /\ Comes(one, Len(x.pk.tail), x.left)
  <2> DEFINE t == Fill(u, n)
             v == Rest(u, n)
  <2>1. t \in Seq(Unit) /\ Len(t) = n /\ \A i \in 1 .. n : t[i] = IF i <= Len(u) THEN u[i] ELSE Stuffing
    BY FillEffect
  <2>2. v \in Seq(Unit)
    BY RestEffect
  <2>3. x = [pk |-> [bad |-> FALSE, pusi |-> TRUE, head |-> rest, tail |-> t],
             left |-> [cur |-> cur, rest |-> v]]
    BY <1>8
  <2>4. Ending(cur, v) /\ (n < Size[one] => cur = one /\ Len(v) = Size[one] - n)
    BY <1>8
  <2> HIDE DEF t, v
  <2>5. \A i \in 1 .. n : i <= Size[one] => t[i] = <<one, i>>
    <3> SUFFICES ASSUME NEW i \in 1 .. n, i <= Size[one] PROVE t[i] = <<one, i>>
      OBVIOUS
    <3>1. i \in 1 .. Size[one] /\ i <= Len(u)
      BY <1>4, <1>8
    <3> QED BY <1>8, <2>1, <3>1
  <2>6. t[1] = <<one, 1>>
    <3>1. 1 \in 1 .. n /\ 1 <= Size[one]
      BY <1>4
    <3> QED BY <2>5, <3>1
  <2>7. t[1][1] = one
    BY <2>6
  <2>8. Prefix(one, t, n)
    BY <2>5 DEF Prefix
  <2>9. /\ x.pk = [bad |-> FALSE, pusi |-> TRUE, head |-> rest, tail |-> t]
        /\ x.left = [cur |-> cur, rest |-> v]
    BY <2>3
  <2>10. x.pk \in Packets /\ x.left \in [cur : 1 .. Len(Size), rest : Seq(Unit)]
    BY <1>2, <2>1, <2>2, <2>9 DEF Packets
  <2>11. x.pk.tail = t /\ x.pk.head = rest /\ ~x.pk.bad /\ x.pk.pusi /\ x.left.cur = cur /\ x.left.rest = v
    BY <2>9
  <2>12. Comes(one, n, x.left)
    BY <2>4, <2>11 DEF Comes
  <2> QED BY <2>1, <2>4, <2>7, <2>8, <2>10, <2>11, <2>12
<1>9. PICK n \in rooms : Is(U1, one, n) \/ (n > Size[one] /\ Is(U2, two, n))
  BY <1>1
<1>10. n \in Nat \ {0}
  BY <1>5
<1>11. CASE Is(U1, one, n)
  <2> DEFINE v == Rest(U1, n)
  <2>1. /\ Len(v) = IF n < Len(U1) THEN Len(U1) - n ELSE 0
        /\ \A i \in 1 .. Len(v) : n + i \in 1 .. Len(U1) /\ v[i] = U1[n + i]
    BY <1>6, <1>10, RestEffect
  <2> HIDE DEF v
  <2>2. Len(v) <= Size[one] /\ (n < Size[one] => Len(v) = Size[one] - n)
    BY <1>4, <1>6, <1>10, <2>1
  <2>3. ASSUME NEW i \in 1 .. Len(v) PROVE v[i] = <<one, Size[one] - Len(v) + i>>
    <3>1. n + i \in 1 .. Size[one] /\ v[i] = U1[n + i]
      BY <1>6, <2>1
    <3>2. Size[one] - Len(v) + i = n + i
      BY <1>4, <1>6, <1>10, <2>1, <3>1
    <3> QED BY <1>6, <3>1, <3>2
  <2>4. Ending(one, v)
    BY <2>2, <2>3 DEF Ending
  <2>5. Len(U1) >= Size[one]
    BY <1>4, <1>6
  <2> QED BY <1>3, <1>6, <1>8, <1>10, <1>11, <2>2, <2>4, <2>5 DEF v, rest
<1>12. CASE n > Size[one] /\ Is(U2, two, n)
  <2> DEFINE v == Rest(U2, n)
             a == Size[one]
             b == Size[two]
  <2>0. /\ Len(v) = IF n < Len(U2) THEN Len(U2) - n ELSE 0
        /\ \A i \in 1 .. Len(v) : n + i \in 1 .. Len(U2) /\ v[i] = U2[n + i]
    BY <1>7, <1>10, RestEffect
  <2>a. a \in Nat /\ b \in Nat /\ n > a /\ Len(U2) = a + b
    BY <1>4, <1>7, <1>12
  <2> HIDE DEF v, a, b
  <2>1. Len(v) = IF n < a + b THEN a + b - n ELSE 0
    BY <1>10, <2>0, <2>a
  <2>2. Len(v) <= b
    BY <1>10, <2>1, <2>a
  <2>3. ASSUME NEW i \in 1 .. Len(v) PROVE v[i] = <<two, b - Len(v) + i>>
    <3> DEFINE j == n + i - a
    <3>1. n + i \in 1 .. a + b /\ v[i] = U2[n + i]
      BY <2>0, <2>a
    <3>2. a + j = n + i /\ j \in 1 .. b /\ b - Len(v) + i = j
      BY <1>10, <2>1, <2>a, <3>1
    <3>3. U2[a + j] = <<two, j>>
      BY <1>7, <3>2 DEF a, b
    <3> QED BY <3>1, <3>2, <3>3
  <2>4. Ending(two, v)
    BY <2>2, <2>3 DEF Ending, b
  <2>5. Len(U2) >= Size[one] /\ ~(n < Size[one])
    BY <1>4, <1>7, <1>10, <1>12
  <2> QED BY <1>3, <1>7, <1>8, <1>10, <1>12, <2>4, <2>5 DEF v, rest
<1> QED BY <1>9, <1>11, <1>12

-----------------------------------------------------------------------------
(* What is collected.                                                      *)

(* With the packet kept moved to the buffer, the first units of the        *)
(* section are there.                                                      *)
LEMMA MovedCollected ==
  ASSUME Types, Held, NEW p \in Pids, Collected(p), start[p].ok
  PROVE  /\ p \in DOMAIN st /\ st[p].state # 0 /\ start[p].sec \in 1 .. Len(Size)
         /\ Moved(st[p]) \in States
         /\ Prefix(start[p].sec, Moved(st[p]).data, Moved(st[p]).idx)
         /\ Comes(start[p].sec, Moved(st[p]).idx, sent[p])
<1> DEFINE s == st[p]
           x == start[p].sec
           u == mem[s.aux].tail
<1>1. /\ p \in DOMAIN st /\ x \in 1 .. Len(Size)
      /\ \/ s.state = 1 /\ Prefix(x, s.data, s.idx) /\ Comes(x, s.idx, sent[p])
         \/ s.state = 2 /\ Prefix(x, u, Len(u)) /\ Comes(x, Len(u), sent[p])
  BY DEF Collected
<1>2. Sound(s) /\ mem \in [Bufs -> Packets]
  BY <1>1 DEF Sound, Held, Types
<1>3. CASE s.state = 1
  BY <1>1, <1>2, <1>3 DEF Moved, Sound
<1>4. CASE s.state = 2
  <2>1. /\ Moved(s) \in States /\ u \in Seq(Unit)
        /\ Moved(s).data = memmove(s, u).data /\ Moved(s).idx = memmove(s, u).idx
    BY <1>2, <1>4, MovedEffect
  <2>2. s \in States /\ s.idx = 0
    BY <1>2, <1>4 DEF Sound
  <2>3. memmove(s, u).idx = IF Len(u) + s.idx > MAX_SEC_SZ THEN MAX_SEC_SZ ELSE s.idx + Len(u)
    BY <2>1, <2>2, MemmoveEffect
  <2>4. Prefix(x, u, Len(u)) /\ Comes(x, Len(u), sent[p])
    BY <1>1, <1>4
  <2> HIDE DEF s, x, u
  <2>5. Prefix(x, memmove(s, u).data, memmove(s, u).idx)
    <3>1. Prefix(x, s.data, s.idx)
      BY <2>2 DEF Prefix
    <3>2. \A i \in 1 .. Len(u) : s.idx + i <= Size[x] => u[i] = <<x, s.idx + i>>
      <4>1. \A i \in 1 .. Len(u) : s.idx + i = i
        BY <2>2
      <4> QED BY <2>4, <4>1 DEF Prefix
    <3> QED BY <1>1, <2>1, <2>2, <3>1, <3>2, MemmoveCollects
  <2>6. Comes(x, memmove(s, u).idx, sent[p])
    <3>1. /\ Len(u) \in Nat /\ MAX_SEC_SZ \in Nat /\ Size[x] \in Nat /\ Size[x] <= MAX_SEC_SZ
      BY <1>1, <2>1, SizeType
    <3>2. memmove(s, u).idx < Size[x] => memmove(s, u).idx = Len(u)
      BY <2>2, <2>3, <3>1
    <3> QED BY <2>4, <3>2 DEF Comes
  <2> QED BY <1>1, <1>4, <2>1, <2>5, <2>6 DEF s, x
<1> QED BY <1>1, <1>3, <1>4

(* What is sent next of the section follows what is in the buffer.         *)
LEMMA HeadCollected ==
  ASSUME NEW m \in States, NEW h \in Seq(Unit), NEW x \in 1 .. Len(Size),
         NEW l \in [cur : 1 .. Len(Size), rest : Seq(Unit)],
         Prefix(x, m.data, m.idx), Comes(x, m.idx, l), Ending(l.cur, l.rest),
         \A i \in 1 .. Len(h) : i <= Len(l.rest) => h[i] = l.rest[i]
  PROVE  /\ memmove(m, h) \in States
         /\ Prefix(x, memmove(m, h).data, memmove(m, h).idx)
         /\ memmove(m, h).idx < Size[x] =>
              /\ l.cur = x /\ Len(h) < Len(l.rest)
              /\ Len(l.rest) - Len(h) = Size[x] - memmove(m, h).idx
<1> DEFINE u == l.rest
           k == m.idx
           z == Size[x]
<1>1. /\ k \in Nat /\ Len(h) \in Nat /\ Len(u) \in Nat /\ z \in Nat
      /\ MAX_SEC_SZ \in Nat /\ z <= MAX_SEC_SZ /\ u \in Seq(Unit)
  BY SizeType DEF States
<1>2. /\ memmove(m, h) \in States
      /\ memmove(m, h).idx = IF Len(h) + k > MAX_SEC_SZ THEN MAX_SEC_SZ ELSE k + Len(h)
  BY MemmoveEffect
<1>3. k < z => l.cur = x /\ Len(u) = z - k
  BY DEF Comes
<1>4. ASSUME NEW i \in 1 .. Len(h), k + i <= z PROVE h[i] = <<x, k + i>>
  <2> HIDE DEF k, z, u
  <2>1. k < z
    BY <1>1, <1>4
  <2>2. l.cur = x /\ Len(u) = z - k
    BY <1>3, <2>1
  <2>3. i \in 1 .. Len(u) /\ i <= Len(u) /\ z - Len(u) + i = k + i
    BY <1>1, <1>4, <2>2
  <2>4. h[i] = u[i]
    BY <2>3 DEF u
  <2>5. u[i] = <<x, z - Len(u) + i>>
    BY <2>2, <2>3 DEF Ending, u, z
  <2> QED BY <2>3, <2>4, <2>5
<1>5. Prefix(x, memmove(m, h).data, memmove(m, h).idx)
  BY <1>4, MemmoveCollects
<1> DEFINE n == memmove(m, h).idx
<1>6. n < z => l.cur = x /\ Len(h) < Len(u) /\ Len(u) - Len(h) = z - n
  <2> HAVE n < z
  <2> HIDE DEF n, k, z, u
  <2>1. n = IF Len(h) + k > MAX_SEC_SZ THEN MAX_SEC_SZ ELSE k + Len(h)
    BY <1>2 DEF n, k
  <2>2. n = k + Len(h) /\ k < z
    BY <1>1, <2>1
  <2>3. l.cur = x /\ Len(u) = z - k
    BY <1>3, <2>2
  <2>4. Len(h) < Len(u) /\ Len(u) - Len(h) = z - n
    BY <1>1, <2>2, <2>3
  <2> QED BY <2>3, <2>4
<1> QED BY <1>2, <1>5, <1>6

(* What an arriving packet makes of the buffer: the section it starts is   *)
(* there or kept, the one it ends is complete, the one it goes on with     *)
(* grows.                                                                  *)
LEMMA ArriveContent ==
  ASSUME Types, Held, NEW p \in Pids, Collected(p), Ending(sent[p].cur, sent[p].rest),
         NEW x \in Continued(p) \cup Started(p), NEW b \in Bufs
  PROVE  LET r == sec_ex_process_buf(Before(p), b, x.pk)
             o == x.pk.tail[1][1]
             c == start[p].sec
         IN  /\ x.pk.pusi =>
                  \/ /\ r.s.state = 1 /\ r.ready = FALSE
                     /\ Prefix(o, r.s.data, r.s.idx) /\ Comes(o, r.s.idx, x.left)
                  \/ /\ r.s.state = 2 /\ r.s.aux = b
                     /\ start[p].ok => c \in 1 .. Len(Size) /\ \A i \in 1 .. Size[c] : r.s.data[i] = <<c, i>>
             /\ ~x.pk.pusi =>
                  /\ r.ready = FALSE
                  /\ start[p].ok => /\ p \in DOMAIN st /\ c \in 1 .. Len(Size)
                                    /\ r.s.state = 1
                                    /\ Prefix(c, r.s.data, r.s.idx) /\ Comes(c, r.s.idx, x.left)
<1> DEFINE s == Before(p)
           pk == x.pk
           r == sec_ex_process_buf(s, b, pk)
           o == pk.tail[1][1]
           c == start[p].sec
           m == memmove(s, pk.tail)
           t == memmove(Moved(s), pk.head)
<1>1. Sound(s) /\ mem \in [Bufs -> Packets] /\ (p \in DOMAIN st => s = st[p])
  BY BeforeSound DEF Types, Before
<1>2. pk \in Packets /\ ~pk.bad
  BY ContinuedEffect, StartedEffect
<1>3. \/ /\ s.state = 0 /\ pk.pusi
         /\ r = [s |-> [m EXCEPT !.state = 1], released |-> <<b>>, ready |-> FALSE]
      \/ /\ s.state = 0 /\ ~pk.pusi
         /\ r = [s |-> s, released |-> <<b>>, ready |-> FALSE]
      \/ /\ s.state # 0 /\ pk.pusi
         /\ r.s = [t EXCEPT !.aux = b, !.state = 2, !.idx = 0]
      \/ /\ s.state # 0 /\ ~pk.pusi
         /\ r.s = t /\ r.ready = FALSE
  <2> HIDE DEF s, pk
  <2> QED BY <1>1, <1>2, ProcessContent
<1>4. start[p].ok => /\ p \in DOMAIN st /\ s.state # 0 /\ c \in 1 .. Len(Size)
                     /\ Moved(s) \in States
                     /\ Prefix(c, Moved(s).data, Moved(s).idx)
                     /\ Comes(c, Moved(s).idx, sent[p])
  BY <1>1, MovedCollected
<1>5. pk.pusi <=> x \in Started(p)
  BY ContinuedEffect, StartedEffect
<1>6. pk.head \in Seq(Unit) /\ pk.tail \in Seq(Unit)
  BY <1>2 DEF Packets
<1>7. sent[p] \in [cur : 1 .. Len(Size), rest : Seq(Unit)]
  BY DEF Types
<1>8. start[p].ok => /\ t \in States
                     /\ Prefix(c, t.data, t.idx)
                     /\ t.idx < Size[c] =>
                          /\ sent[p].cur = c /\ Len(pk.head) < Len(sent[p].rest)
                          /\ Len(sent[p].rest) - Len(pk.head) = Size[c] - t.idx
  <2> HAVE start[p].ok
  <2>1. \A i \in 1 .. Len(pk.head) : i <= Len(sent[p].rest) => pk.head[i] = sent[p].rest[i]
    BY ContinuedEffect, StartedEffect
  <2> DEFINE v == Moved(s)
             h == pk.head
             l == sent[p]
  <2>2. /\ v \in States /\ h \in Seq(Unit) /\ c \in 1 .. Len(Size)
        /\ l \in [cur : 1 .. Len(Size), rest : Seq(Unit)]
        /\ Prefix(c, v.data, v.idx) /\ Comes(c, v.idx, l) /\ Ending(l.cur, l.rest)
        /\ \A i \in 1 .. Len(h) : i <= Len(l.rest) => h[i] = l.rest[i]
    BY <1>4, <1>6, <1>7, <2>1
  <2> HIDE DEF v, h, l, c
  <2>3. /\ memmove(v, h) \in States
        /\ Prefix(c, memmove(v, h).data, memmove(v, h).idx)
        /\ memmove(v, h).idx < Size[c] =>
             /\ l.cur = c /\ Len(h) < Len(l.rest)
             /\ Len(l.rest) - Len(h) = Size[c] - memmove(v, h).idx
    BY <2>2, HeadCollected
  <2> QED BY <2>3 DEF v, h, l, c
<1> HIDE DEF m, t, s
<1>9. CASE s.state = 0 /\ pk.pusi
           /\ r = [s |-> [m EXCEPT !.state = 1], released |-> <<b>>, ready |-> FALSE]
  <2>1. s \in States /\ s.idx = 0
    BY <1>1, <1>9 DEF Sound
  <2>2. o \in 1 .. Len(Size) /\ Prefix(o, pk.tail, Len(pk.tail)) /\ Comes(o, Len(pk.tail), x.left)
    BY <1>5, <1>9, StartedEffect
  <2>3. m \in States
        /\ m.idx = IF Len(pk.tail) + s.idx > MAX_SEC_SZ THEN MAX_SEC_SZ ELSE s.idx + Len(pk.tail)
    BY <1>6, <2>1, MemmoveEffect DEF m
  <2>4. r.s.state = 1 /\ r.s.data = m.data /\ r.s.idx = m.idx /\ r.ready = FALSE
    <3> HIDE DEF r
    <3> QED BY <1>9, <2>3 DEF States
  <2> HIDE DEF r, o
  <2>5. Prefix(o, m.data, m.idx)
    <3>1. Prefix(o, s.data, s.idx)
      BY <2>1 DEF Prefix
    <3>2. \A i \in 1 .. Len(pk.tail) : s.idx + i <= Size[o] => pk.tail[i] = <<o, s.idx + i>>
      <4>1. \A i \in 1 .. Len(pk.tail) : s.idx + i = i
        BY <2>1
      <4> QED BY <2>2, <4>1 DEF Prefix
    <3> QED BY <1>6, <2>1, <2>2, <3>1, <3>2, MemmoveCollects DEF m
  <2>6. Comes(o, m.idx, x.left)
    <3> DEFINE n == Len(pk.tail)
    <3>1. /\ n \in Nat /\ MAX_SEC_SZ \in Nat /\ Size[o] \in Nat /\ Size[o] <= MAX_SEC_SZ
      BY <1>6, <2>2, SizeType
    <3> HIDE DEF n, pk
    <3>2. m.idx = IF n + 0 > MAX_SEC_SZ THEN MAX_SEC_SZ ELSE 0 + n
      BY <2>1, <2>3 DEF n
    <3>3. m.idx < Size[o] => m.idx = n
      BY <3>1, <3>2
    <3> QED BY <2>2, <3>3 DEF Comes, n
  <2> QED BY <1>9, <2>4, <2>5, <2>6 DEF r, o, s
<1>10. CASE s.state = 0 /\ ~pk.pusi
            /\ r = [s |-> s, released |-> <<b>>, ready |-> FALSE]
  <2>1. ~start[p].ok
    BY <1>4, <1>10
  <2>2. r.ready = FALSE
    <3> HIDE DEF r
    <3> QED BY <1>10
  <2> QED BY <1>10, <2>1, <2>2 DEF s
<1>11. CASE s.state # 0 /\ pk.pusi /\ r.s = [t EXCEPT !.aux = b, !.state = 2, !.idx = 0]
  <2>1. t \in States
    BY <1>1, <1>6, <1>11, MovedEffect, MemmoveEffect DEF t
  <2> HIDE DEF r
  <2>2. r.s.state = 2 /\ r.s.aux = b /\ r.s.data = t.data
    BY <1>11, <2>1 DEF States
  <2>3. start[p].ok => \A i \in 1 .. Size[c] : t.data[i] = <<c, i>>
    <3> HAVE start[p].ok
    <3> DEFINE z == Size[c]
               n == Len(sent[p].rest)
    <3>1. pk.head = sent[p].rest
      BY <1>5, <1>11, StartedEffect
    <3>2. ~(t.idx < z)
      <4>1. Len(pk.head) = n /\ n \in Nat
        BY <1>7, <3>1
      <4> QED BY <1>8, <4>1
    <3>3. z \in Nat /\ t.idx \in Nat
      BY <1>4, <2>1, SizeType DEF States
    <3> HIDE DEF z
    <3>4. \A i \in 1 .. z : i \in 1 .. t.idx /\ i <= z
      BY <3>2, <3>3
    <3> QED BY <1>8, <3>4 DEF Prefix, z
  <2> QED BY <1>4, <1>11, <2>2, <2>3 DEF r, s
<1>12. CASE s.state # 0 /\ ~pk.pusi /\ r.s = t /\ r.ready = FALSE
  <2>1. t.state = 1
    <3>1. Moved(s) \in States /\ Moved(s).state = 1
      BY <1>1, <1>12, MovedEffect
    <3> QED BY <1>6, <3>1, MemmoveEffect DEF t
  <2>2. start[p].ok => Comes(c, t.idx, x.left)
    <3> HAVE start[p].ok
    <3>1. /\ x.left.cur = sent[p].cur
          /\ Len(pk.head) < Len(sent[p].rest) => Len(x.left.rest) = Len(sent[p].rest) - Len(pk.head)
      BY <1>5, <1>12, ContinuedEffect
    <3> QED BY <1>8, <3>1 DEF Comes
  <2> HIDE DEF r
  <2> QED BY <1>4, <1>8, <1>12, <2>1, <2>2 DEF r, s
<1> QED BY <1>3, <1>9, <1>10, <1>11, <1>12

-----------------------------------------------------------------------------
(* The steps.                                                              *)

(* Nothing happens to what another pid has collected.                      *)
LEMMA OthersKeep ==
  ASSUME NEW q \in Pids, Collected(q), start'[q] = start[q], sent'[q] = sent[q],
         q \in DOMAIN st => /\ q \in DOMAIN st' /\ st'[q] = st[q]
                            /\ st[q].state = 2 => mem'[st[q].aux] = mem[st[q].aux]
  PROVE  Collected(q)'
BY DEF Collected

LEMMA ArriveStep ==
  ASSUME SecExInv, NEW p \in Pids, Arrive(p)
  PROVE  SecExInv'
<1>1. Types /\ Held /\ Ending(sent[p].cur, sent[p].rest) /\ Collected(p)
  BY DEF SecExInv
<1>2. PICK x \in Continued(p) \cup Started(p) :
        /\ secExPut(p, x.pk)
        /\ sent' = [sent EXCEPT ![p] = x.left]
        /\ IF x.pk.pusi
           THEN /\ start' = [start EXCEPT ![p] = [sec |-> x.pk.tail[1][1], ok |-> TRUE]]
                /\ done' = [done EXCEPT ![p] = start[p]]
           ELSE UNCHANGED <<start, done>>
  BY DEF Arrive
<1>3. /\ x.pk \in Packets
      /\ x.left \in [cur : 1 .. Len(Size), rest : Seq(Unit)]
      /\ Ending(x.left.cur, x.left.rest)
      /\ x.pk.pusi => /\ x.pk.tail[1][1] \in 1 .. Len(Size)
                      /\ Prefix(x.pk.tail[1][1], x.pk.tail, Len(x.pk.tail))
                      /\ Comes(x.pk.tail[1][1], Len(x.pk.tail), x.left)
  BY <1>1, ContinuedEffect, StartedEffect
<1>p. PICK k \in Packets : k = x.pk /\ secExPut(p, k)
  BY <1>2, <1>3
<1>4. PICK b \in Bufs :
        LET r == sec_ex_process_buf(Before(p), b, k)
        IN  /\ Before(p).aux # b
            /\ DOMAIN st' = DOMAIN st \cup {p} /\ st'[p] = r.s
            /\ \A q \in DOMAIN st \ {p} : st'[q] = st[q]
            /\ \A q \in DOMAIN st' : st'[q] \in States
            /\ ret' = IF r.ready THEN p ELSE NoPid
            /\ r.ready \in BOOLEAN
            /\ ref' \in [Bufs -> Int] /\ mem' \in [Bufs -> Packets]
            /\ Held'
            /\ \A q \in DOMAIN st \ {p} : st[q].state = 2 => mem'[st[q].aux] = mem[st[q].aux]
            /\ r.s.aux = b => mem'[b] = k
            /\ r.s.aux # NoBuf /\ r.s.aux # b => mem'[r.s.aux] = mem[r.s.aux]
  BY <1>1, <1>p, PutEffect
<1> DEFINE r == sec_ex_process_buf(Before(p), b, x.pk)
           o == x.pk.tail[1][1]
           c == start[p].sec
<1>5. /\ x.pk.pusi =>
           \/ /\ r.s.state = 1 /\ r.ready = FALSE
              /\ Prefix(o, r.s.data, r.s.idx) /\ Comes(o, r.s.idx, x.left)
           \/ /\ r.s.state = 2 /\ r.s.aux = b
              /\ start[p].ok => c \in 1 .. Len(Size) /\ \A i \in 1 .. Size[c] : r.s.data[i] = <<c, i>>
      /\ ~x.pk.pusi =>
           /\ r.ready = FALSE
           /\ start[p].ok => /\ p \in DOMAIN st /\ c \in 1 .. Len(Size)
                             /\ r.s.state = 1
                             /\ Prefix(c, r.s.data, r.s.idx) /\ Comes(c, r.s.idx, x.left)
  BY <1>1, ArriveContent
<1> HIDE DEF r
<1>6. /\ st'[p] = r.s /\ ret' = (IF r.ready THEN p ELSE NoPid) /\ p \in DOMAIN st'
      /\ r.s.aux = b => mem'[b] = x.pk
  BY <1>p, <1>4 DEF r
<1>7. /\ sent'[p] = x.left /\ sent' \in [Pids -> [cur : 1 .. Len(Size), rest : Seq(Unit)]]
      /\ \A q \in Pids \ {p} : sent'[q] = sent[q]
  BY <1>1, <1>2, <1>3 DEF Types
<1>8. /\ start' \in [Pids -> Marks] /\ done' \in [Pids -> Marks]
      /\ \A q \in Pids \ {p} : start'[q] = start[q] /\ done'[q] = done[q]
      /\ x.pk.pusi => start'[p].sec = o /\ start'[p].ok /\ done'[p] = start[p]
      /\ ~x.pk.pusi => start'[p] = start[p]
  <2>1. start \in [Pids -> Marks] /\ done \in [Pids -> Marks]
    BY <1>1 DEF Types
  <2>2. CASE x.pk.pusi
    <3> DEFINE mk == [sec |-> o, ok |-> TRUE]
    <3>1. start' = [start EXCEPT ![p] = mk] /\ done' = [done EXCEPT ![p] = start[p]]
      BY <1>2, <2>2
    <3>2. mk \in Marks /\ mk.sec = o /\ mk.ok
      <4>1. o \in 0 .. Len(Size)
        BY <1>3, <2>2, SizeType
      <4> HIDE DEF o
      <4> QED BY <4>1 DEF Marks
    <3> HIDE DEF mk, o
    <3> QED BY <2>1, <2>2, <3>1, <3>2
  <2>3. CASE ~x.pk.pusi
    BY <1>2, <2>1, <2>3
  <2> QED BY <2>2, <2>3
<1>9. Types'
  <2>1. ret' \in DOMAIN st' \cup {NoPid}
    BY <1>6
  <2>2. DOMAIN st' \subseteq Pids
    BY <1>1, <1>4 DEF Types
  <2> QED BY <1>4, <1>7, <1>8, <2>1, <2>2 DEF Types
<1>10. ASSUME NEW q \in Pids PROVE Ending(sent'[q].cur, sent'[q].rest)
  BY <1>3, <1>7 DEF SecExInv
<1>11. ASSUME NEW q \in Pids PROVE Collected(q)'
  <2>1. CASE q # p
    <3>1. Collected(q)
      BY DEF SecExInv
    <3> QED BY <1>4, <1>7, <1>8, <2>1, <3>1, OthersKeep
  <2>2. CASE q = p /\ x.pk.pusi
    <3>1. start'[p].sec = o /\ o \in 1 .. Len(Size)
      BY <1>3, <1>8, <2>2
    <3>2. CASE r.s.state = 1 /\ Prefix(o, r.s.data, r.s.idx) /\ Comes(o, r.s.idx, x.left)
      BY <1>6, <1>7, <2>2, <3>1, <3>2 DEF Collected
    <3>3. CASE r.s.state = 2 /\ r.s.aux = b
      <4>1. mem'[r.s.aux] = x.pk
        BY <1>6, <3>3
      <4> QED BY <1>3, <1>6, <1>7, <2>2, <3>1, <3>3, <4>1 DEF Collected
    <3> QED BY <1>5, <2>2, <3>2, <3>3
  <2>3. CASE q = p /\ ~x.pk.pusi
    <3>1. start'[p] = start[p]
      BY <1>8, <2>3
    <3> QED BY <1>5, <1>6, <1>7, <2>3, <3>1 DEF Collected
  <2> QED BY <2>1, <2>2, <2>3
<1>12. Returned'
  <2> SUFFICES ASSUME ret' # NoPid, done'[ret'].ok
               PROVE  done'[ret'].sec \in 1 .. Len(Size) /\ Exact(ret)'
    BY DEF Returned
  <2>1. r.ready # FALSE /\ ret' = p
    BY <1>6
  <2>2. x.pk.pusi /\ done'[p] = start[p]
    BY <1>5, <1>8, <2>1
  <2>3. c \in 1 .. Len(Size) /\ \A i \in 1 .. Size[c] : r.s.data[i] = <<c, i>>
    BY <1>5, <2>1, <2>2
  <2> QED BY <1>6, <2>1, <2>2, <2>3 DEF Exact
<1> QED BY <1>4, <1>9, <1>10, <1>11, <1>12 DEF SecExInv

LEMMA ArriveEmptyStep ==
  ASSUME SecExInv, NEW p \in Pids, ArriveEmpty(p)
  PROVE  SecExInv'
<1>1. Types /\ Held
  BY DEF SecExInv
<1>2. NoPacket \in Packets
  BY DEF NoPacket, Packets
<1>3. secExPut(p, NoPacket) /\ sent' = sent /\ start' = start /\ done' = done
  BY DEF ArriveEmpty
<1>4. PICK b \in Bufs :
        LET r == sec_ex_process_buf(Before(p), b, NoPacket)
        IN  /\ Before(p).aux # b
            /\ DOMAIN st' = DOMAIN st \cup {p} /\ st'[p] = r.s
            /\ \A q \in DOMAIN st \ {p} : st'[q] = st[q]
            /\ \A q \in DOMAIN st' : st'[q] \in States
            /\ ret' = IF r.ready THEN p ELSE NoPid
            /\ ref' \in [Bufs -> Int] /\ mem' \in [Bufs -> Packets]
            /\ Held'
            /\ \A q \in DOMAIN st \ {p} : st[q].state = 2 => mem'[st[q].aux] = mem[st[q].aux]
            /\ r.s.aux # NoBuf /\ r.s.aux # b => mem'[r.s.aux] = mem[r.s.aux]
  BY <1>1, <1>2, <1>3, PutEffect
<1>5. sec_ex_process_buf(Before(p), b, NoPacket) = [s |-> Before(p), released |-> <<b>>, ready |-> FALSE]
  BY DEF sec_ex_process_buf, sec_ex_get_ranges, NoPacket
<1>6. /\ st'[p] = Before(p) /\ ret' = NoPid
      /\ Before(p).aux # NoBuf => mem'[Before(p).aux] = mem[Before(p).aux]
  BY <1>4, <1>5
<1>7. Types'
  BY <1>1, <1>3, <1>4, <1>6 DEF Types
<1>8. ASSUME NEW q \in Pids PROVE Collected(q)'
  <2>1. Collected(q)
    BY DEF SecExInv
  <2>2. q \in DOMAIN st => /\ q \in DOMAIN st' /\ st'[q] = st[q]
                           /\ st[q].state = 2 => mem'[st[q].aux] = mem[st[q].aux]
    <3>1. CASE q = p
      BY <1>1, <1>4, <1>6, <3>1 DEF Before, Held
    <3>2. CASE q # p
      BY <1>4, <3>2
    <3> QED BY <3>1, <3>2
  <2> QED BY <1>3, <2>1, <2>2, OthersKeep
<1>9. Returned'
  BY <1>6 DEF Returned
<1> QED BY <1>3, <1>4, <1>7, <1>8, <1>9 DEF SecExInv

(* A packet is lost, or comes garbled: the section is no longer expected.  *)
LEMMA SpoiledType ==
  ASSUME Types, NEW p \in Pids
  PROVE  LET s == [start EXCEPT ![p].ok = FALSE]
         IN  /\ s \in [Pids -> Marks] /\ ~s[p].ok
             /\ \A q \in Pids \ {p} : s[q] = start[q]
<1> DEFINE m == [start[p] EXCEPT !.ok = FALSE]
           s == [start EXCEPT ![p].ok = FALSE]
<1>1. start[p] \in Marks /\ start \in [Pids -> Marks]
  BY DEF Types
<1>3. m \in Marks /\ ~m.ok
  <2> DEFINE e == start[p]
  <2>1. e \in [sec : 0 .. Len(Size), ok : BOOLEAN]
    BY <1>1 DEF Marks
  <2> HIDE DEF e
  <2>2. [e EXCEPT !.ok = FALSE] \in [sec : 0 .. Len(Size), ok : BOOLEAN]
    BY <2>1
  <2>3. ~[e EXCEPT !.ok = FALSE].ok
    BY <2>1
  <2> QED BY <2>2, <2>3 DEF e, Marks
<1>4. s = [start EXCEPT ![p] = m]
  OBVIOUS
<1> HIDE DEF m, s
<1>5. s \in [Pids -> Marks] /\ s[p] = m /\ \A q \in Pids \ {p} : s[q] = start[q]
  BY <1>1, <1>3, <1>4
<1> QED BY <1>3, <1>5 DEF s

LEMMA LoseStep ==
  ASSUME SecExInv, NEW p \in Pids, Lose(p)
  PROVE  SecExInv'
<1>1. Types /\ Held /\ Ending(sent[p].cur, sent[p].rest)
  BY DEF SecExInv
<1>2. PICK x \in Continued(p) \cup Started(p) : sent' = [sent EXCEPT ![p] = x.left]
  BY DEF Lose
<1>3. /\ x.left \in [cur : 1 .. Len(Size), rest : Seq(Unit)]
      /\ Ending(x.left.cur, x.left.rest)
  BY <1>1, ContinuedEffect, StartedEffect
<1>4. /\ sent'[p] = x.left /\ sent' \in [Pids -> [cur : 1 .. Len(Size), rest : Seq(Unit)]]
      /\ \A q \in Pids \ {p} : sent'[q] = sent[q]
  BY <1>1, <1>2, <1>3 DEF Types
<1>5. /\ st' = st /\ ref' = ref /\ mem' = mem /\ done' = done /\ ret' = NoPid
      /\ start' = [start EXCEPT ![p].ok = FALSE]
  BY DEF Lose
<1>6. start' \in [Pids -> Marks] /\ ~start'[p].ok /\ \A q \in Pids \ {p} : start'[q] = start[q]
  BY <1>1, <1>5, SpoiledType
<1>7. Types'
  BY <1>1, <1>4, <1>5, <1>6 DEF Types
<1>8. Held'
  BY <1>1, <1>5 DEF Held, Holds
<1>9. ASSUME NEW q \in Pids PROVE Ending(sent'[q].cur, sent'[q].rest)
  BY <1>3, <1>4 DEF SecExInv
<1>10. ASSUME NEW q \in Pids PROVE Collected(q)'
  <2>1. CASE q = p
    BY <1>6, <2>1 DEF Collected
  <2>2. CASE q # p
    <3>1. Collected(q)
      BY DEF SecExInv
    <3> QED BY <1>4, <1>5, <1>6, <2>2, <3>1, OthersKeep
  <2> QED BY <2>1, <2>2
<1>11. Returned'
  BY <1>5 DEF Returned
<1> QED BY <1>7, <1>8, <1>9, <1>10, <1>11 DEF SecExInv

LEMMA GarbleStep ==
  ASSUME SecExInv, NEW p \in Pids, Garble(p)
  PROVE  SecExInv'
<1>1. Types /\ Held /\ Ending(sent[p].cur, sent[p].rest)
  BY DEF SecExInv
<1>2. PICK x \in Continued(p) \cup Started(p), pusi \in BOOLEAN :
        LET units == x.pk.head \o x.pk.tail
        IN \E n \in IF pusi THEN 0 .. Len(units) ELSE {Len(units)} :
             /\ secExPut(p, [bad |-> FALSE, pusi |-> pusi,
                             head |-> SubSeq(units, 1, n), tail |-> Rest(units, n)])
             /\ sent' = [sent EXCEPT ![p] = x.left]
  BY DEF Garble
<1>3. /\ x.pk \in Packets
      /\ x.left \in [cur : 1 .. Len(Size), rest : Seq(Unit)]
      /\ Ending(x.left.cur, x.left.rest)
  BY <1>1, ContinuedEffect, StartedEffect
<1> DEFINE u == x.pk.head \o x.pk.tail
           pk(n) == [bad |-> FALSE, pusi |-> pusi, head |-> SubSeq(u, 1, n), tail |-> Rest(u, n)]
<1>4. u \in Seq(Unit) /\ Len(u) \in Nat
  <2>1. x.pk.head \in Seq(Unit) /\ x.pk.tail \in Seq(Unit)
    BY <1>3 DEF Packets
  <2> DEFINE h == x.pk.head
             t == x.pk.tail
  <2>2. h \in Seq(Unit) /\ t \in Seq(Unit)
    BY <2>1
  <2> HIDE DEF h, t
  <2>3. h \o t \in Seq(Unit) /\ Len(h \o t) \in Nat
    BY <2>2, ConcatProperties
  <2> QED BY <2>3 DEF h, t
<1>5. PICK n \in 0 .. Len(u) : secExPut(p, pk(n)) /\ sent' = [sent EXCEPT ![p] = x.left]
  <2> HIDE DEF u, pk
  <2>1. \E n \in IF pusi THEN 0 .. Len(u) ELSE {Len(u)} :
          secExPut(p, pk(n)) /\ sent' = [sent EXCEPT ![p] = x.left]
    BY <1>2 DEF u, pk
  <2>2. Len(u) \in 0 .. Len(u)
    BY <1>4
  <2> QED BY <2>1, <2>2
<1>6. pk(n) \in Packets
  <2> HIDE DEF u
  <2>1. n \in Nat /\ \A i \in 1 .. n : u[i] \in Unit
    BY <1>4
  <2>2. SubSeq(u, 1, n) \in Seq(Unit)
    BY <1>4, <2>1, SubSeqProperties
  <2>3. Rest(u, n) \in Seq(Unit)
    BY <1>4, <2>1, RestEffect
  <2> QED BY <2>2, <2>3 DEF Packets
<1> HIDE DEF pk
<1>7. PICK k \in Packets : secExPut(p, k)
  BY <1>5, <1>6
<1>8. PICK b \in Bufs :
        LET r == sec_ex_process_buf(Before(p), b, k)
        IN  /\ DOMAIN st' = DOMAIN st \cup {p}
            /\ \A q \in DOMAIN st \ {p} : st'[q] = st[q]
            /\ \A q \in DOMAIN st' : st'[q] \in States
            /\ ret' = IF r.ready THEN p ELSE NoPid
            /\ ref' \in [Bufs -> Int] /\ mem' \in [Bufs -> Packets]
            /\ Held'
            /\ \A q \in DOMAIN st \ {p} : st[q].state = 2 => mem'[st[q].aux] = mem[st[q].aux]
  BY <1>1, <1>7, PutEffect
<1>9. /\ sent'[p] = x.left /\ sent' \in [Pids -> [cur : 1 .. Len(Size), rest : Seq(Unit)]]
      /\ \A q \in Pids \ {p} : sent'[q] = sent[q]
  BY <1>1, <1>3, <1>5 DEF Types
<1>10. start' = [start EXCEPT ![p].ok = FALSE] /\ done' = [done EXCEPT ![p] = Nowhere]
  BY DEF Garble
<1>11. start' \in [Pids -> Marks] /\ ~start'[p].ok /\ \A q \in Pids \ {p} : start'[q] = start[q]
  BY <1>1, <1>10, SpoiledType
<1>12. done' \in [Pids -> Marks] /\ ~done'[p].ok
  <2>1. Nowhere \in Marks /\ ~Nowhere.ok
    BY SizeType DEF Nowhere, Marks
  <2>2. done \in [Pids -> Marks]
    BY <1>1 DEF Types
  <2> HIDE DEF Nowhere
  <2> QED BY <1>10, <2>1, <2>2
<1>13. Types'
  <2>1. ret' \in DOMAIN st' \cup {NoPid} /\ DOMAIN st' \subseteq Pids
    BY <1>1, <1>8 DEF Types
  <2> QED BY <1>8, <1>9, <1>11, <1>12, <2>1 DEF Types
<1>14. ASSUME NEW q \in Pids PROVE Ending(sent'[q].cur, sent'[q].rest)
  BY <1>3, <1>9 DEF SecExInv
<1>15. ASSUME NEW q \in Pids PROVE Collected(q)'
  <2>1. CASE q = p
    BY <1>11, <2>1 DEF Collected
  <2>2. CASE q # p
    <3>1. Collected(q)
      BY DEF SecExInv
    <3> QED BY <1>8, <1>9, <1>11, <2>2, <3>1, OthersKeep
  <2> QED BY <2>1, <2>2
<1>16. Returned'
  <2>1. ret' = p \/ ret' = NoPid
    BY <1>8
  <2> QED BY <1>12, <2>1 DEF Returned
<1> QED BY <1>8, <1>13, <1>14, <1>15, <1>16 DEF SecExInv

(* Every member of a finite set is once in the sequence made of it.        *)
LEMMA SetToSeqOnce ==
  ASSUME NEW S, IsFiniteSet(S), NEW x
  PROVE  Cardinality({i \in DOMAIN SetToSeq(S) : SetToSeq(S)[i] = x}) = IF x \in S THEN 1 ELSE 0
<1> DEFINE n == Cardinality(S)
           f == SetToSeq(S)
<1>1. n \in Nat /\ ExistsBijection(1 .. n, S)
  BY FS_CardinalityType
<1>2. \E g \in [1 .. n -> S] : IsInjective(g)
  BY <1>1 DEF ExistsBijection, Bijection, Injection
<1>3. f \in [1 .. n -> S] /\ IsInjective(f)
  BY <1>2 DEF SetToSeq
<1> HIDE DEF f, n
<1>4. Cardinality(1 .. n) = n
  BY <1>1, FS_Interval
<1>5. f \in Injection(1 .. n, S)
  BY <1>3 DEF Injection
<1>6. f \in Surjection(1 .. n, S)
  BY <1>4, <1>5, FS_Injection DEF n
<1>7. DOMAIN f = 1 .. n
  BY <1>3
<1> DEFINE I == {i \in DOMAIN f : f[i] = x}
<1>8. CASE x \in S
  <2>1. PICK k \in 1 .. n : f[k] = x
    BY <1>6, <1>8 DEF Surjection
  <2>2. I = {k}
    BY <1>3, <1>7, <2>1 DEF IsInjective
  <2>3. Cardinality({k}) = 1
    BY FS_Singleton
  <2> QED BY <1>8, <2>2, <2>3 DEF f
<1>9. CASE x \notin S
  <2>1. I = {}
    BY <1>3, <1>9
  <2>2. Cardinality({}) = 0
    BY FS_EmptySet
  <2> QED BY <1>9, <2>1, <2>2 DEF f
<1> QED BY <1>8, <1>9

(* A flush releases what is held, once, and forgets it all.                *)
LEMMA FlushStep ==
  ASSUME SecExInv, secExFlush
  PROVE  SecExInv'
<1>1. Types /\ Held
  BY DEF SecExInv
<1>2. /\ ref' = sec_ex_st_destroy
      /\ st' = <<>> /\ mem' = [b \in Bufs |-> NoPacket] /\ ret' = NoPid
      /\ start' = [p \in Pids |-> Nowhere] /\ sent' = sent /\ done' = done
  BY DEF secExFlush
<1> DEFINE S == {st[p].aux : p \in DOMAIN st} \ {NoBuf}
           N(b) == Cardinality({i \in DOMAIN SetToSeq(S) : SetToSeq(S)[i] = b})
<1>3. IsFiniteSet(S)
  <2>1. S \in SUBSET Bufs
    BY <1>1 DEF Types, States
  <2> QED BY <2>1, SecExAssumption, FS_Subset
<1>4. ref' = [b \in Bufs |-> ref[b] - N(b)]
  BY <1>2 DEF sec_ex_st_destroy, Released
<1>5. \A b \in Bufs : N(b) = IF b \in S THEN 1 ELSE 0
  BY <1>3, SetToSeqOnce
<1>6. \A b \in Bufs : b \in S <=> Holds(b)
  BY SecExAssumption DEF Holds
<1> HIDE DEF S, N
<1>7. \A b \in Bufs : ref'[b] = 0
  <2> SUFFICES ASSUME NEW b \in Bufs PROVE ref'[b] = 0
    OBVIOUS
  <2>1. ref'[b] = ref[b] - N(b)
    BY <1>4
  <2>2. ref[b] = IF Holds(b) THEN 1 ELSE 0
    BY <1>1 DEF Held
  <2>3. CASE Holds(b)
    BY <1>5, <1>6, <2>1, <2>2, <2>3
  <2>4. CASE ~Holds(b)
    BY <1>5, <1>6, <2>1, <2>2, <2>4
  <2> QED BY <2>3, <2>4
<1>8. ref' \in [Bufs -> Int]
  <2>1. \A b \in Bufs : ref[b] - N(b) \in Int
    BY <1>4, <1>7
  <2> QED BY <1>4, <2>1
<1>9. DOMAIN st' = {}
  BY <1>2
<1>10. start' \in [Pids -> Marks] /\ \A p \in Pids : ~start'[p].ok
  <2>1. Nowhere \in Marks /\ ~Nowhere.ok
    BY SizeType DEF Nowhere, Marks
  <2> HIDE DEF Nowhere
  <2> QED BY <1>2, <2>1
<1>11. mem' \in [Bufs -> Packets]
  <2>1. NoPacket \in Packets
    BY DEF NoPacket, Packets
  <2> QED BY <1>2, <2>1
<1>12. Types'
  BY <1>1, <1>2, <1>8, <1>9, <1>10, <1>11 DEF Types
<1>13. Held'
  BY <1>7, <1>9 DEF Held, Holds
<1>14. ASSUME NEW p \in Pids PROVE Ending(sent'[p].cur, sent'[p].rest) /\ Collected(p)'
  BY <1>2, <1>10 DEF SecExInv, Collected
<1>15. Returned'
  BY <1>2 DEF Returned
<1> QED BY <1>12, <1>13, <1>14, <1>15 DEF SecExInv

LEMMA SecExInit ==
  ASSUME Init
  PROVE  SecExInv
<1>1. /\ st = <<>> /\ ref = [b \in Bufs |-> 0] /\ mem = [b \in Bufs |-> NoPacket] /\ ret = NoPid
      /\ sent = [p \in Pids |-> [cur |-> Len(Size), rest |-> <<>>]]
      /\ start = [p \in Pids |-> Nowhere] /\ done = [p \in Pids |-> Nowhere]
  BY DEF Init
<1>2. Nowhere \in Marks /\ ~Nowhere.ok /\ NoPacket \in Packets
  BY SizeType DEF Nowhere, Marks, NoPacket, Packets
<1>3. DOMAIN st = {}
  BY <1>1
<1>4. \A p \in Pids : sent[p] = [cur |-> Len(Size), rest |-> <<>>] /\ Len(Size) \in 1 .. Len(Size)
  BY <1>1, SizeType
<1> HIDE DEF Nowhere, NoPacket
<1>5. Types
  <2>1. sent \in [Pids -> [cur : 1 .. Len(Size), rest : Seq(Unit)]]
    BY <1>1, <1>4
  <2>2. ref \in [Bufs -> Int] /\ mem \in [Bufs -> Packets]
    BY <1>1, <1>2
  <2> QED BY <1>1, <1>2, <1>3, <2>1, <2>2 DEF Types
<1>6. Held
  BY <1>1, <1>3 DEF Held, Holds
<1>7. ASSUME NEW p \in Pids PROVE Ending(sent[p].cur, sent[p].rest)
  <2>1. sent[p].cur = Len(Size) /\ sent[p].rest = <<>> /\ Len(<<>>) = 0
    BY <1>4
  <2>2. Size[Len(Size)] \in Nat
    BY <1>4, SizeType
  <2> QED BY <2>1, <2>2 DEF Ending
<1>8. ASSUME NEW p \in Pids PROVE Collected(p)
  BY <1>1, <1>2 DEF Collected
<1>9. Returned
  BY <1>1 DEF Returned
<1> QED BY <1>5, <1>6, <1>7, <1>8, <1>9 DEF SecExInv

LEMMA SecExInvariant == Spec => []SecExInv
<1>1. Init => SecExInv
  BY SecExInit
<1>2. SecExInv /\ [Next]_vars => SecExInv'
  <2> SUFFICES ASSUME SecExInv, [Next]_vars PROVE SecExInv'
    OBVIOUS
  <2>1. ASSUME NEW p \in Pids, Arrive(p) \/ ArriveEmpty(p) \/ Lose(p) \/ Garble(p)
        PROVE  SecExInv'
    BY <2>1, ArriveStep, ArriveEmptyStep, LoseStep, GarbleStep
  <2>2. CASE secExFlush
    BY <2>2, FlushStep
  <2>3. CASE UNCHANGED vars
    BY <2>3 DEF vars, SecExInv, Types, Held, Holds, Collected, Returned, Exact
  <2> QED BY <2>1, <2>2, <2>3 DEF Next
<1> QED BY <1>1, <1>2, PTL DEF Spec

-----------------------------------------------------------------------------
(* The extractor holds the packets in aux of its states and no others, one *)
(* reference each: on every path through sec_ex_process_buf, over losses,  *)
(* garbled packets and flushes, every packet is released once.             *)
THEOREM PacketsAlwaysReleased == Spec => []PacketsReleased
<1>1. SecExInv => PacketsReleased
  <2> SUFFICES ASSUME SecExInv PROVE PacketsReleased
    OBVIOUS
  <2>1. Held
    BY DEF SecExInv
  <2>2. ASSUME NEW b \in Bufs PROVE ref[b] = Cardinality({p \in DOMAIN st : st[p].aux = b})
    <3> DEFINE P == {p \in DOMAIN st : st[p].aux = b}
    <3>1. CASE Holds(b)
      <4>1. PICK p \in DOMAIN st : st[p].aux = b
        BY <3>1 DEF Holds
      <4>2. b # NoBuf
        BY SecExAssumption
      <4>3. P = {p}
        BY <2>1, <4>1, <4>2 DEF Held
      <4>4. Cardinality({p}) = 1
        BY FS_Singleton
      <4> QED BY <2>1, <3>1, <4>3, <4>4 DEF Held
    <3>2. CASE ~Holds(b)
      <4>1. P = {}
        BY <3>2 DEF Holds
      <4>2. Cardinality({}) = 0
        BY FS_EmptySet
      <4> QED BY <2>1, <3>2, <4>1, <4>2 DEF Held
    <3> QED BY <3>1, <3>2
  <2> QED BY <2>1, <2>2 DEF PacketsReleased, Held
<1> QED BY <1>1, SecExInvariant, PTL

(* A section whose packets all arrived is returned as it was sent, however *)
(* it was cut into packets and whatever came before, and its buffer never  *)
(* overflows (buf_idx and the clamping in sec_ex_process_buf).             *)
THEOREM SectionsAlwaysExact == Spec => []SectionsExact
<1>1. SecExInv => SectionsExact
  <2> SUFFICES ASSUME SecExInv PROVE SectionsExact
    OBVIOUS
  <2>1. Types /\ Returned
    BY DEF SecExInv
  <2>2. TypeOK
    BY <2>1 DEF Types, TypeOK, States
  <2> QED BY <2>1, <2>2 DEF SectionsExact, Returned
<1> QED BY <1>1, SecExInvariant, PTL
=============================================================================
