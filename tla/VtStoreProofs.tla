---------------------------- MODULE VtStoreProofs ---------------------------
(***************************************************************************)
(* The videotext store: every magazine is in one place, with all its       *)
(* packets, the list of lru.c is sound, and a file with an index is        *)
(* complete, for any number of magazines, blocks and programs and any      *)
(* limit. The first half is about the list, the second about the store     *)
(* that uses it.                                                           *)
(***************************************************************************)
EXTENDS VtStore, FiniteSetTheorems, SequenceTheorems, WellFoundedInduction, TLAPS

(* No element is twice on the list.                                        *)
Once(l) == \A i, j \in 1 .. Len(l) : l[i] = l[j] => i = j

(* LRUE.where of the element at place i, the middle at place m.            *)
Side(i, m) == IF i < m THEN 0 ELSE IF i > m THEN 1 ELSE 2

(* The sides w are right for the middle at place m.                        *)
Sided(l, m, w) ==
  /\ DOMAIN w = {l[i] : i \in 1 .. Len(l)}
  /\ \A i \in 1 .. Len(l) : w[l[i]] = Side(i, m)

(* The record LRU.                                                         *)
Rec(l, e, a, b, w) == [l |-> l, mid |-> e, before |-> a, behind |-> b, where |-> w]

(* A list with its middle at place m.                                      *)
Listed(q, l, m, w) ==
  /\ q = Rec(l, l[m], m - 1, Len(l) - m, w)
  /\ l \in Seq(Mags) /\ Once(l) /\ m \in 1 .. Len(l) /\ Sided(l, m, w)

(* The balance lru_balance aims at.                                        *)
Even(l, m) == m - 1 \in {Len(l) - m, Len(l) - m - 1}

(* The invariant of the list.                                              *)
Sound(q) ==
  \/ q = L!LRUInit
  \/ \E m \in 1 .. Len(q.l) : Listed(q, q.l, m, q.where) /\ Even(q.l, m)

-----------------------------------------------------------------------------
(* Sequences.                                                              *)

(* The list without its element at place i.                                *)
LEMMA Removed ==
  ASSUME NEW l \in Seq(Mags), NEW i \in 1 .. Len(l)
  PROVE  LET r == L!RemoveAt(l, i)
         IN  /\ r \in Seq(Mags) /\ Len(r) = Len(l) - 1
             /\ \A j \in 1 .. Len(l) - 1 : r[j] = IF j < i THEN l[j] ELSE l[j + 1]
<1> DEFINE a == SubSeq(l, 1, i - 1)
           b == SubSeq(l, i + 1, Len(l))
<1>0. Len(l) \in Nat /\ \A j \in 1 .. Len(l) : l[j] \in Mags
  BY LenProperties, ElementOfSeq
<1>1. a \in Seq(Mags) /\ Len(a) = i - 1 /\ \A j \in 1 .. i - 1 : a[j] = l[j]
  <2>1. \A j \in 1 .. i - 1 : l[j] \in Mags
    BY <1>0
  <2>2. /\ a \in Seq(Mags) /\ Len(a) = (IF 1 <= i - 1 THEN i - 1 - 1 + 1 ELSE 0)
        /\ \A j \in 1 .. i - 1 - 1 + 1 : a[j] = l[1 + j - 1]
    BY <1>0, <2>1, SubSeqProperties
  <2> HIDE DEF a
  <2> QED BY <1>0, <2>2
<1>2. b \in Seq(Mags) /\ Len(b) = Len(l) - i /\ \A j \in 1 .. Len(l) - i : b[j] = l[i + j]
  <2>1. \A j \in i + 1 .. Len(l) : l[j] \in Mags
    BY <1>0
  <2>2. /\ b \in Seq(Mags) /\ Len(b) = (IF i + 1 <= Len(l) THEN Len(l) - (i + 1) + 1 ELSE 0)
        /\ \A j \in 1 .. Len(l) - (i + 1) + 1 : b[j] = l[i + 1 + j - 1]
    BY <1>0, <2>1, SubSeqProperties
  <2> HIDE DEF b
  <2> QED BY <1>0, <2>2
<1>3. L!RemoveAt(l, i) = a \o b
  BY DEF L!RemoveAt
<1> HIDE DEF a, b
<1>4. /\ a \o b \in Seq(Mags) /\ Len(a \o b) = Len(a) + Len(b)
      /\ \A j \in 1 .. Len(a) + Len(b) : (a \o b)[j] = IF j <= Len(a) THEN a[j] ELSE b[j - Len(a)]
  BY <1>1, <1>2, ConcatProperties
<1>5. ASSUME NEW j \in 1 .. Len(l) - 1
      PROVE  (a \o b)[j] = IF j < i THEN l[j] ELSE l[j + 1]
  <2>1. (a \o b)[j] = IF j <= i - 1 THEN a[j] ELSE b[j - (i - 1)]
    BY <1>0, <1>1, <1>2, <1>4
  <2>2. CASE j < i
    BY <1>0, <1>1, <2>1, <2>2
  <2>3. CASE ~(j < i)
    BY <1>0, <1>2, <2>1, <2>3
  <2> QED BY <2>2, <2>3
<1> QED BY <1>0, <1>1, <1>2, <1>3, <1>4, <1>5

(* The list with e at place i.                                             *)
LEMMA Inserted ==
  ASSUME NEW l \in Seq(Mags), NEW e \in Mags, NEW i \in 1 .. Len(l) + 1
  PROVE  LET r == L!InsertAt(l, i, e)
         IN  /\ r \in Seq(Mags) /\ Len(r) = Len(l) + 1
             /\ \A j \in 1 .. Len(l) + 1 :
                  r[j] = IF j < i THEN l[j] ELSE IF j = i THEN e ELSE l[j - 1]
<1> DEFINE a == SubSeq(l, 1, i - 1)
           b == SubSeq(l, i, Len(l))
           c == <<e>>
           d == a \o c
<1>0. Len(l) \in Nat /\ \A j \in 1 .. Len(l) : l[j] \in Mags
  BY LenProperties, ElementOfSeq
<1>1. a \in Seq(Mags) /\ Len(a) = i - 1 /\ \A j \in 1 .. i - 1 : a[j] = l[j]
  <2>1. \A j \in 1 .. i - 1 : l[j] \in Mags
    BY <1>0
  <2>2. /\ a \in Seq(Mags) /\ Len(a) = (IF 1 <= i - 1 THEN i - 1 - 1 + 1 ELSE 0)
        /\ \A j \in 1 .. i - 1 - 1 + 1 : a[j] = l[1 + j - 1]
    BY <1>0, <2>1, SubSeqProperties
  <2> HIDE DEF a
  <2> QED BY <1>0, <2>2
<1>2. b \in Seq(Mags) /\ Len(b) = Len(l) - i + 1 /\ \A j \in 1 .. Len(l) - i + 1 : b[j] = l[i + j - 1]
  <2>1. \A j \in i .. Len(l) : l[j] \in Mags
    BY <1>0
  <2>2. /\ b \in Seq(Mags) /\ Len(b) = (IF i <= Len(l) THEN Len(l) - i + 1 ELSE 0)
        /\ \A j \in 1 .. Len(l) - i + 1 : b[j] = l[i + j - 1]
    BY <1>0, <2>1, SubSeqProperties
  <2> HIDE DEF b
  <2> QED BY <1>0, <2>2
<1>3. c \in Seq(Mags) /\ Len(c) = 1 /\ c[1] = e
  OBVIOUS
<1>4. L!InsertAt(l, i, e) = d \o b
  BY DEF L!InsertAt
<1> HIDE DEF a, b, c
<1>5. /\ d \in Seq(Mags) /\ Len(d) = Len(a) + Len(c)
      /\ \A j \in 1 .. Len(a) + Len(c) : d[j] = IF j <= Len(a) THEN a[j] ELSE c[j - Len(a)]
  BY <1>1, <1>3, ConcatProperties
<1> HIDE DEF d
<1>6. Len(d) = i /\ \A j \in 1 .. i : d[j] = IF j < i THEN l[j] ELSE e
  BY <1>0, <1>1, <1>3, <1>5
<1>7. /\ d \o b \in Seq(Mags) /\ Len(d \o b) = Len(d) + Len(b)
      /\ \A j \in 1 .. Len(d) + Len(b) : (d \o b)[j] = IF j <= Len(d) THEN d[j] ELSE b[j - Len(d)]
  <2>1. d \in Seq(Mags) /\ b \in Seq(Mags)
    BY <1>2, <1>5
  <2> QED BY <2>1, ConcatProperties
<1>8. ASSUME NEW j \in 1 .. Len(l) + 1
      PROVE  (d \o b)[j] = IF j < i THEN l[j] ELSE IF j = i THEN e ELSE l[j - 1]
  <2>1. (d \o b)[j] = IF j <= i THEN d[j] ELSE b[j - i]
    BY <1>0, <1>2, <1>6, <1>7
  <2>2. CASE j <= i
    BY <1>0, <1>6, <2>1, <2>2
  <2>3. CASE ~(j <= i)
    BY <1>0, <1>2, <2>1, <2>3
  <2> QED BY <2>2, <2>3
<1> QED BY <1>0, <1>2, <1>4, <1>6, <1>7, <1>8

(* The place of an element.                                                *)
LEMMA IndexIs ==
  ASSUME NEW q, Once(q.l), NEW i \in 1 .. Len(q.l)
  PROVE  L!Index(q, q.l[i]) = i
BY DEF L!Index, Once

-----------------------------------------------------------------------------
(* Records of a list.                                                      *)

(* The fields of a list.                                                   *)
LEMMA RecFields ==
  ASSUME NEW l, NEW e, NEW a, NEW b, NEW w
  PROVE  LET q == Rec(l, e, a, b, w)
         IN  q.l = l /\ q.mid = e /\ q.before = a /\ q.behind = b /\ q.where = w
BY DEF Rec

(* A record with these fields is determined by them.                       *)
LEMMA IsRec ==
  ASSUME NEW f, DOMAIN f = {"l", "mid", "before", "behind", "where"}, f = [z \in DOMAIN f |-> f[z]]
  PROVE  f = Rec(f.l, f.mid, f.before, f.behind, f.where)
BY DEF Rec

(* The updates the operations make of a list and of its sides.             *)
ToLeft(q)     == [q EXCEPT !.before = @ - 1, !.behind = @ + 1]
ToRight(q)    == [q EXCEPT !.before = @ + 1, !.behind = @ - 1]
LessBefore(q) == [q EXCEPT !.before = @ - 1]
MoreBefore(q) == [q EXCEPT !.before = @ + 1]
LessBehind(q) == [q EXCEPT !.behind = @ - 1]
MoreBehind(q) == [q EXCEPT !.behind = @ + 1]
Alone(q, e)   == [q EXCEPT !.mid = e, !.before = 0, !.behind = 0]
Without(w, x) == [y \in DOMAIN w \ {x} |-> w[y]]
With(w, x, s) == [y \in DOMAIN w \cup {x} |-> IF y = x THEN s ELSE w[y]]
Moved(w, e, s, x) == [w EXCEPT ![e] = s, ![x] = 2]

(* The counters after the middle moved towards the front (lru_l).          *)
LEMMA RecLeft ==
  ASSUME NEW l, NEW e, NEW a, NEW b, NEW w
  PROVE  ToLeft(Rec(l, e, a, b, w))
           = Rec(l, e, a - 1, b + 1, w)
<1> DEFINE f == ToLeft(Rec(l, e, a, b, w))
<1>1. DOMAIN f = {"l", "mid", "before", "behind", "where"} /\ f = [z \in DOMAIN f |-> f[z]]
  BY DEF Rec, ToLeft
<1>2. LET g == Rec(l, e, a - 1, b + 1, w)
      IN  f.l = g.l /\ f.mid = g.mid /\ f.before = g.before /\ f.behind = g.behind /\ f.where = g.where
  BY DEF Rec, ToLeft
<1> HIDE DEF f
<1>3. f = Rec(f.l, f.mid, f.before, f.behind, f.where)
  BY <1>1, IsRec
<1>4. f = Rec(l, e, a - 1, b + 1, w)
  BY <1>2, <1>3, RecFields
<1> QED BY <1>4 DEF f

(* The counters after the middle moved towards the end (lru_r).            *)
LEMMA RecRight ==
  ASSUME NEW l, NEW e, NEW a, NEW b, NEW w
  PROVE  ToRight(Rec(l, e, a, b, w))
           = Rec(l, e, a + 1, b - 1, w)
<1> DEFINE f == ToRight(Rec(l, e, a, b, w))
<1>1. DOMAIN f = {"l", "mid", "before", "behind", "where"} /\ f = [z \in DOMAIN f |-> f[z]]
  BY DEF Rec, ToRight
<1>2. LET g == Rec(l, e, a + 1, b - 1, w)
      IN  f.l = g.l /\ f.mid = g.mid /\ f.before = g.before /\ f.behind = g.behind /\ f.where = g.where
  BY DEF Rec, ToRight
<1> HIDE DEF f
<1>3. f = Rec(f.l, f.mid, f.before, f.behind, f.where)
  BY <1>1, IsRec
<1>4. f = Rec(l, e, a + 1, b - 1, w)
  BY <1>2, <1>3, RecFields
<1> QED BY <1>4 DEF f

(* One element less before the middle.                                     *)
LEMMA RecBeforeLess ==
  ASSUME NEW l, NEW e, NEW a, NEW b, NEW w
  PROVE  LessBefore(Rec(l, e, a, b, w))
           = Rec(l, e, a - 1, b, w)
<1> DEFINE f == LessBefore(Rec(l, e, a, b, w))
<1>1. DOMAIN f = {"l", "mid", "before", "behind", "where"} /\ f = [z \in DOMAIN f |-> f[z]]
  BY DEF Rec, LessBefore
<1>2. LET g == Rec(l, e, a - 1, b, w)
      IN  f.l = g.l /\ f.mid = g.mid /\ f.before = g.before /\ f.behind = g.behind /\ f.where = g.where
  BY DEF Rec, LessBefore
<1> HIDE DEF f
<1>3. f = Rec(f.l, f.mid, f.before, f.behind, f.where)
  BY <1>1, IsRec
<1>4. f = Rec(l, e, a - 1, b, w)
  BY <1>2, <1>3, RecFields
<1> QED BY <1>4 DEF f

(* One element more before the middle.                                     *)
LEMMA RecBeforeMore ==
  ASSUME NEW l, NEW e, NEW a, NEW b, NEW w
  PROVE  MoreBefore(Rec(l, e, a, b, w))
           = Rec(l, e, a + 1, b, w)
<1> DEFINE f == MoreBefore(Rec(l, e, a, b, w))
<1>1. DOMAIN f = {"l", "mid", "before", "behind", "where"} /\ f = [z \in DOMAIN f |-> f[z]]
  BY DEF Rec, MoreBefore
<1>2. LET g == Rec(l, e, a + 1, b, w)
      IN  f.l = g.l /\ f.mid = g.mid /\ f.before = g.before /\ f.behind = g.behind /\ f.where = g.where
  BY DEF Rec, MoreBefore
<1> HIDE DEF f
<1>3. f = Rec(f.l, f.mid, f.before, f.behind, f.where)
  BY <1>1, IsRec
<1>4. f = Rec(l, e, a + 1, b, w)
  BY <1>2, <1>3, RecFields
<1> QED BY <1>4 DEF f

(* One element less behind the middle.                                     *)
LEMMA RecBehindLess ==
  ASSUME NEW l, NEW e, NEW a, NEW b, NEW w
  PROVE  LessBehind(Rec(l, e, a, b, w))
           = Rec(l, e, a, b - 1, w)
<1> DEFINE f == LessBehind(Rec(l, e, a, b, w))
<1>1. DOMAIN f = {"l", "mid", "before", "behind", "where"} /\ f = [z \in DOMAIN f |-> f[z]]
  BY DEF Rec, LessBehind
<1>2. LET g == Rec(l, e, a, b - 1, w)
      IN  f.l = g.l /\ f.mid = g.mid /\ f.before = g.before /\ f.behind = g.behind /\ f.where = g.where
  BY DEF Rec, LessBehind
<1> HIDE DEF f
<1>3. f = Rec(f.l, f.mid, f.before, f.behind, f.where)
  BY <1>1, IsRec
<1>4. f = Rec(l, e, a, b - 1, w)
  BY <1>2, <1>3, RecFields
<1> QED BY <1>4 DEF f

(* One element more behind the middle.                                     *)
LEMMA RecBehindMore ==
  ASSUME NEW l, NEW e, NEW a, NEW b, NEW w
  PROVE  MoreBehind(Rec(l, e, a, b, w))
           = Rec(l, e, a, b + 1, w)
<1> DEFINE f == MoreBehind(Rec(l, e, a, b, w))
<1>1. DOMAIN f = {"l", "mid", "before", "behind", "where"} /\ f = [z \in DOMAIN f |-> f[z]]
  BY DEF Rec, MoreBehind
<1>2. LET g == Rec(l, e, a, b + 1, w)
      IN  f.l = g.l /\ f.mid = g.mid /\ f.before = g.before /\ f.behind = g.behind /\ f.where = g.where
  BY DEF Rec, MoreBehind
<1> HIDE DEF f
<1>3. f = Rec(f.l, f.mid, f.before, f.behind, f.where)
  BY <1>1, IsRec
<1>4. f = Rec(l, e, a, b + 1, w)
  BY <1>2, <1>3, RecFields
<1> QED BY <1>4 DEF f

(* A list whose only element is the middle.                                *)
LEMMA RecAlone ==
  ASSUME NEW l, NEW e, NEW a, NEW b, NEW w, NEW x
  PROVE  Alone(Rec(l, e, a, b, w), x)
           = Rec(l, x, 0, 0, w)
<1> DEFINE f == Alone(Rec(l, e, a, b, w), x)
<1>1. DOMAIN f = {"l", "mid", "before", "behind", "where"} /\ f = [z \in DOMAIN f |-> f[z]]
  BY DEF Rec, Alone
<1>2. LET g == Rec(l, x, 0, 0, w)
      IN  f.l = g.l /\ f.mid = g.mid /\ f.before = g.before /\ f.behind = g.behind /\ f.where = g.where
  BY DEF Rec, Alone
<1> HIDE DEF f
<1>3. f = Rec(f.l, f.mid, f.before, f.behind, f.where)
  BY <1>1, IsRec
<1>4. f = Rec(l, x, 0, 0, w)
  BY <1>2, <1>3, RecFields
<1> QED BY <1>4 DEF f

(* What lru_remove leaves alone: the middle and the counters.              *)
LEMMA RecRemove ==
  ASSUME NEW l, NEW e, NEW a, NEW b, NEW w, NEW x
  PROVE  L!lru_remove(Rec(l, e, a, b, w), x)
           = Rec(L!RemoveAt(l, L!Index(Rec(l, e, a, b, w), x)), e, a, b, Without(w, x))
<1> DEFINE f == L!lru_remove(Rec(l, e, a, b, w), x)
<1>1. DOMAIN f = {"l", "mid", "before", "behind", "where"} /\ f = [z \in DOMAIN f |-> f[z]]
  BY DEF L!lru_remove, Rec, Without
<1>2. LET g == Rec(L!RemoveAt(l, L!Index(Rec(l, e, a, b, w), x)), e, a, b, Without(w, x))
      IN  f.l = g.l /\ f.mid = g.mid /\ f.before = g.before /\ f.behind = g.behind /\ f.where = g.where
  BY DEF L!lru_remove, Rec, Without
<1> HIDE DEF f
<1>3. f = Rec(f.l, f.mid, f.before, f.behind, f.where)
  BY <1>1, IsRec
<1>4. f = Rec(L!RemoveAt(l, L!Index(Rec(l, e, a, b, w), x)), e, a, b, Without(w, x))
  BY <1>2, <1>3, RecFields
<1> QED BY <1>4 DEF f

(* What lru_insert_before and its like leave alone.                        *)
LEMMA RecInsert ==
  ASSUME NEW l, NEW e, NEW a, NEW b, NEW w, NEW x, NEW i, NEW s
  PROVE  L!lru_insert(Rec(l, e, a, b, w), x, i, s)
           = Rec(L!InsertAt(l, i, x), e, a, b, With(w, x, s))
<1> DEFINE f == L!lru_insert(Rec(l, e, a, b, w), x, i, s)
<1>1. DOMAIN f = {"l", "mid", "before", "behind", "where"} /\ f = [z \in DOMAIN f |-> f[z]]
  BY DEF L!lru_insert, Rec, With
<1>2. LET g == Rec(L!InsertAt(l, i, x), e, a, b, With(w, x, s))
      IN  f.l = g.l /\ f.mid = g.mid /\ f.before = g.before /\ f.behind = g.behind /\ f.where = g.where
  BY DEF L!lru_insert, Rec, With
<1> HIDE DEF f
<1>3. f = Rec(f.l, f.mid, f.before, f.behind, f.where)
  BY <1>1, IsRec
<1>4. f = Rec(L!InsertAt(l, i, x), e, a, b, With(w, x, s))
  BY <1>2, <1>3, RecFields
<1> QED BY <1>4 DEF f

(* A new middle changes two sides and the pointer.                         *)
LEMMA RecSetMid ==
  ASSUME NEW l, NEW e, NEW a, NEW b, NEW w, NEW x, NEW s
  PROVE  L!SetMid(Rec(l, e, a, b, w), x, s)
           = Rec(l, x, a, b, Moved(w, e, s, x))
<1> DEFINE f == L!SetMid(Rec(l, e, a, b, w), x, s)
<1>1. DOMAIN f = {"l", "mid", "before", "behind", "where"} /\ f = [z \in DOMAIN f |-> f[z]]
  BY DEF L!SetMid, Rec, Moved
<1>2. LET g == Rec(l, x, a, b, Moved(w, e, s, x))
      IN  f.l = g.l /\ f.mid = g.mid /\ f.before = g.before /\ f.behind = g.behind /\ f.where = g.where
  BY DEF L!SetMid, Rec, Moved
<1> HIDE DEF f
<1>3. f = Rec(f.l, f.mid, f.before, f.behind, f.where)
  BY <1>1, IsRec
<1>4. f = Rec(l, x, a, b, Moved(w, e, s, x))
  BY <1>2, <1>3, RecFields
<1> QED BY <1>4 DEF f

-----------------------------------------------------------------------------
(* Sides.                                                                  *)

(* The elements of the list.                                               *)
Elems(l) == {l[i] : i \in 1 .. Len(l)}

(* Without an element beside the middle the sides of the others are still  *)
(* right.                                                                  *)
LEMMA SidedRemove ==
  ASSUME NEW l \in Seq(Mags), Once(l), NEW m \in 1 .. Len(l), NEW w, Sided(l, m, w),
         NEW i \in 1 .. Len(l), i # m
  PROVE  LET r == L!RemoveAt(l, i)
             n == IF i < m THEN m - 1 ELSE m
         IN  /\ r \in Seq(Mags) /\ Len(r) = Len(l) - 1 /\ Once(r) /\ n \in 1 .. Len(r)
             /\ r[n] = l[m] /\ Elems(r) = Elems(l) \ {l[i]}
             /\ Sided(r, n, Without(w, l[i]))
<1> DEFINE r == L!RemoveAt(l, i)
           n == IF i < m THEN m - 1 ELSE m
           v == [y \in DOMAIN w \ {l[i]} |-> w[y]]
<1>0. Len(l) \in Nat
  BY LenProperties
<1>1. /\ r \in Seq(Mags) /\ Len(r) = Len(l) - 1
      /\ \A j \in 1 .. Len(l) - 1 : r[j] = IF j < i THEN l[j] ELSE l[j + 1]
  BY Removed
<1> HIDE DEF r
<1>2. n \in 1 .. Len(r) /\ r[n] = l[m]
  BY <1>0, <1>1
<1>3. Once(r)
  BY <1>0, <1>1 DEF Once
<1>4. Elems(r) = Elems(l) \ {l[i]}
  <2>1. ASSUME NEW x \in Elems(r) PROVE x \in Elems(l) \ {l[i]}
    BY <1>0, <1>1 DEF Elems, Once
  <2>2. ASSUME NEW j \in 1 .. Len(l), j # i PROVE l[j] \in Elems(r)
    <3>1. CASE j < i
      <4>1. j \in 1 .. Len(r) /\ r[j] = l[j]
        BY <1>0, <1>1, <3>1
      <4> QED BY <4>1 DEF Elems
    <3>2. CASE ~(j < i)
      <4>1. j - 1 \in 1 .. Len(r) /\ r[j - 1] = l[j]
        BY <1>0, <1>1, <2>2, <3>2
      <4> QED BY <4>1 DEF Elems
    <3> QED BY <3>1, <3>2
  <2> QED BY <2>1, <2>2 DEF Elems
<1>5. Sided(r, n, v)
  <2>1. DOMAIN v = Elems(r)
    BY <1>4 DEF Sided, Elems
  <2>2. ASSUME NEW j \in 1 .. Len(r) PROVE v[r[j]] = Side(j, n)
    <3>1. r[j] \in DOMAIN v
      BY <2>1 DEF Elems
    <3>2. v[r[j]] = w[r[j]]
      BY <3>1
    <3>3. CASE j < i
      <4>1. j \in 1 .. Len(l) /\ r[j] = l[j] /\ Side(j, n) = Side(j, m)
        BY <1>0, <1>1, <3>3 DEF Side
      <4> QED BY <3>2, <4>1 DEF Sided
    <3>4. CASE ~(j < i)
      <4>1. j + 1 \in 1 .. Len(l) /\ r[j] = l[j + 1] /\ Side(j, n) = Side(j + 1, m)
        BY <1>0, <1>1, <3>4 DEF Side
      <4> QED BY <3>2, <4>1 DEF Sided
    <3> QED BY <3>3, <3>4
  <2> HIDE DEF v, n
  <2> QED BY <2>1, <2>2 DEF Sided, Elems
<1> QED BY <1>1, <1>2, <1>3, <1>4, <1>5 DEF r, Without

(* With a new element on the side of its place all sides are right.        *)
LEMMA SidedInsert ==
  ASSUME NEW l \in Seq(Mags), Once(l), NEW m \in 1 .. Len(l), NEW w, Sided(l, m, w),
         NEW e \in Mags, e \notin Elems(l), NEW i \in 1 .. Len(l) + 1, NEW n \in Nat,
         n = (IF i <= m THEN m + 1 ELSE m)
  PROVE  LET r == L!InsertAt(l, i, e)
         IN  /\ r \in Seq(Mags) /\ Len(r) = Len(l) + 1 /\ Once(r) /\ n \in 1 .. Len(r)
             /\ r[n] = l[m] /\ Elems(r) = Elems(l) \cup {e}
             /\ Sided(r, n, With(w, e, Side(i, n)))
<1> DEFINE r == L!InsertAt(l, i, e)
           v == [y \in DOMAIN w \cup {e} |-> IF y = e THEN Side(i, n) ELSE w[y]]
<1>0. Len(l) \in Nat
  BY LenProperties
<1>1. /\ r \in Seq(Mags) /\ Len(r) = Len(l) + 1
      /\ \A j \in 1 .. Len(l) + 1 : r[j] = IF j < i THEN l[j] ELSE IF j = i THEN e ELSE l[j - 1]
  BY Inserted
<1> HIDE DEF r
<1>2. n \in 1 .. Len(r) /\ r[n] = l[m]
  BY <1>0, <1>1
<1>a. \A j \in 1 .. Len(l) : l[j] # e
  BY DEF Elems
<1>3. Once(r)
  <2> SUFFICES ASSUME NEW j \in 1 .. Len(r), NEW k \in 1 .. Len(r), r[j] = r[k] PROVE j = k
    BY DEF Once
  <2>1. \/ j < i /\ r[j] = l[j] /\ j \in 1 .. Len(l)
        \/ j = i /\ r[j] = e
        \/ j > i /\ r[j] = l[j - 1] /\ j - 1 \in 1 .. Len(l)
    BY <1>0, <1>1
  <2>2. \/ k < i /\ r[k] = l[k] /\ k \in 1 .. Len(l)
        \/ k = i /\ r[k] = e
        \/ k > i /\ r[k] = l[k - 1] /\ k - 1 \in 1 .. Len(l)
    BY <1>0, <1>1
  <2> QED BY <1>0, <1>a, <2>1, <2>2 DEF Once
<1>4. Elems(r) = Elems(l) \cup {e}
  <2>1. ASSUME NEW j \in 1 .. Len(r) PROVE r[j] \in Elems(l) \cup {e}
    <3>1. \/ j < i /\ r[j] = l[j] /\ j \in 1 .. Len(l)
          \/ r[j] = e
          \/ j > i /\ r[j] = l[j - 1] /\ j - 1 \in 1 .. Len(l)
      BY <1>0, <1>1
    <3> QED BY <3>1 DEF Elems
  <2>2. ASSUME NEW j \in 1 .. Len(l) PROVE l[j] \in Elems(r)
    <3>1. \/ j \in 1 .. Len(r) /\ r[j] = l[j]
          \/ j + 1 \in 1 .. Len(r) /\ r[j + 1] = l[j]
      BY <1>0, <1>1
    <3> QED BY <3>1 DEF Elems
  <2>3. e \in Elems(r)
    <3>1. i \in 1 .. Len(r) /\ r[i] = e
      BY <1>0, <1>1
    <3> QED BY <3>1 DEF Elems
  <2> QED BY <2>1, <2>2, <2>3 DEF Elems
<1>5. Sided(r, n, v)
  <2>1. DOMAIN v = Elems(r)
    BY <1>4 DEF Sided, Elems
  <2>2. ASSUME NEW j \in 1 .. Len(r) PROVE v[r[j]] = Side(j, n)
    <3>1. r[j] \in DOMAIN v
      BY <2>1 DEF Elems
    <3>2. v[r[j]] = IF r[j] = e THEN Side(i, n) ELSE w[r[j]]
      BY <3>1
    <3>3. CASE j < i
      <4>1. j \in 1 .. Len(l) /\ r[j] = l[j] /\ Side(j, n) = Side(j, m)
        BY <1>0, <1>1, <3>3 DEF Side
      <4> QED BY <1>a, <3>2, <4>1 DEF Sided
    <3>4. CASE j = i
      BY <1>0, <1>1, <3>2, <3>4
    <3>5. CASE j > i
      <4>1. j - 1 \in 1 .. Len(l) /\ r[j] = l[j - 1] /\ Side(j, n) = Side(j - 1, m)
        BY <1>0, <1>1, <3>5 DEF Side
      <4> QED BY <1>a, <3>2, <4>1 DEF Sided
    <3> QED BY <1>0, <1>1, <3>3, <3>4, <3>5
  <2> HIDE DEF v
  <2> QED BY <2>1, <2>2 DEF Sided, Elems
<1> QED BY <1>1, <1>2, <1>3, <1>4, <1>5 DEF r, With

(* The middle moves by one place.                                          *)
LEMMA SidedMove ==
  ASSUME NEW l \in Seq(Mags), Once(l), NEW m \in 1 .. Len(l), NEW w, Sided(l, m, w),
         NEW n \in 1 .. Len(l), n \in {m - 1, m + 1}
  PROVE  Sided(l, n, Moved(w, l[m], Side(m, n), l[n]))
<1> DEFINE v == [w EXCEPT ![l[m]] = Side(m, n), ![l[n]] = 2]
<1>0. Len(l) \in Nat
  BY LenProperties
<1>1. DOMAIN v = Elems(l) /\ DOMAIN w = Elems(l)
  BY DEF Sided, Elems
<1>2. ASSUME NEW j \in 1 .. Len(l) PROVE v[l[j]] = Side(j, n)
  <2>1. l[j] \in DOMAIN w /\ w[l[j]] = Side(j, m)
    BY <1>1 DEF Sided, Elems
  <2>2. CASE j = n
    BY <1>0, <2>1, <2>2 DEF Side
  <2>3. CASE j = m
    <3>1. l[m] # l[n]
      BY <1>0, <2>3 DEF Once
    <3> QED BY <2>1, <2>3, <3>1
  <2>4. CASE j # m /\ j # n
    <3>1. l[j] # l[m] /\ l[j] # l[n]
      BY <2>4 DEF Once
    <3>2. Side(j, m) = Side(j, n)
      BY <1>0, <2>4 DEF Side
    <3> QED BY <2>1, <3>1, <3>2
  <2> QED BY <2>2, <2>3, <2>4
<1> HIDE DEF v
<1>3. Sided(l, n, v)
  BY <1>1, <1>2 DEF Sided, Elems
<1> QED BY <1>3 DEF v, Moved

-----------------------------------------------------------------------------
(* The operations of lru.c.                                                *)

(* A list with its middle at place m, in balance, is sound.                *)
LEMMA SoundList ==
  ASSUME NEW q, NEW l, NEW m, NEW w, Listed(q, l, m, w), Even(l, m)
  PROVE  Sound(q) /\ q.l = l
<1>1. q.l = l /\ q.where = w
  BY RecFields DEF Listed
<1> QED BY <1>1 DEF Listed, Sound

(* The empty list.                                                         *)
LEMMA InitList == L!LRUInit = Rec(<<>>, NoMag, 0, 0, <<>>) /\ L!LRUInit.l = <<>> /\ Sound(L!LRUInit)
BY DEF L!LRUInit, Rec, Sound

(* What a list with its middle at place m holds.                           *)
LEMMA ListFields ==
  ASSUME NEW q, NEW l, NEW m, NEW w, Listed(q, l, m, w)
  PROVE  /\ q.l = l /\ q.mid = l[m] /\ q.before = m - 1 /\ q.behind = Len(l) - m /\ q.where = w
         /\ Len(l) \in Nat /\ l # <<>>
         /\ \A i \in 1 .. Len(l) : L!Index(q, l[i]) = i
         /\ \A i \in 1 .. Len(l) : l[i] \in Mags /\ l[i] # NoMag
<1>1. q.l = l /\ q.mid = l[m] /\ q.before = m - 1 /\ q.behind = Len(l) - m /\ q.where = w
  BY RecFields DEF Listed
<1>2. Len(l) \in Nat /\ m \in 1 .. Len(l)
  BY LenProperties DEF Listed
<1>3. l # <<>>
  BY <1>2
<1>4. ASSUME NEW i \in 1 .. Len(l) PROVE L!Index(q, l[i]) = i
  <2>1. Once(q.l) /\ i \in 1 .. Len(q.l)
    BY <1>1 DEF Listed
  <2> QED BY <1>1, <2>1, IndexIs
<1>5. ASSUME NEW i \in 1 .. Len(l) PROVE l[i] \in Mags /\ l[i] # NoMag
  BY ElementOfSeq, VtStoreAssumption DEF Listed
<1> QED BY <1>1, <1>2, <1>3, <1>4, <1>5

(* The neighbours of an element.                                           *)
LEMMA Neighbours ==
  ASSUME NEW q, NEW l, NEW m, NEW w, Listed(q, l, m, w), NEW i \in 1 .. Len(l)
  PROVE  /\ L!lru_e_prev(q, l[i]) = IF i = 1 THEN NoMag ELSE l[i - 1]
         /\ L!lru_e_next(q, l[i]) = IF i = Len(l) THEN NoMag ELSE l[i + 1]
<1>1. q.l = l /\ L!Index(q, l[i]) = i
  BY ListFields
<1> QED BY <1>1 DEF L!lru_e_prev, L!lru_e_next

(* lru_l moves the middle to the place before.                             *)
LEMMA ShiftLeft ==
  ASSUME NEW q, NEW l, NEW m, NEW w, Listed(q, l, m, w), m > 1
  PROVE  \E v : Listed(L!lru_l(q), l, m - 1, v)
<1> DEFINE v == Moved(w, l[m], 1, l[m - 1])
<1>1. /\ q.mid = l[m] /\ q.before = m - 1 /\ Len(l) \in Nat /\ m \in 1 .. Len(l)
      /\ q = Rec(l, l[m], m - 1, Len(l) - m, w)
  BY ListFields DEF Listed
<1>2. L!lru_e_prev(q, q.mid) = l[m - 1]
  BY <1>1, Neighbours
<1>3. L!SetMid(q, l[m - 1], 1) = Rec(l, l[m - 1], m - 1, Len(l) - m, v)
  BY <1>1, RecSetMid
<1>4. L!lru_l(q) = ToLeft(L!SetMid(q, l[m - 1], 1))
  <2>1. ~(q.before < 1)
    BY <1>1
  <2> QED BY <1>2, <2>1, Zenon DEF L!lru_l, ToLeft
<1>5. L!lru_l(q) = Rec(l, l[m - 1], m - 1 - 1, Len(l) - m + 1, v)
  BY <1>3, <1>4, RecLeft
<1>6. Sided(l, m - 1, v)
  <2>1. m - 1 \in 1 .. Len(l) /\ m - 1 \in {m - 1, m + 1} /\ Side(m, m - 1) = 1
    BY <1>1 DEF Side
  <2>2. Sided(l, m - 1, Moved(w, l[m], Side(m, m - 1), l[m - 1]))
    BY <1>1, <2>1, SidedMove DEF Listed
  <2> QED BY <2>1, <2>2
<1> HIDE DEF v
<1>7. m - 1 \in 1 .. Len(l) /\ Len(l) - m + 1 = Len(l) - (m - 1)
  BY <1>1
<1>8. Listed(L!lru_l(q), l, m - 1, v)
  BY <1>5, <1>6, <1>7 DEF Listed
<1> QED BY <1>8

(* lru_r moves the middle to the place behind.                             *)
LEMMA ShiftRight ==
  ASSUME NEW q, NEW l, NEW m, NEW w, Listed(q, l, m, w), m < Len(l)
  PROVE  \E v : Listed(L!lru_r(q), l, m + 1, v)
<1> DEFINE v == Moved(w, l[m], 0, l[m + 1])
<1>1. /\ q.mid = l[m] /\ q.behind = Len(l) - m /\ Len(l) \in Nat /\ m \in 1 .. Len(l)
      /\ q = Rec(l, l[m], m - 1, Len(l) - m, w)
  BY ListFields DEF Listed
<1>2. L!lru_e_next(q, q.mid) = l[m + 1]
  BY <1>1, Neighbours
<1>3. L!SetMid(q, l[m + 1], 0) = Rec(l, l[m + 1], m - 1, Len(l) - m, v)
  BY <1>1, RecSetMid
<1>4. L!lru_r(q) = ToRight(L!SetMid(q, l[m + 1], 0))
  <2>1. ~(q.behind < 1)
    BY <1>1
  <2> QED BY <1>2, <2>1, Zenon DEF L!lru_r, ToRight
<1>5. L!lru_r(q) = Rec(l, l[m + 1], m - 1 + 1, Len(l) - m - 1, v)
  BY <1>3, <1>4, RecRight
<1>6. Sided(l, m + 1, v)
  <2>1. m + 1 \in 1 .. Len(l) /\ m + 1 \in {m - 1, m + 1} /\ Side(m, m + 1) = 0
    BY <1>1 DEF Side
  <2>2. Sided(l, m + 1, Moved(w, l[m], Side(m, m + 1), l[m + 1]))
    BY <1>1, <2>1, SidedMove DEF Listed
  <2> QED BY <2>1, <2>2
<1> HIDE DEF v
<1>7. m + 1 \in 1 .. Len(l) /\ Len(l) - m - 1 = Len(l) - (m + 1) /\ m - 1 + 1 = m + 1 - 1
  BY <1>1
<1>8. Listed(L!lru_r(q), l, m + 1, v)
  BY <1>5, <1>6, <1>7 DEF Listed
<1> QED BY <1>8

(* lru_remove of the element at place i, which is not the middle: r and v  *)
(* are what it leaves of the list and of the sides.                        *)
TakenOut(q, l, m, i, r, v) ==
  LET n == IF i < m THEN m - 1 ELSE m
  IN  /\ L!lru_remove(q, l[i]) = Rec(r, r[n], m - 1, Len(l) - m, v)
      /\ r \in Seq(Mags) /\ Once(r) /\ n \in 1 .. Len(r) /\ Sided(r, n, v)
      /\ Len(r) = Len(l) - 1 /\ Elems(r) = Elems(l) \ {l[i]}
      /\ r = L!RemoveAt(l, i)

(* lru_remove of an element beside the middle.                             *)
LEMMA RemoveOther ==
  ASSUME NEW q, NEW l, NEW m, NEW w, Listed(q, l, m, w), NEW i \in 1 .. Len(l), i # m
  PROVE  \E r, v : TakenOut(q, l, m, i, r, v)
<1> DEFINE r == L!RemoveAt(l, i)
           v == Without(w, l[i])
           n == IF i < m THEN m - 1 ELSE m
<1>1. /\ l \in Seq(Mags) /\ Once(l) /\ m \in 1 .. Len(l) /\ Sided(l, m, w)
      /\ q = Rec(l, l[m], m - 1, Len(l) - m, w)
  BY DEF Listed
<1>2. L!Index(q, l[i]) = i
  BY ListFields
<1>3. L!lru_remove(q, l[i]) = Rec(r, l[m], m - 1, Len(l) - m, v)
  BY <1>1, <1>2, RecRemove
<1>4. /\ r \in Seq(Mags) /\ Len(r) = Len(l) - 1 /\ Once(r) /\ n \in 1 .. Len(r)
      /\ r[n] = l[m] /\ Elems(r) = Elems(l) \ {l[i]} /\ Sided(r, n, v)
  BY <1>1, SidedRemove
<1> HIDE DEF r, v
<1>5. TakenOut(q, l, m, i, r, v)
  BY <1>3, <1>4 DEF r, TakenOut
<1> QED BY <1>5

(* lru_balance evens out what a removal has left.                          *)
LEMMA Balances ==
  ASSUME NEW q, NEW l, NEW m, NEW w, Listed(q, l, m, w),
         m - 1 - (Len(l) - m) \in -2 .. 1
  PROVE  Sound(L!lru_balance(q)) /\ L!lru_balance(q).l = l
<1> DEFINE t == L!lru_balance(q)
<1>1. /\ q.before = m - 1 /\ q.behind = Len(l) - m
      /\ Len(l) \in Nat /\ m \in 1 .. Len(l)
  BY ListFields DEF Listed
<1>2. CASE m - 1 < Len(l) - m - 1
  <2>1. t = L!lru_r(q)
    BY <1>1, <1>2 DEF L!lru_balance
  <2>2. m < Len(l) /\ Even(l, m + 1)
    BY <1>1, <1>2 DEF Even
  <2>3. PICK v : Listed(t, l, m + 1, v)
    BY <2>1, <2>2, ShiftRight
  <2> QED BY <2>2, <2>3, SoundList
<1>3. CASE m - 1 > Len(l) - m
  <2>1. t = L!lru_l(q)
    BY <1>1, <1>3 DEF L!lru_balance
  <2>2. m > 1 /\ Even(l, m - 1)
    BY <1>1, <1>3 DEF Even
  <2>3. PICK v : Listed(t, l, m - 1, v)
    BY <2>1, <2>2, ShiftLeft
  <2> QED BY <2>2, <2>3, SoundList
<1>4. CASE ~(m - 1 < Len(l) - m - 1) /\ ~(m - 1 > Len(l) - m)
  <2>1. t = q
    BY <1>1, <1>4 DEF L!lru_balance
  <2>2. Even(l, m)
    BY <1>1, <1>4 DEF Even
  <2> QED BY <2>1, <2>2, SoundList
<1> QED BY <1>2, <1>3, <1>4

(* What Sound says of a list that is not empty.                            *)
LEMMA SoundCases ==
  ASSUME NEW q, Sound(q)
  PROVE  /\ q.l \in Seq(Mags) /\ Once(q.l) /\ Len(q.l) \in Nat
         /\ \/ q = L!LRUInit /\ q.l = <<>> /\ Len(q.l) = 0
            \/ /\ q.l # <<>> /\ Len(q.l) > 0
               /\ \E m \in 1 .. Len(q.l) : Listed(q, q.l, m, q.where) /\ Even(q.l, m)
<1>1. CASE q = L!LRUInit
  <2>1. q.l = <<>>
    BY <1>1, InitList
  <2> HIDE DEF L!LRUInit
  <2> QED BY <1>1, <2>1 DEF Once
<1>2. CASE \E m \in 1 .. Len(q.l) : Listed(q, q.l, m, q.where) /\ Even(q.l, m)
  <2>1. PICK m \in 1 .. Len(q.l) : Listed(q, q.l, m, q.where) /\ Even(q.l, m)
    BY <1>2
  <2>2. Len(q.l) \in Nat /\ q.l # <<>>
    BY <2>1, ListFields
  <2>3. q.l \in Seq(Mags) /\ Once(q.l)
    BY <2>1 DEF Listed
  <2> QED BY <2>1, <2>2, <2>3
<1> QED BY <1>1, <1>2 DEF Sound

(* LRUGetSize is the length of the list.                                   *)
LEMMA SizeIs ==
  ASSUME NEW q, Sound(q)
  PROVE  L!LRUGetSize(q) = Len(q.l)
<1>1. CASE q = L!LRUInit
  <2>1. q.mid = NoMag /\ q.l = <<>>
    BY <1>1, InitList, RecFields
  <2> QED BY <2>1 DEF L!LRUGetSize
<1>2. CASE q # L!LRUInit
  <2>1. PICK m \in 1 .. Len(q.l) : Listed(q, q.l, m, q.where) /\ Even(q.l, m)
    BY <1>2, SoundCases
  <2>2. q.mid # NoMag /\ q.before = m - 1 /\ q.behind = Len(q.l) - m /\ Len(q.l) \in Nat
    BY <2>1, ListFields
  <2> QED BY <2>2 DEF L!LRUGetSize
<1> QED BY <1>1, <1>2

(* The properties of the list.                                             *)
LEMMA SoundMeans ==
  ASSUME NEW q, Sound(q)
  PROVE  L!Placed(q) /\ L!Balanced(q)
<1>1. CASE q = L!LRUInit
  <2>1. q.l = <<>>
    BY <1>1, InitList
  <2> QED BY <1>1, <2>1 DEF L!Placed, L!Balanced
<1>2. CASE q # L!LRUInit
  <2>1. PICK m \in 1 .. Len(q.l) : Listed(q, q.l, m, q.where) /\ Even(q.l, m)
    BY <1>2, SoundCases
  <2>2. /\ q.mid = q.l[m] /\ q.before = m - 1 /\ q.behind = Len(q.l) - m /\ Len(q.l) \in Nat
        /\ L!Index(q, q.l[m]) = m /\ q.l # <<>>
    BY <2>1, ListFields
  <2>3. Sided(q.l, m, q.where)
    BY <2>1 DEF Listed
  <2> QED BY <2>1, <2>2, <2>3 DEF L!Placed, L!Balanced, Sided, Side, Even
<1> QED BY <1>1, <1>2

(* LRUPutMid of a new element keeps the list sound.                        *)
LEMMA PutMidSound ==
  ASSUME NEW q, Sound(q), NEW e \in Mags, e \notin Elems(q.l)
  PROVE  LET t == L!LRUPutMid(q, e)
         IN  Sound(t) /\ Elems(t.l) = Elems(q.l) \cup {e} /\ Len(t.l) = Len(q.l) + 1
<1> DEFINE t == L!LRUPutMid(q, e)
<1>1. CASE q = L!LRUInit
  <2> DEFINE r == L!InsertAt(<<>>, 1, e)
             v == With(<<>>, e, 2)
  <2>1. q = Rec(<<>>, NoMag, 0, 0, <<>>) /\ q.l = <<>>
    BY <1>1, InitList
  <2>2. t = Alone(L!lru_insert(q, e, 1, 2), e)
    BY <2>1, Zenon DEF L!LRUPutMid, Alone
  <2>3. L!lru_insert(q, e, 1, 2) = Rec(r, NoMag, 0, 0, v)
    BY <2>1, RecInsert
  <2>4. t = Rec(r, e, 0, 0, v)
    BY <2>2, <2>3, RecAlone
  <2>5. r \in Seq(Mags) /\ Len(r) = 1 /\ r[1] = e
    <3>1. <<>> \in Seq(Mags) /\ 1 \in 1 .. Len(<<>>) + 1 /\ Len(<<>>) + 1 = 1
      OBVIOUS
    <3> DEFINE z == <<>>
    <3> HIDE DEF z
    <3>2. z \in Seq(Mags) /\ 1 \in 1 .. Len(z) + 1 /\ Len(z) + 1 = 1
      BY <3>1 DEF z
    <3>3. LET x == L!InsertAt(z, 1, e)
          IN  /\ x \in Seq(Mags) /\ Len(x) = Len(z) + 1
              /\ \A j \in 1 .. Len(z) + 1 :
                   x[j] = IF j < 1 THEN z[j] ELSE IF j = 1 THEN e ELSE z[j - 1]
      BY <3>2, Inserted
    <3>4. LET x == L!InsertAt(z, 1, e) IN x \in Seq(Mags) /\ Len(x) = 1 /\ x[1] = e
      BY <3>2, <3>3
    <3> QED BY <3>4 DEF z
  <2>6. DOMAIN v = {e} /\ v[e] = 2
    BY DEF With
  <2> HIDE DEF r, v
  <2>7. Listed(t, r, 1, v) /\ Even(r, 1) /\ Elems(r) = {e}
    BY <2>4, <2>5, <2>6 DEF Listed, Even, Elems, Once, Sided, Side
  <2>8. Sound(t) /\ t.l = r
    BY <2>7, SoundList
  <2>9. Elems(q.l) = {} /\ Len(q.l) = 0
    BY <2>1 DEF Elems
  <2> HIDE DEF t
  <2> QED BY <2>5, <2>7, <2>8, <2>9 DEF t
<1>2. CASE q # L!LRUInit
  <2> DEFINE l == q.l
             w == q.where
  <2>1. PICK m \in 1 .. Len(l) : Listed(q, l, m, w) /\ Even(l, m)
    BY <1>2, SoundCases
  <2>2. /\ q.mid = l[m] /\ q.before = m - 1 /\ q.behind = Len(l) - m /\ Len(l) \in Nat
        /\ L!Index(q, l[m]) = m /\ l # <<>>
    BY <2>1, ListFields
  <2>3. /\ q = Rec(l, l[m], m - 1, Len(l) - m, w)
        /\ l \in Seq(Mags) /\ Once(l) /\ Sided(l, m, w)
    BY <2>1 DEF Listed
  <2>4. CASE q.before < q.behind
    <3> DEFINE r == L!InsertAt(l, m, e)
               v == With(w, e, 0)
    <3>1. t = MoreBefore(L!lru_insert(q, e, m, 0))
      BY <2>2, <2>4, Zenon DEF L!LRUPutMid, MoreBefore
    <3>2. L!lru_insert(q, e, m, 0) = Rec(r, l[m], m - 1, Len(l) - m, v)
      BY <2>3, RecInsert
    <3>3. t = Rec(r, l[m], m - 1 + 1, Len(l) - m, v)
      BY <3>1, <3>2, RecBeforeMore
    <3>4. /\ m \in 1 .. Len(l) + 1 /\ m + 1 \in Nat /\ m + 1 = (IF m <= m THEN m + 1 ELSE m)
          /\ Side(m, m + 1) = 0
      BY <2>2 DEF Side
    <3>5. /\ r \in Seq(Mags) /\ Len(r) = Len(l) + 1 /\ Once(r) /\ m + 1 \in 1 .. Len(r)
          /\ r[m + 1] = l[m] /\ Elems(r) = Elems(l) \cup {e}
          /\ Sided(r, m + 1, With(w, e, Side(m, m + 1)))
      BY <2>3, <3>4, SidedInsert
    <3> HIDE DEF r, v, t
    <3>6. m - 1 + 1 = m + 1 - 1 /\ Len(l) - m = Len(r) - (m + 1) /\ Even(r, m + 1)
      BY <2>1, <2>2, <2>4, <3>5 DEF Even
    <3>7. Listed(t, r, m + 1, v)
      BY <3>3, <3>4, <3>5, <3>6 DEF Listed, v
    <3>8. Sound(t) /\ t.l = r
      BY <3>6, <3>7, SoundList
    <3> QED BY <3>5, <3>8 DEF t
  <2>5. CASE ~(q.before < q.behind)
    <3> DEFINE r == L!InsertAt(l, m + 1, e)
               v == With(w, e, 1)
    <3>1. t = MoreBehind(L!lru_insert(q, e, m + 1, 1))
      BY <2>2, <2>5, Zenon DEF L!LRUPutMid, MoreBehind
    <3>2. L!lru_insert(q, e, m + 1, 1) = Rec(r, l[m], m - 1, Len(l) - m, v)
      BY <2>3, RecInsert
    <3>3. t = Rec(r, l[m], m - 1, Len(l) - m + 1, v)
      BY <3>1, <3>2, RecBehindMore
    <3>4. /\ m + 1 \in 1 .. Len(l) + 1 /\ m \in Nat /\ m = (IF m + 1 <= m THEN m + 1 ELSE m)
          /\ Side(m + 1, m) = 1
      BY <2>2 DEF Side
    <3>5. /\ r \in Seq(Mags) /\ Len(r) = Len(l) + 1 /\ Once(r) /\ m \in 1 .. Len(r)
          /\ r[m] = l[m] /\ Elems(r) = Elems(l) \cup {e}
          /\ Sided(r, m, With(w, e, Side(m + 1, m)))
      BY <2>3, <3>4, SidedInsert
    <3> HIDE DEF r, v, t
    <3>6. Len(l) - m + 1 = Len(r) - m /\ Even(r, m)
      BY <2>1, <2>2, <2>5, <3>5 DEF Even
    <3>7. Listed(t, r, m, v)
      BY <3>3, <3>4, <3>5, <3>6 DEF Listed, v
    <3>8. Sound(t) /\ t.l = r
      BY <3>6, <3>7, SoundList
    <3> QED BY <3>5, <3>8 DEF t
  <2> QED BY <2>4, <2>5
<1> QED BY <1>1, <1>2

(* LRURemoveLast takes the last one off and moves the middle if need be.   *)
LEMMA RemoveLastSound ==
  ASSUME NEW q, Sound(q), Len(q.l) > 0
  PROVE  LET t == L!LRURemoveLast(q)
         IN  /\ Sound(t) /\ Len(t.l) = Len(q.l) - 1
             /\ \A i \in 1 .. Len(t.l) : t.l[i] = q.l[i]
<1> DEFINE l == q.l
           w == q.where
           t == L!LRURemoveLast(q)
           r == L!lru_remove(q, L!Last(l))
           s == LessBehind(r)
<1>1. PICK m \in 1 .. Len(l) : Listed(q, l, m, w) /\ Even(l, m)
  BY SoundCases
<1>2. /\ l \in Seq(Mags) /\ Len(l) \in Nat
  BY SoundCases
<1>3. L!Last(l) = l[Len(l)]
  BY DEF L!Last
<1>4. t = IF r.l = <<>> THEN L!LRUInit ELSE IF s.behind < s.before THEN L!lru_l(s) ELSE s
  BY Zenon DEF L!LRURemoveLast, LessBehind
<1>5. CASE Len(l) = 1
  <2> DEFINE x == L!RemoveAt(l, 1)
  <2>1. m = 1 /\ q = Rec(l, l[1], 0, 0, w) /\ L!Index(q, l[1]) = 1
    <3>1. m = 1 /\ m - 1 = 0 /\ Len(l) - m = 0
      BY <1>2, <1>5
    <3> QED BY <1>1, <3>1, ListFields DEF Listed
  <2>2. r = Rec(x, l[1], 0, 0, Without(w, l[1]))
    BY <1>3, <1>5, <2>1, RecRemove
  <2>3. r.l = x
    BY <2>2, RecFields
  <2>4. x \in Seq(Mags) /\ Len(x) = 0
    <3>1. 1 \in 1 .. Len(l) /\ Len(l) - 1 = 0
      BY <1>2, <1>5
    <3>2. x \in Seq(Mags) /\ Len(x) = Len(l) - 1
      BY <1>2, <3>1, Removed
    <3> QED BY <3>1, <3>2
  <2> HIDE DEF x
  <2>5. x = <<>>
    BY <2>4, EmptySeq
  <2>6. t = L!LRUInit
    BY <1>4, <2>3, <2>5
  <2>7. Sound(t) /\ Len(t.l) = 0
    BY <2>6, InitList
  <2> HIDE DEF t
  <2> QED BY <1>5, <2>7 DEF t
<1>6. CASE Len(l) # 1
  <2>1. Len(l) \in 1 .. Len(l) /\ Len(l) # m /\ (IF Len(l) < m THEN m - 1 ELSE m) = m
    <3>1. m - 1 = Len(l) - m \/ m - 1 = Len(l) - m - 1
      BY <1>1 DEF Even
    <3> DEFINE k == Len(l)
    <3>2. k \in Nat /\ k # 1 /\ m \in 1 .. k
      BY <1>2, <1>6
    <3>3. m - 1 = k - m \/ m - 1 = k - m - 1
      BY <3>1
    <3> HIDE DEF k
    <3>4. k \in 1 .. k /\ k # m
      BY <3>2, <3>3
    <3>5. ~(k < m)
      BY <3>2
    <3> QED BY <3>4, <3>5 DEF k
  <2>2. PICK x, v : /\ L!lru_remove(q, l[Len(l)]) = Rec(x, x[m], m - 1, Len(l) - m, v)
                    /\ x \in Seq(Mags) /\ Once(x) /\ m \in 1 .. Len(x) /\ Sided(x, m, v)
                    /\ Len(x) = Len(l) - 1
                    /\ x = L!RemoveAt(l, Len(l))
    <3>1. PICK x, v : TakenOut(q, l, m, Len(l), x, v)
      BY <1>1, <2>1, RemoveOther
    <3> QED BY <2>1, <3>1 DEF TakenOut
  <2>3. r = Rec(x, x[m], m - 1, Len(l) - m, v) /\ r.l = x /\ x # <<>>
    BY <1>3, <2>2, RecFields
  <2>4. s = Rec(x, x[m], m - 1, Len(l) - m - 1, v)
    BY <2>3, RecBehindLess
  <2>5. Len(l) - m - 1 = Len(x) - m
    BY <1>2, <2>2
  <2>6. Listed(s, x, m, v)
    BY <2>2, <2>4, <2>5 DEF Listed
  <2>7. s.before = m - 1 /\ s.behind = Len(x) - m
    BY <2>6, ListFields
  <2>8. t = IF s.behind < s.before THEN L!lru_l(s) ELSE s
    BY <1>4, <2>3
  <2>9. \A i \in 1 .. Len(x) : x[i] = l[i]
    <3>1. \A j \in 1 .. Len(l) - 1 : x[j] = IF j < Len(l) THEN l[j] ELSE l[j + 1]
      BY <1>2, <2>1, <2>2, Removed
    <3> QED BY <1>2, <2>2, <3>1
  <2> HIDE DEF s, t, r
  <2>10. Sound(t) /\ t.l = x
    <3>1. CASE s.behind < s.before
      <4>1. m > 1 /\ Even(x, m - 1)
        BY <1>1, <1>2, <2>2, <2>5, <2>7, <3>1 DEF Even
      <4>2. PICK z : Listed(t, x, m - 1, z)
        BY <2>6, <2>8, <3>1, <4>1, ShiftLeft
      <4> QED BY <4>1, <4>2, SoundList
    <3>2. CASE ~(s.behind < s.before)
      <4>1. Even(x, m)
        BY <1>1, <1>2, <2>2, <2>5, <2>7, <3>2 DEF Even
      <4> QED BY <2>6, <2>8, <3>2, <4>1, SoundList
    <3> QED BY <3>1, <3>2
  <2> QED BY <2>2, <2>9, <2>10 DEF t
<1> QED BY <1>5, <1>6

(* A list with two neighbours exchanged.                                   *)
LEMMA Swapped ==
  ASSUME NEW l \in Seq(Mags), Once(l), NEW i \in 2 .. Len(l)
  PROVE  LET y == L!InsertAt(L!RemoveAt(l, i), i - 1, l[i])
         IN  /\ y \in Seq(Mags) /\ Len(y) = Len(l) /\ Once(y) /\ Elems(y) = Elems(l)
             /\ y[i - 1] = l[i] /\ y[i] = l[i - 1]
             /\ \A j \in 1 .. Len(l) : j # i - 1 /\ j # i => y[j] = l[j]
<1> DEFINE x == L!RemoveAt(l, i)
           y == L!InsertAt(x, i - 1, l[i])
<1>0. Len(l) \in Nat /\ i \in 1 .. Len(l) /\ l[i] \in Mags
  BY LenProperties, ElementOfSeq
<1>1. /\ x \in Seq(Mags) /\ Len(x) = Len(l) - 1
      /\ \A j \in 1 .. Len(l) - 1 : x[j] = IF j < i THEN l[j] ELSE l[j + 1]
  BY <1>0, Removed
<1> HIDE DEF x
<1>2. i - 1 \in 1 .. Len(x) + 1 /\ Len(x) + 1 = Len(l)
  BY <1>0, <1>1
<1>3. /\ y \in Seq(Mags) /\ Len(y) = Len(x) + 1
      /\ \A j \in 1 .. Len(x) + 1 :
           y[j] = IF j < i - 1 THEN x[j] ELSE IF j = i - 1 THEN l[i] ELSE x[j - 1]
  BY <1>0, <1>1, <1>2, Inserted
<1> HIDE DEF y
<1>4. y[i - 1] = l[i] /\ y[i] = l[i - 1]
  BY <1>0, <1>1, <1>2, <1>3
<1>5. ASSUME NEW j \in 1 .. Len(l), j # i - 1, j # i PROVE y[j] = l[j]
  <2>1. CASE j < i - 1
    <3>1. y[j] = x[j]
      BY <1>0, <1>2, <1>3, <2>1
    <3>2. x[j] = l[j]
      BY <1>0, <1>1, <2>1
    <3> QED BY <3>1, <3>2
  <2>2. CASE j > i
    BY <1>0, <1>1, <1>2, <1>3, <2>2
  <2> QED BY <1>0, <1>5, <2>1, <2>2
<1>6. Once(y)
  <2> SUFFICES ASSUME NEW j \in 1 .. Len(l), NEW k \in 1 .. Len(l), y[j] = y[k] PROVE j = k
    BY <1>2, <1>3 DEF Once
  <2>1. i - 1 \in 1 .. Len(l)
    BY <1>0
  <2> QED BY <1>0, <1>4, <1>5, <2>1 DEF Once
<1>7. Elems(y) = Elems(l)
  <2>1. i - 1 \in 1 .. Len(l) /\ Len(y) = Len(l)
    BY <1>0, <1>2, <1>3
  <2>2. ASSUME NEW j \in 1 .. Len(l) PROVE y[j] \in Elems(l)
    BY <1>0, <1>4, <1>5, <2>1 DEF Elems
  <2>3. ASSUME NEW j \in 1 .. Len(l) PROVE l[j] \in Elems(y)
    <3>1. y[i - 1] \in Elems(y) /\ y[i] \in Elems(y) /\ y[j] \in Elems(y)
      BY <1>0, <2>1 DEF Elems
    <3> QED BY <1>4, <1>5, <3>1
  <2> QED BY <2>1, <2>2, <2>3 DEF Elems
<1> QED BY <1>2, <1>3, <1>4, <1>5, <1>6, <1>7 DEF x, y

(* LRUFwd: the middle stays where it is, whatever is there.                *)
LEMMA FwdSound ==
  ASSUME NEW q, Sound(q), NEW e \in Elems(q.l)
  PROVE  LET t == L!LRUFwd(q, e)
         IN  Sound(t) /\ Elems(t.l) = Elems(q.l) /\ Len(t.l) = Len(q.l)
<1> DEFINE l == q.l
           w == q.where
           t == L!LRUFwd(q, e)
<1>1. PICK i \in 1 .. Len(l) : e = l[i]
  BY DEF Elems
<1>2. PICK m \in 1 .. Len(l) : Listed(q, l, m, w) /\ Even(l, m)
  <2>1. Len(l) \in Nat
    BY SoundCases
  <2> QED BY <1>1, <2>1, SoundCases
<1>3. /\ Len(l) \in Nat /\ q.mid = l[m] /\ \A j \in 1 .. Len(l) : L!Index(q, l[j]) = j /\ l[j] # NoMag
      /\ l \in Seq(Mags) /\ Once(l) /\ Sided(l, m, w) /\ q = Rec(l, l[m], m - 1, Len(l) - m, w)
  BY <1>2, ListFields DEF Listed
<1>4. L!lru_e_prev(q, e) = IF i = 1 THEN NoMag ELSE l[i - 1]
  BY <1>1, <1>2, Neighbours
<1>5. CASE i = 1
  <2>1. t = q
    BY <1>4, <1>5 DEF L!LRUFwd
  <2> QED BY <2>1
<1>6. CASE i # 1
  <2> DEFINE p == l[i - 1]
             r == IF q.mid = e THEN L!SetMid(q, p, 0)
                  ELSE IF q.mid = p THEN L!SetMid(q, e, 1) ELSE q
  <2>1. i - 1 \in 1 .. Len(l) /\ i \in 2 .. Len(l) /\ L!lru_e_prev(q, e) = p /\ p # NoMag /\ p # e
        /\ L!Index(q, p) = i - 1
    BY <1>1, <1>3, <1>4, <1>6 DEF Once
  <2>2. t = L!lru_insert(L!lru_remove(r, e), e, i - 1, r.where[e])
    BY <2>1, Zenon DEF L!LRUFwd
  <2>3. \A j \in 1 .. Len(l) : l[j] \in DOMAIN w /\ w[l[j]] = Side(j, m)
    BY <1>3 DEF Sided
  <2>4. \E c, v : /\ r = Rec(l, c, m - 1, Len(l) - m, v) /\ DOMAIN v = DOMAIN w
                  /\ v[p] = Side(i, m) /\ v[e] = Side(i - 1, m)
                  /\ \A j \in 1 .. Len(l) : j # i - 1 /\ j # i => v[l[j]] = Side(j, m)
                  /\ c = IF m = i THEN p ELSE IF m = i - 1 THEN e ELSE l[m]
    <3>1. CASE m = i
      <4> DEFINE v == Moved(w, e, 0, p)
      <4>1. r = Rec(l, p, m - 1, Len(l) - m, v)
        BY <1>1, <1>3, <3>1, RecSetMid
      <4>2. DOMAIN v = DOMAIN w /\ v[p] = Side(i, m) /\ v[e] = Side(i - 1, m)
        BY <1>1, <2>1, <2>3, <3>1 DEF Moved, Side
      <4>3. ASSUME NEW j \in 1 .. Len(l), j # i - 1, j # i PROVE v[l[j]] = Side(j, m)
        <5>1. l[j] # p /\ l[j] # e
          BY <1>1, <1>3, <2>1, <4>3 DEF Once
        <5> QED BY <2>3, <5>1 DEF Moved
      <4> HIDE DEF v, r, p
      <4> QED BY <3>1, <4>1, <4>2, <4>3
    <3>2. CASE m = i - 1
      <4> DEFINE v == Moved(w, p, 1, e)
      <4>1. r = Rec(l, e, m - 1, Len(l) - m, v)
        <5>1. q.mid = p /\ q.mid # e
          BY <1>3, <2>1, <3>2
        <5>2. r = L!SetMid(q, e, 1)
          BY <5>1
        <5> QED BY <1>3, <3>2, <5>2, RecSetMid
      <4>2. DOMAIN v = DOMAIN w /\ v[p] = Side(i, m) /\ v[e] = Side(i - 1, m)
        BY <1>1, <2>1, <2>3, <3>2 DEF Moved, Side
      <4>3. ASSUME NEW j \in 1 .. Len(l), j # i - 1, j # i PROVE v[l[j]] = Side(j, m)
        <5>1. l[j] # p /\ l[j] # e
          BY <1>1, <1>3, <2>1, <4>3 DEF Once
        <5> QED BY <2>3, <5>1 DEF Moved
      <4>4. m # i
        BY <1>1, <3>2
      <4> HIDE DEF v, r, p
      <4> QED BY <3>2, <4>1, <4>2, <4>3, <4>4
    <3>3. CASE m # i /\ m # i - 1
      <4>1. q.mid # e /\ q.mid # p
        BY <1>1, <1>3, <2>1, <3>3 DEF Once
      <4>2. r = Rec(l, l[m], m - 1, Len(l) - m, w)
        BY <1>3, <4>1
      <4>3. w[p] = Side(i, m) /\ w[e] = Side(i - 1, m)
        BY <1>1, <1>3, <2>1, <2>3, <3>3 DEF Side
      <4>4. \A j \in 1 .. Len(l) : w[l[j]] = Side(j, m)
        BY <2>3
      <4> HIDE DEF r, p
      <4> QED BY <3>3, <4>2, <4>3, <4>4
    <3> QED BY <3>1, <3>2, <3>3
  <2>5. PICK c, v : /\ r = Rec(l, c, m - 1, Len(l) - m, v) /\ DOMAIN v = DOMAIN w
                    /\ v[p] = Side(i, m) /\ v[e] = Side(i - 1, m)
                    /\ \A j \in 1 .. Len(l) : j # i - 1 /\ j # i => v[l[j]] = Side(j, m)
                    /\ c = IF m = i THEN p ELSE IF m = i - 1 THEN e ELSE l[m]
    BY <2>4, Zenon
  <2> HIDE DEF r
  <2> DEFINE x == L!RemoveAt(l, i)
             y == L!InsertAt(x, i - 1, e)
             u == With(Without(v, e), e, v[e])
  <2>6. r.l = l /\ r.where = v /\ L!Index(r, e) = i
    <3>1. r.l = l /\ r.where = v
      BY <2>5, RecFields
    <3> QED BY <1>1, <1>3, <3>1, IndexIs
  <2>7. L!lru_remove(r, e) = Rec(x, c, m - 1, Len(l) - m, Without(v, e))
    BY <2>5, <2>6, RecRemove
  <2>8. t = Rec(y, c, m - 1, Len(l) - m, u)
    BY <2>2, <2>6, <2>7, RecInsert
  <2>9. /\ y \in Seq(Mags) /\ Len(y) = Len(l) /\ Once(y) /\ Elems(y) = Elems(l)
        /\ y[i - 1] = e /\ y[i] = p
        /\ \A j \in 1 .. Len(l) : j # i - 1 /\ j # i => y[j] = l[j]
    BY <1>1, <1>3, <2>1, Swapped
  <2>10. DOMAIN u = DOMAIN v /\ \A z \in DOMAIN v : u[z] = v[z]
    <3>1. e \in DOMAIN v
      BY <1>1, <2>3, <2>5
    <3> QED BY <3>1 DEF With, Without
  <2>11. DOMAIN u = Elems(y)
    BY <1>3, <2>5, <2>9, <2>10 DEF Sided, Elems
  <2> HIDE DEF x, y, u, t
  <2>12. ASSUME NEW j \in 1 .. Len(y) PROVE u[y[j]] = Side(j, m)
    <3>1. y[j] \in DOMAIN v /\ u[y[j]] = v[y[j]]
      BY <2>10, <2>11 DEF Elems
    <3>2. CASE j = i
      BY <2>5, <2>9, <3>1, <3>2
    <3>3. CASE j = i - 1
      BY <2>5, <2>9, <3>1, <3>3
    <3>4. CASE j # i /\ j # i - 1
      BY <2>5, <2>9, <3>1, <3>4
    <3> QED BY <3>2, <3>3, <3>4
  <2>13. y[m] = c
    BY <2>5, <2>9
  <2>14. Listed(t, y, m, u)
    BY <2>8, <2>9, <2>11, <2>12, <2>13 DEF Listed, Sided, Elems
  <2>15. Even(y, m)
    BY <1>2, <2>9 DEF Even
  <2>16. Sound(t) /\ t.l = y
    BY <2>14, <2>15, SoundList
  <2> QED BY <2>9, <2>16 DEF t
<1> QED BY <1>5, <1>6

(* An element beside the middle is taken out and the list balanced.        *)
Dropped(q, e) ==
  LET s == L!lru_remove(q, e)
  IN  IF q.where[e] = 0 THEN L!lru_balance(LessBefore(s))
      ELSE IF q.where[e] = 1 THEN L!lru_balance(LessBehind(s)) ELSE L!LRUInit

(* LRURemove of an element beside the middle, from a list at most two out  *)
(* of balance.                                                             *)
LEMMA RemoveAside ==
  ASSUME NEW q, NEW l, NEW m, NEW w, Listed(q, l, m, w), NEW i \in 1 .. Len(l), i # m,
         i < m => m - 2 - (Len(l) - m) \in -2 .. 1,
         i > m => m - 1 - (Len(l) - 1 - m) \in -2 .. 1
  PROVE  LET t == Dropped(q, l[i])
         IN  Sound(t) /\ Elems(t.l) = Elems(l) \ {l[i]} /\ Len(t.l) = Len(l) - 1
<1> DEFINE s == L!lru_remove(q, l[i])
           t == Dropped(q, l[i])
<1>1. PICK r, v : TakenOut(q, l, m, i, r, v)
  BY RemoveOther
<1>2. q.where[l[i]] = Side(i, m) /\ Len(l) \in Nat /\ m \in 1 .. Len(l)
  BY ListFields DEF Listed, Sided
<1>3. CASE i < m
  <2> DEFINE z == LessBefore(s)
  <2>1. /\ s = Rec(r, r[m - 1], m - 1, Len(l) - m, v)
        /\ r \in Seq(Mags) /\ Once(r) /\ m - 1 \in 1 .. Len(r) /\ Sided(r, m - 1, v)
        /\ Len(r) = Len(l) - 1 /\ Elems(r) = Elems(l) \ {l[i]}
    BY <1>1, <1>3 DEF TakenOut
  <2>2. z = Rec(r, r[m - 1], m - 1 - 1, Len(l) - m, v)
    BY <2>1, RecBeforeLess
  <2>3. t = L!lru_balance(z)
    BY <1>2, <1>3 DEF Side, Dropped
  <2> HIDE DEF t, z, s
  <2>4. Len(l) - m = Len(r) - (m - 1) /\ m - 1 - 1 - (Len(r) - (m - 1)) \in -2 .. 1
    BY <1>2, <1>3, <2>1
  <2>5. Listed(z, r, m - 1, v)
    BY <2>1, <2>2, <2>4 DEF Listed
  <2>6. Sound(t) /\ t.l = r
    BY <2>3, <2>4, <2>5, Balances
  <2> QED BY <2>1, <2>6 DEF t, s
<1>4. CASE i > m
  <2> DEFINE z == LessBehind(s)
  <2>0. (IF i < m THEN m - 1 ELSE m) = m
    BY <1>2, <1>4
  <2>1. /\ s = Rec(r, r[m], m - 1, Len(l) - m, v)
        /\ r \in Seq(Mags) /\ Once(r) /\ m \in 1 .. Len(r) /\ Sided(r, m, v)
        /\ Len(r) = Len(l) - 1 /\ Elems(r) = Elems(l) \ {l[i]}
    BY <1>1, <2>0 DEF TakenOut
  <2>2. z = Rec(r, r[m], m - 1, Len(l) - m - 1, v)
    BY <2>1, RecBehindLess
  <2>3. t = L!lru_balance(z)
    BY <1>2, <1>4 DEF Side, Dropped
  <2> HIDE DEF t, z, s
  <2>4. Len(l) - m - 1 = Len(r) - m /\ m - 1 - (Len(r) - m) \in -2 .. 1
    BY <1>2, <1>4, <2>1
  <2>5. Listed(z, r, m, v)
    BY <2>1, <2>2, <2>4 DEF Listed
  <2>6. Sound(t) /\ t.l = r
    BY <2>3, <2>4, <2>5, Balances
  <2> QED BY <2>1, <2>6 DEF t, s
<1> QED BY <1>2, <1>3, <1>4

(* LRURemove: if it is the middle that goes, its neighbour is made the     *)
(* middle first.                                                           *)
LEMMA RemoveSound ==
  ASSUME NEW q, Sound(q), NEW e \in Elems(q.l)
  PROVE  LET t == L!LRURemove(q, e)
         IN  Sound(t) /\ Elems(t.l) = Elems(q.l) \ {e} /\ Len(t.l) = Len(q.l) - 1
<1> DEFINE l == q.l
           w == q.where
           t == L!LRURemove(q, e)
           prev == L!lru_e_prev(q, e)
           next == L!lru_e_next(q, e)
           r == IF e # q.mid THEN q
                ELSE IF prev # NoMag THEN ToLeft(L!SetMid(q, prev, 1))
                ELSE IF next # NoMag THEN ToRight(L!SetMid(q, next, 0))
                ELSE q
<1>1. PICK i \in 1 .. Len(l) : e = l[i]
  BY DEF Elems
<1>2. PICK m \in 1 .. Len(l) : Listed(q, l, m, w) /\ Even(l, m)
  <2>1. Len(l) \in Nat
    BY SoundCases
  <2> QED BY <1>1, <2>1, SoundCases
<1>3. /\ Len(l) \in Nat /\ q.mid = l[m] /\ q.before = m - 1 /\ q.behind = Len(l) - m
      /\ \A j \in 1 .. Len(l) : l[j] # NoMag
      /\ l \in Seq(Mags) /\ Once(l) /\ Sided(l, m, w)
  BY <1>2, ListFields DEF Listed
<1>4. /\ prev = IF i = 1 THEN NoMag ELSE l[i - 1]
      /\ next = IF i = Len(l) THEN NoMag ELSE l[i + 1]
  BY <1>1, <1>2, Neighbours
<1>5. t = Dropped(r, e)
  BY Zenon DEF L!LRURemove, Dropped, ToLeft, ToRight, LessBefore, LessBehind
<1>6. m - 1 = Len(l) - m \/ m - 1 = Len(l) - m - 1
  BY <1>2 DEF Even
<1>7. ASSUME NEW n, NEW v, Listed(r, l, n, v), i # n,
             i < n => n - 2 - (Len(l) - n) \in -2 .. 1,
             i > n => n - 1 - (Len(l) - 1 - n) \in -2 .. 1
      PROVE  Sound(t) /\ Elems(t.l) = Elems(q.l) \ {e} /\ Len(t.l) = Len(q.l) - 1
  <2> HIDE DEF t, r
  <2> QED BY <1>1, <1>5, <1>7, RemoveAside
<1>8. CASE i # m
  <2>1. e # q.mid
    BY <1>1, <1>3, <1>8 DEF Once
  <2>2. r = q
    BY <2>1
  <2>3. i < m => m - 2 - (Len(l) - m) \in -2 .. 1
    BY <1>3, <1>6
  <2>4. i > m => m - 1 - (Len(l) - 1 - m) \in -2 .. 1
    BY <1>3, <1>6
  <2>5. Listed(r, l, m, w)
    BY <1>2, <2>2
  <2> HIDE DEF r, t
  <2> QED BY <1>7, <1>8, <2>3, <2>4, <2>5 DEF t
<1>9. CASE i = m /\ i # 1
  <2>1. e = q.mid /\ prev = l[m - 1] /\ prev # NoMag /\ ~(q.before < 1) /\ m > 1
    BY <1>1, <1>3, <1>4, <1>9
  <2>2. r = L!lru_l(q)
    BY <2>1, Zenon DEF L!lru_l, ToLeft
  <2>3. PICK v : Listed(r, l, m - 1, v)
    BY <1>2, <2>1, <2>2, ShiftLeft
  <2>4. i # m - 1 /\ ~(i < m - 1) /\ (m - 1) - 1 - (Len(l) - 1 - (m - 1)) \in -2 .. 1
    <3> HIDE DEF l
    <3> QED BY <1>3, <1>6, <1>9
  <2> HIDE DEF r, t
  <2> QED BY <1>7, <2>3, <2>4 DEF t
<1>10. CASE i = m /\ i = 1 /\ Len(l) # 1
  <2>1. e = q.mid /\ prev = NoMag /\ next = l[m + 1] /\ next # NoMag /\ ~(q.behind < 1) /\ m < Len(l)
    <3>1. Len(l) > 1 /\ m + 1 \in 1 .. Len(l) /\ m < Len(l) /\ i # Len(l) /\ ~(Len(l) - m < 1)
      <4> DEFINE k == Len(l)
      <4>1. k \in Nat /\ m \in 1 .. k /\ k # 1 /\ i = m /\ i = 1
        BY <1>3, <1>10
      <4> HIDE DEF k
      <4>2. k > 1 /\ m + 1 \in 1 .. k /\ m < k /\ i # k /\ ~(k - m < 1)
        BY <4>1
      <4> QED BY <4>2 DEF k
    <3> QED BY <1>1, <1>3, <1>4, <1>10, <3>1
  <2>2. r = L!lru_r(q)
    BY <2>1, Zenon DEF L!lru_r, ToRight
  <2>3. PICK v : Listed(r, l, m + 1, v)
    BY <1>2, <2>1, <2>2, ShiftRight
  <2>4. i # m + 1 /\ ~(i > m + 1) /\ (m + 1) - 2 - (Len(l) - (m + 1)) \in -2 .. 1
    BY <1>3, <1>6, <1>10
  <2> HIDE DEF r, t
  <2> QED BY <1>7, <2>3, <2>4 DEF t
<1>11. CASE i = m /\ i = 1 /\ Len(l) = 1
  <2>1. e = q.mid /\ prev = NoMag /\ next = NoMag
    BY <1>1, <1>3, <1>4, <1>11
  <2>2. r = q
    BY <2>1
  <2>3. r.where[e] = 2
    BY <1>1, <1>3, <1>11, <2>2 DEF Sided, Side
  <2>4. t = L!LRUInit
    BY <1>5, <2>3 DEF Dropped
  <2>5. Elems(l) = {e}
    BY <1>1, <1>11 DEF Elems
  <2>6. Sound(t) /\ t.l = <<>>
    BY <2>4, InitList
  <2>7. Elems(t.l) = {} /\ Len(t.l) = 0
    BY <2>6 DEF Elems
  <2> HIDE DEF r, t
  <2> QED BY <1>11, <2>5, <2>6, <2>7 DEF t
<1> QED BY <1>8, <1>9, <1>10, <1>11

-----------------------------------------------------------------------------
(* Evicting k elements.                                                    *)

(* Induction over the natural numbers, for a set.                          *)
LEMMA NatSetInduction ==
  ASSUME NEW S \in SUBSET Nat, 0 \in S, \A n \in S : n + 1 \in S
  PROVE  S = Nat
<1> DEFINE T == Nat \ S
           R == OpToRel(<, Nat)
<1> SUFFICES ASSUME T # {} PROVE FALSE
  OBVIOUS
<1>1. IsWellFoundedOn(R, Nat)
  BY NatLessThanWellFounded
<1>2. \A i, j \in Nat : <<i, j>> \in R <=> i < j
  BY DEF OpToRel
<1> HIDE DEF R
<1>3. PICK x \in T : \A y \in T : ~(<<y, x>> \in R)
  BY <1>1, WFMin
<1>4. x \in Nat /\ x \notin S
  OBVIOUS
<1>5. x # 0 /\ x - 1 \in Nat /\ x = (x - 1) + 1
  BY <1>4
<1>6. x - 1 \in S
  <2>1. <<x - 1, x>> \in R
    BY <1>2, <1>4, <1>5
  <2>2. x - 1 \notin T
    BY <1>3, <2>1
  <2> QED BY <1>5, <2>2
<1> QED BY <1>4, <1>5, <1>6

(* F is the function Shortened is computed with, up to n.                  *)
Shrinks(F, q, n) ==
  /\ F[0] = q
  /\ \A i \in 1 .. n : F[i] = L!LRURemoveLast(F[i - 1])

(* Shortened is the last of the lists its recursive function computes.     *)
LEMMA ShortenedRec ==
  ASSUME NEW q, NEW k \in Nat
  PROVE  \E F : Shrinks(F, q, k) /\ Shortened(q, k) = F[k]
<1> DEFINE Body(F) == [i \in 0 .. k |-> IF i = 0 THEN q ELSE L!LRURemoveLast(F[i - 1])]
           K == CHOOSE F : F = Body(F)
           N == {n \in Nat : \E F : Shrinks(F, q, n)}
<1>1. N = Nat
  <2>1. 0 \in N
    <3> DEFINE F == [i \in {0} |-> q]
    <3>1. Shrinks(F, q, 0)
      BY DEF Shrinks
    <3> QED BY <3>1
  <2>2. ASSUME NEW n \in N PROVE n + 1 \in N
    <3>1. PICK F : Shrinks(F, q, n)
      OBVIOUS
    <3> DEFINE G == [i \in 0 .. n + 1 |-> IF i <= n THEN F[i] ELSE L!LRURemoveLast(F[n])]
    <3>2. n \in Nat
      OBVIOUS
    <3> HIDE DEF N
    <3>3. (\A i \in 0 .. n : G[i] = F[i]) /\ G[n + 1] = L!LRURemoveLast(F[n])
      BY <3>2
    <3> HIDE DEF G
    <3>4. ASSUME NEW i \in 1 .. n + 1 PROVE G[i] = L!LRURemoveLast(G[i - 1])
      <4>1. CASE i <= n
        <5>1. i \in 1 .. n /\ i - 1 \in 0 .. n /\ i \in 0 .. n
          BY <3>2, <4>1
        <5> QED BY <3>1, <3>3, <5>1 DEF Shrinks
      <4>2. CASE ~(i <= n)
        <5>1. i = n + 1 /\ i - 1 = n /\ n \in 0 .. n
          BY <3>2, <4>2
        <5> QED BY <3>3, <5>1
      <4> QED BY <4>1, <4>2
    <3>5. G[0] = q
      BY <3>1, <3>2, <3>3 DEF Shrinks
    <3>6. Shrinks(G, q, n + 1)
      BY <3>4, <3>5 DEF Shrinks
    <3> QED BY <3>2, <3>6 DEF N
  <2> HIDE DEF N
  <2>3. N \in SUBSET Nat
    BY DEF N
  <2> QED BY <2>1, <2>2, <2>3, NatSetInduction
<1>2. PICK F0 : Shrinks(F0, q, k)
  BY <1>1
<1>3. \E F : F = Body(F)
  <2> DEFINE F == [i \in 0 .. k |-> F0[i]]
  <2>1. ASSUME NEW i \in 0 .. k PROVE F[i] = Body(F)[i]
    <3>1. CASE i = 0
      BY <1>2, <3>1 DEF Shrinks
    <3>2. CASE i # 0
      <4>1. i \in 1 .. k /\ i - 1 \in 0 .. k
        BY <3>2
      <4> QED BY <1>2, <3>2, <4>1 DEF Shrinks
    <3> QED BY <3>1, <3>2
  <2>2. F = Body(F)
    BY <2>1
  <2> QED BY <2>2
<1>4. K = Body(K)
  BY <1>3
<1>5. Shortened(q, k) = K[k]
  BY DEF Shortened
<1> HIDE DEF K
<1>6. Shrinks(K, q, k)
  <2>1. K[0] = q
    BY <1>4
  <2>2. ASSUME NEW i \in 1 .. k PROVE K[i] = L!LRURemoveLast(K[i - 1])
    <3>1. Body(K)[i] = L!LRURemoveLast(K[i - 1])
      OBVIOUS
    <3> HIDE DEF Body
    <3> QED BY <1>4, <3>1
  <2> QED BY <2>1, <2>2 DEF Shrinks
<1> QED BY <1>5, <1>6

(* What is left are the first elements of the list.                        *)
LEMMA ShortenedSound ==
  ASSUME NEW q, Sound(q), NEW k \in 0 .. Len(q.l)
  PROVE  LET t == Shortened(q, k)
         IN  /\ Sound(t) /\ Len(t.l) = Len(q.l) - k
             /\ \A i \in 1 .. Len(t.l) : t.l[i] = q.l[i]
<1> DEFINE Left(t, n) == /\ Sound(t) /\ Len(t.l) = Len(q.l) - n
                         /\ \A i \in 1 .. Len(t.l) : t.l[i] = q.l[i]
<1>0. Len(q.l) \in Nat /\ k \in Nat
  BY SoundCases
<1>1. PICK F : Shrinks(F, q, k) /\ Shortened(q, k) = F[k]
  BY <1>0, ShortenedRec
<1> DEFINE N == {n \in Nat : n <= k => Left(F[n], n)}
<1>2. 0 \in N
  <2>1. F[0] = q
    BY <1>1 DEF Shrinks
  <2>2. Left(q, 0)
    BY <1>0
  <2> HIDE DEF Left
  <2> QED BY <2>1, <2>2
<1>3. ASSUME NEW n \in N PROVE n + 1 \in N
  <2> SUFFICES ASSUME n + 1 <= k PROVE Left(F[n + 1], n + 1)
    <3> HIDE DEF Left
    <3> QED OBVIOUS
  <2>1. n \in Nat /\ n <= k /\ Left(F[n], n)
    <3> HIDE DEF Left
    <3> QED BY <1>0
  <2> HIDE DEF N
  <2>2. n + 1 \in 1 .. k /\ n + 1 - 1 = n
    BY <1>0, <2>1
  <2>3. F[n + 1] = L!LRURemoveLast(F[n])
    <3> DEFINE j == n + 1
    <3>1. j \in 1 .. k /\ j - 1 = n
      BY <1>0, <2>1
    <3> HIDE DEF j
    <3>2. F[j] = L!LRURemoveLast(F[j - 1])
      BY <1>1, <3>1 DEF Shrinks
    <3> QED BY <3>1, <3>2 DEF j
  <2> DEFINE a == F[n]
             b == L!LRURemoveLast(a)
  <2>4. Sound(a) /\ Len(a.l) = Len(q.l) - n /\ Len(a.l) > 0
    BY <1>0, <2>1, <2>2
  <2>5. Sound(b) /\ Len(b.l) = Len(a.l) - 1 /\ \A i \in 1 .. Len(b.l) : b.l[i] = a.l[i]
    <3> HIDE DEF a
    <3> QED BY <2>4, RemoveLastSound
  <2>6. \A i \in 1 .. Len(a.l) : a.l[i] = q.l[i]
    BY <2>1
  <2>7. Left(b, n + 1)
    <3> HIDE DEF a, b
    <3>1. Len(b.l) = Len(q.l) - (n + 1)
      BY <1>0, <2>1, <2>4, <2>5
    <3>2. ASSUME NEW i \in 1 .. Len(b.l) PROVE b.l[i] = q.l[i]
      <4>1. i \in 1 .. Len(a.l)
        BY <1>0, <2>1, <2>4, <2>5
      <4> QED BY <2>5, <2>6, <4>1
    <3> QED BY <2>5, <3>1, <3>2
  <2> HIDE DEF Left
  <2> QED BY <2>3, <2>7
<1> HIDE DEF N
<1>4. N = Nat
  <2>1. N \in SUBSET Nat
    BY DEF N
  <2> QED BY <1>2, <1>3, <2>1, NatSetInduction
<1>5. Left(F[k], k)
  <2> HIDE DEF Left
  <2> QED BY <1>0, <1>4 DEF N
<1> QED BY <1>1, <1>5

-----------------------------------------------------------------------------
(* The store.                                                              *)

(* Magazine m is on the list l and in memory with the packets P says, or   *)
(* its block, which is not that of the index R, has them.                  *)
Node(M, l, B, P, R, m) ==
  \/ m \in Elems(l) /\ M[m] = InMemory(P[m])
  \/ m \notin Elems(l) /\ \E b \in DOMAIN B \ {R} : M[m] = OnDisk(b) /\ B[b] = [n |-> P[m]]

(* No block is shared and none but the index belongs to no magazine.       *)
Apart(M, B) == \A m, k \in DOMAIN M : \A b \in DOMAIN B : M[m] = OnDisk(b) /\ M[k] = OnDisk(b) => m = k

Owned(M, B, R) == \A b \in DOMAIN B \ {R} : \E m \in DOMAIN M : M[m] = OnDisk(b)

(* The parts of the store agree.                                           *)
Home(M, q, B, P, R) ==
  /\ Sound(q) /\ Elems(q.l) \subseteq DOMAIN M
  /\ DOMAIN M = DOMAIN P /\ DOMAIN P \subseteq Mags
  /\ \A m \in DOMAIN P : P[m] \in 0 .. MaxPk
  /\ DOMAIN B \subseteq Ptrs /\ (R = NoPtr \/ R \in DOMAIN B)
  /\ \A m \in DOMAIN M : Node(M, q.l, B, P, R, m)
  /\ Apart(M, B) /\ Owned(M, B, R)

(* A magazine in memory is none on disk.                                   *)
LEMMA NodeKinds ==
  /\ \A n : InMemory(n).on_disk = FALSE /\ InMemory(n).n = n
  /\ \A p : OnDisk(p).on_disk = TRUE /\ OnDisk(p).p = p
  /\ \A p, o : OnDisk(p) = OnDisk(o) => p = o
  /\ \A n, p : InMemory(n) # OnDisk(p)
<1>1. \A n : InMemory(n).on_disk = FALSE /\ InMemory(n).n = n
  BY DEF InMemory
<1>2. \A p : OnDisk(p).on_disk = TRUE /\ OnDisk(p).p = p
  BY DEF OnDisk
<1>3. \A p, o : OnDisk(p) = OnDisk(o) => p = o
  <2> SUFFICES ASSUME NEW p, NEW o, OnDisk(p) = OnDisk(o) PROVE p = o
    OBVIOUS
  <2>1. OnDisk(p).p = OnDisk(o).p
    OBVIOUS
  <2> QED BY <1>2, <2>1
<1>4. ASSUME NEW n, NEW p, InMemory(n) = OnDisk(p) PROVE FALSE
  <2>1. InMemory(n).on_disk = OnDisk(p).on_disk
    BY <1>4
  <2>2. FALSE = TRUE
    BY <1>1, <1>2, <2>1
  <2> QED BY <2>2
<1> QED BY <1>1, <1>2, <1>3, <1>4

(* No block handed out by the allocator is in use.                         *)
LEMMA PlacesFresh ==
  ASSUME NEW s, NEW k, NEW where \in Places(s, k)
  PROVE  /\ DOMAIN where = Victims(s, k)
         /\ \A m \in Victims(s, k) : where[m] \in Ptrs /\ where[m] \notin DOMAIN s.blocks
         /\ \A m, j \in Victims(s, k) : where[m] = where[j] => m = j
BY DEF Places, Injection, IsInjective

(* Swapping out k magazines moves each to a block of its own and keeps its *)
(* packets.                                                                *)
LEMMA SwapOutHome ==
  ASSUME NEW s, NEW P, NEW R, Home(s.mag, s.lru, s.blocks, P, R),
         NEW k \in 0 .. Len(s.lru.l), NEW where \in Places(s, k)
  PROVE  LET t == SwapOut(s, k, where)
         IN  /\ Home(t.mag, t.lru, t.blocks, P, R)
             /\ Len(t.lru.l) = Len(s.lru.l) - k
             /\ DOMAIN t.mag = DOMAIN s.mag
             /\ \A m \in DOMAIN s.mag : m \notin Elems(s.lru.l) => t.mag[m] = s.mag[m] /\ m \notin Elems(t.lru.l)
<1> DEFINE M == s.mag
           B == s.blocks
           l == s.lru.l
           t == SwapOut(s, k, where)
           gone == Victims(s, k)
           r == t.lru.l
<1>1. /\ t.mag = [m \in DOMAIN M |-> IF m \in gone THEN OnDisk(where[m]) ELSE M[m]]
      /\ t.lru = Shortened(s.lru, k)
      /\ t.blocks = [p \in DOMAIN B \cup Range(where) |->
                       IF p \in Range(where) THEN [n |-> M[CHOOSE m \in gone : where[m] = p].n] ELSE B[p]]
  BY DEF SwapOut
<1>2. /\ DOMAIN where = gone
      /\ \A m \in gone : where[m] \in Ptrs /\ where[m] \notin DOMAIN B
      /\ \A m, j \in gone : where[m] = where[j] => m = j
  BY PlacesFresh
<1>3. \A p : p \in Range(where) <=> \E m \in gone : p = where[m]
  BY <1>2 DEF Range
<1>4. Len(l) \in Nat /\ Once(l) /\ Sound(s.lru) /\ k \in 0 .. Len(l)
  BY SoundCases DEF Home
<1>5. Sound(t.lru) /\ Len(r) = Len(l) - k /\ \A i \in 1 .. Len(r) : r[i] = l[i]
  BY <1>1, <1>4, ShortenedSound
<1>6. gone \subseteq Elems(l) /\ Elems(r) = Elems(l) \ gone
  <2>1. \A x : x \in gone <=> \E i \in Len(l) - k + 1 .. Len(l) : x = l[i]
    BY DEF Victims
  <2>2. \A x : x \in Elems(r) <=> \E i \in 1 .. Len(l) - k : x = l[i]
    BY <1>5 DEF Elems
  <2>3. \A x : x \in Elems(l) <=> \E i \in 1 .. Len(l) : x = l[i]
    BY DEF Elems
  <2> HIDE DEF l, r, gone
  <2>4. \A i \in 1 .. Len(l) : i \in 1 .. Len(l) - k \/ i \in Len(l) - k + 1 .. Len(l)
    BY <1>4
  <2>5. \A i \in 1 .. Len(l) - k : i \in 1 .. Len(l)
    BY <1>4
  <2>6. \A i \in Len(l) - k + 1 .. Len(l) : i \in 1 .. Len(l)
    BY <1>4
  <2>7. \A i \in 1 .. Len(l) - k, j \in Len(l) - k + 1 .. Len(l) : l[i] # l[j]
    <3> SUFFICES ASSUME NEW i \in 1 .. Len(l) - k, NEW j \in Len(l) - k + 1 .. Len(l) PROVE l[i] # l[j]
      OBVIOUS
    <3>1. i # j
      BY <1>4
    <3> QED BY <1>4, <2>5, <2>6, <3>1 DEF Once
  <2> QED BY <2>1, <2>2, <2>3, <2>4, <2>5, <2>6, <2>7
<1>7. /\ DOMAIN t.mag = DOMAIN M
      /\ \A m \in DOMAIN M : t.mag[m] = IF m \in gone THEN OnDisk(where[m]) ELSE M[m]
  BY <1>1
<1>8. DOMAIN t.blocks = DOMAIN B \cup Range(where) /\ \A b \in DOMAIN B : t.blocks[b] = B[b]
  <2>1. \A b \in DOMAIN B : b \notin Range(where)
    BY <1>2, <1>3
  <2> QED BY <1>1, <2>1
<1>9. ASSUME NEW m \in gone PROVE where[m] \in DOMAIN t.blocks /\ t.blocks[where[m]] = [n |-> P[m]]
  <2>1. where[m] \in Range(where)
    BY <1>3
  <2>2. (CHOOSE j \in gone : where[j] = where[m]) = m
    BY <1>2
  <2>3. m \in DOMAIN M /\ m \in Elems(l)
    BY <1>6 DEF Home
  <2>4. M[m] = InMemory(P[m])
    BY <2>3 DEF Home, Node
  <2>5. M[m].n = P[m]
    BY <2>4, NodeKinds
  <2> HIDE DEF gone, M, t
  <2>6. t.blocks[where[m]] = [n |-> M[CHOOSE j \in gone : where[j] = where[m]].n]
    BY <1>1, <2>1
  <2> QED BY <1>8, <2>1, <2>2, <2>5, <2>6
<1> HIDE DEF t, gone
<1>10. ASSUME NEW m \in DOMAIN M PROVE Node(t.mag, r, t.blocks, P, R, m)
  <2>1. Node(M, l, B, P, R, m)
    BY DEF Home
  <2>2. CASE m \in gone
    <3>1. where[m] # R
      BY <1>2, <2>2, VtStoreAssumption DEF Home
    <3>2. m \notin Elems(r) /\ t.mag[m] = OnDisk(where[m])
      BY <1>6, <1>7, <2>2
    <3> QED BY <1>9, <2>2, <3>1, <3>2 DEF Node
  <2>3. CASE m \in Elems(l) \ gone
    <3>1. M[m] = InMemory(P[m])
      BY <2>1, <2>3 DEF Node
    <3> QED BY <1>6, <1>7, <2>3, <3>1 DEF Node
  <2>4. CASE m \notin Elems(l)
    <3>1. PICK b \in DOMAIN B \ {R} : M[m] = OnDisk(b) /\ B[b] = [n |-> P[m]]
      BY <2>1, <2>4 DEF Node
    <3>2. m \notin gone /\ m \notin Elems(r) /\ b \in DOMAIN t.blocks \ {R}
      BY <1>6, <1>8, <2>4
    <3>3. t.mag[m] = OnDisk(b) /\ t.blocks[b] = [n |-> P[m]]
      BY <1>7, <1>8, <3>1, <3>2
    <3> QED BY <3>2, <3>3 DEF Node
  <2> QED BY <2>2, <2>3, <2>4
<1>11. Apart(t.mag, t.blocks)
  <2> SUFFICES ASSUME NEW m \in DOMAIN M, NEW j \in DOMAIN M, NEW b,
                      t.mag[m] = OnDisk(b), t.mag[j] = OnDisk(b)
               PROVE  m = j
    BY <1>7 DEF Apart
  <2>a. ASSUME NEW x \in DOMAIN M, x \notin gone, t.mag[x] = OnDisk(b)
        PROVE  b \in DOMAIN B /\ M[x] = OnDisk(b)
    <3>1. M[x] = OnDisk(b)
      BY <1>7, <2>a
    <3>2. Node(M, l, B, P, R, x)
      BY DEF Home
    <3> QED BY <3>1, <3>2, NodeKinds DEF Node
  <2>b. ASSUME NEW x \in DOMAIN M, x \in gone, t.mag[x] = OnDisk(b)
        PROVE  b = where[x]
    BY <1>7, <2>b, NodeKinds
  <2>1. CASE m \in gone /\ j \in gone
    BY <1>2, <2>b, <2>1
  <2>2. CASE m \in gone /\ j \notin gone
    BY <1>2, <2>a, <2>b, <2>2
  <2>3. CASE m \notin gone /\ j \in gone
    BY <1>2, <2>a, <2>b, <2>3
  <2>4. CASE m \notin gone /\ j \notin gone
    BY <2>a, <2>4 DEF Home, Apart
  <2> QED BY <2>1, <2>2, <2>3, <2>4
<1>12. Owned(t.mag, t.blocks, R)
  <2> SUFFICES ASSUME NEW b \in DOMAIN t.blocks \ {R} PROVE \E m \in DOMAIN M : t.mag[m] = OnDisk(b)
    BY <1>7 DEF Owned
  <2>1. CASE b \in DOMAIN B
    <3>1. PICK m \in DOMAIN M : M[m] = OnDisk(b)
      BY <2>1 DEF Home, Owned
    <3>2. m \notin gone
      <4> SUFFICES ASSUME m \in gone PROVE FALSE
        OBVIOUS
      <4>1. Node(M, l, B, P, R, m) /\ m \in Elems(l)
        BY <1>6 DEF Home
      <4> QED BY <3>1, <4>1, NodeKinds DEF Node
    <3> QED BY <1>7, <3>1, <3>2
  <2>2. CASE b \notin DOMAIN B
    <3>1. PICK m \in gone : b = where[m]
      BY <1>3, <1>8, <2>2
    <3>2. m \in DOMAIN M
      BY <1>6 DEF Home
    <3> QED BY <1>7, <3>1, <3>2
  <2> QED BY <2>1, <2>2
<1>13. DOMAIN t.blocks \subseteq Ptrs /\ (R = NoPtr \/ R \in DOMAIN t.blocks)
  BY <1>2, <1>3, <1>8 DEF Home
<1>14. Home(t.mag, t.lru, t.blocks, P, R)
  <2>1. Elems(r) \subseteq DOMAIN M
    BY <1>6 DEF Home
  <2> QED BY <1>5, <1>7, <1>10, <1>11, <1>12, <1>13, <2>1 DEF Home
<1>15. \A m \in DOMAIN M : m \notin Elems(l) => t.mag[m] = M[m] /\ m \notin Elems(r)
  BY <1>6, <1>7
<1> QED BY <1>5, <1>7, <1>14, <1>15 DEF t

(* What a call works on.                                                   *)
Tri(M, q, B) == [mag |-> M, lru |-> q, blocks |-> B]

IsTri(s) == s = Tri(s.mag, s.lru, s.blocks)

(* Packets put, with none into m if it is new.                             *)
Zeroed(P, m) == [x \in DOMAIN P \cup {m} |-> IF x \in DOMAIN P THEN P[x] ELSE 0]

(* The number of packets counts, not the function that says it.            *)
LEMMA HomeSame ==
  ASSUME NEW M, NEW q, NEW B, NEW P, NEW Q, NEW R, Home(M, q, B, P, R),
         DOMAIN Q = DOMAIN P, \A x \in DOMAIN P : Q[x] = P[x]
  PROVE  Home(M, q, B, Q, R)
<1>1. ASSUME NEW m \in DOMAIN M PROVE Node(M, q.l, B, Q, R, m)
  <2>1. Node(M, q.l, B, P, R, m) /\ Q[m] = P[m]
    BY DEF Home
  <2> QED BY <2>1 DEF Node
<1> QED BY <1>1 DEF Home

(* A magazine in memory is on the list, one on disk is not.                *)
Resides(M, l, B, P, R, m) ==
  \/ m \in Elems(l) /\ M[m] = InMemory(P[m]) /\ M[m].on_disk = FALSE
  \/ /\ m \notin Elems(l) /\ M[m].on_disk = TRUE
     /\ M[m] = OnDisk(M[m].p) /\ M[m].p \in DOMAIN B \ {R} /\ B[M[m].p] = [n |-> P[m]]

(* Every known magazine is in one of the two places.                       *)
LEMMA HomeCases ==
  ASSUME NEW M, NEW q, NEW B, NEW P, NEW R, Home(M, q, B, P, R), NEW m \in DOMAIN M
  PROVE  Resides(M, q.l, B, P, R, m)
<1>1. Node(M, q.l, B, P, R, m)
  BY DEF Home
<1>2. CASE m \in Elems(q.l)
  <2>1. M[m] = InMemory(P[m])
    BY <1>1, <1>2 DEF Node
  <2> QED BY <1>2, <2>1, NodeKinds DEF Resides
<1>3. CASE m \notin Elems(q.l)
  <2>1. PICK b \in DOMAIN B \ {R} : M[m] = OnDisk(b) /\ B[b] = [n |-> P[m]]
    BY <1>1, <1>3 DEF Node
  <2>2. M[m].on_disk = TRUE /\ M[m].p = b
    BY <2>1, NodeKinds
  <2> QED BY <1>3, <2>1, <2>2 DEF Resides
<1> QED BY <1>2, <1>3

(* Room for one is made, and no more.                                      *)
LEMMA ExcessIs ==
  ASSUME NEW s, Sound(s.lru), NEW limit \in Nat \ {0}
  PROVE  /\ Excess(s, limit) \in 0 .. Len(s.lru.l)
         /\ Len(s.lru.l) - Excess(s, limit) < limit
<1>1. L!LRUGetSize(s.lru) = Len(s.lru.l) /\ Len(s.lru.l) \in Nat
  BY SizeIs, SoundCases
<1> DEFINE k == Len(s.lru.l)
           x == Excess(s, limit)
<1>2. x = IF k < limit THEN 0 ELSE k - limit + 1
  BY <1>1 DEF Excess
<1>3. k \in Nat
  BY <1>1
<1> HIDE DEF k, x
<1>4. x \in 0 .. k /\ k - x < limit
  BY <1>2, <1>3
<1> QED BY <1>4 DEF k, x

(* A new magazine.                                                         *)
LEMMA NewHome ==
  ASSUME NEW M, NEW q, NEW B, NEW P, NEW R, Home(M, q, B, P, R), NEW m \in Mags, m \notin DOMAIN M
  PROVE  LET N == [x \in DOMAIN M \cup {m} |-> IF x = m THEN InMemory(0) ELSE M[x]]
             r == L!LRUPutMid(q, m)
         IN  /\ Home(N, r, B, Zeroed(P, m), R)
             /\ m \in Elems(r.l) /\ Len(r.l) = Len(q.l) + 1
<1> DEFINE N == [x \in DOMAIN M \cup {m} |-> IF x = m THEN InMemory(0) ELSE M[x]]
           r == L!LRUPutMid(q, m)
           Q == Zeroed(P, m)
<1>1. Sound(q) /\ m \notin Elems(q.l)
  BY DEF Home
<1>2. Sound(r) /\ Elems(r.l) = Elems(q.l) \cup {m} /\ Len(r.l) = Len(q.l) + 1
  BY <1>1, PutMidSound
<1>3. DOMAIN N = DOMAIN M \cup {m} /\ N[m] = InMemory(0) /\ \A x \in DOMAIN M : N[x] = M[x]
  OBVIOUS
<1>4. DOMAIN Q = DOMAIN P \cup {m} /\ Q[m] = 0 /\ \A x \in DOMAIN P : Q[x] = P[x]
  BY DEF Zeroed, Home
<1> HIDE DEF N, r, Q
<1>5. ASSUME NEW x \in DOMAIN N PROVE Node(N, r.l, B, Q, R, x)
  <2>1. CASE x = m
    BY <1>2, <1>3, <1>4, <2>1 DEF Node
  <2>2. CASE x # m
    <3>1. x \in DOMAIN M /\ x \in DOMAIN P
      BY <1>3, <2>2 DEF Home
    <3>2. Node(M, q.l, B, P, R, x) /\ N[x] = M[x] /\ Q[x] = P[x]
      BY <1>3, <1>4, <3>1 DEF Home
    <3>3. x \in Elems(r.l) <=> x \in Elems(q.l)
      BY <1>2, <2>2
    <3> QED BY <3>2, <3>3 DEF Node
  <2> QED BY <2>1, <2>2
<1>6. Apart(N, B)
  <2> SUFFICES ASSUME NEW x \in DOMAIN N, NEW y \in DOMAIN N, NEW b \in DOMAIN B,
                      N[x] = OnDisk(b), N[y] = OnDisk(b)
               PROVE  x = y
    BY DEF Apart
  <2>1. x # m /\ y # m
    BY <1>3, NodeKinds
  <2> QED BY <1>3, <2>1 DEF Home, Apart
<1>7. Owned(N, B, R)
  BY <1>3 DEF Home, Owned
<1>8. \A x \in DOMAIN Q : Q[x] \in 0 .. MaxPk
  BY <1>4, VtStoreAssumption DEF Home
<1>9. Home(N, r, B, Q, R)
  BY <1>2, <1>3, <1>4, <1>5, <1>6, <1>7, <1>8 DEF Home
<1> QED BY <1>2, <1>9 DEF N, r, Q

(* A magazine comes back into memory.                                      *)
LEMMA SwapInHome ==
  ASSUME NEW s, NEW P, NEW R, Home(s.mag, s.lru, s.blocks, P, R),
         NEW m \in DOMAIN s.mag, m \notin Elems(s.lru.l)
  PROVE  LET t == SwapIn(s, m)
         IN  /\ Home(t.mag, t.lru, t.blocks, P, R) /\ IsTri(t)
             /\ m \in Elems(t.lru.l) /\ Len(t.lru.l) = Len(s.lru.l) + 1
             /\ DOMAIN t.mag = DOMAIN s.mag
<1> DEFINE M == s.mag
           q == s.lru
           B == s.blocks
           p == M[m].p
           t == SwapIn(s, m)
           N == t.mag
           C == t.blocks
           r == t.lru
<1>1. M[m] = OnDisk(p) /\ p \in DOMAIN B \ {R} /\ B[p] = [n |-> P[m]]
  <2>1. PICK b \in DOMAIN B \ {R} : M[m] = OnDisk(b) /\ B[b] = [n |-> P[m]]
    BY DEF Home, Node
  <2>2. p = b
    BY <2>1, NodeKinds
  <2> QED BY <2>1, <2>2
<1>2. B[p].n = P[m]
  BY <1>1
<1>3. /\ t.mag = [M EXCEPT ![m] = InMemory(B[p].n)]
      /\ t.lru = L!LRUPutMid(q, m)
      /\ t.blocks = Restrict(B, DOMAIN B \ {p})
  BY DEF SwapIn
<1>4. IsTri(t)
  BY DEF SwapIn, IsTri, Tri
<1>5. Sound(q) /\ m \in Mags
  BY DEF Home
<1>6. Sound(r) /\ Elems(r.l) = Elems(q.l) \cup {m} /\ Len(r.l) = Len(q.l) + 1
  BY <1>3, <1>5, PutMidSound
<1>7. DOMAIN N = DOMAIN M /\ N[m] = InMemory(P[m]) /\ \A x \in DOMAIN M : x # m => N[x] = M[x]
  BY <1>2, <1>3
<1>8. DOMAIN C = DOMAIN B \ {p} /\ \A b \in DOMAIN C : C[b] = B[b]
  BY <1>3 DEF Restrict
<1> HIDE DEF t, p
<1>9. ASSUME NEW x \in DOMAIN N PROVE Node(N, r.l, C, P, R, x)
  <2>1. CASE x = m
    BY <1>6, <1>7, <2>1 DEF Node
  <2>2. CASE x # m
    <3>1. Node(M, q.l, B, P, R, x) /\ N[x] = M[x] /\ x \in DOMAIN M
      BY <1>7, <2>2 DEF Home
    <3>2. x \in Elems(r.l) <=> x \in Elems(q.l)
      BY <1>6, <2>2
    <3>3. CASE x \in Elems(q.l)
      BY <3>1, <3>2, <3>3 DEF Node
    <3>4. CASE x \notin Elems(q.l)
      <4>1. PICK b \in DOMAIN B \ {R} : M[x] = OnDisk(b) /\ B[b] = [n |-> P[x]]
        BY <3>1, <3>4 DEF Node
      <4>2. b # p
        BY <1>1, <2>2, <3>1, <4>1 DEF Home, Apart
      <4>3. b \in DOMAIN C \ {R} /\ C[b] = B[b]
        BY <1>8, <4>1, <4>2
      <4> QED BY <3>1, <3>2, <3>4, <4>1, <4>3 DEF Node
    <3> QED BY <3>3, <3>4
  <2> QED BY <2>1, <2>2
<1>10. Apart(N, C)
  <2> SUFFICES ASSUME NEW x \in DOMAIN N, NEW y \in DOMAIN N, NEW b \in DOMAIN C,
                      N[x] = OnDisk(b), N[y] = OnDisk(b)
               PROVE  x = y
    BY DEF Apart
  <2>1. x # m /\ y # m
    BY <1>7, NodeKinds
  <2> QED BY <1>7, <1>8, <2>1 DEF Home, Apart
<1>11. Owned(N, C, R)
  <2> SUFFICES ASSUME NEW b \in DOMAIN C \ {R} PROVE \E x \in DOMAIN N : N[x] = OnDisk(b)
    BY DEF Owned
  <2>1. PICK x \in DOMAIN M : M[x] = OnDisk(b)
    BY <1>8 DEF Home, Owned
  <2>2. x # m
    BY <1>1, <1>8, <2>1, NodeKinds
  <2> QED BY <1>7, <2>1, <2>2
<1>12. DOMAIN C \subseteq Ptrs /\ (R = NoPtr \/ R \in DOMAIN C)
  BY <1>1, <1>8 DEF Home
<1>13. Home(N, r, C, P, R)
  BY <1>6, <1>7, <1>9, <1>10, <1>11, <1>12 DEF Home
<1> QED BY <1>4, <1>6, <1>7, <1>13 DEF t

(* A packet is stored in a magazine in memory.                             *)
LEMMA PutHome ==
  ASSUME NEW M, NEW q, NEW B, NEW P, NEW Q, NEW R, Home(M, q, B, P, R),
         NEW m \in Elems(q.l), P[m] < MaxPk,
         DOMAIN Q = DOMAIN P, Q[m] = P[m] + 1, \A x \in DOMAIN P : x # m => Q[x] = P[x]
  PROVE  Home([M EXCEPT ![m].n = @ + 1], q, B, Q, R)
<1> DEFINE N == [M EXCEPT ![m].n = @ + 1]
<1>1. m \in DOMAIN M /\ m \in DOMAIN P
  BY DEF Home
<1>2. M[m] = InMemory(P[m])
  BY <1>1 DEF Home, Node
<1>3. N[m] = InMemory(P[m] + 1)
  <2>1. N[m] = [M[m] EXCEPT !.n = @ + 1]
    BY <1>1
  <2> HIDE DEF N
  <2> DEFINE f == M[m]
             g == [f EXCEPT !.n = @ + 1]
             h == InMemory(P[m] + 1)
  <2>2. DOMAIN f = {"on_disk", "n"} /\ f.on_disk = FALSE /\ f.n = P[m]
    BY <1>2 DEF InMemory
  <2> HIDE DEF f
  <2>3. DOMAIN g = {"on_disk", "n"} /\ g = [z \in DOMAIN g |-> g[z]] /\ g.on_disk = FALSE /\ g.n = P[m] + 1
    BY <2>2
  <2>4. DOMAIN h = {"on_disk", "n"} /\ h = [z \in DOMAIN h |-> h[z]] /\ h.on_disk = FALSE /\ h.n = P[m] + 1
    BY DEF InMemory
  <2> HIDE DEF g, h
  <2>5. g = h
    BY <2>3, <2>4
  <2> QED BY <2>1, <2>5 DEF f, g, h
<1>4. DOMAIN N = DOMAIN M /\ \A x \in DOMAIN M : x # m => N[x] = M[x]
  BY <1>1
<1> HIDE DEF N
<1>5. ASSUME NEW x \in DOMAIN N PROVE Node(N, q.l, B, Q, R, x)
  <2>1. CASE x = m
    BY <1>3, <2>1 DEF Node
  <2>2. CASE x # m
    <3>1. Node(M, q.l, B, P, R, x) /\ N[x] = M[x] /\ Q[x] = P[x]
      BY <1>4, <2>2 DEF Home
    <3> QED BY <3>1 DEF Node
  <2> QED BY <2>1, <2>2
<1>6. Apart(N, B)
  <2> SUFFICES ASSUME NEW x \in DOMAIN N, NEW y \in DOMAIN N, NEW b \in DOMAIN B,
                      N[x] = OnDisk(b), N[y] = OnDisk(b)
               PROVE  x = y
    BY DEF Apart
  <2>1. x # m /\ y # m
    BY <1>3, NodeKinds
  <2> QED BY <1>4, <2>1 DEF Home, Apart
<1>7. Owned(N, B, R)
  <2> SUFFICES ASSUME NEW b \in DOMAIN B \ {R} PROVE \E x \in DOMAIN N : N[x] = OnDisk(b)
    BY DEF Owned
  <2>1. PICK x \in DOMAIN M : M[x] = OnDisk(b)
    BY DEF Home, Owned
  <2>2. x # m
    BY <1>2, <2>1, NodeKinds
  <2> QED BY <1>4, <2>1, <2>2
<1>8. \A x \in DOMAIN Q : Q[x] \in 0 .. MaxPk
  <2>1. P[m] + 1 \in 0 .. MaxPk
    BY <1>1, VtStoreAssumption DEF Home
  <2> QED BY <2>1 DEF Home
<1>9. Home(N, q, B, Q, R)
  BY <1>4, <1>5, <1>6, <1>7, <1>8 DEF Home
<1> QED BY <1>9 DEF N

(* A swap-out returns a store.                                             *)
LEMMA SwapOutTri ==
  ASSUME NEW s, NEW k, NEW where
  PROVE  IsTri(SwapOut(s, k, where))
BY DEF SwapOut, IsTri, Tri

(* The parts of a store.                                                   *)
LEMMA TriFields ==
  ASSUME NEW M, NEW q, NEW B
  PROVE  LET t == Tri(M, q, B) IN t.mag = M /\ t.lru = q /\ t.blocks = B /\ IsTri(t)
BY DEF Tri, IsTri

(* A store with other magazines and another list.                          *)
Both(t, N, r) == [t EXCEPT !.mag = N, !.lru = r]

(* A store with another set of magazines and another list.                 *)
LEMMA TriExcept ==
  ASSUME NEW a, NEW b, NEW c, NEW N, NEW r
  PROVE  Both(Tri(a, b, c), N, r) = Tri(N, r, c)
<1> DEFINE f == Both(Tri(a, b, c), N, r)
           g == Tri(N, r, c)
<1>1. /\ DOMAIN f = {"mag", "lru", "blocks"} /\ f = [z \in DOMAIN f |-> f[z]]
      /\ f.mag = N /\ f.lru = r /\ f.blocks = c
  BY DEF Tri, Both
<1>2. /\ DOMAIN g = {"mag", "lru", "blocks"} /\ g = [z \in DOMAIN g |-> g[z]]
      /\ g.mag = N /\ g.lru = r /\ g.blocks = c
  BY DEF Tri
<1> HIDE DEF f, g
<1>3. f = g
  BY <1>1, <1>2
<1> QED BY <1>3 DEF f, g

(* A magazine is in memory, the list within the limit and nothing else     *)
(* changed after a call has asked for it.                                  *)
LEMMA LoadedHome ==
  ASSUME NEW s, IsTri(s), NEW P, NEW R, Home(s.mag, s.lru, s.blocks, P, R), NEW m \in Mags,
         real_mag_limit \in Nat \ {0}, Len(s.lru.l) <= real_mag_limit,
         NEW where \in LoadPlaces(s, m)
  PROVE  LET t == Loaded(s, m, where)
         IN  /\ IsTri(t) /\ Home(t.mag, t.lru, t.blocks, Zeroed(P, m), R)
             /\ m \in Elems(t.lru.l) /\ Len(t.lru.l) <= real_mag_limit
<1>a. PICK k : k = Excess(s, real_mag_limit)
  OBVIOUS
<1>b. PICK u : u = SwapOut(s, k, where)
  OBVIOUS
<1>c. PICK t : t = Loaded(s, m, where)
  OBVIOUS
<1>1. /\ k \in 0 .. Len(s.lru.l) /\ Len(s.lru.l) - k < real_mag_limit
      /\ Len(s.lru.l) \in Nat
  BY <1>a, ExcessIs, SoundCases DEF Home
<1>2. ASSUME m \in DOMAIN s.mag PROVE DOMAIN Zeroed(P, m) = DOMAIN P /\ \A x \in DOMAIN P : Zeroed(P, m)[x] = P[x]
  BY <1>2 DEF Home, Zeroed
<1>3. ASSUME where \in Places(s, k)
      PROVE  /\ Home(u.mag, u.lru, u.blocks, P, R) /\ IsTri(u)
             /\ Len(u.lru.l) + 1 <= real_mag_limit /\ Len(u.lru.l) \in Nat
             /\ DOMAIN u.mag = DOMAIN s.mag
             /\ \A x \in DOMAIN s.mag : x \notin Elems(s.lru.l) => x \notin Elems(u.lru.l)
  <2>1. /\ Home(u.mag, u.lru, u.blocks, P, R) /\ Len(u.lru.l) = Len(s.lru.l) - k
        /\ DOMAIN u.mag = DOMAIN s.mag
        /\ \A x \in DOMAIN s.mag : x \notin Elems(s.lru.l) => u.mag[x] = s.mag[x] /\ x \notin Elems(u.lru.l)
    <3>1. k \in 0 .. Len(s.lru.l) /\ where \in Places(s, k)
      BY <1>1, <1>3
    <3>2. LET v == SwapOut(s, k, where)
          IN  /\ Home(v.mag, v.lru, v.blocks, P, R)
              /\ Len(v.lru.l) = Len(s.lru.l) - k
              /\ DOMAIN v.mag = DOMAIN s.mag
              /\ \A x \in DOMAIN s.mag : x \notin Elems(s.lru.l) => v.mag[x] = s.mag[x] /\ x \notin Elems(v.lru.l)
      BY <3>1, SwapOutHome, Zenon
    <3> QED BY <1>b, <3>2, Zenon
  <2>2. IsTri(u)
    BY <1>b, SwapOutTri
  <2>3. Len(u.lru.l) \in Nat
    BY <2>1, SoundCases DEF Home
  <2>4. Len(u.lru.l) + 1 <= real_mag_limit
    BY <1>1, <2>1, <2>3
  <2> QED BY <2>1, <2>2, <2>3, <2>4
<1>d. SUFFICES /\ IsTri(t) /\ Home(t.mag, t.lru, t.blocks, Zeroed(P, m), R)
               /\ m \in Elems(t.lru.l) /\ Len(t.lru.l) <= real_mag_limit
  BY <1>c
<1>4. CASE m \notin DOMAIN s.mag
  <2> DEFINE N == [x \in DOMAIN u.mag \cup {m} |-> IF x = m THEN InMemory(0) ELSE u.mag[x]]
             r == L!LRUPutMid(u.lru, m)
  <2>1. where \in Places(s, k)
    BY <1>a, <1>b, <1>c, <1>4 DEF LoadPlaces
  <2>2. t = [u EXCEPT !.mag = [x \in DOMAIN @ \cup {m} |-> IF x = m THEN InMemory(0) ELSE @[x]],
                      !.lru = L!LRUPutMid(@, m)]
    BY <1>a, <1>b, <1>c, <1>4 DEF Loaded
  <2>3. u = Tri(u.mag, u.lru, u.blocks)
    BY <1>3, <2>1 DEF IsTri
  <2>4. /\ Home(N, r, u.blocks, Zeroed(P, m), R)
        /\ m \in Elems(r.l) /\ Len(r.l) = Len(u.lru.l) + 1
    BY <1>3, <1>4, <2>1, NewHome
  <2>5. t = Both(u, N, r)
    BY <2>2 DEF Both
  <2> HIDE DEF N, r
  <2>6. t = Tri(N, r, u.blocks)
    <3> DEFINE a == u.mag
               b == u.lru
               c == u.blocks
    <3>1. u = Tri(a, b, c)
      BY <2>3
    <3> HIDE DEF a, b, c
    <3>2. Both(Tri(a, b, c), N, r) = Tri(N, r, c)
      BY TriExcept
    <3> QED BY <2>5, <3>1, <3>2 DEF c
  <2>7. t.mag = N /\ t.lru = r /\ t.blocks = u.blocks /\ IsTri(t)
    BY <2>6, TriFields
  <2> QED BY <1>3, <2>1, <2>4, <2>7
<1>5. CASE m \in DOMAIN s.mag /\ m \notin Elems(s.lru.l)
  <2>1. s.mag[m].on_disk = TRUE
    BY <1>5, HomeCases DEF Resides
  <2>2. where \in Places(s, k)
    BY <1>a, <1>b, <1>c, <1>5, <2>1 DEF LoadPlaces
  <2>3. t = SwapIn(u, m)
    BY <1>a, <1>b, <1>c, <1>5, <2>1 DEF Loaded
  <2>4. /\ Home(u.mag, u.lru, u.blocks, P, R)
        /\ m \in DOMAIN u.mag /\ m \notin Elems(u.lru.l)
    BY <1>3, <1>5, <2>2
  <2>5. /\ Home(t.mag, t.lru, t.blocks, P, R) /\ IsTri(t)
        /\ m \in Elems(t.lru.l) /\ Len(t.lru.l) = Len(u.lru.l) + 1
    BY <2>3, <2>4, SwapInHome
  <2>6. Home(t.mag, t.lru, t.blocks, Zeroed(P, m), R)
    BY <1>2, <1>5, <2>5, HomeSame
  <2> QED BY <1>3, <2>2, <2>5, <2>6
<1>6. CASE m \in DOMAIN s.mag /\ m \in Elems(s.lru.l)
  <2>1. s.mag[m].on_disk = FALSE
    BY <1>6, HomeCases DEF Resides
  <2>2. t = s
    BY <1>c, <1>6, <2>1 DEF Loaded
  <2>3. Home(s.mag, s.lru, s.blocks, Zeroed(P, m), R)
    BY <1>2, <1>6, HomeSame
  <2> QED BY <1>6, <2>2, <2>3
<1> QED BY <1>4, <1>5, <1>6

-----------------------------------------------------------------------------
(* The invariant.                                                          *)

(* The index in block r says where every magazine of P is, and nothing     *)
(* else is in the file.                                                    *)
Complete(B, r, P) ==
  LET idx == B[r].idx
  IN  /\ r \in DOMAIN B /\ DOMAIN idx = DOMAIN P /\ IsInjective(idx)
      /\ DOMAIN B = Range(idx) \cup {r} /\ r \notin Range(idx)
      /\ \A m \in DOMAIN idx : B[idx[m]] = [n |-> P[m]]

(* The part of the index in block r written so far.                        *)
Written(B, r, M) ==
  /\ r \in DOMAIN B /\ B[r] = [idx |-> B[r].idx]
  /\ DOMAIN B[r].idx \subseteq DOMAIN M
  /\ \A m \in DOMAIN B[r].idx : M[m] = OnDisk(B[r].idx[m])

(* Types.                                                                  *)
Typed ==
  /\ pc \in {"down", "attached", "up", "closing"}
  /\ file = [root |-> file.root, blocks |-> file.blocks]
  /\ file.root \in Ptrs \cup {NoPtr} /\ DOMAIN file.blocks \subseteq Ptrs
  /\ DOMAIN put \subseteq Mags /\ \A m \in DOMAIN put : put[m] \in 0 .. MaxPk
  /\ num_pnrs \in 0 .. MaxPnrs
  /\ real_mag_limit \in mag_limit .. mag_limit + PerPnr * MaxPnrs
  /\ current \in BOOLEAN

(* The pointer to the index is set only while the server is down, and      *)
(* od_root only while the index is written or read.                        *)
Roots ==
  /\ pc # "down" => file.root = NoPtr
  /\ pc \in {"down", "up"} => od_root = NoPtr
  /\ pc \in {"attached", "closing"} => od_root # NoPtr

(* While it does not, nothing is in memory.                                *)
Idle == pc \in {"down", "attached"} => mag = Nothing /\ lru = L!LRUInit

(* While it runs, the store is in order and the list within the limit.     *)
Busy == Running => Home(mag, lru, file.blocks, put, od_root) /\ Len(lru.l) <= real_mag_limit

(* The index is right as far as it is written, and complete before it is   *)
(* used.                                                                   *)
Images ==
  /\ pc = "closing" => Written(file.blocks, od_root, mag)
  /\ pc = "attached" => Complete(file.blocks, od_root, put)
  /\ pc = "down" /\ file.root # NoPtr => Complete(file.blocks, file.root, put)

(* The inductive invariant.                                                *)
VtInv == Typed /\ Roots /\ Idle /\ Busy /\ Images

-----------------------------------------------------------------------------
(* What every action of a running database has in common.                  *)

(* What the file holds.                                                    *)
IsFile(f) == f = [root |-> f.root, blocks |-> f.blocks]

(* A write to a block leaves the pointer to the index.                     *)
LEMMA FileBlocks ==
  ASSUME NEW f, IsFile(f), NEW X
  PROVE  LET g == [f EXCEPT !.blocks = X]
         IN  g.root = f.root /\ g.blocks = X /\ IsFile(g)
<1> DEFINE r == f.root
           b == f.blocks
<1>1. f = [root |-> r, blocks |-> b]
  BY DEF IsFile
<1> HIDE DEF r, b
<1>2. [f EXCEPT !.blocks = X] = [root |-> r, blocks |-> X]
  BY <1>1
<1>3. f.root = r
  BY <1>1
<1> QED BY <1>2, <1>3 DEF IsFile

(* A write to the pointer leaves the blocks.                               *)
LEMMA FileRoot ==
  ASSUME NEW f, IsFile(f), NEW p
  PROVE  LET g == [f EXCEPT !.root = p]
         IN  g.root = p /\ g.blocks = f.blocks /\ IsFile(g)
<1> DEFINE r == f.root
           b == f.blocks
<1>1. f = [root |-> r, blocks |-> b]
  BY DEF IsFile
<1> HIDE DEF r, b
<1>2. [f EXCEPT !.root = p] = [root |-> p, blocks |-> b]
  BY <1>1
<1>3. f.blocks = b
  BY <1>1
<1> QED BY <1>2, <1>3 DEF IsFile

(* The parts of the store a call starts from.                              *)
LEMMA StoreIs == IsTri(Store) /\ Store.mag = mag /\ Store.lru = lru /\ Store.blocks = file.blocks
BY DEF Store, IsTri, Tri

(* The limit for n programs.                                               *)
LEMMA LimitIs ==
  ASSUME NEW n \in 0 .. MaxPnrs
  PROVE  /\ mag_limit + PerPnr * n \in mag_limit .. mag_limit + PerPnr * MaxPnrs
         /\ mag_limit + PerPnr * n \in Nat \ {0}
<1>1. mag_limit \in Nat \ {0} /\ PerPnr \in Nat /\ MaxPnrs \in Nat /\ n \in Nat /\ MaxPnrs - n \in Nat
  BY VtStoreAssumption
<1> DEFINE a == PerPnr * n
           b == PerPnr * (MaxPnrs - n)
           c == PerPnr * MaxPnrs
<1>2. a \in Nat /\ b \in Nat /\ c = a + b
  BY <1>1
<1> HIDE DEF a, b, c
<1>3. /\ mag_limit + a \in mag_limit .. mag_limit + c /\ mag_limit + a \in Nat \ {0}
  BY <1>1, <1>2
<1> QED BY <1>3 DEF a, c

(* At least one magazine may be in memory.                                 *)
LEMMA LimitPositive ==
  ASSUME Typed
  PROVE  real_mag_limit \in Nat \ {0}
<1>1. PerPnr * MaxPnrs \in Nat /\ mag_limit \in Nat \ {0}
  BY VtStoreAssumption
<1> QED BY <1>1 DEF Typed

(* A step of a running database has to keep the store in order and the     *)
(* list within the limit.                                                  *)
LEMMA StaysUp ==
  ASSUME VtInv, pc = "up", pc' = pc, od_root' = od_root, IsFile(file'), file'.root = file.root,
         Home(mag', lru', file'.blocks, put', NoPtr), Len(lru'.l) <= real_mag_limit',
         num_pnrs' \in 0 .. MaxPnrs, current' \in BOOLEAN,
         real_mag_limit' \in mag_limit .. mag_limit + PerPnr * MaxPnrs
  PROVE  VtInv'
<1>1. pc' = "up" /\ file'.root = NoPtr /\ od_root' = NoPtr
  BY DEF VtInv, Roots
<1>2. /\ DOMAIN file'.blocks \subseteq Ptrs /\ DOMAIN put' \subseteq Mags
      /\ \A m \in DOMAIN put' : put'[m] \in 0 .. MaxPk
  BY DEF Home
<1>3. Typed'
  BY <1>1, <1>2 DEF Typed, IsFile
<1>4. Roots' /\ Idle' /\ Images'
  BY <1>1 DEF Roots, Idle, Images
<1>5. Busy'
  BY <1>1 DEF Busy
<1> QED BY <1>3, <1>4, <1>5 DEF VtInv

(* What the invariant says of a running database.                          *)
LEMMA UpHas ==
  ASSUME VtInv, pc = "up"
  PROVE  /\ IsFile(file) /\ file.root = NoPtr /\ od_root = NoPtr
         /\ Home(mag, lru, file.blocks, put, NoPtr)
         /\ Len(lru.l) <= real_mag_limit /\ real_mag_limit \in Nat \ {0}
         /\ num_pnrs \in 0 .. MaxPnrs /\ current \in BOOLEAN
         /\ real_mag_limit \in mag_limit .. mag_limit + PerPnr * MaxPnrs
<1>1. od_root = NoPtr /\ file.root = NoPtr
  BY DEF VtInv, Roots
<1>2. Home(mag, lru, file.blocks, put, NoPtr) /\ Len(lru.l) <= real_mag_limit
  BY <1>1 DEF VtInv, Busy, Running
<1> QED BY <1>1, <1>2, LimitPositive DEF VtInv, Typed, IsFile

(* A store taken over.                                                     *)
LEMMA TakeOver ==
  ASSUME VtInv, pc = "up", UNCHANGED <<pc, od_root>>, NEW t, SetStore(t),
         Home(t.mag, t.lru, t.blocks, put', NoPtr), Len(t.lru.l) <= real_mag_limit',
         num_pnrs' \in 0 .. MaxPnrs, current' \in BOOLEAN,
         real_mag_limit' \in mag_limit .. mag_limit + PerPnr * MaxPnrs
  PROVE  VtInv'
<1>1. mag' = t.mag /\ lru' = t.lru /\ file' = [file EXCEPT !.blocks = t.blocks]
  BY DEF SetStore
<1>2. PICK f, b : f = file /\ b = t.blocks
  OBVIOUS
<1>3. IsFile(f)
  BY <1>2, UpHas
<1>4. LET g == [f EXCEPT !.blocks = b] IN g.root = f.root /\ g.blocks = b /\ IsFile(g)
  BY <1>3, FileBlocks
<1>5. IsFile(file') /\ file'.root = file.root /\ file'.blocks = t.blocks
  BY <1>1, <1>2, <1>4
<1> QED BY <1>1, <1>5, StaysUp

-----------------------------------------------------------------------------
(* Packets, calls and events keep the invariant.                           *)

(* The store with a packet more in m, and with m moved forward.            *)
Counted(s, m) == [s EXCEPT !.mag[m].n = @ + 1]
Forwarded(s, m) == [s EXCEPT !.lru = L!LRUFwd(@, m)]

(* A packet changes the magazines only.                                    *)
LEMMA TriCounted ==
  ASSUME NEW s, IsTri(s), NEW m
  PROVE  LET t == Counted(s, m)
         IN  t.mag = [s.mag EXCEPT ![m].n = @ + 1] /\ t.lru = s.lru /\ t.blocks = s.blocks
<1> DEFINE a == s.mag
           b == s.lru
           c == s.blocks
<1>1. s = Tri(a, b, c)
  BY DEF IsTri
<1> HIDE DEF a, b, c
<1>2. Counted(s, m) = Tri([a EXCEPT ![m].n = @ + 1], b, c)
  BY <1>1 DEF Counted, Tri
<1>3. s.mag = a /\ s.lru = b /\ s.blocks = c
  BY <1>1, TriFields
<1> QED BY <1>2, <1>3, TriFields

(* A read changes the list only.                                           *)
LEMMA TriForwarded ==
  ASSUME NEW s, IsTri(s), NEW m
  PROVE  LET t == Forwarded(s, m)
         IN  t.mag = s.mag /\ t.lru = L!LRUFwd(s.lru, m) /\ t.blocks = s.blocks
<1> DEFINE a == s.mag
           b == s.lru
           c == s.blocks
<1>1. s = Tri(a, b, c)
  BY DEF IsTri
<1> HIDE DEF a, b, c
<1>2. Forwarded(s, m) = Tri(a, L!LRUFwd(b, m), c)
  BY <1>1 DEF Forwarded, Tri
<1>3. s.mag = a /\ s.lru = b /\ s.blocks = c
  BY <1>1, TriFields
<1> QED BY <1>2, <1>3, TriFields

(* vtdb_put.                                                               *)
LEMMA PutStep ==
  ASSUME VtInv, NEW m \in Mags, vtdb_put(m)
  PROVE  VtInv'
<1>1. PICK where \in LoadPlaces(Store, m) : SetStore(Counted(Loaded(Store, m, where), m))
  BY DEF vtdb_put, Counted
<1>2. PICK s, P : s = Store /\ P = put
  OBVIOUS
<1>3. pc = "up" /\ UNCHANGED <<pc, num_pnrs, real_mag_limit, current, od_root>>
  BY DEF vtdb_put
<1>4. /\ IsTri(s) /\ Home(s.mag, s.lru, s.blocks, P, NoPtr)
      /\ Len(s.lru.l) <= real_mag_limit /\ real_mag_limit \in Nat \ {0}
  BY <1>2, <1>3, StoreIs, UpHas
<1>5. PICK u : u = Loaded(s, m, where)
  OBVIOUS
<1>6. /\ IsTri(u) /\ Home(u.mag, u.lru, u.blocks, Zeroed(P, m), NoPtr)
      /\ m \in Elems(u.lru.l) /\ Len(u.lru.l) <= real_mag_limit
  BY <1>1, <1>2, <1>4, <1>5, LoadedHome
<1>7. PICK t : t = Counted(u, m)
  OBVIOUS
<1>8. t.mag = [u.mag EXCEPT ![m].n = @ + 1] /\ t.lru = u.lru /\ t.blocks = u.blocks
  BY <1>6, <1>7, TriCounted
<1>9. PICK Q, Z : Q = put' /\ Z = Zeroed(P, m)
  OBVIOUS
<1>10. /\ DOMAIN Z = DOMAIN P \cup {m} /\ \A x \in DOMAIN Z : x # m => Z[x] = P[x]
       /\ Z[m] = IF m \in DOMAIN P THEN P[m] ELSE 0
  BY <1>9 DEF Zeroed
<1>11. Q = [x \in DOMAIN P \cup {m} |->
              IF x # m THEN P[x] ELSE IF m \in DOMAIN P THEN P[m] + 1 ELSE 1]
  BY <1>2, <1>9 DEF vtdb_put
<1>12. DOMAIN Q = DOMAIN Z /\ Q[m] = Z[m] + 1 /\ \A x \in DOMAIN Z : x # m => Q[x] = Z[x]
  BY <1>10, <1>11
<1>13. Z[m] < MaxPk
  BY <1>2, <1>10 DEF vtdb_put
<1>14. Home([u.mag EXCEPT ![m].n = @ + 1], u.lru, u.blocks, Q, NoPtr)
  BY <1>6, <1>9, <1>12, <1>13, PutHome
<1>15. Home(t.mag, t.lru, t.blocks, put', NoPtr) /\ Len(t.lru.l) <= real_mag_limit'
  BY <1>3, <1>6, <1>8, <1>9, <1>14
<1>16. SetStore(t)
  BY <1>1, <1>2, <1>5, <1>7
<1> QED BY <1>3, <1>15, <1>16, TakeOver, UpHas

(* The order of the list does not matter to the magazines.                 *)
LEMMA ListHome ==
  ASSUME NEW M, NEW q, NEW B, NEW P, NEW R, Home(M, q, B, P, R), NEW r, Sound(r), Elems(r.l) = Elems(q.l)
  PROVE  Home(M, r, B, P, R)
<1>1. ASSUME NEW m \in DOMAIN M PROVE Node(M, r.l, B, P, R, m)
  BY DEF Home, Node
<1> QED BY <1>1 DEF Home

(* vtdb_get_mag.                                                           *)
LEMMA GetStep ==
  ASSUME VtInv, NEW m \in Mags, vtdb_get_mag(m)
  PROVE  VtInv'
<1>1. PICK where \in LoadPlaces(Store, m) : SetStore(Forwarded(Loaded(Store, m, where), m))
  BY DEF vtdb_get_mag, Forwarded
<1>2. PICK s, P : s = Store /\ P = put
  OBVIOUS
<1>3. pc = "up" /\ m \in DOMAIN mag /\ UNCHANGED <<pc, num_pnrs, real_mag_limit, current, od_root, put>>
  BY DEF vtdb_get_mag
<1>4. /\ IsTri(s) /\ Home(s.mag, s.lru, s.blocks, P, NoPtr)
      /\ Len(s.lru.l) <= real_mag_limit /\ real_mag_limit \in Nat \ {0}
  BY <1>2, <1>3, StoreIs, UpHas
<1>5. PICK u : u = Loaded(s, m, where)
  OBVIOUS
<1>6. /\ IsTri(u) /\ Home(u.mag, u.lru, u.blocks, Zeroed(P, m), NoPtr)
      /\ m \in Elems(u.lru.l) /\ Len(u.lru.l) <= real_mag_limit
  BY <1>1, <1>2, <1>4, <1>5, LoadedHome
<1>7. PICK t : t = Forwarded(u, m)
  OBVIOUS
<1>8. t.mag = u.mag /\ t.lru = L!LRUFwd(u.lru, m) /\ t.blocks = u.blocks
  BY <1>6, <1>7, TriForwarded
<1>9. PICK Z : Z = Zeroed(P, m)
  OBVIOUS
<1>10. DOMAIN P = DOMAIN Z /\ \A x \in DOMAIN Z : P[x] = Z[x]
  <2>1. m \in DOMAIN P
    BY <1>2, <1>3, UpHas DEF Home
  <2> QED BY <1>9, <2>1 DEF Zeroed
<1>11. Home(u.mag, u.lru, u.blocks, P, NoPtr)
  BY <1>6, <1>9, <1>10, HomeSame
<1>12. Sound(t.lru) /\ Elems(t.lru.l) = Elems(u.lru.l) /\ Len(t.lru.l) = Len(u.lru.l)
  BY <1>6, <1>8, FwdSound DEF Home
<1>13. Home(t.mag, t.lru, t.blocks, P, NoPtr)
  BY <1>8, <1>11, <1>12, ListHome
<1>14. Home(t.mag, t.lru, t.blocks, put', NoPtr) /\ Len(t.lru.l) <= real_mag_limit'
  BY <1>2, <1>3, <1>6, <1>12, <1>13
<1>15. SetStore(t)
  BY <1>1, <1>2, <1>5, <1>7
<1> QED BY <1>3, <1>14, <1>15, TakeOver, UpHas

(* A new number of programs: the limit, then the swap-out.                 *)
LEMMA PnrsStep ==
  ASSUME VtInv, pc = "up", NEW s, NEW n \in 0 .. MaxPnrs,
         Home(s.mag, s.lru, s.blocks, put, NoPtr), SetPnrs(s, n)
  PROVE  VtInv'
<1>1. /\ num_pnrs' = n /\ real_mag_limit' = mag_limit + PerPnr * n
      /\ UNCHANGED <<pc, current, od_root, put>>
  BY DEF SetPnrs
<1>2. PICK k, limit : k = Excess(s, real_mag_limit') /\ limit = real_mag_limit'
  OBVIOUS
<1>3. PICK where \in Places(s, k) : SetStore(SwapOut(s, k, where))
  BY <1>2 DEF SetPnrs
<1>4. limit \in mag_limit .. mag_limit + PerPnr * MaxPnrs /\ limit \in Nat \ {0}
  BY <1>1, <1>2, LimitIs
<1>5. Sound(s.lru)
  BY DEF Home
<1>6. k \in 0 .. Len(s.lru.l) /\ Len(s.lru.l) - k < limit
  BY <1>2, <1>4, <1>5, ExcessIs
<1>7. PICK t, P : t = SwapOut(s, k, where) /\ P = put
  OBVIOUS
<1>8. LET v == SwapOut(s, k, where)
      IN  /\ Home(v.mag, v.lru, v.blocks, P, NoPtr) /\ Len(v.lru.l) = Len(s.lru.l) - k
  <2>1. Home(s.mag, s.lru, s.blocks, P, NoPtr)
    BY <1>7
  <2> QED BY <1>3, <1>6, <2>1, SwapOutHome, Zenon
<1>9. Home(t.mag, t.lru, t.blocks, P, NoPtr) /\ Len(t.lru.l) = Len(s.lru.l) - k
  BY <1>7, <1>8, Zenon
<1>10. Len(t.lru.l) <= limit
  <2>1. Len(s.lru.l) \in Nat
    BY <1>5, SoundCases
  <2> QED BY <1>4, <1>6, <1>9, <2>1
<1>11. Home(t.mag, t.lru, t.blocks, put', NoPtr) /\ SetStore(t)
  BY <1>1, <1>3, <1>7, <1>9
<1>12. /\ Len(t.lru.l) <= real_mag_limit' /\ num_pnrs' \in 0 .. MaxPnrs /\ current' \in BOOLEAN
       /\ real_mag_limit' \in mag_limit .. mag_limit + PerPnr * MaxPnrs
  BY <1>1, <1>2, <1>4, <1>10, UpHas
<1> QED BY <1>1, <1>11, <1>12, TakeOver

(* vtdb_add_pids, vtdb_rmv_pids.                                           *)
LEMMA ProgramStep ==
  ASSUME VtInv, vtdb_add_pids \/ vtdb_rmv_pids
  PROVE  VtInv'
<1>1. pc = "up"
  BY DEF vtdb_add_pids, vtdb_rmv_pids
<1>2. PICK s : s = Store
  OBVIOUS
<1>3. Home(s.mag, s.lru, s.blocks, put, NoPtr) /\ num_pnrs \in 0 .. MaxPnrs
  BY <1>1, <1>2, StoreIs, UpHas
<1>4. PICK n \in 0 .. MaxPnrs : SetPnrs(s, n)
  <2>1. CASE vtdb_add_pids
    <3>1. num_pnrs + 1 \in 0 .. MaxPnrs /\ SetPnrs(s, num_pnrs + 1)
      BY <1>2, <1>3, <2>1, VtStoreAssumption DEF vtdb_add_pids
    <3> QED BY <3>1
  <2>2. CASE vtdb_rmv_pids
    <3>1. num_pnrs - 1 \in 0 .. MaxPnrs /\ SetPnrs(s, num_pnrs - 1)
      BY <1>2, <1>3, <2>2, VtStoreAssumption DEF vtdb_rmv_pids
    <3> QED BY <3>1
  <2> QED BY <2>1, <2>2
<1> QED BY <1>1, <1>3, <1>4, PnrsStep

(* vtdb_add_all_pids, which swaps everything out first.                    *)
LEMMA AllStep ==
  ASSUME VtInv, vtdb_add_all_pids
  PROVE  VtInv'
<1>1. pc = "up"
  BY DEF vtdb_add_all_pids
<1>2. PICK s, k, P : s = Store /\ k = Len(lru.l) /\ P = put
  OBVIOUS
<1>3. PICK n \in num_pnrs .. MaxPnrs, where \in Places(s, k) : SetPnrs(SwapOut(s, k, where), n)
  BY <1>2 DEF vtdb_add_all_pids
<1>4. Home(s.mag, s.lru, s.blocks, P, NoPtr) /\ num_pnrs \in 0 .. MaxPnrs /\ k = Len(s.lru.l)
  BY <1>1, <1>2, StoreIs, UpHas
<1>5. k \in 0 .. Len(s.lru.l)
  BY <1>4, SoundCases DEF Home
<1>6. PICK t : t = SwapOut(s, k, where)
  OBVIOUS
<1>7. LET v == SwapOut(s, k, where) IN Home(v.mag, v.lru, v.blocks, P, NoPtr)
  BY <1>3, <1>4, <1>5, SwapOutHome, Zenon
<1>8. Home(t.mag, t.lru, t.blocks, put, NoPtr) /\ SetPnrs(t, n)
  BY <1>2, <1>3, <1>6, <1>7, Zenon
<1>9. n \in 0 .. MaxPnrs
  BY <1>3, <1>4, VtStoreAssumption
<1> QED BY <1>1, <1>8, <1>9, PnrsStep

(* E_TUNING, E_IDLE, E_TUNED.                                              *)
LEMMA TuneStep ==
  ASSUME VtInv, GoIdle \/ GoTuned
  PROVE  VtInv'
<1>1. /\ pc = "up" /\ current' \in BOOLEAN /\ num_pnrs' \in {0, num_pnrs}
      /\ UNCHANGED <<pc, file, mag, lru, real_mag_limit, od_root, put>>
  BY DEF GoIdle, GoTuned
<1>2. num_pnrs' \in 0 .. MaxPnrs
  BY <1>1, UpHas, VtStoreAssumption
<1>3. Home(mag', lru', file'.blocks, put', NoPtr) /\ Len(lru'.l) <= real_mag_limit'
  BY <1>1, UpHas
<1> QED BY <1>1, <1>2, <1>3, UpHas, StaysUp

(* The empty store.                                                        *)
LEMMA EmptyHome ==
  Home(Nothing, L!LRUInit, Nothing, Nothing, NoPtr) /\ Len(L!LRUInit.l) = 0
<1>1. L!LRUInit.l = <<>> /\ Sound(L!LRUInit) /\ DOMAIN Nothing = {}
  BY InitList DEF Nothing
<1>2. Elems(L!LRUInit.l) = {} /\ Len(L!LRUInit.l) = 0
  BY <1>1 DEF Elems
<1> QED BY <1>1, <1>2 DEF Home, Apart, Owned

(* vtdb_reconfig.                                                          *)
LEMMA ConfigStep ==
  ASSUME VtInv, vtdb_reconfig
  PROVE  VtInv'
<1>1. /\ pc = "up" /\ mag' = Nothing /\ put' = Nothing /\ lru' = L!LRUInit
      /\ file' = [file EXCEPT !.blocks = Nothing] /\ num_pnrs' = 0 /\ current' = FALSE
      /\ UNCHANGED <<pc, real_mag_limit, od_root>>
  BY DEF vtdb_reconfig
<1>2. PICK f : f = file
  OBVIOUS
<1>3. LET g == [f EXCEPT !.blocks = Nothing] IN g.root = f.root /\ g.blocks = Nothing /\ IsFile(g)
  BY <1>1, <1>2, UpHas, FileBlocks
<1>4. IsFile(file') /\ file'.root = file.root /\ file'.blocks = Nothing
  BY <1>1, <1>2, <1>3
<1>5. Home(mag', lru', file'.blocks, put', NoPtr) /\ Len(lru'.l) = 0
  BY <1>1, <1>4, EmptyHome
<1>6. Len(lru'.l) <= real_mag_limit' /\ num_pnrs' \in 0 .. MaxPnrs
  BY <1>1, <1>5, UpHas, VtStoreAssumption
<1> QED BY <1>1, <1>4, <1>5, <1>6, UpHas, StaysUp

-----------------------------------------------------------------------------
(* Stopping, crashing and starting keep the invariant.                     *)

(* The block of the index comes and changes beside the others.             *)
LEMMA IndexHome ==
  ASSUME NEW M, NEW q, NEW B, NEW P, NEW R, Home(M, q, B, P, R),
         NEW C, NEW r \in Ptrs, R \in {NoPtr, r}, R = NoPtr => r \notin DOMAIN B,
         DOMAIN C = DOMAIN B \cup {r}, \A b \in DOMAIN B : b # r => C[b] = B[b]
  PROVE  Home(M, q, C, P, r)
<1>1. \A b : b \in DOMAIN C \ {r} <=> b \in DOMAIN B \ {R}
  <2>1. NoPtr \notin DOMAIN B
    BY VtStoreAssumption DEF Home
  <2> QED BY <2>1
<1>2. \A b \in DOMAIN C \ {r} : C[b] = B[b]
  BY <1>1
<1>3. ASSUME NEW m \in DOMAIN M PROVE Node(M, q.l, C, P, r, m)
  <2>1. Node(M, q.l, B, P, R, m)
    BY DEF Home
  <2> QED BY <1>1, <1>2, <2>1 DEF Node
<1>4. Apart(M, C)
  <2> SUFFICES ASSUME NEW x \in DOMAIN M, NEW y \in DOMAIN M, NEW b \in DOMAIN C,
                      M[x] = OnDisk(b), M[y] = OnDisk(b)
               PROVE  x = y
    BY DEF Apart
  <2>1. Node(M, q.l, C, P, r, x)
    BY <1>3
  <2>2. b \in DOMAIN B
    BY <1>1, <2>1, NodeKinds DEF Node
  <2> QED BY <2>2 DEF Home, Apart
<1>5. Owned(M, C, r)
  BY <1>1 DEF Home, Owned
<1>6. DOMAIN C \subseteq Ptrs /\ r \in DOMAIN C
  BY DEF Home
<1> QED BY <1>3, <1>4, <1>5, <1>6 DEF Home

(* A magazine in memory is written to block p.                             *)
LEMMA WriteHome ==
  ASSUME NEW M, NEW q, NEW B, NEW P, NEW R, Home(M, q, B, P, R),
         NEW m \in Elems(q.l), NEW p \in Ptrs \ DOMAIN B, p # R
  PROVE  Home([M EXCEPT ![m] = OnDisk(p)], L!LRURemove(q, m), With(B, p, [n |-> M[m].n]), P, R)
<1> DEFINE N == [M EXCEPT ![m] = OnDisk(p)]
           r == L!LRURemove(q, m)
           C == With(B, p, [n |-> M[m].n])
<1>1. Sound(r) /\ Elems(r.l) = Elems(q.l) \ {m}
  BY RemoveSound DEF Home
<1>2. m \in DOMAIN M /\ M[m].n = P[m]
  <2>1. m \in DOMAIN M
    BY DEF Home
  <2>2. M[m] = InMemory(P[m])
    BY <2>1 DEF Home, Node
  <2> QED BY <2>1, <2>2, NodeKinds
<1>3. DOMAIN N = DOMAIN M /\ N[m] = OnDisk(p) /\ \A x \in DOMAIN M : x # m => N[x] = M[x]
  BY <1>2
<1>4. /\ DOMAIN C = DOMAIN B \cup {p} /\ C[p] = [n |-> P[m]] /\ \A b \in DOMAIN B : C[b] = B[b]
  BY <1>2 DEF With
<1> HIDE DEF N, r, C
<1>5. ASSUME NEW x \in DOMAIN N PROVE Node(N, r.l, C, P, R, x)
  <2>1. CASE x = m
    <3>1. p \in DOMAIN C \ {R} /\ x \notin Elems(r.l)
      BY <1>1, <1>4, <2>1
    <3> QED BY <1>3, <1>4, <2>1, <3>1 DEF Node
  <2>2. CASE x # m
    <3>1. Node(M, q.l, B, P, R, x) /\ N[x] = M[x] /\ x \in DOMAIN M
      BY <1>3, <2>2 DEF Home
    <3>2. x \in Elems(r.l) <=> x \in Elems(q.l)
      BY <1>1, <2>2
    <3>3. \A b \in DOMAIN B \ {R} : b \in DOMAIN C \ {R} /\ C[b] = B[b]
      BY <1>4
    <3> QED BY <3>1, <3>2, <3>3 DEF Node
  <2> QED BY <2>1, <2>2
<1>6. ASSUME NEW x \in DOMAIN M, NEW b, M[x] = OnDisk(b) PROVE b \in DOMAIN B /\ x # m
  <2>1. Node(M, q.l, B, P, R, x)
    BY DEF Home
  <2>2. \E c \in DOMAIN B \ {R} : x \notin Elems(q.l) /\ M[x] = OnDisk(c)
    BY <1>6, <2>1, NodeKinds DEF Node
  <2> QED BY <1>6, <2>2, NodeKinds
<1>7. Apart(N, C)
  <2> SUFFICES ASSUME NEW x \in DOMAIN N, NEW y \in DOMAIN N, NEW b \in DOMAIN C,
                      N[x] = OnDisk(b), N[y] = OnDisk(b)
               PROVE  x = y
    BY DEF Apart
  <2>1. CASE b = p
    <3>1. ASSUME NEW z \in DOMAIN N, N[z] = OnDisk(b) PROVE z = m
      BY <1>3, <1>6, <2>1, <3>1
    <3> QED BY <3>1
  <2>2. CASE b # p
    <3>1. x # m /\ y # m
      BY <1>3, <2>2, NodeKinds
    <3> QED BY <1>3, <1>4, <2>2, <3>1 DEF Home, Apart
  <2> QED BY <2>1, <2>2
<1>8. Owned(N, C, R)
  <2> SUFFICES ASSUME NEW b \in DOMAIN C \ {R} PROVE \E x \in DOMAIN N : N[x] = OnDisk(b)
    BY DEF Owned
  <2>1. CASE b = p
    BY <1>2, <1>3, <2>1
  <2>2. CASE b # p
    <3>1. PICK x \in DOMAIN M : M[x] = OnDisk(b)
      BY <1>4, <2>2 DEF Home, Owned
    <3> QED BY <1>3, <1>6, <3>1
  <2> QED BY <2>1, <2>2
<1>9. DOMAIN C \subseteq Ptrs /\ (R = NoPtr \/ R \in DOMAIN C)
  BY <1>4 DEF Home
<1>10. Elems(r.l) \subseteq DOMAIN N /\ DOMAIN N = DOMAIN P /\ Sound(r)
  BY <1>1, <1>3 DEF Home
<1>11. Home(N, r, C, P, R)
  BY <1>5, <1>7, <1>8, <1>9, <1>10 DEF Home
<1> QED BY <1>11 DEF N, r, C

(* What the invariant says while the index is written.                     *)
LEMMA ClosingHas ==
  ASSUME VtInv, pc = "closing"
  PROVE  /\ IsFile(file) /\ file.root = NoPtr /\ od_root \in Ptrs
         /\ Home(mag, lru, file.blocks, put, od_root)
         /\ Len(lru.l) <= real_mag_limit /\ real_mag_limit \in Nat \ {0}
         /\ Written(file.blocks, od_root, mag)
<1>1. file.root = NoPtr
  BY DEF VtInv, Roots
<1>2. /\ Home(mag, lru, file.blocks, put, od_root) /\ Len(lru.l) <= real_mag_limit
      /\ Written(file.blocks, od_root, mag)
  BY DEF VtInv, Busy, Running, Images
<1>3. od_root \in Ptrs
  BY <1>2 DEF Home, Written
<1> QED BY <1>1, <1>2, <1>3, LimitPositive DEF VtInv, Typed, IsFile

(* A step of vtdb_write_idx has to keep the store and the part of the      *)
(* index written.                                                          *)
LEMMA StaysClosing ==
  ASSUME VtInv, pc' = "closing", IsFile(file'), file'.root = NoPtr, od_root' # NoPtr,
         Home(mag', lru', file'.blocks, put', od_root'), Len(lru'.l) <= real_mag_limit',
         Written(file'.blocks, od_root', mag'),
         UNCHANGED <<num_pnrs, real_mag_limit, current>>
  PROVE  VtInv'
<1>1. /\ DOMAIN file'.blocks \subseteq Ptrs /\ DOMAIN put' \subseteq Mags
      /\ \A m \in DOMAIN put' : put'[m] \in 0 .. MaxPk
  BY DEF Home
<1>2. Typed'
  BY <1>1 DEF VtInv, Typed, IsFile
<1>3. Roots' /\ Idle' /\ Images'
  BY DEF Roots, Idle, Images
<1>4. Busy'
  BY DEF Busy
<1> QED BY <1>2, <1>3, <1>4 DEF VtInv

(* The block for the index is allocated.                                   *)
LEMMA BeginStep ==
  ASSUME VtInv, CloseBegin
  PROVE  VtInv'
<1>1. pc = "up" /\ pc' = "closing" /\ UNCHANGED <<mag, lru, num_pnrs, real_mag_limit, current, put>>
  BY DEF CloseBegin
<1>2. PICK p \in Ptrs \ DOMAIN file.blocks :
        /\ od_root' = p
        /\ file' = [file EXCEPT !.blocks =
                      [q \in DOMAIN @ \cup {p} |-> IF q = p THEN [idx |-> Nothing] ELSE @[q]]]
  BY DEF CloseBegin
<1>3. PICK f, B, C : f = file /\ B = file.blocks
                     /\ C = [q \in DOMAIN B \cup {p} |-> IF q = p THEN [idx |-> Nothing] ELSE B[q]]
  OBVIOUS
<1>4. LET g == [f EXCEPT !.blocks = C] IN g.root = f.root /\ g.blocks = C /\ IsFile(g)
  BY <1>1, <1>3, UpHas, FileBlocks
<1>5. file' = [f EXCEPT !.blocks = C]
  BY <1>2, <1>3
<1>6. IsFile(file') /\ file'.root = NoPtr /\ file'.blocks = C
  BY <1>1, <1>3, <1>4, <1>5, UpHas
<1>7. /\ DOMAIN C = DOMAIN B \cup {p} /\ C[p] = [idx |-> Nothing]
      /\ \A b \in DOMAIN B : b # p => C[b] = B[b]
  BY <1>3
<1>8. PICK M, q, P : M = mag /\ q = lru /\ P = put
  OBVIOUS
<1>9. Home(M, q, B, P, NoPtr)
  BY <1>1, <1>3, <1>8, UpHas
<1>10. Home(M, q, C, P, p)
  BY <1>2, <1>3, <1>7, <1>9, IndexHome
<1>11. Written(C, p, M)
  <2>1. C[p].idx = Nothing /\ DOMAIN Nothing = {}
    BY <1>7 DEF Nothing
  <2> QED BY <1>7, <2>1 DEF Written
<1>12. od_root' # NoPtr
  BY <1>2, VtStoreAssumption
<1>13. Home(mag', lru', file'.blocks, put', od_root') /\ Written(file'.blocks, od_root', mag')
  BY <1>1, <1>2, <1>6, <1>8, <1>10, <1>11
<1>14. Len(lru'.l) <= real_mag_limit'
  BY <1>1, UpHas
<1> QED BY <1>1, <1>6, <1>12, <1>13, <1>14, StaysClosing

(* The entry of m in the index.                                            *)
Entry(B, r, m, p) == [B EXCEPT ![r].idx = [x \in DOMAIN @ \cup {m} |-> IF x = m THEN p ELSE @[x]]]

(* Writing an entry changes the block of the index only.                   *)
LEMMA EntryIs ==
  ASSUME NEW B, NEW r \in DOMAIN B, B[r] = [idx |-> B[r].idx], NEW m, NEW p
  PROVE  LET C == Entry(B, r, m, p)
         IN  /\ DOMAIN C = DOMAIN B /\ \A b \in DOMAIN B : b # r => C[b] = B[b]
             /\ C[r] = [idx |-> C[r].idx] /\ C[r].idx = With(B[r].idx, m, p)
<1> DEFINE C == Entry(B, r, m, p)
           i == B[r].idx
<1>1. DOMAIN C = DOMAIN B /\ \A b \in DOMAIN B : b # r => C[b] = B[b]
  BY DEF Entry
<1>2. C[r] = [B[r] EXCEPT !.idx = With(@, m, p)]
  BY DEF Entry, With
<1> HIDE DEF C
<1>3. B[r] = [idx |-> i]
  OBVIOUS
<1> HIDE DEF i
<1>4. [[idx |-> i] EXCEPT !.idx = With(@, m, p)] = [idx |-> With(i, m, p)]
  OBVIOUS
<1>5. C[r] = [idx |-> With(i, m, p)]
  BY <1>2, <1>3, <1>4
<1>6. C[r].idx = With(i, m, p)
  BY <1>5
<1> QED BY <1>1, <1>5, <1>6 DEF C, i

(* The index stays right when an entry is added for a magazine on disk.    *)
LEMMA EntryWritten ==
  ASSUME NEW B, NEW r, NEW M, NEW N, Written(B, r, M), NEW m \in DOMAIN M, NEW p, N[m] = OnDisk(p),
         DOMAIN N = DOMAIN M, \A x \in DOMAIN M : x # m => N[x] = M[x], NEW D,
         D[r] = [idx |-> D[r].idx], r \in DOMAIN D, D[r].idx = With(B[r].idx, m, p)
  PROVE  Written(D, r, N)
<1>1. DOMAIN D[r].idx = DOMAIN B[r].idx \cup {m} /\ D[r].idx[m] = p
  BY DEF With
<1>2. \A x \in DOMAIN B[r].idx : x # m => D[r].idx[x] = B[r].idx[x]
  BY DEF With
<1>3. DOMAIN D[r].idx \subseteq DOMAIN N
  BY <1>1 DEF Written
<1>4. ASSUME NEW x \in DOMAIN D[r].idx PROVE N[x] = OnDisk(D[r].idx[x])
  <2>1. CASE x = m
    BY <1>1, <2>1
  <2>2. CASE x # m
    <3>1. x \in DOMAIN B[r].idx /\ x \in DOMAIN M
      BY <1>1, <2>2 DEF Written
    <3>2. M[x] = OnDisk(B[r].idx[x]) /\ N[x] = M[x] /\ D[r].idx[x] = B[r].idx[x]
      BY <1>2, <2>2, <3>1 DEF Written
    <3> QED BY <3>2
  <2> QED BY <2>1, <2>2
<1> QED BY <1>3, <1>4 DEF Written

(* vtdb_btree_write_magn: the magazine to disk if it is in memory, and its *)
(* entry.                                                                  *)
LEMMA MagStep ==
  ASSUME VtInv, NEW m \in DOMAIN mag, CloseMag(m)
  PROVE  VtInv'
<1>1. /\ pc = "closing" /\ m \notin DOMAIN file.blocks[od_root].idx
      /\ UNCHANGED <<pc, num_pnrs, real_mag_limit, current, od_root, put>>
  BY DEF CloseMag
<1>2. PICK f, B, r, M, q, P : f = file /\ B = file.blocks /\ r = od_root /\ M = mag /\ q = lru /\ P = put
  OBVIOUS
<1>3. /\ IsFile(f) /\ f.root = NoPtr /\ r \in Ptrs /\ Home(M, q, B, P, r) /\ Written(B, r, M)
      /\ Len(q.l) <= real_mag_limit /\ real_mag_limit \in Nat \ {0} /\ m \in DOMAIN M
  BY <1>1, <1>2, ClosingHas
<1>4. r \in DOMAIN B /\ B[r] = [idx |-> B[r].idx]
  BY <1>3 DEF Written
<1>5. ASSUME NEW D, file' = [f EXCEPT !.blocks = D]
      PROVE  IsFile(file') /\ file'.root = NoPtr /\ file'.blocks = D
  <2>1. LET g == [f EXCEPT !.blocks = D] IN g.root = f.root /\ g.blocks = D /\ IsFile(g)
    BY <1>3, FileBlocks
  <2> QED BY <1>3, <1>5, <2>1
<1>6. ASSUME NEW D, NEW N, NEW t, file' = [f EXCEPT !.blocks = D], mag' = N, lru' = t,
             Home(N, t, D, P, r), Written(D, r, N), Len(t.l) <= real_mag_limit
      PROVE  VtInv'
  <2>1. IsFile(file') /\ file'.root = NoPtr /\ file'.blocks = D
    BY <1>5, <1>6
  <2>2. od_root' # NoPtr
    BY <1>1, <1>2, <1>3, VtStoreAssumption
  <2>3. Home(mag', lru', file'.blocks, put', od_root') /\ Written(file'.blocks, od_root', mag')
    BY <1>1, <1>2, <1>6, <2>1
  <2>4. Len(lru'.l) <= real_mag_limit'
    BY <1>1, <1>6
  <2> QED BY <1>1, <2>1, <2>2, <2>3, <2>4, StaysClosing
<1>7. CASE mag[m].on_disk
  <2>1. /\ file' = [file EXCEPT !.blocks = Entry(file.blocks, od_root, m, mag[m].p)]
        /\ UNCHANGED <<mag, lru>>
    BY <1>7 DEF CloseMag, Entry
  <2>2. PICK p, D : p = M[m].p /\ D = Entry(B, r, m, p)
    OBVIOUS
  <2>3. file' = [f EXCEPT !.blocks = D] /\ mag' = M /\ lru' = q
    BY <1>2, <2>1, <2>2
  <2>4. /\ DOMAIN D = DOMAIN B /\ \A b \in DOMAIN B : b # r => D[b] = B[b]
        /\ D[r] = [idx |-> D[r].idx] /\ D[r].idx = With(B[r].idx, m, p)
    BY <1>4, <2>2, EntryIs
  <2>5. M[m] = OnDisk(p)
    <3>1. M[m].on_disk # FALSE
      BY <1>2, <1>7
    <3>2. M[m] = OnDisk(M[m].p)
      <4>1. Resides(M, q.l, B, P, r, m)
        BY <1>3, HomeCases
      <4> QED BY <3>1, <4>1 DEF Resides
    <3> QED BY <2>2, <3>2
  <2>6. Home(M, q, D, P, r)
    <3>1. DOMAIN D = DOMAIN B \cup {r} /\ (r = NoPtr => r \notin DOMAIN B)
      BY <1>3, <1>4, <2>4, VtStoreAssumption
    <3> QED BY <1>3, <2>4, <3>1, IndexHome
  <2>7. Written(D, r, M)
    BY <1>3, <1>4, <2>4, <2>5, EntryWritten
  <2> QED BY <1>3, <1>6, <2>3, <2>6, <2>7
<1>8. CASE ~mag[m].on_disk
  <2>1. PICK p \in Ptrs \ DOMAIN file.blocks :
          /\ lru' = L!LRURemove(lru, m) /\ mag' = [mag EXCEPT ![m] = OnDisk(p)]
          /\ file' = [file EXCEPT !.blocks =
               Entry([x \in DOMAIN @ \cup {p} |-> IF x = p THEN [n |-> mag[m].n] ELSE @[x]], od_root, m, p)]
    BY <1>8 DEF CloseMag, Entry
  <2>2. PICK C, D, N, t : /\ C = With(B, p, [n |-> M[m].n]) /\ D = Entry(C, r, m, p)
                          /\ N = [M EXCEPT ![m] = OnDisk(p)] /\ t = L!LRURemove(q, m)
    OBVIOUS
  <2>3. file' = [f EXCEPT !.blocks = D] /\ mag' = N /\ lru' = t
    BY <1>2, <2>1, <2>2 DEF With
  <2>4. m \in Elems(q.l)
    BY <1>2, <1>3, <1>8, HomeCases DEF Resides
  <2>5. p \in Ptrs \ DOMAIN B /\ p # r
    BY <1>2, <1>4, <2>1
  <2>6. Home(N, t, C, P, r)
    BY <1>3, <2>2, <2>4, <2>5, WriteHome
  <2>7. r \in DOMAIN C /\ C[r] = B[r]
    BY <1>4, <2>2, <2>5 DEF With
  <2>8. C[r] = [idx |-> C[r].idx]
    BY <1>4, <2>7
  <2>9. /\ DOMAIN D = DOMAIN C /\ \A b \in DOMAIN C : b # r => D[b] = C[b]
        /\ D[r] = [idx |-> D[r].idx] /\ D[r].idx = With(B[r].idx, m, p)
    <3>1. /\ DOMAIN D = DOMAIN C /\ \A b \in DOMAIN C : b # r => D[b] = C[b]
          /\ D[r] = [idx |-> D[r].idx] /\ D[r].idx = With(C[r].idx, m, p)
      BY <2>2, <2>7, <2>8, EntryIs
    <3> QED BY <2>7, <3>1
  <2>10. Home(N, t, D, P, r)
    <3>1. DOMAIN D = DOMAIN C \cup {r} /\ (r = NoPtr => r \notin DOMAIN C)
      BY <1>3, <2>7, <2>9, VtStoreAssumption
    <3> QED BY <1>3, <2>6, <2>9, <3>1, IndexHome
  <2>11. DOMAIN N = DOMAIN M /\ N[m] = OnDisk(p) /\ \A x \in DOMAIN M : x # m => N[x] = M[x]
    BY <1>3, <2>2
  <2>12. Written(D, r, N)
    BY <1>3, <2>7, <2>9, <2>11, EntryWritten
  <2>13. Len(t.l) <= real_mag_limit
    <3>1. Sound(q)
      BY <1>3 DEF Home
    <3>2. Len(t.l) = Len(q.l) - 1 /\ Len(q.l) \in Nat
      BY <2>2, <2>4, <3>1, RemoveSound, SoundCases
    <3> QED BY <1>3, <3>2
  <2> QED BY <1>6, <2>3, <2>10, <2>12, <2>13
<1> QED BY <1>7, <1>8

(* A complete index.                                                       *)
LEMMA AllWritten ==
  ASSUME NEW M, NEW q, NEW B, NEW P, NEW r, Home(M, q, B, P, r), Written(B, r, M), DOMAIN B[r].idx = DOMAIN M
  PROVE  Complete(B, r, P)
<1> DEFINE idx == B[r].idx
<1>1. \A m \in DOMAIN idx : M[m] = OnDisk(idx[m])
  BY DEF Written
<1>2. ASSUME NEW m \in DOMAIN idx PROVE idx[m] \in DOMAIN B \ {r} /\ B[idx[m]] = [n |-> P[m]]
  <2>1. Node(M, q.l, B, P, r, m) /\ M[m] = OnDisk(idx[m])
    BY <1>1 DEF Home
  <2>2. PICK b \in DOMAIN B \ {r} : M[m] = OnDisk(b) /\ B[b] = [n |-> P[m]]
    BY <2>1, NodeKinds DEF Node
  <2>3. b = idx[m]
    <3>1. OnDisk(b) = OnDisk(idx[m])
      BY <2>1, <2>2, Zenon
    <3> QED BY <3>1, NodeKinds, Zenon
  <2> QED BY <2>2, <2>3
<1>3. r \in DOMAIN B /\ DOMAIN idx = DOMAIN P
  BY DEF Written, Home
<1> HIDE DEF idx
<1>4. IsInjective(idx)
  BY <1>1, <1>2 DEF IsInjective, Home, Apart, idx
<1>5. \A b : b \in Range(idx) <=> \E m \in DOMAIN idx : b = idx[m]
  BY DEF Range
<1>6. r \notin Range(idx)
  BY <1>2, <1>5
<1>7. ASSUME NEW b \in DOMAIN B \ {r} PROVE b \in Range(idx)
  <2>1. PICK m \in DOMAIN M : M[m] = OnDisk(b)
    BY DEF Home, Owned
  <2>2. m \in DOMAIN idx /\ b = idx[m]
    BY <1>1, <2>1, NodeKinds DEF idx
  <2> QED BY <1>5, <2>2
<1>8. DOMAIN B = Range(idx) \cup {r}
  <2>1. ASSUME NEW b \in Range(idx) PROVE b \in DOMAIN B
    <3>1. PICK m \in DOMAIN idx : b = idx[m]
      BY <1>5
    <3>2. idx[m] \in DOMAIN B
      BY <1>2 DEF idx
    <3> QED BY <3>1, <3>2
  <2> QED BY <1>3, <1>7, <2>1
<1> QED BY <1>2, <1>3, <1>4, <1>6, <1>8 DEF Complete, idx

(* A database that is down.                                                *)
LEMMA GoesDown ==
  ASSUME VtInv, pc' = "down", Forget, IsFile(file'), file'.root \in Ptrs \cup {NoPtr},
         DOMAIN file'.blocks \subseteq Ptrs, UNCHANGED put,
         file'.root # NoPtr => Complete(file'.blocks, file'.root, put')
  PROVE  VtInv'
<1>1. /\ mag' = Nothing /\ lru' = L!LRUInit /\ num_pnrs' = 0 /\ real_mag_limit' = mag_limit
      /\ current' = FALSE /\ od_root' = NoPtr
  BY DEF Forget
<1>2. 0 \in 0 .. MaxPnrs /\ mag_limit \in mag_limit .. mag_limit + PerPnr * MaxPnrs
  <2>1. PerPnr * MaxPnrs \in Nat /\ mag_limit \in Nat /\ MaxPnrs \in Nat
    BY VtStoreAssumption
  <2> QED BY <2>1
<1>3. Typed'
  BY <1>1, <1>2 DEF VtInv, Typed, IsFile
<1>4. Roots' /\ Idle' /\ Images'
  BY <1>1 DEF Roots, Idle, Images
<1>5. Busy'
  BY DEF Busy, Running
<1> QED BY <1>3, <1>4, <1>5 DEF VtInv

(* The pointer to the complete index is written.                           *)
LEMMA EndStep ==
  ASSUME VtInv, CloseEnd
  PROVE  VtInv'
<1>1. /\ pc = "closing" /\ pc' = "down" /\ DOMAIN file.blocks[od_root].idx = DOMAIN mag
      /\ file' = [file EXCEPT !.root = od_root] /\ Forget /\ UNCHANGED put
  BY DEF CloseEnd
<1>2. PICK f, B, r, M, q, P : f = file /\ B = file.blocks /\ r = od_root /\ M = mag /\ q = lru /\ P = put
  OBVIOUS
<1>3. /\ IsFile(f) /\ r \in Ptrs /\ Home(M, q, B, P, r) /\ Written(B, r, M) /\ DOMAIN B[r].idx = DOMAIN M
  BY <1>1, <1>2, ClosingHas
<1>4. Complete(B, r, P)
  BY <1>3, AllWritten
<1>5. LET g == [f EXCEPT !.root = r] IN g.root = r /\ g.blocks = f.blocks /\ IsFile(g)
  BY <1>3, FileRoot
<1>6. IsFile(file') /\ file'.root = r /\ file'.blocks = B
  BY <1>1, <1>2, <1>5
<1>7. DOMAIN B \subseteq Ptrs
  BY <1>3 DEF Home
<1>8. Complete(file'.blocks, file'.root, put')
  BY <1>1, <1>2, <1>4, <1>6
<1>9. file'.root \in Ptrs \cup {NoPtr} /\ DOMAIN file'.blocks \subseteq Ptrs
  BY <1>3, <1>6, <1>7
<1> QED BY <1>1, <1>6, <1>8, <1>9, GoesDown

(* The server dies: the pointer is clear whenever it is up.                *)
LEMMA CrashStep ==
  ASSUME VtInv, Crash
  PROVE  VtInv'
<1>1. pc # "down" /\ pc' = "down" /\ Forget /\ UNCHANGED <<file, put>>
  BY DEF Crash
<1>2. file'.root = NoPtr /\ file' = file
  BY <1>1 DEF VtInv, Roots
<1>3. IsFile(file') /\ file'.root \in Ptrs \cup {NoPtr} /\ DOMAIN file'.blocks \subseteq Ptrs
  BY <1>2 DEF VtInv, Typed, IsFile
<1> QED BY <1>1, <1>2, <1>3, GoesDown

(* vtdbInit of a file without index.                                       *)
LEMMA InitStep ==
  ASSUME VtInv, InitFile
  PROVE  VtInv'
<1>1. /\ pc = "down" /\ pc' = "up" /\ file' = [root |-> NoPtr, blocks |-> Nothing] /\ put' = Nothing
      /\ UNCHANGED <<mag, lru, num_pnrs, real_mag_limit, current, od_root>>
  BY DEF InitFile
<1>2. mag = Nothing /\ lru = L!LRUInit /\ od_root = NoPtr
  BY <1>1 DEF VtInv, Idle, Roots
<1>3. file'.root = NoPtr /\ file'.blocks = Nothing /\ IsFile(file')
  BY <1>1 DEF IsFile
<1>4. Home(mag', lru', file'.blocks, put', od_root') /\ Len(lru'.l) = 0
  BY <1>1, <1>2, <1>3, EmptyHome
<1>5. Len(lru'.l) <= real_mag_limit'
  <2>1. real_mag_limit \in Nat
    BY LimitPositive DEF VtInv
  <2> QED BY <1>1, <1>4, <2>1
<1>6. DOMAIN Nothing = {}
  BY DEF Nothing
<1>7. Typed'
  BY <1>1, <1>3, <1>6 DEF VtInv, Typed, IsFile
<1>8. Roots' /\ Idle' /\ Images'
  BY <1>1, <1>2, <1>3 DEF Roots, Idle, Images
<1>9. Busy'
  BY <1>4, <1>5 DEF Busy
<1> QED BY <1>7, <1>8, <1>9 DEF VtInv

(* vtdbInit of a file with index: the pointer is cleared.                  *)
LEMMA AttachStep ==
  ASSUME VtInv, AttachFile
  PROVE  VtInv'
<1>1. /\ pc = "down" /\ file.root # NoPtr /\ od_root' = file.root /\ pc' = "attached"
      /\ file' = [file EXCEPT !.root = NoPtr]
      /\ UNCHANGED <<mag, lru, num_pnrs, real_mag_limit, current, put>>
  BY DEF AttachFile
<1>2. PICK f : f = file
  OBVIOUS
<1>3. IsFile(f)
  BY <1>2 DEF VtInv, Typed, IsFile
<1>4. LET g == [f EXCEPT !.root = NoPtr] IN g.root = NoPtr /\ g.blocks = f.blocks /\ IsFile(g)
  BY <1>3, FileRoot
<1>5. IsFile(file') /\ file'.root = NoPtr /\ file'.blocks = file.blocks
  BY <1>1, <1>2, <1>4
<1>6. Complete(file'.blocks, od_root', put')
  BY <1>1, <1>5 DEF VtInv, Images
<1>7. Typed'
  BY <1>1, <1>5 DEF VtInv, Typed, IsFile
<1>8. Roots' /\ Idle' /\ Images'
  BY <1>1, <1>5, <1>6 DEF VtInv, Roots, Idle, Images
<1>9. Busy'
  BY <1>1 DEF Busy, Running
<1> QED BY <1>7, <1>8, <1>9 DEF VtInv

(* The magazines an index names.                                           *)
LEMMA ReadHome ==
  ASSUME NEW B, NEW r, NEW P, Complete(B, r, P), DOMAIN B \subseteq Ptrs, DOMAIN P \subseteq Mags,
         \A m \in DOMAIN P : P[m] \in 0 .. MaxPk
  PROVE  Home([m \in DOMAIN B[r].idx |-> OnDisk(B[r].idx[m])], L!LRUInit,
              Restrict(B, DOMAIN B \ {r}), P, NoPtr)
<1> DEFINE idx == B[r].idx
           M == [m \in DOMAIN idx |-> OnDisk(idx[m])]
           C == Restrict(B, DOMAIN B \ {r})
           q == L!LRUInit
<1>1. /\ r \in DOMAIN B /\ DOMAIN idx = DOMAIN P /\ IsInjective(idx)
      /\ DOMAIN B = Range(idx) \cup {r} /\ r \notin Range(idx)
      /\ \A m \in DOMAIN idx : B[idx[m]] = [n |-> P[m]]
  BY DEF Complete
<1>2. Sound(q) /\ Elems(q.l) = {}
  BY InitList DEF Elems
<1>3. DOMAIN M = DOMAIN P /\ \A m \in DOMAIN P : M[m] = OnDisk(idx[m])
  BY <1>1
<1>4. DOMAIN C = DOMAIN B \ {r} /\ \A b \in DOMAIN C : C[b] = B[b]
  BY DEF Restrict
<1> HIDE DEF M, C, idx, q
<1>5. \A b : b \in Range(idx) <=> \E m \in DOMAIN P : b = idx[m]
  BY <1>1 DEF Range
<1>6. DOMAIN C = Range(idx) /\ NoPtr \notin DOMAIN C
  BY <1>1, <1>4, VtStoreAssumption
<1>7. ASSUME NEW m \in DOMAIN M PROVE Node(M, q.l, C, P, NoPtr, m)
  <2>1. idx[m] \in DOMAIN C \ {NoPtr} /\ C[idx[m]] = [n |-> P[m]]
    BY <1>1, <1>3, <1>4, <1>5, <1>6
  <2>2. M[m] = OnDisk(idx[m]) /\ m \notin Elems(q.l)
    BY <1>2, <1>3
  <2> QED BY <2>1, <2>2 DEF Node
<1>8. Apart(M, C)
  <2> SUFFICES ASSUME NEW x \in DOMAIN P, NEW y \in DOMAIN P, NEW b, M[x] = OnDisk(b), M[y] = OnDisk(b)
               PROVE  x = y
    BY <1>3 DEF Apart
  <2>1. idx[x] = b /\ idx[y] = b
    BY <1>3, NodeKinds
  <2> QED BY <1>1, <2>1 DEF IsInjective
<1>9. Owned(M, C, NoPtr)
  BY <1>3, <1>5, <1>6 DEF Owned
<1>10. Home(M, q, C, P, NoPtr)
  BY <1>2, <1>3, <1>4, <1>7, <1>8, <1>9 DEF Home
<1> QED BY <1>10 DEF M, C, idx, q

(* vtdb_read_index.                                                        *)
LEMMA ReadStep ==
  ASSUME VtInv, ReadIndex
  PROVE  VtInv'
<1>1. /\ pc = "attached" /\ pc' = "up" /\ od_root' = NoPtr
      /\ mag' = [m \in DOMAIN file.blocks[od_root].idx |-> OnDisk(file.blocks[od_root].idx[m])]
      /\ file' = [file EXCEPT !.blocks = Restrict(file.blocks, DOMAIN file.blocks \ {od_root})]
      /\ UNCHANGED <<lru, num_pnrs, real_mag_limit, current, put>>
  BY DEF ReadIndex
<1>2. PICK f, B, r, P, C : /\ f = file /\ B = file.blocks /\ r = od_root /\ P = put
                           /\ C = Restrict(B, DOMAIN B \ {r})
  OBVIOUS
<1>3. /\ Complete(B, r, P) /\ DOMAIN B \subseteq Ptrs /\ DOMAIN P \subseteq Mags
      /\ \A m \in DOMAIN P : P[m] \in 0 .. MaxPk
      /\ IsFile(f) /\ f.root = NoPtr /\ lru = L!LRUInit
  BY <1>1, <1>2 DEF VtInv, Images, Typed, Roots, Idle, IsFile
<1>4. Home([m \in DOMAIN B[r].idx |-> OnDisk(B[r].idx[m])], L!LRUInit,
           Restrict(B, DOMAIN B \ {r}), P, NoPtr)
  BY <1>3, ReadHome
<1>5. LET g == [f EXCEPT !.blocks = C] IN g.root = f.root /\ g.blocks = C /\ IsFile(g)
  BY <1>3, FileBlocks
<1>6. file' = [f EXCEPT !.blocks = C]
  BY <1>1, <1>2
<1>7. IsFile(file') /\ file'.root = NoPtr /\ file'.blocks = C
  BY <1>3, <1>5, <1>6
<1>8. Home(mag', lru', file'.blocks, put', od_root')
  BY <1>1, <1>2, <1>3, <1>4, <1>7
<1>9. Len(lru'.l) <= real_mag_limit'
  <2>1. real_mag_limit \in Nat
    BY LimitPositive DEF VtInv
  <2> QED BY <1>1, <1>3, <2>1, EmptyHome
<1>10. DOMAIN C \subseteq Ptrs
  BY <1>7, <1>8 DEF Home
<1>11. Typed'
  BY <1>1, <1>7, <1>10 DEF VtInv, Typed, IsFile
<1>12. Roots' /\ Idle' /\ Images'
  BY <1>1, <1>7 DEF Roots, Idle, Images
<1>13. Busy'
  BY <1>8, <1>9 DEF Busy
<1> QED BY <1>11, <1>12, <1>13 DEF VtInv

-----------------------------------------------------------------------------
(* The invariant holds before the first start.                             *)
LEMMA VtStart == Init => VtInv
<1> SUFFICES ASSUME Init PROVE VtInv
  OBVIOUS
<1>1. /\ pc = "down" /\ file = [root |-> NoPtr, blocks |-> Nothing] /\ mag = Nothing
      /\ lru = L!LRUInit /\ put = Nothing /\ num_pnrs = 0 /\ real_mag_limit = mag_limit
      /\ current = FALSE /\ od_root = NoPtr
  BY DEF Init
<1>2. file.root = NoPtr /\ file.blocks = Nothing /\ IsFile(file) /\ DOMAIN Nothing = {}
  BY <1>1 DEF IsFile, Nothing
<1>3. 0 \in 0 .. MaxPnrs /\ mag_limit \in mag_limit .. mag_limit + PerPnr * MaxPnrs
  <2>1. PerPnr * MaxPnrs \in Nat /\ mag_limit \in Nat /\ MaxPnrs \in Nat
    BY VtStoreAssumption
  <2> QED BY <2>1
<1>4. Typed
  BY <1>1, <1>2, <1>3 DEF Typed, IsFile
<1>5. Roots /\ Idle /\ Images
  BY <1>1, <1>2 DEF Roots, Idle, Images
<1>6. Busy
  BY <1>1 DEF Busy, Running
<1> QED BY <1>4, <1>5, <1>6 DEF VtInv

(* The invariant is inductive.                                             *)
LEMMA VtStep == VtInv /\ [Next]_vars => VtInv'
<1> SUFFICES ASSUME VtInv, [Next]_vars PROVE VtInv'
  OBVIOUS
<1>1. ASSUME NEW m \in Mags, vtdb_put(m) PROVE VtInv'
  BY <1>1, PutStep
<1>2. ASSUME NEW m \in Mags, vtdb_get_mag(m) PROVE VtInv'
  BY <1>2, GetStep
<1>3. CASE vtdb_add_pids \/ vtdb_rmv_pids
  BY <1>3, ProgramStep
<1>4. CASE vtdb_add_all_pids
  BY <1>4, AllStep
<1>5. CASE GoIdle \/ GoTuned
  BY <1>5, TuneStep
<1>6. CASE vtdb_reconfig
  BY <1>6, ConfigStep
<1>7. CASE CloseBegin
  BY <1>7, BeginStep
<1>8. ASSUME NEW m \in DOMAIN mag, CloseMag(m) PROVE VtInv'
  BY <1>8, MagStep
<1>9. CASE CloseEnd
  BY <1>9, EndStep
<1>10. CASE Crash
  BY <1>10, CrashStep
<1>11. CASE InitFile
  BY <1>11, InitStep
<1>12. CASE AttachFile
  BY <1>12, AttachStep
<1>13. CASE ReadIndex
  BY <1>13, ReadStep
<1>14. CASE UNCHANGED vars
  BY <1>14 DEF vars, VtInv, Typed, Roots, Idle, Busy, Images, Running
<1> QED BY <1>1, <1>2, <1>3, <1>4, <1>5, <1>6, <1>7, <1>8, <1>9, <1>10, <1>11, <1>12, <1>13, <1>14 DEF Next

(* The invariant holds always.                                             *)
LEMMA VtAlways == Spec => []VtInv
<1>1. Init => VtInv
  BY VtStart
<1>2. VtInv /\ [Next]_vars => VtInv'
  BY VtStep
<1> QED BY <1>1, <1>2, PTL DEF Spec

-----------------------------------------------------------------------------
(* What the invariant means.                                               *)

(* A list without repetitions is as long as its set of elements.           *)
LEMMA ListedOnce ==
  ASSUME NEW l \in Seq(Mags), Once(l)
  PROVE  ToSet(l) = Elems(l) /\ Cardinality(Elems(l)) = Len(l)
<1>1. Len(l) \in Nat /\ DOMAIN l = 1 .. Len(l)
  BY LenProperties, ElementOfSeq
<1>2. ToSet(l) = Elems(l)
  BY <1>1 DEF ToSet, Elems
<1> DEFINE S == 1 .. Len(l)
           T == Elems(l)
           f == [i \in S |-> l[i]]
<1>3. f \in [S -> T]
  BY DEF Elems
<1>4. \A a, b \in S : f[a] = f[b] => a = b
  BY DEF Once
<1>5. \A t \in T : \E s \in S : f[s] = t
  BY DEF Elems
<1> HIDE DEF T, f
<1>6. ExistsBijection(S, T)
  BY <1>3, <1>4, <1>5, Zenon DEF ExistsBijection, Bijection, Surjection, Injection, IsInjective
<1>7. IsFiniteSet(S) /\ Cardinality(S) = Len(l)
  <2> DEFINE k == Len(l)
  <2>1. k \in Nat
    BY <1>1
  <2> HIDE DEF k
  <2>2. IsFiniteSet(1 .. k) /\ Cardinality(1 .. k) = IF 1 > k THEN 0 ELSE k - 1 + 1
    BY <2>1, FS_Interval
  <2>3. IsFiniteSet(1 .. k) /\ Cardinality(1 .. k) = k
    BY <2>1, <2>2
  <2> QED BY <2>3 DEF k
<1> HIDE DEF S
<1>8. Cardinality(T) = Len(l)
  BY <1>6, <1>7, FS_Bijection
<1> QED BY <1>2, <1>8 DEF T

(* Magazines, list and middle are of their types.                          *)
LEMMA HomeTyped ==
  ASSUME NEW M, NEW q, NEW B, NEW P, NEW R, Home(M, q, B, P, R)
  PROVE  /\ DOMAIN M \subseteq Mags
         /\ \A m \in DOMAIN M : M[m] \in {InMemory(n) : n \in 0 .. MaxPk} \cup {OnDisk(p) : p \in Ptrs}
         /\ ToSet(q.l) = Elems(q.l) /\ Len(q.l) = Cardinality(ToSet(q.l))
         /\ ToSet(q.l) \subseteq Mags /\ q.mid \in Mags \cup {NoMag}
<1>1. DOMAIN M \subseteq Mags /\ Elems(q.l) \subseteq DOMAIN M /\ Sound(q)
  BY DEF Home
<1>2. ASSUME NEW m \in DOMAIN M
      PROVE  M[m] \in {InMemory(n) : n \in 0 .. MaxPk} \cup {OnDisk(p) : p \in Ptrs}
  <2>1. Node(M, q.l, B, P, R, m) /\ P[m] \in 0 .. MaxPk /\ DOMAIN B \subseteq Ptrs
    BY DEF Home
  <2>2. CASE M[m] = InMemory(P[m])
    BY <2>1, <2>2
  <2>3. CASE \E b \in DOMAIN B \ {R} : M[m] = OnDisk(b)
    BY <2>1, <2>3
  <2> QED BY <2>1, <2>2, <2>3 DEF Node
<1>3. q.l \in Seq(Mags) /\ Once(q.l)
  BY <1>1, SoundCases
<1>4. ToSet(q.l) = Elems(q.l) /\ Cardinality(Elems(q.l)) = Len(q.l)
  BY <1>3, ListedOnce
<1>5. q.mid \in Mags \cup {NoMag}
  <2>1. CASE q = L!LRUInit
    BY <2>1, InitList, RecFields
  <2>2. CASE q # L!LRUInit
    <3>1. PICK m \in 1 .. Len(q.l) : Listed(q, q.l, m, q.where)
      BY <1>1, <2>2, SoundCases
    <3> QED BY <3>1, ListFields
  <2> QED BY <2>1, <2>2
<1> QED BY <1>1, <1>2, <1>4, <1>5

(* What OneHome says of a running database.                                *)
Housed(M, cached, B, R) ==
  LET away == {m \in DOMAIN M : M[m].on_disk}
      at == [m \in away |-> M[m].p]
  IN  /\ cached = DOMAIN M \ away /\ IsInjective(at)
      /\ DOMAIN B = Range(at) \cup ({R} \ {NoPtr})
      /\ R \notin Range(at)

(* The parts of the store in the words of OneHome.                         *)
LEMMA HomeOne ==
  ASSUME NEW M, NEW q, NEW B, NEW P, NEW R, Home(M, q, B, P, R)
  PROVE  Housed(M, Elems(q.l), B, R)
<1> DEFINE away == {m \in DOMAIN M : M[m].on_disk}
           at == [m \in away |-> M[m].p]
<1>1. ASSUME NEW m \in DOMAIN M
      PROVE  \/ m \in Elems(q.l) /\ M[m] = InMemory(P[m]) /\ M[m].on_disk = FALSE
             \/ /\ m \notin Elems(q.l) /\ M[m].on_disk = TRUE
                /\ M[m] = OnDisk(M[m].p) /\ M[m].p \in DOMAIN B \ {R} /\ B[M[m].p] = [n |-> P[m]]
  <2>1. Resides(M, q.l, B, P, R, m)
    BY HomeCases
  <2> QED BY <2>1 DEF Resides
<1>2. Elems(q.l) \subseteq DOMAIN M
  BY DEF Home
<1>3. \A m \in DOMAIN M : m \in away <=> m \notin Elems(q.l)
  BY <1>1
<1>4. Elems(q.l) = DOMAIN M \ away
  BY <1>2, <1>3
<1>5. DOMAIN at = away /\ \A m \in away : at[m] = M[m].p
  OBVIOUS
<1>6. \A m \in away : m \in DOMAIN M
  OBVIOUS
<1> HIDE DEF away, at
<1>7. ASSUME NEW m \in away PROVE M[m] = OnDisk(at[m]) /\ at[m] \in DOMAIN B \ {R}
  BY <1>1, <1>3, <1>5, <1>6
<1>8. IsInjective(at)
  <2> SUFFICES ASSUME NEW a \in away, NEW b \in away, at[a] = at[b] PROVE a = b
    BY <1>5 DEF IsInjective
  <2> QED BY <1>6, <1>7 DEF Home, Apart
<1>9. \A b : b \in Range(at) <=> \E m \in away : b = at[m]
  BY <1>5 DEF Range
<1>10. R \notin Range(at)
  BY <1>7, <1>9
<1>11. ASSUME NEW b \in DOMAIN B \ {R} PROVE b \in Range(at)
  <2>1. PICK m \in DOMAIN M : M[m] = OnDisk(b)
    BY DEF Home, Owned
  <2>2. m \in away
    BY <1>1, <1>3, <2>1, NodeKinds
  <2>3. OnDisk(b) = OnDisk(at[m])
    BY <1>7, <2>1, <2>2
  <2>4. b = at[m]
    BY <2>3, NodeKinds, Zenon
  <2> QED BY <1>9, <2>2, <2>4
<1>12. DOMAIN B = Range(at) \cup ({R} \ {NoPtr})
  <2>1. NoPtr \notin DOMAIN B /\ (R = NoPtr \/ R \in DOMAIN B)
    BY VtStoreAssumption DEF Home
  <2> QED BY <1>7, <1>9, <1>11, <2>1
<1> QED BY <1>4, <1>8, <1>10, <1>12 DEF Housed, away, at

(* A magazine is on the list exactly when it is in memory, and the blocks  *)
(* of the file are those of the magazines on disk and of the index, one    *)
(* each (vtdb_check_swapout, vtdb_read_mag, vtdb_write_mag), for any       *)
(* numbers of magazines, blocks and programs and any limit.                *)
THEOREM MagazinesHaveOneHome == Spec => []OneHome
<1>1. VtInv => OneHome
  <2> SUFFICES ASSUME VtInv PROVE OneHome
    OBVIOUS
  <2>1. CASE Running
    <3>1. PICK M, q, B, P, R : M = mag /\ q = lru /\ B = file.blocks /\ P = put /\ R = od_root
      OBVIOUS
    <3>2. Home(M, q, B, P, R)
      BY <2>1, <3>1 DEF VtInv, Busy
    <3>3. /\ DOMAIN M \subseteq Mags
          /\ \A m \in DOMAIN M : M[m] \in {InMemory(n) : n \in 0 .. MaxPk} \cup {OnDisk(p) : p \in Ptrs}
          /\ ToSet(q.l) = Elems(q.l) /\ Len(q.l) = Cardinality(ToSet(q.l))
          /\ ToSet(q.l) \subseteq Mags /\ q.mid \in Mags \cup {NoMag}
      BY <3>2, HomeTyped
    <3>4. R \in Ptrs \cup {NoPtr}
      BY <3>2 DEF Home
    <3>5. TypeOK
      BY <3>1, <3>3, <3>4 DEF VtInv, Typed, TypeOK
    <3>6. Housed(M, ToSet(q.l), B, R)
      BY <3>2, <3>3, HomeOne
    <3>7. Housed(mag, Cached, file.blocks, od_root) /\ Len(lru.l) = Cardinality(Cached)
      BY <3>1, <3>3, <3>6 DEF Cached
    <3> QED BY <3>5, <3>7 DEF OneHome, Housed
  <2>2. CASE ~Running
    <3>1. pc \in {"down", "attached"} /\ mag = Nothing /\ lru = L!LRUInit
      BY <2>2 DEF VtInv, Typed, Running, Idle
    <3>2. DOMAIN mag = {} /\ lru.l = <<>> /\ lru.mid = NoMag
      BY <3>1, InitList, RecFields DEF Nothing
    <3>3. ToSet(lru.l) = {}
      BY <3>2 DEF ToSet
    <3>4. od_root \in Ptrs \cup {NoPtr}
      <4>1. CASE pc = "down"
        BY <4>1 DEF VtInv, Roots
      <4>2. CASE pc = "attached"
        BY <4>2 DEF VtInv, Images, Complete, Typed
      <4> QED BY <3>1, <4>1, <4>2
    <3>5. TypeOK
      BY <3>2, <3>3, <3>4 DEF VtInv, Typed, TypeOK
    <3> QED BY <2>2, <3>5 DEF OneHome
  <2> QED BY <2>1, <2>2
<1> QED BY <1>1, VtAlways, PTL

(* Memory or its block holds exactly the packets vtdb_put stored in a      *)
(* magazine, however often vtdb_write_mag and vtdb_read_mag moved it and   *)
(* whatever restarts lie between.                                          *)
THEOREM PacketsAreKept == Spec => []PacketsKept
<1>1. VtInv => PacketsKept
  <2> SUFFICES ASSUME VtInv, Running PROVE PacketsKept
    BY DEF PacketsKept
  <2>1. PICK M, q, B, P, R : M = mag /\ q = lru /\ B = file.blocks /\ P = put /\ R = od_root
    OBVIOUS
  <2>2. Home(M, q, B, P, R)
    BY <2>1 DEF VtInv, Busy
  <2>3. DOMAIN M = DOMAIN P
    BY <2>2 DEF Home
  <2>4. ASSUME NEW m \in DOMAIN M PROVE P[m] = IF M[m].on_disk THEN B[M[m].p].n ELSE M[m].n
    <3>1. Resides(M, q.l, B, P, R, m)
      BY <2>2, HomeCases
    <3>2. CASE M[m] = InMemory(P[m]) /\ M[m].on_disk = FALSE
      BY <3>2, NodeKinds
    <3>3. CASE M[m].on_disk = TRUE /\ B[M[m].p] = [n |-> P[m]]
      BY <3>3
    <3> QED BY <3>1, <3>2, <3>3 DEF Resides
  <2> QED BY <2>1, <2>3, <2>4 DEF PacketsKept
<1> QED BY <1>1, VtAlways, PTL

(* The list of lru.c has its middle, counters and sides right and is       *)
(* balanced after every sequence of LRUPutMid, LRUFwd, LRURemoveLast and   *)
(* LRURemove the database makes, and holds at most real_mag_limit          *)
(* magazines.                                                              *)
THEOREM ListStaysSound == Spec => []ListSound
<1>1. VtInv => ListSound
  <2> SUFFICES ASSUME VtInv PROVE ListSound
    OBVIOUS
  <2>1. PICK q : q = lru
    OBVIOUS
  <2>2. Sound(q) /\ Len(q.l) <= real_mag_limit
    <3>1. CASE Running
      BY <2>1, <3>1 DEF VtInv, Busy, Home
    <3>2. CASE ~Running
      <4>1. lru = L!LRUInit
        BY <3>2 DEF VtInv, Typed, Running, Idle
      <4>2. real_mag_limit \in Nat
        BY LimitPositive DEF VtInv
      <4>3. Len(lru.l) = 0 /\ Sound(lru)
        BY <4>1, EmptyHome, InitList
      <4> QED BY <2>1, <4>2, <4>3
    <3> QED BY <3>1, <3>2
  <2>3. L!Placed(q) /\ L!Balanced(q)
    BY <2>2, SoundMeans
  <2> QED BY <2>1, <2>2, <2>3 DEF ListSound
<1> QED BY <1>1, VtAlways, PTL

(* A file whose pointer to the index is set has every magazine with all    *)
(* its packets, whenever the server died: vtdbInit clears the pointer      *)
(* before it uses the file and vtdb_write_idx sets it last.                *)
THEOREM ImageAlwaysComplete == Spec => []ImageComplete
<1>1. VtInv => ImageComplete
  <2> SUFFICES ASSUME VtInv, file.root # NoPtr PROVE ImageComplete
    BY DEF ImageComplete
  <2>1. PICK B, r, P : B = file.blocks /\ r = file.root /\ P = put
    OBVIOUS
  <2>2. Complete(B, r, P)
    BY <2>1 DEF VtInv, Roots, Images
  <2>3. /\ r \in DOMAIN B /\ DOMAIN B[r].idx = DOMAIN P /\ IsInjective(B[r].idx)
        /\ DOMAIN B = Range(B[r].idx) \cup {r}
        /\ \A m \in DOMAIN B[r].idx : B[B[r].idx[m]] = [n |-> P[m]]
    BY <2>2 DEF Complete
  <2>4. \A m \in DOMAIN B[r].idx : B[B[r].idx[m]].n = P[m]
    <3> SUFFICES ASSUME NEW m \in DOMAIN B[r].idx PROVE B[B[r].idx[m]].n = P[m]
      OBVIOUS
    <3>1. B[B[r].idx[m]] = [n |-> P[m]]
      BY <2>3
    <3> QED BY <3>1
  <2> QED BY <2>1, <2>3, <2>4 DEF ImageComplete
<1> QED BY <1>1, VtAlways, PTL
=============================================================================
