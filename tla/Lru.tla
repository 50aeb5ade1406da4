-------------------------------- MODULE Lru ---------------------------------
(***************************************************************************)
(* The self sorting list of stream/lru.c: new elements enter in the        *)
(* middle, used ones move forward by one place, the last one is evicted.   *)
(* The list keeps a pointer to its middle element, the numbers of elements *)
(* before and behind it, and in every element the side it is on.           *)
(***************************************************************************)
EXTENDS Integers, SequencesExt

CONSTANT NoElem   (* a NULL LRUE pointer *)

Sides == 0 .. 2   (* LRUE.where: before the middle, behind it, the middle  *)

LRUInit == [l |-> <<>>, mid |-> NoElem, before |-> 0, behind |-> 0, where |-> <<>>]

Index(q, e) == CHOOSE i \in 1 .. Len(q.l) : q.l[i] = e

lru_e_prev(q, e) == IF Index(q, e) = 1 THEN NoElem ELSE q.l[Index(q, e) - 1]
lru_e_next(q, e) == IF Index(q, e) = Len(q.l) THEN NoElem ELSE q.l[Index(q, e) + 1]

lru_remove(q, e) ==
  [q EXCEPT !.l = RemoveAt(@, Index(q, e)),
            !.where = [x \in DOMAIN @ \ {e} |-> @[x]]]

(* lru_insert_first, lru_insert_before, lru_insert_after: to place i. *)
lru_insert(q, e, i, side) ==
  [q EXCEPT !.l = InsertAt(@, i, e),
            !.where = [x \in DOMAIN @ \cup {e} |-> IF x = e THEN side ELSE @[x]]]

(* The middle moves to e; the old middle gets a side. *)
SetMid(q, e, side) ==
  [q EXCEPT !.where = [@ EXCEPT ![q.mid] = side, ![e] = 2], !.mid = e]

lru_l(q) ==
  IF q.before < 1 THEN q
  ELSE [SetMid(q, lru_e_prev(q, q.mid), 1) EXCEPT !.before = @ - 1, !.behind = @ + 1]

lru_r(q) ==
  IF q.behind < 1 THEN q
  ELSE [SetMid(q, lru_e_next(q, q.mid), 0) EXCEPT !.before = @ + 1, !.behind = @ - 1]

lru_balance(q) ==
  IF q.before = 0 /\ q.behind = 0 THEN q
  ELSE IF q.before < q.behind - 1 THEN lru_r(q)
  ELSE IF q.before > q.behind THEN lru_l(q) ELSE q

LRUPutMid(q, e) ==
  IF q.l = <<>>
  THEN [lru_insert(q, e, 1, 2) EXCEPT !.mid = e, !.before = 0, !.behind = 0]
  ELSE IF q.before < q.behind
  THEN [lru_insert(q, e, Index(q, q.mid), 0) EXCEPT !.before = @ + 1]
  ELSE [lru_insert(q, e, Index(q, q.mid) + 1, 1) EXCEPT !.behind = @ + 1]

LRUGetSize(q) == IF q.mid = NoElem THEN 0 ELSE q.before + q.behind + 1

(* LRURemoveLast, of a list that is not empty. *)
LRURemoveLast(q) ==
  LET r == lru_remove(q, Last(q.l))
      s == [r EXCEPT !.behind = @ - 1]
  IN IF r.l = <<>> THEN LRUInit
     ELSE IF s.behind < s.before THEN lru_l(s) ELSE s

LRUFwd(q, e) ==
  LET prev == lru_e_prev(q, e)
      r == IF q.mid = e THEN SetMid(q, prev, 0)
           ELSE IF q.mid = prev THEN SetMid(q, e, 1) ELSE q
  IN IF prev = NoElem THEN q
     ELSE lru_insert(lru_remove(r, e), e, Index(q, prev), r.where[e])

LRURemove(q, e) ==
  LET prev == lru_e_prev(q, e)
      next == lru_e_next(q, e)
      r == IF e # q.mid THEN q
           ELSE IF prev # NoElem
           THEN [SetMid(q, prev, 1) EXCEPT !.before = @ - 1, !.behind = @ + 1]
           ELSE IF next # NoElem
           THEN [SetMid(q, next, 0) EXCEPT !.before = @ + 1, !.behind = @ - 1]
           ELSE q
      s == lru_remove(r, e)
  IN IF r.where[e] = 0 THEN lru_balance([s EXCEPT !.before = @ - 1])
     ELSE IF r.where[e] = 1 THEN lru_balance([s EXCEPT !.behind = @ - 1])
     ELSE LRUInit

-----------------------------------------------------------------------------
(* What the middle pointer, the counters and the sides mean, and the       *)
(* balance lru_balance aims at.                                            *)
Placed(q) ==
  IF q.l = <<>> THEN q = LRUInit
  ELSE LET m == Index(q, q.mid)
       IN /\ q.before = m - 1 /\ q.behind = Len(q.l) - m
          /\ \A i \in 1 .. Len(q.l) :
               q.where[q.l[i]] = IF i < m THEN 0 ELSE IF i > m THEN 1 ELSE 2

Balanced(q) == q.l # <<>> => q.before \in {q.behind, q.behind - 1}
=============================================================================
