---------------------------- MODULE FpMmProofs ----------------------------
(***************************************************************************)
(* The persistent allocator for every header size, request, fragment size, *)
(* outcome of rand_r and number of restarts.                               *)
(*                                                                         *)
(* FpInv is inductive.  Between two calls the file is Sound: its links     *)
(* tile it from the dummy to the last one (Chain), the free links hang in  *)
(* a tree under the dummy and nothing else does (Stem), and no two free    *)
(* links are neighbours (Alone).  In the middle of fphFree and fphMalloc   *)
(* one link is free but not in the tree (Half, Taken), and in the middle   *)
(* of fph_remove max is wrong from one node upwards (Hung).                *)
(*                                                                         *)
(* Tree is stated with the set of nodes below each node (sub).  The code   *)
(* walks down to a leaf and up to the dummy; the walks are recursive       *)
(* functions, whose values are found by induction along a rank: the number *)
(* of nodes below going down, of those not below going up.  The maxima     *)
(* that fph_remax refreshes are exactly those reached by bigger sides.     *)
(***************************************************************************)
EXTENDS FpMm, FiniteSetTheorems, WellFoundedInduction, TLAPS

(* Induction over the natural numbers, for a set.                          *)
LEMMA NatSetInduction ==
  ASSUME NEW S \in SUBSET Nat, 0 \in S, \A n \in S : n + 1 \in S
  PROVE  S = Nat
<1> DEFINE T == Nat \ S
           R == OpToRel(<, Nat)
<1> SUFFICES ASSUME T # {} PROVE FALSE
  OBVIOUS
<1>1. IsWellFoundedOn(R, Nat)
  BY NatLessThanWellFounded
<1>2. \A i, j \in Nat : <<i, j>> \in R <=> i < j
  BY DEF OpToRel
<1> HIDE DEF R
<1>3. PICK x \in T : \A y \in T : ~(<<y, x>> \in R)
  BY <1>1, WFMin
<1>4. x \in Nat /\ x \notin S
  OBVIOUS
<1>5. x # 0 /\ x - 1 \in Nat /\ x = (x - 1) + 1
  BY <1>4
<1>6. x - 1 \in S
  <2>1. <<x - 1, x>> \in R
    BY <1>2, <1>4, <1>5
  <2>2. x - 1 \notin T
    BY <1>3, <2>1
  <2> QED BY <1>5, <2>2
<1> QED BY <1>4, <1>5, <1>6

(* Induction along a rank.                                                 *)
LEMMA RankInduction ==
  ASSUME NEW D, NEW r \in [D -> Nat], NEW S \in SUBSET D,
         \A p \in D : (\A q \in D : r[q] < r[p] => q \in S) => p \in S
  PROVE  S = D
<1> DEFINE N == {n \in Nat : \A p \in D : r[p] < n => p \in S}
<1>1. 0 \in N
  OBVIOUS
<1>2. ASSUME NEW n \in N PROVE n + 1 \in N
  <2> SUFFICES ASSUME NEW p \in D, r[p] < n + 1 PROVE p \in S
    OBVIOUS
  <2>1. \A q \in D : r[q] < r[p] => q \in S
    <3> SUFFICES ASSUME NEW q \in D, r[q] < r[p] PROVE q \in S
      OBVIOUS
    <3>1. r[q] \in Nat /\ r[p] \in Nat /\ n \in Nat
      OBVIOUS
    <3>2. r[q] < n
      BY <3>1
    <3> QED BY <3>2
  <2> QED BY <2>1
<1>3. N = Nat
  <2>1. N \in SUBSET Nat
    OBVIOUS
  <2> HIDE DEF N
  <2> QED BY <1>1, <1>2, <2>1, NatSetInduction
<1>4. ASSUME NEW p \in D PROVE p \in S
  <2>1. r[p] \in Nat /\ r[p] + 1 \in Nat /\ r[p] < r[p] + 1
    OBVIOUS
  <2>2. r[p] + 1 \in N
    <3> HIDE DEF N
    <3> QED BY <1>3, <2>1
  <2> QED BY <2>1, <2>2
<1> QED BY <1>4

(* F goes on in C from p to nx[p] until it finds v[p]; F collects what is  *)
(* passed on the way along nx in C.                                        *)
Followed(F, D, C, nx, v) == F = [p \in D |-> IF p \in C THEN F[nx[p]] ELSE v[p]]

Passed(F, D, C, nx) == F = [p \in D |-> {p} \cup IF p \in C THEN F[nx[p]] ELSE {}]

(* There is such a function where every step along nx lowers a rank.       *)
LEMMA FollowRec ==
  ASSUME NEW D, NEW r \in [D -> Nat], NEW C \in SUBSET D, NEW nx, NEW v,
         \A p \in C : nx[p] \in D /\ r[nx[p]] < r[p]
  PROVE  \E F : Followed(F, D, C, nx, v)
<1> DEFINE Ok(F, n) == \A p \in D : r[p] < n => F[p] = IF p \in C THEN F[nx[p]] ELSE v[p]
           N == {n \in Nat : \E F : Ok(F, n)}
<1>1. 0 \in N
  <2>1. Ok(v, 0)
    OBVIOUS
  <2> QED BY <2>1
<1>2. ASSUME NEW n \in N PROVE n + 1 \in N
  <2>0. n \in Nat
    OBVIOUS
  <2>1. PICK F : Ok(F, n)
    OBVIOUS
  <2> DEFINE G == [p \in D |-> IF r[p] < n THEN F[p] ELSE IF p \in C THEN F[nx[p]] ELSE v[p]]
  <2>2. ASSUME NEW p \in D, r[p] < n + 1
        PROVE  G[p] = IF p \in C THEN G[nx[p]] ELSE v[p]
    <3>1. CASE p \notin C
      BY <2>1, <3>1
    <3>2. CASE p \in C
      <4>1. nx[p] \in D /\ r[nx[p]] \in Nat /\ r[p] \in Nat /\ r[nx[p]] < r[p]
        BY <3>2
      <4>2. r[nx[p]] < n
        BY <2>0, <2>2, <4>1
      <4>3. G[nx[p]] = F[nx[p]]
        BY <4>1, <4>2
      <4>4. G[p] = F[nx[p]]
        BY <2>1, <3>2
      <4> QED BY <3>2, <4>3, <4>4
    <3> QED BY <3>1, <3>2
  <2>3. Ok(G, n + 1)
    BY <2>2
  <2> HIDE DEF Ok, G
  <2> QED BY <2>0, <2>3
<1>3. N = Nat
  <2>1. N \in SUBSET Nat
    OBVIOUS
  <2> HIDE DEF N
  <2> QED BY <1>1, <1>2, <2>1, NatSetInduction
<1> DEFINE Last(p) == r[p] + 1
           V(p) == CHOOSE F : Ok(F, Last(p))
<1>4. ASSUME NEW p \in D PROVE Ok(V(p), Last(p))
  <2>1. Last(p) \in N
    <3>1. Last(p) \in Nat
      OBVIOUS
    <3> HIDE DEF N, Last
    <3> QED BY <1>3, <3>1
  <2> HIDE DEF Ok, Last
  <2> QED BY <2>1
<1>5. ASSUME NEW F, NEW G, NEW m \in Nat, NEW n \in Nat, Ok(F, m), Ok(G, n)
      PROVE  \A p \in D : r[p] < m /\ r[p] < n => F[p] = G[p]
  <2> DEFINE S == {p \in D : r[p] < m /\ r[p] < n => F[p] = G[p]}
  <2>1. ASSUME NEW p \in D, \A q \in D : r[q] < r[p] => q \in S PROVE p \in S
    <3> SUFFICES ASSUME r[p] < m, r[p] < n PROVE F[p] = G[p]
      OBVIOUS
    <3>1. CASE p \notin C
      BY <1>5, <3>1
    <3>2. CASE p \in C
      <4>1. nx[p] \in D /\ r[nx[p]] \in Nat /\ r[p] \in Nat /\ r[nx[p]] < r[p]
        BY <3>2
      <4>2. r[nx[p]] < m /\ r[nx[p]] < n
        BY <4>1
      <4>3. F[nx[p]] = G[nx[p]]
        BY <2>1, <4>1, <4>2
      <4> QED BY <1>5, <3>2, <4>3
    <3> QED BY <3>1, <3>2
  <2>2. S \in SUBSET D
    OBVIOUS
  <2>3. S = D
    <3> HIDE DEF S
    <3> QED BY <2>1, <2>2, RankInduction
  <2> QED BY <2>3
<1> DEFINE F == [p \in D |-> V(p)[p]]
<1>6. ASSUME NEW p \in D
      PROVE  F[p] = IF p \in C THEN F[nx[p]] ELSE v[p]
  <2>1. r[p] \in Nat /\ Last(p) \in Nat /\ r[p] < Last(p)
    OBVIOUS
  <2>2. V(p)[p] = IF p \in C THEN V(p)[nx[p]] ELSE v[p]
    <3> HIDE DEF V, Last
    <3> QED BY <1>4, <2>1
  <2>3. CASE p \in C
    <3>1. nx[p] \in D /\ r[nx[p]] \in Nat /\ r[nx[p]] < r[p]
      BY <2>3
    <3>2. Last(nx[p]) \in Nat /\ r[nx[p]] < Last(nx[p]) /\ r[nx[p]] < Last(p)
      BY <2>1, <3>1
    <3>3. V(p)[nx[p]] = V(nx[p])[nx[p]]
      <4> HIDE DEF V, Last, Ok
      <4> QED BY <1>4, <1>5, <2>1, <3>1, <3>2
    <3> QED BY <2>2, <2>3, <3>1, <3>3
  <2>4. CASE p \notin C
    BY <2>2, <2>4
  <2> QED BY <2>3, <2>4
<1>7. F = [p \in D |-> IF p \in C THEN F[nx[p]] ELSE v[p]]
  <2> HIDE DEF V
  <2> QED BY <1>6
<1> QED BY <1>7 DEF Followed

(* What is closed under the steps is not left, and v is read where they    *)
(* end.                                                                    *)
LEMMA FollowStays ==
  ASSUME NEW D, NEW r \in [D -> Nat], NEW C \in SUBSET D, NEW nx, NEW v,
         \A p \in C : nx[p] \in D /\ r[nx[p]] < r[p],
         NEW F, Followed(F, D, C, nx, v),
         NEW Z \in SUBSET D, \A p \in Z \cap C : nx[p] \in Z
  PROVE  \A p \in Z : \E z \in Z \ C : F[p] = v[z]
<1> DEFINE S == {p \in D : p \in Z => \E z \in Z \ C : F[p] = v[z]}
<1>1. \A p \in D : F[p] = IF p \in C THEN F[nx[p]] ELSE v[p]
  BY DEF Followed
<1>2. ASSUME NEW p \in D, \A q \in D : r[q] < r[p] => q \in S PROVE p \in S
  <2> SUFFICES ASSUME p \in Z PROVE \E z \in Z \ C : F[p] = v[z]
    OBVIOUS
  <2>1. CASE p \notin C
    BY <1>1, <2>1
  <2>2. CASE p \in C
    <3>1. nx[p] \in S /\ nx[p] \in Z /\ F[p] = F[nx[p]]
      BY <1>1, <1>2, <2>2
    <3> QED BY <3>1
  <2> QED BY <2>1, <2>2
<1>3. S = D
  <2>1. S \in SUBSET D
    OBVIOUS
  <2> HIDE DEF S
  <2> QED BY <1>2, <2>1, RankInduction
<1> QED BY <1>3

(* The function that collects what is passed on the way along nx in C.     *)
LEMMA ClimbRec ==
  ASSUME NEW D, NEW r \in [D -> Nat], NEW C \in SUBSET D, NEW nx,
         \A p \in C : nx[p] \in D /\ r[nx[p]] < r[p]
  PROVE  \E F : Passed(F, D, C, nx)
<1> DEFINE Ok(F, n) == \A p \in D : r[p] < n => F[p] = {p} \cup IF p \in C THEN F[nx[p]] ELSE {}
           N == {n \in Nat : \E F : Ok(F, n)}
<1>1. 0 \in N
  <2>1. Ok({}, 0)
    OBVIOUS
  <2> QED BY <2>1
<1>2. ASSUME NEW n \in N PROVE n + 1 \in N
  <2>0. n \in Nat
    OBVIOUS
  <2>1. PICK F : Ok(F, n)
    OBVIOUS
  <2> DEFINE G == [p \in D |-> IF r[p] < n THEN F[p] ELSE {p} \cup IF p \in C THEN F[nx[p]] ELSE {}]
  <2>2. ASSUME NEW p \in D, r[p] < n + 1
        PROVE  G[p] = {p} \cup IF p \in C THEN G[nx[p]] ELSE {}
    <3>1. CASE p \notin C
      BY <2>1, <3>1
    <3>2. CASE p \in C
      <4>1. nx[p] \in D /\ r[nx[p]] \in Nat /\ r[p] \in Nat /\ r[nx[p]] < r[p]
        BY <3>2
      <4>2. r[nx[p]] < n
        BY <2>0, <2>2, <4>1
      <4>3. G[nx[p]] = F[nx[p]]
        BY <4>1, <4>2
      <4>4. G[p] = {p} \cup F[nx[p]]
        BY <2>1, <3>2
      <4> QED BY <3>2, <4>3, <4>4
    <3> QED BY <3>1, <3>2
  <2>3. Ok(G, n + 1)
    BY <2>2
  <2> HIDE DEF Ok, G
  <2> QED BY <2>0, <2>3
<1>3. N = Nat
  <2>1. N \in SUBSET Nat
    OBVIOUS
  <2> HIDE DEF N
  <2> QED BY <1>1, <1>2, <2>1, NatSetInduction
<1> DEFINE Last(p) == r[p] + 1
           V(p) == CHOOSE F : Ok(F, Last(p))
<1>4. ASSUME NEW p \in D PROVE Ok(V(p), Last(p))
  <2>1. Last(p) \in N
    <3>1. Last(p) \in Nat
      OBVIOUS
    <3> HIDE DEF N, Last
    <3> QED BY <1>3, <3>1
  <2> HIDE DEF Ok, Last
  <2> QED BY <2>1
<1>5. ASSUME NEW F, NEW G, NEW m \in Nat, NEW n \in Nat, Ok(F, m), Ok(G, n)
      PROVE  \A p \in D : r[p] < m /\ r[p] < n => F[p] = G[p]
  <2> DEFINE S == {p \in D : r[p] < m /\ r[p] < n => F[p] = G[p]}
  <2>1. ASSUME NEW p \in D, \A q \in D : r[q] < r[p] => q \in S PROVE p \in S
    <3> SUFFICES ASSUME r[p] < m, r[p] < n PROVE F[p] = G[p]
      OBVIOUS
    <3>1. CASE p \notin C
      BY <1>5, <3>1
    <3>2. CASE p \in C
      <4>1. nx[p] \in D /\ r[nx[p]] \in Nat /\ r[p] \in Nat /\ r[nx[p]] < r[p]
        BY <3>2
      <4>2. r[nx[p]] < m /\ r[nx[p]] < n
        BY <4>1
      <4>3. F[nx[p]] = G[nx[p]]
        BY <2>1, <4>1, <4>2
      <4> QED BY <1>5, <3>2, <4>3
    <3> QED BY <3>1, <3>2
  <2>2. S \in SUBSET D
    OBVIOUS
  <2>3. S = D
    <3> HIDE DEF S
    <3> QED BY <2>1, <2>2, RankInduction
  <2> QED BY <2>3
<1> DEFINE F == [p \in D |-> V(p)[p]]
<1>6. ASSUME NEW p \in D
      PROVE  F[p] = {p} \cup IF p \in C THEN F[nx[p]] ELSE {}
  <2>1. r[p] \in Nat /\ Last(p) \in Nat /\ r[p] < Last(p)
    OBVIOUS
  <2>2. V(p)[p] = {p} \cup IF p \in C THEN V(p)[nx[p]] ELSE {}
    <3> HIDE DEF V, Last
    <3> QED BY <1>4, <2>1
  <2>3. CASE p \in C
    <3>1. nx[p] \in D /\ r[nx[p]] \in Nat /\ r[nx[p]] < r[p]
      BY <2>3
    <3>2. Last(nx[p]) \in Nat /\ r[nx[p]] < Last(nx[p]) /\ r[nx[p]] < Last(p)
      BY <2>1, <3>1
    <3>3. V(p)[nx[p]] = V(nx[p])[nx[p]]
      <4> HIDE DEF V, Last, Ok
      <4> QED BY <1>4, <1>5, <2>1, <3>1, <3>2
    <3> QED BY <2>2, <2>3, <3>1, <3>3
  <2>4. CASE p \notin C
    BY <2>2, <2>4
  <2> QED BY <2>3, <2>4
<1>7. F = [p \in D |-> {p} \cup IF p \in C THEN F[nx[p]] ELSE {}]
  <2> HIDE DEF V
  <2> QED BY <1>6
<1> QED BY <1>7 DEF Passed

-----------------------------------------------------------------------------
(* Heaps, and what the operations do to the fields of the links.           *)

(* Heap values with links at the pointers D.                               *)
Heaps(D) == [last : Nat, links : [D -> Header]]

(* Parents have a smaller rank.                                            *)
Ascends(H, D, r) ==
  \A q \in D : H.links[q].parent # NULL =>
    H.links[q].parent \in D /\ r[H.links[q].parent] < r[q]

(* fph_remax does not go on from q.                                        *)
Stop(H, q) == H.links[q].parent = NULL \/ H.links[H.links[q].parent].smaller = q

(* U is what fph_remax passes from e on.                                   *)
Climb(H, D, e, U) ==
  /\ e \in U
  /\ \A q \in U : ~Stop(H, q) => H.links[q].parent \in U
  /\ \A p \in U \ {e} : \E q \in U : ~Stop(H, q) /\ H.links[q].parent = p
  /\ \A Z \in SUBSET D :
       e \in Z /\ (\A q \in Z : ~Stop(H, q) => H.links[q].parent \in Z) => U \subseteq Z

WithMax(H, D, U, m) ==
  [H EXCEPT !.links = [p \in D |-> IF p \in U THEN [H.links[p] EXCEPT !.max = m] ELSE H.links[p]]]

(* fph_remax gives the max of e to all it passes.                          *)
LEMMA RemaxClimbs ==
  ASSUME NEW D, NEW H \in Heaps(D), NEW e \in D, NULL \notin D,
         NEW r \in [D -> Nat], Ascends(H, D, r)
  PROVE  \E U \in SUBSET D : Climb(H, D, e, U) /\ fph_remax(H, e) = WithMax(H, D, U, H.links[e].max)
<1> DEFINE C == {q \in D : ~Stop(H, q)}
           nx == [q \in D |-> H.links[q].parent]
           Body(F) == [q \in D |-> LET p == H.links[q].parent
                         IN {q} \cup IF p = NULL \/ H.links[p].smaller = q THEN {} ELSE F[p]]
           K == CHOOSE F : F = Body(F)
<1>1. DOMAIN H.links = D
  BY DEF Heaps
<1>2. \A F : Body(F) = [q \in D |-> {q} \cup IF q \in C THEN F[nx[q]] ELSE {}]
  BY DEF Stop
<1>3. \A q \in C : nx[q] \in D /\ r[nx[q]] < r[q]
  BY DEF Ascends, Stop
<1>4. \E F : F = [q \in D |-> {q} \cup IF q \in C THEN F[nx[q]] ELSE {}]
  <2>1. C \in SUBSET D
    OBVIOUS
  <2> HIDE DEF C, nx
  <2>2. PICK c, n : c = C /\ n = nx
    OBVIOUS
  <2>3. c \in SUBSET D /\ \A p \in c : n[p] \in D /\ r[n[p]] < r[p]
    BY <1>3, <2>1, <2>2
  <2>4. \E F : Passed(F, D, c, n)
    BY <2>3, ClimbRec
  <2> QED BY <2>2, <2>4 DEF Passed
<1>5. K = Body(K)
  <2>1. \E F : F = Body(F)
    <3>1. PICK F : F = [q \in D |-> {q} \cup IF q \in C THEN F[nx[q]] ELSE {}]
      BY <1>4
    <3>2. Body(F) = [q \in D |-> {q} \cup IF q \in C THEN F[nx[q]] ELSE {}]
      BY <1>2
    <3> HIDE DEF Body
    <3>3. F = Body(F)
      BY <3>1, <3>2, Zenon
    <3> QED BY <3>3
  <2> HIDE DEF Body
  <2> QED BY <2>1
<1>6. fph_remax(H, e) = WithMax(H, D, K[e], H.links[e].max)
  BY <1>1, Zenon DEF fph_remax, WithMax
<1> HIDE DEF K
<1>7. \A q \in D : K[q] = {q} \cup IF q \in C THEN K[nx[q]] ELSE {}
  <2>1. K = [q \in D |-> {q} \cup IF q \in C THEN K[nx[q]] ELSE {}]
    BY <1>2, <1>5
  <2> HIDE DEF C, nx
  <2> QED BY <2>1
<1> DEFINE Fine(q, U) ==
             /\ U \subseteq D /\ q \in U
             /\ \A x \in U : x \in C => nx[x] \in U
             /\ \A p \in U \ {q} : \E x \in U : x \in C /\ nx[x] = p
             /\ \A Z \in SUBSET D : q \in Z /\ (\A x \in Z : x \in C => nx[x] \in Z) => U \subseteq Z
           S == {q \in D : Fine(q, K[q])}
<1>8. ASSUME NEW q \in D, \A x \in D : r[x] < r[q] => x \in S PROVE q \in S
  <2>1. CASE q \notin C
    <3>1. K[q] = {q}
      BY <1>7, <2>1
    <3> HIDE DEF C, nx
    <3>2. Fine(q, {q})
      BY <2>1
    <3> QED BY <3>1, <3>2
  <2>2. CASE q \in C
    <3>1. K[q] = {q} \cup K[nx[q]]
      BY <1>7, <2>2
    <3>2. nx[q] \in D /\ nx[q] \in S
      BY <1>3, <1>8, <2>2
    <3>3. Fine(nx[q], K[nx[q]])
      BY <3>2
    <3> DEFINE n == nx[q]
               U == K[n]
    <3>4. Fine(n, U) /\ K[q] = {q} \cup U /\ n = nx[q]
      BY <3>1, <3>3
    <3> HIDE DEF C, nx, n, U
    <3>5. Fine(q, {q} \cup U)
      <4>1. \A p \in ({q} \cup U) \ {q} : \E x \in {q} \cup U : x \in C /\ nx[x] = p
        <5> SUFFICES ASSUME NEW p \in U \ {q} PROVE \E x \in {q} \cup U : x \in C /\ nx[x] = p
          OBVIOUS
        <5>1. CASE p = n
          BY <2>2, <3>4, <5>1
        <5>2. CASE p # n
          BY <3>4, <5>2
        <5> QED BY <5>1, <5>2
      <4>2. \A Z \in SUBSET D : q \in Z /\ (\A x \in Z : x \in C => nx[x] \in Z) => {q} \cup U \subseteq Z
        BY <2>2, <3>4
      <4>3. \A x \in {q} \cup U : x \in C => nx[x] \in {q} \cup U
        BY <3>4
      <4> QED BY <3>4, <4>1, <4>2, <4>3
    <3> QED BY <3>4, <3>5
  <2> QED BY <2>1, <2>2
<1>9. S = D
  <2>1. S \in SUBSET D
    OBVIOUS
  <2> HIDE DEF S
  <2> QED BY <1>8, <2>1, RankInduction
<1>10. Fine(e, K[e])
  BY <1>9
<1> DEFINE U == K[e]
<1>11. Fine(e, U) /\ fph_remax(H, e) = WithMax(H, D, U, H.links[e].max)
  BY <1>6, <1>10
<1> HIDE DEF U
<1>12. Climb(H, D, e, U)
  BY <1>11 DEF Climb
<1> QED BY <1>11, <1>12

-----------------------------------------------------------------------------
(* The tree at the links T; sub has the nodes of every subtree.            *)

Under(sub, p) == IF p = NULL THEN {} ELSE sub[p]

(* The tree around one node.                                               *)
Joint(H, T, sub, p) ==
  LET l == H.links[p]
  IN /\ \A c \in {l.smaller, l.bigger} \ {NULL} : c \in T \ {Root} /\ H.links[c].parent = p
     /\ l.smaller = l.bigger => l.smaller = NULL
     /\ p # Root => l.parent \in T /\ p \in {H.links[l.parent].smaller, H.links[l.parent].bigger}
     /\ sub[p] = {p} \cup Under(sub, l.smaller) \cup Under(sub, l.bigger)
     /\ p \notin Under(sub, l.smaller) /\ p \notin Under(sub, l.bigger)

Shape(H, D, T, sub) ==
  /\ T \subseteq D /\ IsFiniteSet(T) /\ Root \in T /\ NULL \notin D
  /\ H.links[Root].parent = NULL
  /\ sub \in [T -> SUBSET T]
  /\ \A p \in T : Joint(H, T, sub, p)

(* Sizes ascend from the smaller to the bigger side of p.                  *)
Sorted(H, sub, p) ==
  LET l == H.links[p]
  IN /\ \A q \in Under(sub, l.smaller) : H.links[q].size <= l.size
     /\ \A q \in Under(sub, l.bigger) : H.links[q].size >= l.size

(* max of p, from max of the bigger side.                                  *)
MaxAt(H, p) ==
  LET l == H.links[p]
  IN l.max = IF l.bigger = NULL THEN l.size ELSE H.links[l.bigger].max

(* The links outside the tree.                                             *)
Apart(H, D, T) ==
  \A p \in D \ T : LET l == H.links[p] IN l.smaller = NULL /\ l.bigger = NULL /\ l.parent = NULL

Tree(H, D, T, sub) ==
  /\ H \in Heaps(D)
  /\ Shape(H, D, T, sub)
  /\ H.links[Root].size = 0
  /\ \A p \in T : Sorted(H, sub, p) /\ MaxAt(H, p)

(* A node has more nodes below it than its sides have.                     *)
LEMMA SmallerBelow ==
  ASSUME NEW H, NEW D, NEW T, NEW sub, Shape(H, D, T, sub), NEW p \in T,
         NEW c \in {H.links[p].smaller, H.links[p].bigger} \ {NULL}
  PROVE  /\ c \in T \ {Root} /\ H.links[c].parent = p
         /\ sub[c] \subseteq sub[p] /\ p \notin sub[c] /\ p \in sub[p]
         /\ Cardinality(sub[p]) \in Nat /\ Cardinality(sub[c]) \in Nat
         /\ Cardinality(sub[c]) < Cardinality(sub[p])
<1>1. Joint(H, T, sub, p)
  BY DEF Shape
<1>2. c \in T \ {Root} /\ H.links[c].parent = p
  BY <1>1 DEF Joint
<1>3. sub[c] \subseteq sub[p] /\ p \notin sub[c] /\ p \in sub[p]
  BY <1>1 DEF Joint, Under
<1>4. IsFiniteSet(sub[p])
  <2>1. sub[p] \in SUBSET T /\ IsFiniteSet(T)
    BY DEF Shape
  <2> QED BY <2>1, FS_Subset
<1>5. /\ IsFiniteSet(sub[c]) /\ Cardinality(sub[c]) <= Cardinality(sub[p])
      /\ Cardinality(sub[c]) = Cardinality(sub[p]) => sub[c] = sub[p]
  BY <1>3, <1>4, FS_Subset
<1>6. Cardinality(sub[p]) \in Nat /\ Cardinality(sub[c]) \in Nat
  BY <1>4, <1>5, FS_CardinalityType
<1>7. Cardinality(sub[c]) # Cardinality(sub[p])
  BY <1>3, <1>5
<1>8. Cardinality(sub[c]) < Cardinality(sub[p])
  BY <1>5, <1>6, <1>7
<1> QED BY <1>2, <1>3, <1>6, <1>8

(* Sides have a smaller rank.                                              *)
Descends(H, D, T, r) ==
  \A p \in T : \A c \in {H.links[p].smaller, H.links[p].bigger} \ {NULL} : c \in D /\ r[c] < r[p]

(* Going down a side, fewer and fewer nodes are below.                     *)
LEMMA DownRank ==
  ASSUME NEW H, NEW D, NEW T, NEW sub, Shape(H, D, T, sub)
  PROVE  \E r \in [D -> Nat] : Descends(H, D, T, r)
<1> DEFINE r == [p \in D |-> IF p \in T THEN Cardinality(sub[p]) ELSE 0]
<1>0. T \subseteq D
  BY DEF Shape
<1>1. \A p \in T : Cardinality(sub[p]) \in Nat
  <2> TAKE p \in T
  <2>1. sub[p] \in SUBSET T /\ IsFiniteSet(T)
    BY DEF Shape
  <2> QED BY <2>1, FS_Subset, FS_CardinalityType
<1>2. r \in [D -> Nat]
  BY <1>1
<1>3. ASSUME NEW p \in T, NEW c \in {H.links[p].smaller, H.links[p].bigger} \ {NULL}
      PROVE  c \in D /\ r[c] < r[p]
  <2>1. c \in T /\ Cardinality(sub[c]) < Cardinality(sub[p])
    BY SmallerBelow
  <2> QED BY <1>0, <2>1
<1> HIDE DEF r
<1> QED BY <1>2, <1>3 DEF Descends

(* The links outside may still point into the tree, as after               *)
(* fph_remove_single.                                                      *)
LEMMA UpRank ==
  ASSUME NEW H, NEW D, NEW T, NEW sub, Shape(H, D, T, sub),
         \A q \in D \ T : H.links[q].parent \in T \cup {NULL}
  PROVE  \E r \in [D -> Nat] : Ascends(H, D, r)
<1> DEFINE N == Cardinality(T)
           r == [p \in D |-> IF p \in T THEN N - Cardinality(sub[p]) ELSE N]
<1>0. T \subseteq D /\ IsFiniteSet(T) /\ N \in Nat
  BY FS_CardinalityType DEF Shape
<1>1. ASSUME NEW p \in T
      PROVE  Cardinality(sub[p]) \in Nat /\ 0 < Cardinality(sub[p]) /\ Cardinality(sub[p]) <= N
  <2>1. sub[p] \in SUBSET T /\ IsFiniteSet(T)
    BY DEF Shape
  <2>2. p \in sub[p]
    BY DEF Shape, Joint
  <2>3. /\ IsFiniteSet(sub[p]) /\ Cardinality(sub[p]) <= N
    BY <2>1, FS_Subset
  <2>4. Cardinality(sub[p]) # 0
    BY <2>2, <2>3, FS_EmptySet
  <2>5. Cardinality(sub[p]) \in Nat
    BY <2>3, FS_CardinalityType
  <2> QED BY <2>3, <2>4, <2>5
<1> HIDE DEF N
<1>2. r \in [D -> Nat]
  BY <1>0, <1>1
<1>3. ASSUME NEW q \in D, H.links[q].parent # NULL
      PROVE  H.links[q].parent \in D /\ r[H.links[q].parent] < r[q]
  <2> DEFINE p == H.links[q].parent
  <2>1. CASE q \in T
    <3>1. q # Root /\ p \in T /\ q \in {H.links[p].smaller, H.links[p].bigger} \ {NULL}
      BY <1>3, <2>1 DEF Shape, Joint
    <3> HIDE DEF p
    <3>2. Cardinality(sub[q]) < Cardinality(sub[p])
      BY <3>1, SmallerBelow
    <3>3. p \in D /\ r[p] < r[q]
      BY <1>0, <1>1, <2>1, <3>1, <3>2
    <3> QED BY <3>3 DEF p
  <2>2. CASE q \notin T
    <3>1. p \in T
      BY <1>3, <2>2
    <3> HIDE DEF p
    <3>2. p \in D /\ r[p] < r[q]
      BY <1>0, <1>1, <2>2, <3>1
    <3> QED BY <3>2 DEF p
  <2> QED BY <2>1, <2>2
<1> HIDE DEF r
<1> QED BY <1>2, <1>3 DEF Ascends

(* Every node is below the dummy, what is below a node below p is below p, *)
(* and so is the parent of a node below p.                                 *)
LEMMA BelowNode ==
  ASSUME NEW H, NEW D, NEW T, NEW sub, Shape(H, D, T, sub)
  PROVE  /\ \A p \in T : p \in sub[p]
         /\ \A p \in T : \A q \in sub[p] : q \in T /\ sub[q] \subseteq sub[p]
         /\ \A p \in T : \A q \in sub[p] \ {p} : H.links[q].parent \in sub[p]
         /\ \A p \in T : \A q \in sub[p] \ {p} : q # Root /\ p \notin sub[q]
<1> DEFINE Fine(p) ==
             /\ \A q \in sub[p] : q \in T /\ sub[q] \subseteq sub[p]
             /\ \A q \in sub[p] \ {p} : H.links[q].parent \in sub[p] /\ q # Root /\ p \notin sub[q]
           S == {p \in T : Fine(p)}
<1>0. T \subseteq D /\ sub \in [T -> SUBSET T]
  BY DEF Shape
<1>1. PICK r \in [D -> Nat] : Descends(H, D, T, r)
  BY DownRank
<1>2. \A p \in T : p \in sub[p]
  BY DEF Shape, Joint
<1>3. ASSUME NEW p \in T, \A x \in T : r[x] < r[p] => x \in S PROVE p \in S
  <2> DEFINE a == H.links[p].smaller
             b == H.links[p].bigger
  <2>1. Joint(H, T, sub, p)
    BY DEF Shape
  <2>2. \A c \in {a, b} \ {NULL} : c \in T \ {Root} /\ H.links[c].parent = p /\ Fine(c)
                                    /\ sub[c] \subseteq sub[p] /\ p \notin sub[c]
    <3> TAKE c \in {a, b} \ {NULL}
    <3>1. c \in T \ {Root} /\ H.links[c].parent = p /\ sub[c] \subseteq sub[p] /\ p \notin sub[c]
      BY SmallerBelow
    <3>2. r[c] < r[p]
      BY <1>1 DEF Descends
    <3>3. Fine(c)
      BY <1>3, <3>1, <3>2
    <3> QED BY <3>1, <3>3
  <2>3. \A q \in sub[p] \ {p} : \E c \in {a, b} \ {NULL} : q \in sub[c]
    BY <2>1 DEF Joint, Under
  <2> HIDE DEF a, b
  <2>4. ASSUME NEW q \in sub[p] PROVE q \in T /\ sub[q] \subseteq sub[p]
    <3>1. CASE q = p
      BY <3>1
    <3>2. CASE q # p
      <4>1. PICK c \in {a, b} \ {NULL} : q \in sub[c]
        BY <2>3, <3>2
      <4> QED BY <2>2, <4>1
    <3> QED BY <3>1, <3>2
  <2>5. ASSUME NEW q \in sub[p] \ {p}
        PROVE  H.links[q].parent \in sub[p] /\ q # Root /\ p \notin sub[q]
    <3>1. PICK c \in {a, b} \ {NULL} : q \in sub[c]
      BY <2>3
    <3>2. CASE q = c
      BY <1>2, <2>2, <3>1, <3>2
    <3>3. CASE q # c
      BY <2>2, <3>1, <3>3
    <3> QED BY <3>2, <3>3
  <2> QED BY <2>4, <2>5
<1>4. S = T
  <2>1. S \in SUBSET T
    OBVIOUS
  <2>2. [p \in T |-> r[p]] \in [T -> Nat] /\ \A p \in T : [q \in T |-> r[q]][p] = r[p]
    BY <1>0
  <2> HIDE DEF S
  <2> DEFINE s == [p \in T |-> r[p]]
  <2>3. s \in [T -> Nat] /\ \A p \in T : (\A q \in T : s[q] < s[p] => q \in S) => p \in S
    BY <1>3, <2>2
  <2> HIDE DEF s
  <2> QED BY <2>1, <2>3, RankInduction
<1> QED BY <1>2, <1>4

(* Every node is below the dummy.                                          *)
LEMMA AllBelowRoot ==
  ASSUME NEW H, NEW D, NEW T, NEW sub, Shape(H, D, T, sub),
         \A q \in D \ T : H.links[q].parent \in T \cup {NULL}
  PROVE  sub[Root] = T
<1> DEFINE S == {p \in T : p \in sub[Root]}
<1>0. T \subseteq D /\ Root \in T /\ sub \in [T -> SUBSET T] /\ NULL \notin D
  BY DEF Shape
<1>1. PICK r \in [D -> Nat] : Ascends(H, D, r)
  BY UpRank
<1>2. ASSUME NEW p \in T, \A q \in T : r[q] < r[p] => q \in S PROVE p \in S
  <2>1. CASE p = Root
    BY <1>0, <2>1, BelowNode
  <2>2. CASE p # Root
    <3> DEFINE x == H.links[p].parent
    <3>1. x \in T /\ p \in {H.links[x].smaller, H.links[x].bigger} \ {NULL}
      BY <1>0, <2>2 DEF Shape, Joint
    <3>2. r[x] < r[p]
      BY <1>0, <1>1, <3>1 DEF Ascends
    <3> HIDE DEF x
    <3>3. x \in sub[Root]
      BY <1>2, <3>1, <3>2
    <3>4. p \in sub[x]
      BY <3>1, SmallerBelow, BelowNode
    <3> QED BY <1>0, <3>3, <3>4, BelowNode
  <2> QED BY <2>1, <2>2
<1>4. S = T
  <2>1. S \in SUBSET T
    OBVIOUS
  <2> HIDE DEF S
  <2> DEFINE s == [p \in T |-> r[p]]
  <2>3. s \in [T -> Nat] /\ \A p \in T : (\A q \in T : s[q] < s[p] => q \in S) => p \in S
    BY <1>0, <1>2
  <2> HIDE DEF s
  <2> QED BY <2>1, <2>3, RankInduction
<1> QED BY <1>0, <1>4

(* Two heaps with the same chain, and with the same tree but for max.      *)
SameChain(H, G, D) ==
  /\ G.last = H.last
  /\ \A p \in D : /\ G.links[p].prev = H.links[p].prev /\ G.links[p].next = H.links[p].next
                  /\ G.links[p].used = H.links[p].used /\ G.links[p].size = H.links[p].size

SameSides(H, G, D) ==
  \A p \in D : /\ G.links[p].smaller = H.links[p].smaller
               /\ G.links[p].bigger = H.links[p].bigger
               /\ G.links[p].parent = H.links[p].parent

(* max does not matter to the shape of the tree.                           *)
LEMMA SameShape ==
  ASSUME NEW H, NEW G, NEW D, NEW T, NEW sub, Shape(H, D, T, sub), SameSides(H, G, D)
  PROVE  Shape(G, D, T, sub)
<1>1. T \subseteq D /\ Root \in T
  BY DEF Shape
<1>2. ASSUME NEW p \in T PROVE Joint(G, T, sub, p)
  <2>1. Joint(H, T, sub, p)
    BY DEF Shape
  <2>2. \A c \in {H.links[p].smaller, H.links[p].bigger} \ {NULL} : c \in D
    BY <1>1, <2>1 DEF Joint
  <2>3. p # Root => H.links[p].parent \in D
    BY <1>1, <2>1 DEF Joint
  <2> QED BY <1>1, <2>1, <2>2, <2>3 DEF Joint, SameSides
<1> QED BY <1>1, <1>2 DEF Shape, SameSides

(* fph_remax from e puts max right, where it is right at e and wrong at    *)
(* most where e is the bigger side.                                        *)
RemaxDone(H, G, D, T) ==
  /\ G \in Heaps(D) /\ SameChain(H, G, D) /\ SameSides(H, G, D)
  /\ \A p \in T : MaxAt(G, p)

(* fph_remax repairs every max above e.                                    *)
LEMMA RemaxMends ==
  ASSUME NEW D, NEW H \in Heaps(D), NEW T, NEW sub, Shape(H, D, T, sub),
         \A q \in D \ T : H.links[q].parent \in T \cup {NULL},
         NEW e \in T, MaxAt(H, e), \A p \in T : H.links[p].bigger # e => MaxAt(H, p)
  PROVE  RemaxDone(H, fph_remax(H, e), D, T)
<1> DEFINE m == H.links[e].max
<1>0. T \subseteq D /\ e \in D /\ NULL \notin D
  BY DEF Shape
<1>1. PICK r \in [D -> Nat] : Ascends(H, D, r)
  BY UpRank
<1>2. PICK U \in SUBSET D : Climb(H, D, e, U) /\ fph_remax(H, e) = WithMax(H, D, U, m)
  BY <1>0, <1>1, RemaxClimbs
<1> DEFINE G == WithMax(H, D, U, m)
<1>3. m \in Nat /\ DOMAIN H.links = D
  BY <1>0 DEF Heaps, Header
<1>4. /\ SameChain(H, G, D) /\ SameSides(H, G, D)
      /\ \A p \in D : G.links[p].max = IF p \in U THEN m ELSE H.links[p].max
  <2>1. G.last = H.last /\ \A p \in D : G.links[p] = IF p \in U THEN [H.links[p] EXCEPT !.max = m] ELSE H.links[p]
    BY DEF WithMax, Heaps
  <2> HIDE DEF G, m
  <2>2. \A p \in D : H.links[p] \in Header
    BY DEF Heaps
  <2> QED BY <2>1, <2>2 DEF SameChain, SameSides, Header
<1>5. G \in Heaps(D)
  <2>1. G = [last |-> H.last, links |-> [p \in D |-> IF p \in U THEN [H.links[p] EXCEPT !.max = m] ELSE H.links[p]]]
    BY DEF WithMax, Heaps
  <2> HIDE DEF G, m
  <2>2. \A p \in D : H.links[p] \in Header /\ [H.links[p] EXCEPT !.max = m] \in Header
    BY <1>3 DEF Heaps, Header
  <2>3. H.last \in Nat
    BY DEF Heaps
  <2> QED BY <2>1, <2>2, <2>3 DEF Heaps
<1> HIDE DEF G, m
<1>6. U \subseteq T
  <2>1. \A q \in T : H.links[q].parent = NULL \/ H.links[q].parent \in T
    BY DEF Shape, Joint
  <2>2. \A q \in T : ~Stop(H, q) => H.links[q].parent \in T
    BY <2>1 DEF Stop
  <2> QED BY <1>0, <1>2, <2>2 DEF Climb
<1>7. \A p \in T : H.links[p].bigger # NULL =>
        /\ H.links[p].bigger \in T /\ H.links[H.links[p].bigger].parent = p
        /\ H.links[p].smaller # H.links[p].bigger
  BY DEF Shape, Joint
<1>8. ASSUME NEW p \in T PROVE MaxAt(G, p)
  <2> DEFINE b == H.links[p].bigger
  <2>0. p \in D /\ p # NULL /\ G.links[p].bigger = b /\ G.links[p].size = H.links[p].size
    BY <1>0, <1>4 DEF SameSides, SameChain
  <2>1. CASE p = e
    <3>1. G.links[e].max = m
      BY <1>0, <1>2, <1>4 DEF Climb
    <3>2. CASE b = NULL
      BY <2>0, <2>1, <3>1, <3>2 DEF MaxAt, m
    <3>3. CASE b # NULL
      <4>1. b \in D /\ m = H.links[b].max
        BY <1>0, <1>7, <2>1, <3>3 DEF MaxAt, m
      <4>2. G.links[b].max = m
        BY <1>4, <4>1
      <4> QED BY <2>0, <2>1, <3>1, <3>3, <4>2 DEF MaxAt
    <3> QED BY <3>2, <3>3
  <2>2. CASE p \in U \ {e}
    <3>1. PICK q \in U : ~Stop(H, q) /\ H.links[q].parent = p
      BY <1>2, <2>2 DEF Climb
    <3>2. q \in T /\ q \in D /\ q # Root
      BY <1>0, <1>6, <2>0, <3>1 DEF Shape
    <3>3. b = q /\ b # NULL
      BY <1>0, <3>1, <3>2 DEF Shape, Joint, Stop
    <3>4. G.links[p].max = m /\ G.links[b].max = m
      BY <1>4, <2>0, <2>2, <3>1, <3>2, <3>3
    <3> QED BY <2>0, <3>3, <3>4 DEF MaxAt
  <2>3. CASE p \notin U
    <3>1. e \in U
      BY <1>2 DEF Climb
    <3>2. b # NULL => b \in D /\ b \notin U
      <4> SUFFICES ASSUME b # NULL PROVE b \in D /\ b \notin U
        OBVIOUS
      <4>1. b \in T /\ H.links[b].parent = p /\ H.links[p].smaller # b
        BY <1>7
      <4>2. ~Stop(H, b)
        BY <2>0, <4>1 DEF Stop
      <4>3. b \in U => p \in U
        BY <1>2, <4>1, <4>2 DEF Climb
      <4> QED BY <1>0, <2>3, <4>1, <4>3
    <3>3. MaxAt(H, p)
      BY <1>0, <3>1, <3>2
    <3>4. G.links[p].max = H.links[p].max /\ (b # NULL => G.links[b].max = H.links[b].max)
      BY <1>4, <2>0, <2>3, <3>2
    <3> QED BY <2>0, <3>3, <3>4 DEF MaxAt
  <2> QED BY <2>1, <2>2, <2>3
<1>9. fph_remax(H, e) = G
  BY <1>2 DEF G
<1> QED BY <1>4, <1>5, <1>8, <1>9 DEF RemaxDone

(* The tree when only fph_remax from e is left to do.                      *)
Mending(H, D, T, sub, e) ==
  /\ H \in Heaps(D)
  /\ Shape(H, D, T, sub)
  /\ \A q \in D \ T : H.links[q].parent \in T \cup {NULL}
  /\ H.links[Root].size = 0
  /\ \A p \in T : Sorted(H, sub, p)
  /\ e \in T /\ MaxAt(H, e)
  /\ \A p \in T : H.links[p].bigger # e => MaxAt(H, p)

(* After it the tree is sound again; neither chain nor sides change.       *)
LEMMA Mended ==
  ASSUME NEW D, NEW H, NEW T, NEW sub, NEW e, Mending(H, D, T, sub, e)
  PROVE  /\ Tree(fph_remax(H, e), D, T, sub)
         /\ SameChain(H, fph_remax(H, e), D) /\ SameSides(H, fph_remax(H, e), D)
<1>1. RemaxDone(H, fph_remax(H, e), D, T)
  BY RemaxMends DEF Mending
<1> DEFINE G == fph_remax(H, e)
<1> HIDE DEF G
<1>2. RemaxDone(H, G, D, T)
  BY <1>1 DEF G
<1>3. Shape(G, D, T, sub)
  BY <1>2, SameShape DEF Mending, RemaxDone
<1>4. ASSUME NEW p \in T PROVE Sorted(G, sub, p)
  <2>1. Sorted(H, sub, p) /\ Joint(H, T, sub, p) /\ sub \in [T -> SUBSET T] /\ T \subseteq D
    BY DEF Mending, Shape
  <2>2. Under(sub, H.links[p].smaller) \subseteq D /\ Under(sub, H.links[p].bigger) \subseteq D
    BY <2>1 DEF Joint, Under
  <2>3. SameChain(H, G, D) /\ SameSides(H, G, D)
    BY <1>2 DEF RemaxDone
  <2> QED BY <2>1, <2>2, <2>3 DEF Sorted, SameChain, SameSides
<1>5. G.links[Root].size = 0
  <2>1. Root \in D
    BY <1>3 DEF Shape
  <2> QED BY <1>2, <2>1 DEF RemaxDone, SameChain, Mending
<1>6. Tree(G, D, T, sub) /\ SameChain(H, G, D) /\ SameSides(H, G, D)
  BY <1>2, <1>3, <1>4, <1>5 DEF Tree, RemaxDone
<1> QED BY <1>6 DEF G

-----------------------------------------------------------------------------
(* fph_insert.                                                             *)

(* A link of the size sz belongs below p, whoever is above p.              *)
Belongs(H, T, sub, p, sz) ==
  \A q \in T : /\ p \in Under(sub, H.links[q].smaller) => sz <= H.links[q].size
               /\ p \in Under(sub, H.links[q].bigger) => H.links[q].size <= sz

(* The side of p for this size is empty.                                   *)
Vacant(H, p, sz) ==
  IF sz <= H.links[p].size THEN H.links[p].smaller = NULL ELSE H.links[p].bigger = NULL

(* The link e as a leaf below p.                                           *)
Leaf(H, e, p) ==
  LET sz == H.links[e].size
      A == [H EXCEPT !.links[e] = [@ EXCEPT !.smaller = NULL, !.bigger = NULL,
                                            !.max = sz, !.parent = p]]
  IN IF sz <= H.links[p].size
     THEN [A EXCEPT !.links[p].smaller = e]
     ELSE [A EXCEPT !.links[p].bigger = e]

(* The descent of fph_insert.                                              *)
LEMMA InsertDescends ==
  ASSUME NEW D, NEW H, NEW T, NEW sub, Tree(H, D, T, sub), Apart(H, D, T), NEW e \in D
  PROVE  \E p \in T : /\ Belongs(H, T, sub, p, H.links[e].size) /\ Vacant(H, p, H.links[e].size)
                      /\ fph_insert(H, e) = fph_remax(Leaf(H, e, p), e)
<1> DEFINE sz == H.links[e].size
           nx == [p \in D |-> IF sz <= H.links[p].size THEN H.links[p].smaller ELSE H.links[p].bigger]
           C == {p \in D : nx[p] # NULL}
           v == [p \in D |-> p]
           Body(F) == [p \in DOMAIN H.links |->
                         LET next == IF sz <= H.links[p].size THEN H.links[p].smaller ELSE H.links[p].bigger
                         IN IF next = NULL THEN p ELSE F[next]]
           K == CHOOSE F : F = Body(F)
           Z == {p \in T : Belongs(H, T, sub, p, sz)}
<1>0. /\ DOMAIN H.links = D /\ T \subseteq D /\ Root \in T /\ Shape(H, D, T, sub)
      /\ sub \in [T -> SUBSET T] /\ NULL \notin D
  BY DEF Tree, Heaps, Shape
<1>1. fph_insert(H, e) = fph_remax(Leaf(H, e, K[Root]), e)
  BY Zenon DEF fph_insert, Leaf
<1>2. PICK r \in [D -> Nat] : Descends(H, D, T, r)
  BY <1>0, DownRank
<1>3. \A p \in C : nx[p] \in D /\ r[nx[p]] < r[p] /\ p \in T
  BY <1>2 DEF Apart, Descends
<1>4. \A F : Followed(F, D, C, nx, v) <=> F = Body(F)
  BY <1>0 DEF Followed
<1>5. Followed(K, D, C, nx, v)
  <2>1. C \in SUBSET D
    OBVIOUS
  <2> HIDE DEF C, nx, v
  <2>2. PICK c, n, w : c = C /\ n = nx /\ w = v
    OBVIOUS
  <2>3. c \in SUBSET D /\ \A p \in c : n[p] \in D /\ r[n[p]] < r[p]
    BY <1>3, <2>1, <2>2
  <2>4. \E F : Followed(F, D, c, n, w)
    BY <2>3, FollowRec
  <2> HIDE DEF Body
  <2>5. \E F : F = Body(F)
    BY <1>4, <2>2, <2>4
  <2>6. K = Body(K)
    BY <2>5
  <2> HIDE DEF K
  <2> QED BY <1>4, <2>6
<1>6. \A p \in Z \cap C : nx[p] \in Z
  <2> TAKE p \in Z \cap C
  <2> DEFINE c == nx[p]
  <2>1. p \in T /\ c \in {H.links[p].smaller, H.links[p].bigger} \ {NULL}
    BY <1>3
  <2>2. c \in T /\ H.links[c].parent = p
    BY <1>0, <2>1, SmallerBelow
  <2>3. ASSUME NEW q \in T, NEW y \in {H.links[q].smaller, H.links[q].bigger}, c \in Under(sub, y)
        PROVE  IF c = y THEN q = p ELSE p \in Under(sub, y)
    <3>1. y # NULL /\ c \in sub[y]
      BY <2>3 DEF Under
    <3>2. y \in T /\ H.links[y].parent = q
      BY <1>0, <3>1, SmallerBelow
    <3> HIDE DEF c
    <3> QED BY <1>0, <2>2, <3>1, <3>2, BelowNode DEF Under
  <2>4. H.links[p].smaller = H.links[p].bigger => H.links[p].smaller = NULL
    BY <1>0, <2>1 DEF Shape, Joint
  <2>5. sz \in Nat /\ \A q \in D : H.links[q].size \in Nat
    BY DEF Tree, Heaps, Header
  <2>6. c = IF sz <= H.links[p].size THEN H.links[p].smaller ELSE H.links[p].bigger
    BY <1>0, <2>1
  <2>7. Belongs(H, T, sub, p, sz)
    OBVIOUS
  <2> HIDE DEF c, sz
  <2>8. Belongs(H, T, sub, c, sz)
    <3> SUFFICES ASSUME NEW q \in T
                 PROVE  /\ c \in Under(sub, H.links[q].smaller) => sz <= H.links[q].size
                        /\ c \in Under(sub, H.links[q].bigger) => H.links[q].size <= sz
      BY DEF Belongs
    <3>1. c \in Under(sub, H.links[q].smaller) => sz <= H.links[q].size
      <4> SUFFICES ASSUME c \in Under(sub, H.links[q].smaller) PROVE sz <= H.links[q].size
        OBVIOUS
      <4>1. CASE c = H.links[q].smaller
        <5>1. q = p
          BY <2>3, <4>1
        <5> QED BY <2>1, <2>4, <2>6, <4>1, <5>1
      <4>2. CASE c # H.links[q].smaller
        <5>1. p \in Under(sub, H.links[q].smaller)
          BY <2>3, <4>2
        <5> QED BY <2>7, <5>1 DEF Belongs
      <4> QED BY <4>1, <4>2
    <3>2. c \in Under(sub, H.links[q].bigger) => H.links[q].size <= sz
      <4> SUFFICES ASSUME c \in Under(sub, H.links[q].bigger) PROVE H.links[q].size <= sz
        OBVIOUS
      <4>1. CASE c = H.links[q].bigger
        <5>1. q = p /\ q \in D
          BY <1>0, <2>3, <4>1
        <5> QED BY <2>1, <2>4, <2>5, <2>6, <4>1, <5>1
      <4>2. CASE c # H.links[q].bigger
        <5>1. p \in Under(sub, H.links[q].bigger)
          BY <2>3, <4>2
        <5> QED BY <2>7, <5>1 DEF Belongs
      <4> QED BY <4>1, <4>2
    <3> QED BY <3>1, <3>2
  <2> QED BY <2>2, <2>8 DEF c, sz
<1>7. Root \in Z
  <2>1. ASSUME NEW q \in T, NEW y \in {H.links[q].smaller, H.links[q].bigger}
        PROVE  Root \notin Under(sub, y)
    <3>1. y # NULL => y \in T \ {Root}
      BY <1>0, SmallerBelow
    <3> QED BY <1>0, <3>1, BelowNode DEF Under
  <2> QED BY <1>0, <2>1 DEF Belongs
<1>8. PICK z \in Z \ C : K[Root] = z
  <2>1. C \in SUBSET D /\ Z \in SUBSET D
    BY <1>0
  <2>2. Z \subseteq D /\ \A q \in Z : v[q] = q
    BY <1>0
  <2> HIDE DEF C, nx, v, Z, K
  <2>3. PICK c, n, w, s, k : c = C /\ n = nx /\ w = v /\ s = Z /\ k = K
    OBVIOUS
  <2>4. /\ c \in SUBSET D /\ s \in SUBSET D /\ \A p \in c : n[p] \in D /\ r[n[p]] < r[p]
        /\ Followed(k, D, c, n, w) /\ \A p \in s \cap c : n[p] \in s
    BY <1>3, <1>5, <1>6, <2>1, <2>3
  <2>5. \A p \in s : \E z \in s \ c : k[p] = w[z]
    BY <2>4, FollowStays
  <2> QED BY <1>7, <2>2, <2>3, <2>5
<1>9. z \in T /\ Belongs(H, T, sub, z, sz) /\ Vacant(H, z, sz)
  BY <1>0 DEF Vacant
<1> HIDE DEF K
<1> QED BY <1>1, <1>8, <1>9

(* What fph_insert writes before fph_remax, field by field.                *)
LEMMA LeafFields ==
  ASSUME NEW D, NEW H \in Heaps(D), NEW e \in D, NEW p \in D \ {e}
  PROVE  LET B == Leaf(H, e, p)
             sz == H.links[e].size
         IN  /\ SameChain(H, B, D)
             /\ \A q \in D :
                  /\ B.links[q].smaller = IF q = e THEN NULL
                                          ELSE IF q = p /\ sz <= H.links[p].size THEN e ELSE H.links[q].smaller
                  /\ B.links[q].bigger = IF q = e THEN NULL
                                         ELSE IF q = p /\ ~(sz <= H.links[p].size) THEN e ELSE H.links[q].bigger
                  /\ B.links[q].parent = IF q = e THEN p ELSE H.links[q].parent
                  /\ B.links[q].max = IF q = e THEN sz ELSE H.links[q].max
<1>1. DOMAIN H.links = D /\ \A q \in D : H.links[q] \in Header
  BY DEF Heaps
<1> DEFINE sz == H.links[e].size
           el == [H.links[e] EXCEPT !.smaller = NULL, !.bigger = NULL, !.max = sz, !.parent = p]
           pl == IF sz <= H.links[p].size THEN [H.links[p] EXCEPT !.smaller = e] ELSE [H.links[p] EXCEPT !.bigger = e]
           B == Leaf(H, e, p)
<1>2. /\ B.last = H.last
      /\ \A q \in D : B.links[q] = IF q = e THEN el ELSE IF q = p THEN pl ELSE H.links[q]
  BY <1>1 DEF Leaf, Heaps
<1>3. /\ el.prev = H.links[e].prev /\ el.next = H.links[e].next /\ el.used = H.links[e].used /\ el.size = sz
      /\ el.smaller = NULL /\ el.bigger = NULL /\ el.parent = p /\ el.max = sz
  BY <1>1 DEF Header
<1>4. /\ pl.prev = H.links[p].prev /\ pl.next = H.links[p].next /\ pl.used = H.links[p].used
      /\ pl.size = H.links[p].size /\ pl.max = H.links[p].max /\ pl.parent = H.links[p].parent
      /\ pl.smaller = IF sz <= H.links[p].size THEN e ELSE H.links[p].smaller
      /\ pl.bigger = IF ~(sz <= H.links[p].size) THEN e ELSE H.links[p].bigger
  BY <1>1 DEF Header
<1> HIDE DEF el, pl, B
<1> QED BY <1>2, <1>3, <1>4 DEF SameChain, B

(* It is a heap again.                                                     *)
LEMMA LeafHeap ==
  ASSUME NEW D \in SUBSET Nat, NEW H \in Heaps(D), NEW e \in D, NEW p \in D \ {e}
  PROVE  Leaf(H, e, p) \in Heaps(D)
<1>1. DOMAIN H.links = D /\ \A q \in D : H.links[q] \in Header
  BY DEF Heaps
<1> DEFINE sz == H.links[e].size
           el == [H.links[e] EXCEPT !.smaller = NULL, !.bigger = NULL, !.max = sz, !.parent = p]
           pl == IF sz <= H.links[p].size THEN [H.links[p] EXCEPT !.smaller = e] ELSE [H.links[p] EXCEPT !.bigger = e]
<1>2. Leaf(H, e, p) = [last |-> H.last, links |-> [q \in D |-> IF q = e THEN el ELSE IF q = p THEN pl ELSE H.links[q]]]
  BY <1>1 DEF Leaf, Heaps
<1>3. el \in Header
  BY <1>1 DEF Header, NULL
<1>4. pl \in Header
  BY <1>1 DEF Header
<1> HIDE DEF el, pl
<1> QED BY <1>1, <1>2, <1>3, <1>4 DEF Heaps

(* The tree with one more leaf.                                            *)
Planted(H, G, D, T, e) ==
  \E sub : Tree(G, D, T \cup {e}, sub) /\ Apart(G, D, T \cup {e}) /\ SameChain(H, G, D)

(* fph_insert: one more node, and the same chain.                          *)
LEMMA InsertPlants ==
  ASSUME NEW D \in SUBSET Nat, NEW H, NEW T, NEW sub, Tree(H, D, T, sub), Apart(H, D, T), NEW e \in D \ T
  PROVE  Planted(H, fph_insert(H, e), D, T, e)
<1> DEFINE sz == H.links[e].size
<1>0. /\ T \subseteq D /\ Root \in T /\ Shape(H, D, T, sub) /\ H \in Heaps(D) /\ IsFiniteSet(T)
      /\ sub \in [T -> SUBSET T] /\ NULL \notin D
  BY DEF Tree, Shape
<1>1. PICK p \in T : /\ Belongs(H, T, sub, p, sz) /\ Vacant(H, p, sz)
                     /\ fph_insert(H, e) = fph_remax(Leaf(H, e, p), e)
  BY InsertDescends
<1> DEFINE B == Leaf(H, e, p)
           U == T \cup {e}
           sub2 == [q \in U |-> IF q = e THEN {e} ELSE IF p \in sub[q] THEN sub[q] \cup {e} ELSE sub[q]]
           onSmaller == sz <= H.links[p].size
<1>2. p \in D \ {e} /\ e \in D
  BY <1>0
<1>3. B \in Heaps(D)
  BY <1>0, <1>2, LeafHeap
<1>4. /\ SameChain(H, B, D)
      /\ \A q \in D :
           /\ B.links[q].smaller = IF q = e THEN NULL ELSE IF q = p /\ onSmaller THEN e ELSE H.links[q].smaller
           /\ B.links[q].bigger = IF q = e THEN NULL ELSE IF q = p /\ ~onSmaller THEN e ELSE H.links[q].bigger
           /\ B.links[q].parent = IF q = e THEN p ELSE H.links[q].parent
           /\ B.links[q].max = IF q = e THEN sz ELSE H.links[q].max
  BY <1>0, <1>2, LeafFields
<1> HIDE DEF B
<1>5. sub2 \in [U -> SUBSET U]
  BY <1>0
<1>6. \A q \in T : Joint(H, T, sub, q) /\ Sorted(H, sub, q) /\ MaxAt(H, q)
  BY DEF Tree, Shape
<1>7. sub2[e] = {e} /\ \A q \in T : sub2[q] = IF p \in sub[q] THEN sub[q] \cup {e} ELSE sub[q]
  BY <1>0
<1>8. IF onSmaller THEN H.links[p].smaller = NULL ELSE H.links[p].bigger = NULL
  BY <1>1 DEF Vacant
<1>9. sz \in Nat /\ \A q \in D : H.links[q].size \in Nat
  BY <1>0 DEF Heaps, Header
<1> HIDE DEF sub2, onSmaller
<1>10. ASSUME NEW q \in T
       PROVE  /\ H.links[q].smaller # NULL => H.links[q].smaller \in T
              /\ H.links[q].bigger # NULL => H.links[q].bigger \in T
  BY <1>6 DEF Joint
<1>11. ASSUME NEW q \in T
       PROVE  LET a == H.links[q].smaller
                  b == H.links[q].bigger
              IN  /\ Under(sub2, B.links[q].smaller) =
                       IF (q = p /\ onSmaller) \/ p \in Under(sub, a) THEN Under(sub, a) \cup {e} ELSE Under(sub, a)
                  /\ Under(sub2, B.links[q].bigger) =
                       IF (q = p /\ ~onSmaller) \/ p \in Under(sub, b) THEN Under(sub, b) \cup {e} ELSE Under(sub, b)
  <2>1. CASE q = p
    <3>1. p \notin Under(sub, H.links[p].smaller) /\ p \notin Under(sub, H.links[p].bigger)
      BY <1>6 DEF Joint
    <3>4. e # NULL /\ Under(sub2, e) = {e} /\ p \in D /\ p # e
      BY <1>0, <1>2, <1>7 DEF Under
    <3>5. \A x \in {H.links[p].smaller, H.links[p].bigger} : Under(sub2, x) = Under(sub, x)
      BY <1>7, <1>10, <2>1, <3>1 DEF Under
    <3>2. CASE onSmaller
      <4>1. H.links[p].smaller = NULL /\ B.links[p].smaller = e /\ B.links[p].bigger = H.links[p].bigger
        BY <1>4, <1>8, <3>2, <3>4
      <4>2. Under(sub, H.links[p].smaller) = {}
        BY <4>1 DEF Under
      <4> QED BY <2>1, <3>1, <3>2, <3>4, <3>5, <4>1, <4>2
    <3>3. CASE ~onSmaller
      <4>1. H.links[p].bigger = NULL /\ B.links[p].bigger = e /\ B.links[p].smaller = H.links[p].smaller
        BY <1>4, <1>8, <3>3, <3>4
      <4>2. Under(sub, H.links[p].bigger) = {}
        BY <4>1 DEF Under
      <4> QED BY <2>1, <3>1, <3>3, <3>4, <3>5, <4>1, <4>2
    <3> QED BY <3>2, <3>3
  <2>2. CASE q # p
    <3>1. q # e /\ q \in D
      BY <1>0
    <3> QED BY <1>4, <1>7, <1>10, <2>2, <3>1 DEF Under
  <2> QED BY <2>1, <2>2
<1>12. ASSUME NEW q \in T PROVE Joint(B, U, sub2, q)
  <2>0. q \in D /\ q # e /\ Joint(H, T, sub, q) /\ e # Root /\ e # NULL
    BY <1>0, <1>6
  <2>1. \A c \in {B.links[q].smaller, B.links[q].bigger} \ {NULL} : c \in U \ {Root} /\ B.links[c].parent = q
    <3>1. \A c \in {H.links[q].smaller, H.links[q].bigger} \ {NULL} :
            c \in T \ {Root} /\ c \in D /\ c # e /\ H.links[c].parent = q
      BY <1>0, <2>0 DEF Joint
    <3>2. \A c \in {H.links[q].smaller, H.links[q].bigger} \ {NULL} : c \in U \ {Root} /\ B.links[c].parent = q
      BY <1>4, <3>1
    <3>3. e \in U \ {Root} /\ B.links[e].parent = p
      BY <1>4, <2>0
    <3>4. /\ B.links[q].smaller = IF q = p /\ onSmaller THEN e ELSE H.links[q].smaller
          /\ B.links[q].bigger = IF q = p /\ ~onSmaller THEN e ELSE H.links[q].bigger
      BY <1>4, <2>0
    <3> HIDE DEF U
    <3> QED BY <3>2, <3>3, <3>4
  <2>2. B.links[q].smaller = B.links[q].bigger => B.links[q].smaller = NULL
    BY <1>0, <1>4, <1>10, <2>0 DEF Joint
  <2>3. q # Root => B.links[q].parent \in U /\ q \in {B.links[B.links[q].parent].smaller, B.links[B.links[q].parent].bigger}
    <3> SUFFICES ASSUME q # Root
                 PROVE  B.links[q].parent \in U /\ q \in {B.links[B.links[q].parent].smaller, B.links[B.links[q].parent].bigger}
      OBVIOUS
    <3> DEFINE x == H.links[q].parent
    <3>1. x \in T /\ q \in {H.links[x].smaller, H.links[x].bigger} /\ x \in D /\ x # e /\ q # NULL
      BY <1>0, <2>0 DEF Joint
    <3>2. B.links[q].parent = x
      BY <1>4, <2>0
    <3> HIDE DEF x
    <3>3. q \in {B.links[x].smaller, B.links[x].bigger}
      BY <1>4, <1>8, <3>1
    <3> QED BY <3>1, <3>2, <3>3
  <2>4. sub2[q] = {q} \cup Under(sub2, B.links[q].smaller) \cup Under(sub2, B.links[q].bigger)
    <3>1. sub[q] = {q} \cup Under(sub, H.links[q].smaller) \cup Under(sub, H.links[q].bigger)
      BY <2>0 DEF Joint
    <3>2. p \in sub[q] <=> (q = p \/ p \in Under(sub, H.links[q].smaller) \/ p \in Under(sub, H.links[q].bigger))
      BY <3>1
    <3>3. sub2[q] = IF p \in sub[q] THEN sub[q] \cup {e} ELSE sub[q]
      BY <1>7
    <3>4. CASE p \notin sub[q]
      BY <1>11, <3>1, <3>2, <3>3, <3>4
    <3>5. CASE p \in sub[q]
      BY <1>11, <3>1, <3>2, <3>3, <3>5
    <3> QED BY <3>4, <3>5
  <2>5. q \notin Under(sub2, B.links[q].smaller) /\ q \notin Under(sub2, B.links[q].bigger)
    <3>1. q \notin Under(sub, H.links[q].smaller) /\ q \notin Under(sub, H.links[q].bigger)
      BY <2>0 DEF Joint
    <3>2. /\ Under(sub2, B.links[q].smaller) \subseteq Under(sub, H.links[q].smaller) \cup {e}
          /\ Under(sub2, B.links[q].bigger) \subseteq Under(sub, H.links[q].bigger) \cup {e}
      BY <1>11
    <3> QED BY <2>0, <3>1, <3>2
  <2> QED BY <2>1, <2>2, <2>3, <2>4, <2>5 DEF Joint
<1>13. Joint(B, U, sub2, e)
  <2>1. e # Root /\ e # NULL
    BY <1>0
  <2>2. B.links[e].smaller = NULL /\ B.links[e].bigger = NULL /\ B.links[e].parent = p
    BY <1>4
  <2>3. e \in {B.links[p].smaller, B.links[p].bigger}
    BY <1>2, <1>4
  <2> QED BY <1>7, <2>1, <2>2, <2>3 DEF Joint, Under
<1>14. Shape(B, D, U, sub2)
  <2>1. IsFiniteSet(U) /\ U \subseteq D /\ Root \in U
    BY <1>0, FS_AddElement
  <2>2. B.links[Root].parent = NULL
    <3>1. Root \in D /\ Root # e /\ H.links[Root].parent = NULL
      BY <1>0 DEF Shape
    <3> QED BY <1>4, <3>1
  <2> QED BY <1>0, <1>5, <1>12, <1>13, <2>1, <2>2 DEF Shape
<1>15. ASSUME NEW q \in T PROVE Sorted(B, sub2, q)
  <2>0. /\ q \in D /\ Sorted(H, sub, q)
        /\ \A x \in D : B.links[x].size = H.links[x].size
        /\ Under(sub, H.links[q].smaller) \subseteq D /\ Under(sub, H.links[q].bigger) \subseteq D
    BY <1>0, <1>4, <1>6, <1>10 DEF SameChain, Under
  <2>1. (q = p /\ onSmaller) \/ p \in Under(sub, H.links[q].smaller) => sz <= H.links[q].size
    BY <1>1 DEF Belongs, onSmaller
  <2>2. (q = p /\ ~onSmaller) \/ p \in Under(sub, H.links[q].bigger) => sz >= H.links[q].size
    BY <1>1, <1>9, <2>0 DEF Belongs, onSmaller
  <2>3. \A x \in Under(sub2, B.links[q].smaller) : B.links[x].size <= B.links[q].size
    <3>1. \A x \in Under(sub2, B.links[q].smaller) :
            \/ x \in Under(sub, H.links[q].smaller)
            \/ x = e /\ ((q = p /\ onSmaller) \/ p \in Under(sub, H.links[q].smaller))
      BY <1>11
    <3>2. \A x \in Under(sub, H.links[q].smaller) : x \in D /\ H.links[x].size <= H.links[q].size
      BY <2>0 DEF Sorted
    <3>3. B.links[e].size = sz /\ B.links[q].size = H.links[q].size
      BY <2>0
    <3> HIDE DEF sz
    <3> QED BY <2>0, <2>1, <3>1, <3>2, <3>3
  <2>4. \A x \in Under(sub2, B.links[q].bigger) : B.links[x].size >= B.links[q].size
    <3>1. \A x \in Under(sub2, B.links[q].bigger) :
            \/ x \in Under(sub, H.links[q].bigger)
            \/ x = e /\ ((q = p /\ ~onSmaller) \/ p \in Under(sub, H.links[q].bigger))
      BY <1>11
    <3>2. \A x \in Under(sub, H.links[q].bigger) : x \in D /\ H.links[x].size >= H.links[q].size
      BY <2>0 DEF Sorted
    <3>3. B.links[e].size = sz /\ B.links[q].size = H.links[q].size
      BY <2>0
    <3> HIDE DEF sz
    <3> QED BY <2>0, <2>2, <3>1, <3>2, <3>3
  <2> QED BY <2>3, <2>4 DEF Sorted
<1>16. Sorted(B, sub2, e)
  BY <1>4 DEF Sorted, Under
<1>17. MaxAt(B, e)
  BY <1>4 DEF MaxAt, SameChain
<1>18. ASSUME NEW q \in T, B.links[q].bigger # e PROVE MaxAt(B, q)
  <2>0. q \in D /\ q # e /\ MaxAt(H, q)
    BY <1>0, <1>6
  <2>1. B.links[q].bigger = H.links[q].bigger /\ B.links[q].size = H.links[q].size /\ B.links[q].max = H.links[q].max
    BY <1>4, <1>18, <2>0 DEF SameChain
  <2>2. H.links[q].bigger # NULL => B.links[H.links[q].bigger].max = H.links[H.links[q].bigger].max
    BY <1>0, <1>4, <1>10
  <2> QED BY <2>0, <2>1, <2>2 DEF MaxAt
<1>19. \A q \in D \ U : B.links[q].smaller = NULL /\ B.links[q].bigger = NULL /\ B.links[q].parent = NULL
  <2> TAKE q \in D \ U
  <2>1. q \in D \ T /\ q # e /\ q # p
    OBVIOUS
  <2> QED BY <1>4, <2>1 DEF Apart
<1>20. Mending(B, D, U, sub2, e)
  <2>1. B.links[Root].size = 0
    BY <1>0, <1>4 DEF Tree, SameChain
  <2> QED BY <1>3, <1>14, <1>15, <1>16, <1>17, <1>18, <1>19, <2>1 DEF Mending, MaxAt
<1> HIDE DEF U
<1>21. /\ Tree(fph_remax(B, e), D, U, sub2)
       /\ SameChain(B, fph_remax(B, e), D) /\ SameSides(B, fph_remax(B, e), D)
  BY <1>20, Mended
<1>22. fph_insert(H, e) = fph_remax(B, e)
  BY <1>1 DEF B
<1> DEFINE G == fph_remax(B, e)
<1>23. Tree(G, D, U, sub2) /\ SameChain(B, G, D) /\ SameSides(B, G, D) /\ fph_insert(H, e) = G
  BY <1>21, <1>22
<1> HIDE DEF G
<1>24. SameChain(H, G, D)
  BY <1>4, <1>23 DEF SameChain
<1>25. Apart(G, D, U)
  BY <1>19, <1>23 DEF Apart, SameSides
<1> QED BY <1>23, <1>24, <1>25 DEF Planted, U

-----------------------------------------------------------------------------
(* Hanging another node, or none, below a node.                            *)

(* c takes the place at one side of p, and max is as before.               *)
Hooked(H, B, D, p, c, onBigger) ==
  /\ B \in Heaps(D) /\ SameChain(H, B, D)
  /\ \A q \in D :
       /\ B.links[q].smaller = IF q = p /\ ~onBigger THEN c ELSE H.links[q].smaller
       /\ B.links[q].bigger = IF q = p /\ onBigger THEN c ELSE H.links[q].bigger
       /\ B.links[q].parent = IF q = c THEN p ELSE H.links[q].parent
       /\ B.links[q].max = H.links[q].max

Hooking(H, D, p, c, onBigger) ==
  /\ D \in SUBSET Nat /\ NULL \notin D /\ H \in Heaps(D)
  /\ p \in D /\ c \in D \cup {NULL} /\ c # p /\ onBigger \in BOOLEAN

(* fph_remove_single.                                                      *)
HookOn(H, p, c, onBigger) ==
  SetParent(IF onBigger THEN [H EXCEPT !.links[p].bigger = c]
                        ELSE [H EXCEPT !.links[p].smaller = c], c, p)

(* fph_remove_single changes one side of p and one parent.                 *)
LEMMA HookSingle ==
  ASSUME NEW H, NEW D, NEW p, NEW c, NEW onBigger, Hooking(H, D, p, c, onBigger)
  PROVE  Hooked(H, HookOn(H, p, c, onBigger), D, p, c, onBigger)
<1> USE DEF Hooking
<1>1. DOMAIN H.links = D /\ \A q \in D : H.links[q] \in Header
  BY DEF Heaps
<1> DEFINE pl == IF onBigger THEN [H.links[p] EXCEPT !.bigger = c] ELSE [H.links[p] EXCEPT !.smaller = c]
           cl == [H.links[c] EXCEPT !.parent = p]
           B == SetParent(IF onBigger THEN [H EXCEPT !.links[p].bigger = c]
                                      ELSE [H EXCEPT !.links[p].smaller = c], c, p)
           f == [q \in D |-> IF q = p THEN pl ELSE IF q = c THEN cl ELSE H.links[q]]
<1>2. B = [last |-> H.last, links |-> f]
  <2>1. CASE c = NULL
    BY <1>1, <2>1 DEF SetParent, Heaps
  <2>2. CASE c # NULL
    BY <1>1, <2>2 DEF SetParent, Heaps
  <2> QED BY <2>1, <2>2
<1>3. c \in Nat /\ p \in Nat
  BY DEF NULL
<1>4. pl \in Header /\ (c # NULL => cl \in Header)
  <2>1. c # NULL => c \in D
    OBVIOUS
  <2> QED BY <1>1, <1>3, <2>1 DEF Header
<1>5. /\ pl.prev = H.links[p].prev /\ pl.next = H.links[p].next /\ pl.used = H.links[p].used
      /\ pl.size = H.links[p].size /\ pl.max = H.links[p].max /\ pl.parent = H.links[p].parent
      /\ pl.smaller = (IF ~onBigger THEN c ELSE H.links[p].smaller)
      /\ pl.bigger = (IF onBigger THEN c ELSE H.links[p].bigger)
  BY <1>1 DEF Header
<1>6. c # NULL =>
      /\ cl.prev = H.links[c].prev /\ cl.next = H.links[c].next /\ cl.used = H.links[c].used
      /\ cl.size = H.links[c].size /\ cl.max = H.links[c].max /\ cl.parent = p
      /\ cl.smaller = H.links[c].smaller /\ cl.bigger = H.links[c].bigger
  <2>1. c # NULL => c \in D
    OBVIOUS
  <2> QED BY <1>1, <2>1 DEF Header
<1> HIDE DEF pl, cl, B
<1>7. B.last = H.last /\ \A q \in D : B.links[q] = IF q = p THEN pl ELSE IF q = c THEN cl ELSE H.links[q]
  BY <1>2
<1>8. B \in Heaps(D)
  <2>1. \A q \in D : f[q] \in Header
    BY <1>1, <1>4
  <2>2. H.last \in Nat
    BY DEF Heaps
  <2>3. f \in [D -> Header]
    BY <2>1
  <2> HIDE DEF f
  <2> QED BY <1>2, <2>2, <2>3 DEF Heaps
<1>9. SameChain(H, B, D)
  BY <1>5, <1>6, <1>7 DEF SameChain
<1>10. \A q \in D :
       /\ B.links[q].smaller = IF q = p /\ ~onBigger THEN c ELSE H.links[q].smaller
       /\ B.links[q].bigger = IF q = p /\ onBigger THEN c ELSE H.links[q].bigger
       /\ B.links[q].parent = IF q = c THEN p ELSE H.links[q].parent
       /\ B.links[q].max = H.links[q].max
  BY <1>5, <1>6, <1>7
<1>11. Hooked(H, B, D, p, c, onBigger)
  BY <1>8, <1>9, <1>10 DEF Hooked
<1> QED BY <1>11 DEF B, HookOn

(* fph_relink.                                                             *)
HookUp(H, p, c, onBigger) ==
  IF onBigger THEN [SetParent(H, c, p) EXCEPT !.links[p].bigger = c]
  ELSE [SetParent(H, c, p) EXCEPT !.links[p].smaller = c]

(* So does fph_relink.                                                     *)
LEMMA HookRelink ==
  ASSUME NEW H, NEW D, NEW p, NEW c, NEW onBigger, Hooking(H, D, p, c, onBigger)
  PROVE  Hooked(H, HookUp(H, p, c, onBigger), D, p, c, onBigger)
<1> USE DEF Hooking
<1>1. DOMAIN H.links = D
  BY DEF Heaps
<1>2. (IF onBigger THEN [SetParent(H, c, p) EXCEPT !.links[p].bigger = c]
                   ELSE [SetParent(H, c, p) EXCEPT !.links[p].smaller = c]) =
      SetParent(IF onBigger THEN [H EXCEPT !.links[p].bigger = c]
                            ELSE [H EXCEPT !.links[p].smaller = c], c, p)
  <2>1. CASE c = NULL
    BY <2>1 DEF SetParent
  <2>2. CASE c # NULL
    BY <1>1, <2>2 DEF SetParent, Heaps
  <2> QED BY <2>1, <2>2
<1>3. HookUp(H, p, c, onBigger) = HookOn(H, p, c, onBigger)
  BY <1>2, Zenon DEF HookUp, HookOn
<1> QED BY <1>3, HookSingle

(* What is left to do after c was hung below p.                            *)
Hung(B, D, T, sub, p, c, onBigger) ==
  /\ B \in Heaps(D)
  /\ Shape(B, D, T, sub)
  /\ \A q \in D \ T : B.links[q].parent \in T \cup {NULL}
  /\ B.links[Root].size = 0
  /\ \A q \in T : Sorted(B, sub, q)
  /\ p \in T /\ c \in T \cup {NULL}
  /\ c = IF onBigger THEN B.links[p].bigger ELSE B.links[p].smaller
  /\ \A q \in T : q # p => MaxAt(B, q)
  /\ ~onBigger => MaxAt(B, p)

(* How fph_remove_single and fph_relink put max right.                     *)
MaxUp(B, p, c, onBigger) ==
  IF ~onBigger THEN B ELSE IF c # NULL THEN fph_remax(B, c) ELSE OwnMax(B, p)

(* Whichever of the two has hung c below p, fph_remax repairs the tree.    *)
LEMMA HungMended ==
  ASSUME NEW D \in SUBSET Nat, NEW B, NEW T, NEW sub, NEW p, NEW c, NEW onBigger \in BOOLEAN,
         Hung(B, D, T, sub, p, c, onBigger)
  PROVE  /\ Tree(MaxUp(B, p, c, onBigger), D, T, sub)
         /\ SameChain(B, MaxUp(B, p, c, onBigger), D) /\ SameSides(B, MaxUp(B, p, c, onBigger), D)
<1>0. p \in D /\ p \in T /\ p # NULL /\ T \subseteq D /\ NULL \notin D
  BY DEF Hung, Shape
<1>1. CASE ~onBigger
  BY <1>1 DEF MaxUp, Hung, Tree, SameChain, SameSides
<1>2. CASE onBigger /\ c # NULL
  <2>1. \A q \in T : B.links[q].bigger # c => q # p
    BY <1>2 DEF Hung
  <2>2. B.links[c].parent = p /\ c # p
    BY <1>0, <1>2, SmallerBelow, BelowNode DEF Hung
  <2>3. Mending(B, D, T, sub, c)
    BY <1>2, <2>1, <2>2 DEF Hung, Mending
  <2>4. MaxUp(B, p, c, onBigger) = fph_remax(B, c)
    BY <1>2 DEF MaxUp
  <2> QED BY <2>3, <2>4, Mended
<1>3. CASE onBigger /\ c = NULL
  <2> DEFINE A == [B EXCEPT !.links[p].max = B.links[p].size]
  <2>1. B \in Heaps(D) /\ DOMAIN B.links = D /\ \A q \in D : B.links[q] \in Header
    BY DEF Hung, Heaps
  <2>2. /\ A.last = B.last
        /\ \A q \in D : A.links[q] = IF q = p THEN [B.links[p] EXCEPT !.max = B.links[p].size] ELSE B.links[q]
    BY <1>0, <2>1 DEF Heaps
  <2>3. A = [last |-> B.last, links |-> [q \in D |-> IF q = p THEN [B.links[p] EXCEPT !.max = B.links[p].size] ELSE B.links[q]]]
    BY <1>0, <2>1 DEF Heaps
  <2>4. [B.links[p] EXCEPT !.max = B.links[p].size] \in Header
    BY <1>0, <2>1 DEF Header
  <2>5. A \in Heaps(D)
    BY <2>1, <2>3, <2>4 DEF Heaps
  <2> HIDE DEF A
  <2>6. SameChain(B, A, D) /\ SameSides(B, A, D) /\ \A q \in D : A.links[q].max = IF q = p THEN B.links[p].size ELSE B.links[q].max
    BY <1>0, <2>1, <2>2 DEF SameChain, SameSides, Header
  <2>7. Shape(A, D, T, sub)
    BY <2>6, SameShape DEF Hung
  <2>8. MaxAt(A, p)
    BY <1>0, <1>3, <2>6 DEF MaxAt, SameChain, SameSides, Hung
  <2>9. ASSUME NEW q \in T, A.links[q].bigger # p PROVE MaxAt(A, q)
    <3>1. CASE q = p
      BY <2>8, <3>1
    <3>2. CASE q # p
      <4>1. MaxAt(B, q) /\ q \in D
        BY <1>0, <3>2 DEF Hung
      <4>2. B.links[q].bigger # NULL => B.links[q].bigger \in D
        BY <1>0 DEF Hung, Shape, Joint
      <4>3. A.links[q].bigger = B.links[q].bigger /\ A.links[q].size = B.links[q].size /\ A.links[q].max = B.links[q].max
        BY <2>6, <3>2, <4>1 DEF SameChain, SameSides
      <4>4. B.links[q].bigger # NULL => A.links[B.links[q].bigger].max = B.links[B.links[q].bigger].max
        BY <2>6, <2>9, <4>2, <4>3
      <4> QED BY <4>1, <4>3, <4>4 DEF MaxAt
    <3> QED BY <3>1, <3>2
  <2>10. ASSUME NEW q \in T PROVE Sorted(A, sub, q)
    <3>1. Sorted(B, sub, q) /\ q \in D /\ Joint(B, T, sub, q) /\ sub \in [T -> SUBSET T]
      BY <1>0 DEF Hung, Shape
    <3>2. Under(sub, B.links[q].smaller) \subseteq D /\ Under(sub, B.links[q].bigger) \subseteq D
      BY <1>0, <3>1 DEF Joint, Under
    <3> QED BY <2>6, <3>1, <3>2 DEF Sorted, SameChain, SameSides
  <2>11. \A q \in D \ T : A.links[q].parent \in T \cup {NULL}
    BY <2>6 DEF Hung, SameSides
  <2>12. A.links[Root].size = 0
    BY <1>0, <2>6 DEF Hung, SameChain, Shape
  <2>13. Mending(A, D, T, sub, p)
    BY <1>0, <2>5, <2>7, <2>8, <2>9, <2>10, <2>11, <2>12 DEF Mending
  <2>14. MaxUp(B, p, c, onBigger) = fph_remax(A, p)
    BY <1>3 DEF MaxUp, OwnMax, A
  <2> DEFINE G == fph_remax(A, p)
  <2>15. Tree(G, D, T, sub) /\ SameChain(A, G, D) /\ SameSides(A, G, D)
    BY <2>13, Mended
  <2> HIDE DEF G
  <2>16. SameChain(B, G, D) /\ SameSides(B, G, D)
    BY <2>6, <2>15 DEF SameChain, SameSides
  <2> QED BY <2>14, <2>15, <2>16 DEF G
<1> QED BY <1>1, <1>2, <1>3

(* The subtrees without the node e.                                        *)
Pruned(sub, T, e) == [q \in T \ {e} |-> sub[q] \ {e}]

(* The one node below e, if there is one.                                  *)
OnlyChild(H, e) == IF H.links[e].bigger # NULL THEN H.links[e].bigger ELSE H.links[e].smaller

(* With its only child in its place the node e is out of the tree.         *)
LEMMA Unhooks ==
  ASSUME NEW D, NEW H, NEW T, NEW sub, Tree(H, D, T, sub), Apart(H, D, T),
         NEW e \in T \ {Root}, H.links[e].smaller = NULL \/ H.links[e].bigger = NULL,
         NEW p, p = H.links[e].parent, NEW c, c = OnlyChild(H, e),
         NEW onBigger \in BOOLEAN, onBigger <=> H.links[p].bigger = e,
         NEW B, Hooked(H, B, D, p, c, onBigger)
  PROVE  /\ Hung(B, D, T \ {e}, Pruned(sub, T, e), p, c, onBigger)
         /\ H.links[e].bigger # NULL => MaxAt(B, p)
         /\ \A q \in T \ {e} :
              /\ Under(Pruned(sub, T, e), B.links[q].smaller) = Under(sub, H.links[q].smaller) \ {e}
              /\ Under(Pruned(sub, T, e), B.links[q].bigger) = Under(sub, H.links[q].bigger) \ {e}
<1> DEFINE U == T \ {e}
           sub2 == Pruned(sub, T, e)
<1>0. /\ T \subseteq D /\ Root \in T /\ Shape(H, D, T, sub) /\ H \in Heaps(D) /\ IsFiniteSet(T)
      /\ sub \in [T -> SUBSET T] /\ NULL \notin D
  BY DEF Tree, Shape
<1>1. \A q \in T : Joint(H, T, sub, q) /\ Sorted(H, sub, q) /\ MaxAt(H, q)
  BY DEF Tree, Shape
<1>2. /\ B \in Heaps(D) /\ SameChain(H, B, D)
      /\ \A q \in D :
           /\ B.links[q].smaller = IF q = p /\ ~onBigger THEN c ELSE H.links[q].smaller
           /\ B.links[q].bigger = IF q = p /\ onBigger THEN c ELSE H.links[q].bigger
           /\ B.links[q].parent = IF q = c THEN p ELSE H.links[q].parent
           /\ B.links[q].max = H.links[q].max
  BY DEF Hooked
<1>3. p \in T /\ e \in {H.links[p].smaller, H.links[p].bigger} /\ e # NULL
  BY <1>0, <1>1 DEF Joint
<1>4. p # e
  BY <1>0, <1>3, SmallerBelow, BelowNode
<1>5. IF onBigger THEN H.links[p].bigger = e /\ H.links[p].smaller # e
                  ELSE H.links[p].smaller = e /\ H.links[p].bigger # e
  BY <1>1, <1>3 DEF Joint
<1>6. /\ sub[e] = {e} \cup Under(sub, c) /\ e \notin Under(sub, c)
      /\ c # NULL => c \in T \ {Root, e, p} /\ H.links[c].parent = e
      /\ {H.links[e].smaller, H.links[e].bigger} \subseteq {c, NULL}
  <2>1. Joint(H, T, sub, e)
    BY <1>1
  <2>2. /\ sub[e] = {e} \cup Under(sub, c) /\ e \notin Under(sub, c)
        /\ {H.links[e].smaller, H.links[e].bigger} \subseteq {c, NULL}
    BY <2>1 DEF Joint, OnlyChild, Under
  <2>3. c # NULL => c \in {H.links[e].smaller, H.links[e].bigger} \ {NULL}
    BY DEF OnlyChild
  <2>4. ASSUME c # NULL PROVE c \in T \ {Root, e, p} /\ H.links[c].parent = e
    <3>1. c \in T \ {Root} /\ H.links[c].parent = e /\ e \notin sub[c] /\ c \in sub[c]
      BY <1>0, <2>3, <2>4, SmallerBelow, BelowNode
    <3>2. c # e
      BY <3>1
    <3>3. c # p
      <4>1. e \in sub[p]
        BY <1>0, <1>3, SmallerBelow, BelowNode
      <4> QED BY <3>1, <4>1
    <3> QED BY <3>1, <3>2, <3>3
  <2> QED BY <2>2, <2>4
<1>7. ASSUME NEW q \in U, NEW x \in {H.links[q].smaller, H.links[q].bigger} \ {NULL}
      PROVE  x \in T \ {Root} /\ x \in D /\ H.links[x].parent = q /\ x # c /\ (x = e => q = p)
  <2>1. x \in T \ {Root} /\ H.links[x].parent = q
    BY <1>0, SmallerBelow
  <2> QED BY <1>0, <1>6, <2>1
<1>8. sub2 \in [U -> SUBSET U] /\ \A q \in U : sub2[q] = sub[q] \ {e}
  BY <1>0 DEF Pruned
<1>9. /\ \A q \in U : q \in D /\ q \in T /\ q # NULL
      /\ p \in U /\ e \in D
      /\ c # NULL => c \in U /\ c \in D /\ c # p /\ c # Root /\ c # e
  BY <1>0, <1>3, <1>4, <1>6
<1> HIDE DEF U, sub2
<1>10. ASSUME NEW q \in U
       PROVE  /\ Under(sub2, B.links[q].smaller) = Under(sub, H.links[q].smaller) \ {e}
              /\ Under(sub2, B.links[q].bigger) = Under(sub, H.links[q].bigger) \ {e}
  <2>1. Under(sub2, c) = Under(sub, e) \ {e}
    BY <1>3, <1>6, <1>8, <1>9 DEF Under
  <2>2. ASSUME NEW x \in {H.links[q].smaller, H.links[q].bigger}, x # e
        PROVE  Under(sub2, x) = Under(sub, x) \ {e}
    <3>1. x # NULL => x \in U
      BY <1>7, <2>2 DEF U
    <3> QED BY <1>8, <3>1 DEF Under
  <2>3. Under(sub2, B.links[q].smaller) = Under(sub, H.links[q].smaller) \ {e}
    <3>1. CASE q = p /\ ~onBigger
      BY <1>2, <1>5, <1>9, <2>1, <3>1
    <3>2. CASE ~(q = p /\ ~onBigger)
      <4>1. B.links[q].smaller = H.links[q].smaller
        BY <1>2, <1>9, <3>2
      <4>2. H.links[q].smaller # e
        BY <1>3, <1>5, <1>7, <3>2
      <4> QED BY <2>2, <4>1, <4>2
    <3> QED BY <3>1, <3>2
  <2>4. Under(sub2, B.links[q].bigger) = Under(sub, H.links[q].bigger) \ {e}
    <3>1. CASE q = p /\ onBigger
      BY <1>2, <1>5, <1>9, <2>1, <3>1
    <3>2. CASE ~(q = p /\ onBigger)
      <4>1. B.links[q].bigger = H.links[q].bigger
        BY <1>2, <1>9, <3>2
      <4>2. H.links[q].bigger # e
        BY <1>3, <1>5, <1>7, <3>2
      <4> QED BY <2>2, <4>1, <4>2
    <3> QED BY <3>1, <3>2
  <2> QED BY <2>3, <2>4
<1>11. ASSUME NEW q \in U PROVE Joint(B, U, sub2, q)
  <2>0. Joint(H, T, sub, q) /\ q \in D /\ q # e
    BY <1>1, <1>9 DEF U
  <2>1. /\ B.links[q].smaller = IF q = p /\ ~onBigger THEN c ELSE H.links[q].smaller
        /\ B.links[q].bigger = IF q = p /\ onBigger THEN c ELSE H.links[q].bigger
    BY <1>2, <2>0
  <2>2. \A x \in {B.links[q].smaller, B.links[q].bigger} \ {NULL} :
          \/ x = c /\ q = p
          \/ x \in {H.links[q].smaller, H.links[q].bigger} /\ x # e
    BY <1>3, <1>5, <1>7, <2>1
  <2>3. \A x \in {B.links[q].smaller, B.links[q].bigger} \ {NULL} : x \in U \ {Root} /\ B.links[x].parent = q
    <3> TAKE x \in {B.links[q].smaller, B.links[q].bigger} \ {NULL}
    <3>1. CASE x = c /\ q = p
      BY <1>2, <1>9, <3>1
    <3>2. CASE x \in {H.links[q].smaller, H.links[q].bigger} /\ x # e
      <4>1. x \in T \ {Root} /\ x \in D /\ H.links[x].parent = q /\ x # c
        BY <1>7, <3>2
      <4> QED BY <1>2, <3>2, <4>1 DEF U
    <3> QED BY <2>2, <3>1, <3>2
  <2>4. B.links[q].smaller = B.links[q].bigger => B.links[q].smaller = NULL
    <3>1. H.links[q].smaller = H.links[q].bigger => H.links[q].smaller = NULL
      BY <2>0 DEF Joint
    <3>2. c \in {H.links[q].smaller, H.links[q].bigger} => c = NULL
      BY <1>7
    <3> QED BY <2>1, <3>1, <3>2
  <2>5. q # Root => B.links[q].parent \in U /\ q \in {B.links[B.links[q].parent].smaller, B.links[B.links[q].parent].bigger}
    <3> SUFFICES ASSUME q # Root
                 PROVE  B.links[q].parent \in U /\ q \in {B.links[B.links[q].parent].smaller, B.links[B.links[q].parent].bigger}
      OBVIOUS
    <3>1. CASE q = c
      <4>1. B.links[q].parent = p
        BY <1>2, <2>0, <3>1
      <4>2. c \in {B.links[p].smaller, B.links[p].bigger}
        BY <1>2, <1>9
      <4> QED BY <1>9, <3>1, <4>1, <4>2
    <3>2. CASE q # c
      <4> DEFINE x == H.links[q].parent
      <4>1. x \in T /\ q \in {H.links[x].smaller, H.links[x].bigger} /\ q # NULL
        BY <1>9, <2>0 DEF Joint
      <4>2. B.links[q].parent = x
        BY <1>2, <2>0, <3>2
      <4> HIDE DEF x
      <4>3. x # e
        BY <1>6, <3>2, <4>1
      <4>4. x \in U /\ x \in D
        BY <1>0, <4>1, <4>3 DEF U
      <4>5. q \in {B.links[x].smaller, B.links[x].bigger}
        BY <1>2, <1>5, <2>0, <4>1, <4>4
      <4> QED BY <4>2, <4>4, <4>5
    <3> QED BY <3>1, <3>2
  <2>6. sub2[q] = {q} \cup Under(sub2, B.links[q].smaller) \cup Under(sub2, B.links[q].bigger)
    <3>1. sub[q] = {q} \cup Under(sub, H.links[q].smaller) \cup Under(sub, H.links[q].bigger)
      BY <2>0 DEF Joint
    <3> QED BY <1>8, <1>10, <2>0, <3>1
  <2>7. q \notin Under(sub2, B.links[q].smaller) /\ q \notin Under(sub2, B.links[q].bigger)
    <3>1. q \notin Under(sub, H.links[q].smaller) /\ q \notin Under(sub, H.links[q].bigger)
      BY <2>0 DEF Joint
    <3> QED BY <1>10, <3>1
  <2> QED BY <2>3, <2>4, <2>5, <2>6, <2>7 DEF Joint
<1>12. Shape(B, D, U, sub2)
  <2>1. IsFiniteSet(U) /\ U \subseteq D /\ Root \in U
    BY <1>0, FS_RemoveElement DEF U
  <2>2. B.links[Root].parent = NULL
    <3>1. Root \in D /\ Root # c /\ H.links[Root].parent = NULL
      BY <1>0, <1>9 DEF Shape
    <3> QED BY <1>2, <3>1
  <2> QED BY <1>0, <1>8, <1>11, <2>1, <2>2 DEF Shape
<1>13. ASSUME NEW q \in U PROVE Sorted(B, sub2, q)
  <2>0. q \in D /\ Sorted(H, sub, q) /\ \A x \in D : B.links[x].size = H.links[x].size
    BY <1>1, <1>2, <1>9 DEF SameChain
  <2>1. Under(sub, H.links[q].smaller) \subseteq D /\ Under(sub, H.links[q].bigger) \subseteq D
    BY <1>0, <1>7 DEF Under
  <2> QED BY <1>10, <2>0, <2>1 DEF Sorted
<1>14. ASSUME NEW q \in U,
              q # p \/ ~onBigger \/ H.links[e].bigger # NULL
       PROVE  MaxAt(B, q)
  <2>0. /\ q \in D /\ MaxAt(H, q) /\ B.links[q].max = H.links[q].max /\ B.links[q].size = H.links[q].size
        /\ B.links[q].bigger = IF q = p /\ onBigger THEN c ELSE H.links[q].bigger
    BY <1>1, <1>2, <1>9 DEF SameChain
  <2>1. CASE ~(q = p /\ onBigger)
    <3>1. H.links[q].bigger # NULL => B.links[H.links[q].bigger].max = H.links[H.links[q].bigger].max
      BY <1>2, <1>7
    <3> QED BY <2>0, <2>1, <3>1 DEF MaxAt
  <2>2. CASE q = p /\ onBigger
    <3>1. H.links[e].bigger # NULL /\ c = H.links[e].bigger
      BY <1>14, <2>2 DEF OnlyChild
    <3>2. H.links[p].max = H.links[e].max /\ H.links[e].max = H.links[c].max
      BY <1>1, <1>3, <1>5, <2>2, <3>1 DEF MaxAt
    <3>3. B.links[c].max = H.links[c].max
      BY <1>2, <1>9, <3>1
    <3> QED BY <2>0, <2>2, <3>1, <3>2, <3>3 DEF MaxAt
  <2> QED BY <2>1, <2>2
<1>15. \A q \in D \ U : B.links[q].parent \in U \cup {NULL}
  <2> TAKE q \in D \ U
  <2>1. q # c
    BY <1>0, <1>9
  <2>2. B.links[q].parent = H.links[q].parent
    BY <1>2, <2>1
  <2>3. CASE q = e
    BY <1>9, <2>2, <2>3
  <2>4. CASE q # e
    BY <2>2, <2>4 DEF U, Apart
  <2> QED BY <2>3, <2>4
<1>16. B.links[Root].size = 0
  BY <1>0, <1>2 DEF SameChain, Tree
<1>17. c = IF onBigger THEN B.links[p].bigger ELSE B.links[p].smaller
  BY <1>2, <1>9
<1>18. Hung(B, D, U, sub2, p, c, onBigger)
  BY <1>2, <1>9, <1>12, <1>13, <1>14, <1>15, <1>16, <1>17 DEF Hung
<1>19. H.links[e].bigger # NULL => MaxAt(B, p)
  BY <1>9, <1>14
<1> QED BY <1>10, <1>18, <1>19 DEF U, sub2

(* The heap without e in the tree; e itself is left as it was.             *)
Unhooked(H, G, D, T, sub, e) ==
  /\ Tree(G, D, T \ {e}, Pruned(sub, T, e)) /\ Apart(G, D, T) /\ SameChain(H, G, D)
  /\ \A q \in T \ {e} :
       /\ Under(Pruned(sub, T, e), G.links[q].smaller) = Under(sub, H.links[q].smaller) \ {e}
       /\ Under(Pruned(sub, T, e), G.links[q].bigger) = Under(sub, H.links[q].bigger) \ {e}
       /\ H.links[q].parent # e => G.links[q].parent = H.links[q].parent

(* fph_remove_single takes a node with one side at most out of the tree.   *)
LEMMA SingleUnhooks ==
  ASSUME NEW D \in SUBSET Nat, NEW H, NEW T, NEW sub, Tree(H, D, T, sub), Apart(H, D, T),
         NEW e \in T \ {Root}, H.links[e].smaller = NULL \/ H.links[e].bigger = NULL
  PROVE  Unhooked(H, fph_remove_single(H, e), D, T, sub, e)
<1> DEFINE p == H.links[e].parent
           c == OnlyChild(H, e)
           onBigger == H.links[p].bigger = e
           B == SetParent(IF onBigger THEN [H EXCEPT !.links[p].bigger = c]
                                      ELSE [H EXCEPT !.links[p].smaller = c], c, p)
           G == IF ~onBigger \/ H.links[e].bigger # NULL THEN B ELSE MaxUp(B, p, c, onBigger)
           sub2 == Pruned(sub, T, e)
<1>0. /\ T \subseteq D /\ Shape(H, D, T, sub) /\ H \in Heaps(D) /\ NULL \notin D
      /\ Joint(H, T, sub, e)
  BY DEF Tree, Shape
<1>1. fph_remove_single(H, e) = G
  <2>1. c = IF H.links[e].bigger # NULL THEN H.links[e].bigger ELSE H.links[e].smaller
    BY DEF OnlyChild
  <2> DEFINE A(x) == SetParent(IF onBigger THEN [H EXCEPT !.links[p].bigger = x]
                                           ELSE [H EXCEPT !.links[p].smaller = x], x, p)
             R(x) == IF ~onBigger \/ H.links[e].bigger # NULL THEN A(x)
                     ELSE IF x # NULL THEN fph_remax(A(x), x)
                     ELSE OwnMax(A(x), p)
  <2>2. fph_remove_single(H, e) = R(IF H.links[e].bigger # NULL THEN H.links[e].bigger ELSE H.links[e].smaller)
    BY Zenon DEF fph_remove_single
  <2>3. fph_remove_single(H, e) = R(c)
    BY <2>1, <2>2, Zenon
  <2>4. A(c) = B
    OBVIOUS
  <2> HIDE DEF c, p, onBigger, A, B
  <2>5. R(c) = IF ~onBigger \/ H.links[e].bigger # NULL THEN B ELSE IF c # NULL THEN fph_remax(B, c) ELSE OwnMax(B, p)
    BY <2>4
  <2> QED BY <2>3, <2>5 DEF MaxUp
<1>2. p \in D /\ c \in D \cup {NULL} /\ c # p /\ onBigger \in BOOLEAN
  <2>1. p \in T /\ e \in {H.links[p].smaller, H.links[p].bigger} \ {NULL}
    BY <1>0 DEF Joint
  <2>2. c # NULL => c \in {H.links[e].smaller, H.links[e].bigger} \ {NULL}
    BY DEF OnlyChild
  <2>3. c # NULL => c \in T /\ c \in sub[e] /\ e \notin sub[c]
    BY <1>0, <2>2, SmallerBelow, BelowNode
  <2>4. e \in sub[p]
    BY <1>0, <2>1, SmallerBelow, BelowNode
  <2> HIDE DEF p, c
  <2> QED BY <1>0, <2>1, <2>3, <2>4 DEF onBigger
<1> HIDE DEF p, c, onBigger, G
<1>3. Hooked(H, B, D, p, c, onBigger)
  <2>1. Hooking(H, D, p, c, onBigger)
    BY <1>0, <1>2 DEF Hooking
  <2> QED BY <2>1, HookSingle DEF HookOn
<1> HIDE DEF B, sub2
<1>4. /\ Hung(B, D, T \ {e}, sub2, p, c, onBigger)
      /\ H.links[e].bigger # NULL => MaxAt(B, p)
      /\ \A q \in T \ {e} :
           /\ Under(sub2, B.links[q].smaller) = Under(sub, H.links[q].smaller) \ {e}
           /\ Under(sub2, B.links[q].bigger) = Under(sub, H.links[q].bigger) \ {e}
  <2>1. p = H.links[e].parent /\ c = OnlyChild(H, e) /\ (onBigger <=> H.links[p].bigger = e)
    BY DEF p, c, onBigger
  <2> QED BY <1>2, <1>3, <2>1, Unhooks DEF sub2
<1>5. Tree(G, D, T \ {e}, sub2) /\ SameChain(B, G, D) /\ SameSides(B, G, D)
  <2>1. CASE ~onBigger \/ H.links[e].bigger # NULL
    <3>1. G = B
      BY <2>1 DEF G
    <3>2. \A q \in T \ {e} : MaxAt(B, q)
      BY <1>4, <2>1 DEF Hung
    <3> QED BY <1>4, <3>1, <3>2 DEF Tree, Hung, SameChain, SameSides
  <2>2. CASE ~(~onBigger \/ H.links[e].bigger # NULL)
    <3>1. G = MaxUp(B, p, c, onBigger)
      BY <2>2 DEF G
    <3> QED BY <1>2, <1>4, <3>1, HungMended
  <2> QED BY <2>1, <2>2
<1>6. SameChain(H, G, D)
  BY <1>3, <1>5 DEF SameChain, Hooked
<1>7. Apart(G, D, T)
  <2>1. p \in T /\ (c # NULL => c \in T)
    BY <1>4 DEF Hung
  <2> QED BY <1>0, <1>3, <1>5, <2>1 DEF Apart, SameSides, Hooked
<1>8. ASSUME NEW q \in T \ {e}
      PROVE  /\ Under(sub2, G.links[q].smaller) = Under(sub, H.links[q].smaller) \ {e}
             /\ Under(sub2, G.links[q].bigger) = Under(sub, H.links[q].bigger) \ {e}
             /\ H.links[q].parent # e => G.links[q].parent = H.links[q].parent
  <2>1. q \in D
    BY <1>0
  <2>2. G.links[q].smaller = B.links[q].smaller /\ G.links[q].bigger = B.links[q].bigger /\ G.links[q].parent = B.links[q].parent
    BY <1>5, <2>1 DEF SameSides
  <2>3. H.links[q].parent # e => B.links[q].parent = H.links[q].parent
    <3>1. c # NULL => c \in {H.links[e].smaller, H.links[e].bigger} \ {NULL}
      BY DEF OnlyChild, c
    <3>2. c # NULL => H.links[c].parent = e
      BY <1>0, <3>1, SmallerBelow
    <3>3. B.links[q].parent = IF q = c THEN p ELSE H.links[q].parent
      BY <1>3, <2>1 DEF Hooked
    <3> QED BY <1>0, <2>1, <3>2, <3>3
  <2> QED BY <1>4, <2>2, <2>3
<1>9. Unhooked(H, G, D, T, sub, e)
  BY <1>5, <1>6, <1>7, <1>8 DEF Unhooked, sub2, p
<1> QED BY <1>1, <1>9

(* The end of fph_relink.                                                  *)
Cleared(B, e) ==
  LET l == B.links[e]
  IN [B EXCEPT !.links[e] = [l EXCEPT !.smaller = NULL, !.bigger = NULL,
                                      !.parent = NULL, !.max = l.size]]

Tidied(B, G, D, T, sub, e) ==
  /\ Tree(G, D, T, sub) /\ SameChain(B, G, D)
  /\ G.links[e].smaller = NULL /\ G.links[e].bigger = NULL /\ G.links[e].parent = NULL
  /\ \A q \in D \ {e} : G.links[q] = B.links[q]

(* Clearing the fields of a link outside does not touch the tree.          *)
LEMMA ClearKeeps ==
  ASSUME NEW D \in SUBSET Nat, NEW B, NEW T, NEW sub, Tree(B, D, T, sub), NEW e \in D \ T
  PROVE  Tidied(B, Cleared(B, e), D, T, sub, e)
<1> DEFINE el == [B.links[e] EXCEPT !.smaller = NULL, !.bigger = NULL, !.parent = NULL, !.max = B.links[e].size]
           G == Cleared(B, e)
<1>1. /\ B \in Heaps(D) /\ DOMAIN B.links = D /\ \A q \in D : B.links[q] \in Header
      /\ T \subseteq D /\ Root \in T /\ Shape(B, D, T, sub) /\ sub \in [T -> SUBSET T]
  BY DEF Tree, Heaps, Shape
<1>2. /\ el.prev = B.links[e].prev /\ el.next = B.links[e].next /\ el.used = B.links[e].used
      /\ el.size = B.links[e].size /\ el.smaller = NULL /\ el.bigger = NULL /\ el.parent = NULL
      /\ el \in Header
  <2>1. PICK l : l = B.links[e]
    OBVIOUS
  <2>2. l \in Header /\ NULL \in Nat
    BY <1>1, <2>1 DEF NULL
  <2>3. PICK m \in Header : m = [l EXCEPT !.smaller = NULL, !.bigger = NULL, !.parent = NULL, !.max = l.size]
    BY <2>2 DEF Header
  <2>4. /\ m.prev = l.prev /\ m.next = l.next /\ m.used = l.used /\ m.size = l.size
        /\ m.smaller = NULL /\ m.bigger = NULL /\ m.parent = NULL
    BY <2>2, <2>3 DEF Header
  <2>5. el = m
    BY <2>1, <2>3
  <2> HIDE DEF el
  <2> QED BY <2>1, <2>4, <2>5
<1>3. G = [last |-> B.last, links |-> [q \in D |-> IF q = e THEN el ELSE B.links[q]]]
  BY <1>1 DEF Cleared, Heaps
<1> HIDE DEF el, G
<1>4. G.last = B.last /\ \A q \in D : G.links[q] = IF q = e THEN el ELSE B.links[q]
  BY <1>3
<1>5. G \in Heaps(D)
  BY <1>1, <1>2, <1>3 DEF Heaps
<1>6. SameChain(B, G, D)
  BY <1>2, <1>4 DEF SameChain
<1>7. \A q \in T : G.links[q] = B.links[q] /\ q \in D
  BY <1>1, <1>4
<1>8. ASSUME NEW q \in T PROVE Joint(G, T, sub, q) /\ Sorted(G, sub, q) /\ MaxAt(G, q)
  <2>1. Joint(B, T, sub, q) /\ Sorted(B, sub, q) /\ MaxAt(B, q)
    BY DEF Tree, Shape
  <2>2. Joint(G, T, sub, q)
    BY <1>7, <2>1 DEF Joint
  <2>3. \A x \in {B.links[q].smaller, B.links[q].bigger} : x = NULL \/ x \in T
    BY <2>1 DEF Joint
  <2>4. Under(sub, B.links[q].smaller) \subseteq T /\ Under(sub, B.links[q].bigger) \subseteq T
    BY <1>1, <2>3 DEF Under
  <2>5. Sorted(G, sub, q)
    BY <1>7, <2>1, <2>4 DEF Sorted
  <2>6. MaxAt(G, q)
    BY <1>7, <2>1, <2>3 DEF MaxAt
  <2> QED BY <2>2, <2>5, <2>6
<1>9. Tree(G, D, T, sub)
  BY <1>1, <1>5, <1>7, <1>8 DEF Tree, Shape
<1>10. /\ G.links[e].smaller = NULL /\ G.links[e].bigger = NULL /\ G.links[e].parent = NULL
       /\ \A q \in D \ {e} : G.links[q] = B.links[q]
  BY <1>2, <1>4
<1> QED BY <1>6, <1>9, <1>10 DEF G, Tidied

(* c takes the place of e at p.                                            *)
Relinking(H, D, T, sub, p, e, c, onBigger) ==
  /\ D \in SUBSET Nat /\ NULL \notin D /\ H \in Heaps(D) /\ p \in D /\ c \in D \cup {NULL} /\ c # p
  /\ e \in D \ T /\ onBigger \in BOOLEAN /\ (onBigger <=> e # H.links[p].smaller)
  /\ \A X : Hooked(H, X, D, p, c, onBigger) => Hung(X, D, T, sub, p, c, onBigger)
  /\ \A q \in (D \ T) \ {e} : H.links[q].smaller = NULL /\ H.links[q].bigger = NULL /\ H.links[q].parent = NULL

Relinked(H, G, D, T, sub) == Tree(G, D, T, sub) /\ Apart(G, D, T) /\ SameChain(H, G, D)

(* fph_relink puts c in the place of e and leaves a sound tree.            *)
LEMMA Relinks ==
  ASSUME NEW H, NEW D, NEW T, NEW sub, NEW p, NEW e, NEW c, NEW onBigger,
         Relinking(H, D, T, sub, p, e, c, onBigger)
  PROVE  Relinked(H, fph_relink(H, p, e, c), D, T, sub)
<1>a. /\ D \in SUBSET Nat /\ NULL \notin D /\ H \in Heaps(D) /\ p \in D /\ c \in D \cup {NULL} /\ c # p
      /\ e \in D \ T /\ onBigger \in BOOLEAN /\ (onBigger <=> e # H.links[p].smaller)
      /\ \A X : Hooked(H, X, D, p, c, onBigger) => Hung(X, D, T, sub, p, c, onBigger)
      /\ \A q \in (D \ T) \ {e} : H.links[q].smaller = NULL /\ H.links[q].bigger = NULL /\ H.links[q].parent = NULL
  BY DEF Relinking
<1> DEFINE X == HookUp(H, p, c, onBigger)
           Y == MaxUp(X, p, c, onBigger)
           G == Cleared(Y, e)
<1>0. DOMAIN H.links = D
  BY <1>a DEF Heaps
<1>1. fph_relink(H, p, e, c) = G
  <2>1. SetParent(H, c, p).links[p].smaller = H.links[p].smaller
    <3>1. CASE c = NULL
      BY <1>a, <3>1 DEF SetParent
    <3>2. CASE c # NULL
      BY <1>a, <1>0, <3>2 DEF SetParent, Heaps
    <3> QED BY <3>1, <3>2
  <2>2. fph_relink(H, p, e, c) =
          Cleared(IF e = SetParent(H, c, p).links[p].smaller
                  THEN [SetParent(H, c, p) EXCEPT !.links[p].smaller = c]
                  ELSE IF c # NULL THEN fph_remax([SetParent(H, c, p) EXCEPT !.links[p].bigger = c], c)
                       ELSE OwnMax([SetParent(H, c, p) EXCEPT !.links[p].bigger = c], p), e)
    BY Zenon DEF fph_relink, Cleared
  <2>3. Y = IF e = SetParent(H, c, p).links[p].smaller
            THEN [SetParent(H, c, p) EXCEPT !.links[p].smaller = c]
            ELSE IF c # NULL THEN fph_remax([SetParent(H, c, p) EXCEPT !.links[p].bigger = c], c)
                 ELSE OwnMax([SetParent(H, c, p) EXCEPT !.links[p].bigger = c], p)
    <3>1. CASE onBigger
      BY <1>a, <2>1, <3>1, Zenon DEF MaxUp, HookUp
    <3>2. CASE ~onBigger
      BY <1>a, <2>1, <3>2, Zenon DEF MaxUp, HookUp
    <3> QED BY <3>1, <3>2
  <2> QED BY <2>2, <2>3
<1>2. Hooked(H, X, D, p, c, onBigger)
  BY <1>a, HookRelink DEF Hooking
<1> HIDE DEF X, Y, G
<1>3. Hung(X, D, T, sub, p, c, onBigger)
  BY <1>a, <1>2
<1>4. Tree(Y, D, T, sub) /\ SameChain(X, Y, D) /\ SameSides(X, Y, D)
  BY <1>a, <1>3, HungMended DEF Y
<1>5. /\ Tree(G, D, T, sub) /\ SameChain(Y, G, D)
      /\ G.links[e].smaller = NULL /\ G.links[e].bigger = NULL /\ G.links[e].parent = NULL
      /\ \A q \in D \ {e} : G.links[q] = Y.links[q]
  <2>1. e \in D \ T /\ Tree(Y, D, T, sub)
    BY <1>a, <1>4
  <2>2. /\ Tree(Cleared(Y, e), D, T, sub) /\ SameChain(Y, Cleared(Y, e), D)
        /\ Cleared(Y, e).links[e].smaller = NULL /\ Cleared(Y, e).links[e].bigger = NULL
        /\ Cleared(Y, e).links[e].parent = NULL
        /\ \A q \in D \ {e} : Cleared(Y, e).links[q] = Y.links[q]
    <3>1. D \in SUBSET Nat /\ e \in D \ T /\ Tree(Y, D, T, sub)
      BY <1>a, <2>1
    <3>2. Tidied(Y, Cleared(Y, e), D, T, sub, e)
      BY <3>1, ClearKeeps
    <3> QED BY <3>2 DEF Tidied
  <2> QED BY <2>2 DEF G
<1>6. SameChain(H, G, D)
  BY <1>a, <1>2, <1>4, <1>5 DEF SameChain, Hooked
<1>7. ASSUME NEW q \in D \ T
      PROVE  G.links[q].smaller = NULL /\ G.links[q].bigger = NULL /\ G.links[q].parent = NULL
  <2>1. CASE q = e
    BY <1>5, <2>1
  <2>2. CASE q # e
    <3>1. q # p /\ q # c
      BY <1>3 DEF Hung, Shape
    <3> QED BY <1>a, <1>2, <1>4, <1>5, <2>2, <3>1 DEF SameSides, Hooked
  <2> QED BY <2>1, <2>2
<1>8. Apart(G, D, T)
  BY <1>7 DEF Apart
<1> QED BY <1>1, <1>5, <1>6, <1>8 DEF Relinked

(* fph_post and fph_pre: the node of the subtree that fits in the place of *)
(* e, without a node on one of its sides.                                  *)
LEMMA PostLeast ==
  ASSUME NEW D, NEW H, NEW T, NEW sub, Tree(H, D, T, sub), Apart(H, D, T),
         NEW e \in T, H.links[e].bigger # NULL
  PROVE  \E w \in sub[H.links[e].bigger] :
           /\ fph_post(H, e) = w /\ H.links[w].smaller = NULL
           /\ \A y \in sub[H.links[e].bigger] : H.links[w].size <= H.links[y].size
<1> DEFINE b == H.links[e].bigger
           nx == [p \in D |-> H.links[p].smaller]
           C == {p \in D : nx[p] # NULL}
           v == [p \in D |-> p]
           Body(F) == [p \in DOMAIN H.links |-> IF H.links[p].smaller = NULL THEN p ELSE F[H.links[p].smaller]]
           K == CHOOSE F : F = Body(F)
           Z == {x \in sub[b] : \A y \in sub[b] : y \in sub[x] \/ H.links[x].size <= H.links[y].size}
<1>0. /\ DOMAIN H.links = D /\ T \subseteq D /\ Shape(H, D, T, sub) /\ sub \in [T -> SUBSET T] /\ NULL \notin D
      /\ \A p \in D : H.links[p].size \in Nat
  BY DEF Tree, Heaps, Header, Shape
<1>1. fph_post(H, e) = K[b]
  BY Zenon DEF fph_post
<1>2. PICK r \in [D -> Nat] : Descends(H, D, T, r)
  BY <1>0, DownRank
<1>3. \A p \in C : nx[p] \in D /\ r[nx[p]] < r[p] /\ p \in T
  BY <1>2 DEF Apart, Descends
<1>4. \A F : Followed(F, D, C, nx, v) <=> F = Body(F)
  BY <1>0 DEF Followed
<1>5. Followed(K, D, C, nx, v)
  <2>1. C \in SUBSET D
    OBVIOUS
  <2> HIDE DEF C, nx, v
  <2>2. PICK c, n, u : c = C /\ n = nx /\ u = v
    OBVIOUS
  <2>3. c \in SUBSET D /\ \A p \in c : n[p] \in D /\ r[n[p]] < r[p]
    BY <1>3, <2>1, <2>2
  <2>4. \E F : Followed(F, D, c, n, u)
    BY <2>3, FollowRec
  <2> HIDE DEF Body
  <2>5. \E F : F = Body(F)
    BY <1>4, <2>2, <2>4
  <2>6. K = Body(K)
    BY <2>5
  <2> HIDE DEF K
  <2> QED BY <1>4, <2>6
<1>6. b \in T /\ b \in sub[b] /\ sub[b] \subseteq T
  BY <1>0, SmallerBelow, BelowNode
<1>7. \A p \in T : Joint(H, T, sub, p) /\ Sorted(H, sub, p)
  BY DEF Tree, Shape
<1>8. \A p \in Z \cap C : nx[p] \in Z
  <2> TAKE p \in Z \cap C
  <2> DEFINE c == nx[p]
             d == H.links[p].bigger
  <2>1. p \in T /\ c = H.links[p].smaller /\ c # NULL
    BY <1>3
  <2>2. c \in sub[c] /\ sub[c] \subseteq sub[p] /\ c \in T
    BY <1>0, <2>1, SmallerBelow, BelowNode
  <2>3. sub[p] \subseteq sub[b]
    BY <1>0, <1>6, BelowNode
  <2>4. sub[p] = {p} \cup sub[c] \cup Under(sub, d)
    BY <1>7, <2>1 DEF Joint, Under
  <2>5. H.links[c].size <= H.links[p].size /\ \A y \in Under(sub, d) : H.links[y].size >= H.links[p].size
    BY <1>7, <2>1, <2>2 DEF Sorted, Under
  <2>6. \A y \in sub[b] : y \in sub[p] \/ H.links[p].size <= H.links[y].size
    OBVIOUS
  <2>7. \A y \in sub[b] : y \in D /\ H.links[y].size \in Nat
    BY <1>0, <1>6
  <2>8. p \in sub[b] /\ c \in sub[b]
    BY <2>2, <2>3
  <2> HIDE DEF c, d
  <2>9. \A y \in sub[b] : y \in sub[c] \/ H.links[c].size <= H.links[y].size
    BY <2>4, <2>5, <2>6, <2>7, <2>8
  <2> QED BY <2>8, <2>9 DEF c
<1>9. b \in Z
  BY <1>6
<1>10. PICK z \in Z \ C : K[b] = z
  <2>1. C \in SUBSET D /\ Z \in SUBSET D
    BY <1>0, <1>6
  <2>2. \A q \in Z : v[q] = q
    BY <1>0, <1>6
  <2> HIDE DEF C, nx, v, Z, K, b
  <2>3. PICK c, n, u, s, k : c = C /\ n = nx /\ u = v /\ s = Z /\ k = K
    OBVIOUS
  <2>4. /\ c \in SUBSET D /\ s \in SUBSET D /\ \A p \in c : n[p] \in D /\ r[n[p]] < r[p]
        /\ Followed(k, D, c, n, u) /\ \A p \in s \cap c : n[p] \in s
    BY <1>3, <1>5, <1>8, <2>1, <2>3
  <2>5. \A p \in s : \E z \in s \ c : k[p] = u[z]
    BY <2>4, FollowStays
  <2> QED BY <1>9, <2>2, <2>3, <2>5
<1>11. z \in sub[b] /\ z \in T /\ z \in D /\ H.links[z].smaller = NULL
  BY <1>0, <1>6
<1>12. \A y \in sub[z] : y \in D /\ H.links[z].size <= H.links[y].size
  <2>1. sub[z] = {z} \cup Under(sub, H.links[z].bigger)
    BY <1>7, <1>11 DEF Joint, Under
  <2>2. \A y \in Under(sub, H.links[z].bigger) : H.links[y].size >= H.links[z].size
    BY <1>7, <1>11 DEF Sorted
  <2>3. \A y \in sub[z] : y \in D
    BY <1>0, <1>11
  <2> QED BY <1>0, <1>11, <2>1, <2>2, <2>3
<1>13. \A y \in sub[b] : H.links[z].size <= H.links[y].size
  BY <1>12
<1> HIDE DEF K
<1> QED BY <1>1, <1>10, <1>11, <1>13

(* fph_pre finds a greatest node of the smaller side.                      *)
LEMMA PreGreatest ==
  ASSUME NEW D, NEW H, NEW T, NEW sub, Tree(H, D, T, sub), Apart(H, D, T),
         NEW e \in T, H.links[e].smaller # NULL
  PROVE  \E w \in sub[H.links[e].smaller] :
           /\ fph_pre(H, e) = w /\ H.links[w].bigger = NULL
           /\ \A y \in sub[H.links[e].smaller] : H.links[w].size >= H.links[y].size
<1> DEFINE b == H.links[e].smaller
           nx == [p \in D |-> H.links[p].bigger]
           C == {p \in D : nx[p] # NULL}
           v == [p \in D |-> p]
           Body(F) == [p \in DOMAIN H.links |-> IF H.links[p].bigger = NULL THEN p ELSE F[H.links[p].bigger]]
           K == CHOOSE F : F = Body(F)
           Z == {x \in sub[b] : \A y \in sub[b] : y \in sub[x] \/ H.links[x].size >= H.links[y].size}
<1>0. /\ DOMAIN H.links = D /\ T \subseteq D /\ Shape(H, D, T, sub) /\ sub \in [T -> SUBSET T] /\ NULL \notin D
      /\ \A p \in D : H.links[p].size \in Nat
  BY DEF Tree, Heaps, Header, Shape
<1>1. fph_pre(H, e) = K[b]
  BY Zenon DEF fph_pre
<1>2. PICK r \in [D -> Nat] : Descends(H, D, T, r)
  BY <1>0, DownRank
<1>3. \A p \in C : nx[p] \in D /\ r[nx[p]] < r[p] /\ p \in T
  BY <1>2 DEF Apart, Descends
<1>4. \A F : Followed(F, D, C, nx, v) <=> F = Body(F)
  BY <1>0 DEF Followed
<1>5. Followed(K, D, C, nx, v)
  <2>1. C \in SUBSET D
    OBVIOUS
  <2> HIDE DEF C, nx, v
  <2>2. PICK c, n, u : c = C /\ n = nx /\ u = v
    OBVIOUS
  <2>3. c \in SUBSET D /\ \A p \in c : n[p] \in D /\ r[n[p]] < r[p]
    BY <1>3, <2>1, <2>2
  <2>4. \E F : Followed(F, D, c, n, u)
    BY <2>3, FollowRec
  <2> HIDE DEF Body
  <2>5. \E F : F = Body(F)
    BY <1>4, <2>2, <2>4
  <2>6. K = Body(K)
    BY <2>5
  <2> HIDE DEF K
  <2> QED BY <1>4, <2>6
<1>6. b \in T /\ b \in sub[b] /\ sub[b] \subseteq T
  BY <1>0, SmallerBelow, BelowNode
<1>7. \A p \in T : Joint(H, T, sub, p) /\ Sorted(H, sub, p)
  BY DEF Tree, Shape
<1>8. \A p \in Z \cap C : nx[p] \in Z
  <2> TAKE p \in Z \cap C
  <2> DEFINE c == nx[p]
             d == H.links[p].smaller
  <2>1. p \in T /\ c = H.links[p].bigger /\ c # NULL
    BY <1>3
  <2>2. c \in sub[c] /\ sub[c] \subseteq sub[p] /\ c \in T
    BY <1>0, <2>1, SmallerBelow, BelowNode
  <2>3. sub[p] \subseteq sub[b]
    BY <1>0, <1>6, BelowNode
  <2>4. sub[p] = {p} \cup sub[c] \cup Under(sub, d)
    BY <1>7, <2>1 DEF Joint, Under
  <2>5. H.links[c].size >= H.links[p].size /\ \A y \in Under(sub, d) : H.links[y].size <= H.links[p].size
    BY <1>7, <2>1, <2>2 DEF Sorted, Under
  <2>6. \A y \in sub[b] : y \in sub[p] \/ H.links[p].size >= H.links[y].size
    OBVIOUS
  <2>7. \A y \in sub[b] : y \in D /\ H.links[y].size \in Nat
    BY <1>0, <1>6
  <2>8. p \in sub[b] /\ c \in sub[b]
    BY <2>2, <2>3
  <2> HIDE DEF c, d
  <2>9. \A y \in sub[b] : y \in sub[c] \/ H.links[c].size >= H.links[y].size
    BY <2>4, <2>5, <2>6, <2>7, <2>8
  <2> QED BY <2>8, <2>9 DEF c
<1>9. b \in Z
  BY <1>6
<1>10. PICK z \in Z \ C : K[b] = z
  <2>1. C \in SUBSET D /\ Z \in SUBSET D
    BY <1>0, <1>6
  <2>2. \A q \in Z : v[q] = q
    BY <1>0, <1>6
  <2> HIDE DEF C, nx, v, Z, K, b
  <2>3. PICK c, n, u, s, k : c = C /\ n = nx /\ u = v /\ s = Z /\ k = K
    OBVIOUS
  <2>4. /\ c \in SUBSET D /\ s \in SUBSET D /\ \A p \in c : n[p] \in D /\ r[n[p]] < r[p]
        /\ Followed(k, D, c, n, u) /\ \A p \in s \cap c : n[p] \in s
    BY <1>3, <1>5, <1>8, <2>1, <2>3
  <2>5. \A p \in s : \E z \in s \ c : k[p] = u[z]
    BY <2>4, FollowStays
  <2> QED BY <1>9, <2>2, <2>3, <2>5
<1>11. z \in sub[b] /\ z \in T /\ z \in D /\ H.links[z].bigger = NULL
  BY <1>0, <1>6
<1>12. \A y \in sub[z] : y \in D /\ H.links[z].size >= H.links[y].size
  <2>1. sub[z] = {z} \cup Under(sub, H.links[z].smaller)
    BY <1>7, <1>11 DEF Joint, Under
  <2>2. \A y \in Under(sub, H.links[z].smaller) : H.links[y].size <= H.links[z].size
    BY <1>7, <1>11 DEF Sorted
  <2>3. \A y \in sub[z] : y \in D
    BY <1>0, <1>11
  <2> QED BY <1>0, <1>11, <2>1, <2>2, <2>3
<1>13. \A y \in sub[b] : H.links[z].size >= H.links[y].size
  BY <1>12
<1> HIDE DEF K
<1> QED BY <1>1, <1>10, <1>11, <1>13

-----------------------------------------------------------------------------
(* Another link takes the place of a node.                                 *)

(* w gets the sides s and b, as fph_remove prepares it.                    *)
Seat(A, w, s, b) ==
  SetParent(SetParent(
    [A EXCEPT !.links[w] =
       [@ EXCEPT !.parent = NULL, !.smaller = s, !.bigger = b,
                 !.max = IF b # NULL THEN A.links[b].max ELSE A.links[w].size]], b, w), s, w)

Seated(A, H, D, w, s, b) ==
  /\ H \in Heaps(D) /\ SameChain(A, H, D)
  /\ \A q \in D :
       /\ H.links[q].smaller = IF q = w THEN s ELSE A.links[q].smaller
       /\ H.links[q].bigger = IF q = w THEN b ELSE A.links[q].bigger
       /\ H.links[q].parent = IF q = w THEN NULL ELSE IF q \in {s, b} THEN w ELSE A.links[q].parent
       /\ H.links[q].max = IF q # w THEN A.links[q].max
                           ELSE IF b # NULL THEN A.links[b].max ELSE A.links[w].size

(* What fph_remove writes into w and its new sides, field by field.        *)
LEMMA SeatFields ==
  ASSUME NEW D \in SUBSET Nat, NULL \notin D, NEW A \in Heaps(D), NEW w \in D,
         NEW s \in (D \cup {NULL}) \ {w}, NEW b \in (D \cup {NULL}) \ {w}
  PROVE  Seated(A, Seat(A, w, s, b), D, w, s, b)
<1>1. DOMAIN A.links = D /\ \A q \in D : A.links[q] \in Header
  BY DEF Heaps
<1> DEFINE m == IF b # NULL THEN A.links[b].max ELSE A.links[w].size
           wl == [A.links[w] EXCEPT !.parent = NULL, !.smaller = s, !.bigger = b, !.max = m]
           sl == [A.links[s] EXCEPT !.parent = w]
           bl == [A.links[b] EXCEPT !.parent = w]
           f == [q \in D |-> IF q = w THEN wl ELSE IF q = s THEN sl ELSE IF q = b THEN bl ELSE A.links[q]]
           A1 == [A EXCEPT !.links[w] = wl]
           H == Seat(A, w, s, b)
<1>2. H = SetParent(SetParent(A1, b, w), s, w)
  BY Zenon DEF Seat
<1>3. A1 = [last |-> A.last, links |-> [q \in D |-> IF q = w THEN wl ELSE A.links[q]]]
  BY <1>1 DEF Heaps
<1>4. SetParent(A1, b, w) =
        [last |-> A.last, links |-> [q \in D |-> IF q = w THEN wl ELSE IF q = b THEN bl ELSE A.links[q]]]
  <2> HIDE DEF wl, A1
  <2>1. CASE b = NULL
    BY <1>3, <2>1 DEF SetParent
  <2>2. CASE b # NULL
    <3>1. b \in D /\ b # w
      BY <2>2
    <3>2. A1.links[b] = A.links[b]
      BY <1>3, <3>1
    <3>3. SetParent(A1, b, w) = [A1 EXCEPT !.links = [A1.links EXCEPT ![b] = bl]]
      BY <2>2, <3>2 DEF SetParent
    <3> HIDE DEF bl
    <3>4. [A1.links EXCEPT ![b] = bl] = [q \in D |-> IF q = w THEN wl ELSE IF q = b THEN bl ELSE A.links[q]]
      BY <1>3, <3>1
    <3> QED BY <1>3, <3>3, <3>4
  <2> QED BY <2>1, <2>2
<1>5. b = s => bl = sl
  OBVIOUS
<1>6. H = [last |-> A.last, links |-> f]
  <2> HIDE DEF wl, A1, H
  <2> DEFINE A2 == SetParent(A1, b, w)
  <2>0. A2 = [last |-> A.last, links |-> [q \in D |-> IF q = w THEN wl ELSE IF q = b THEN bl ELSE A.links[q]]]
    BY <1>4
  <2>1. CASE s = NULL
    <3>1. H = A2
      BY <1>2, <2>1 DEF SetParent
    <3>2. f = [q \in D |-> IF q = w THEN wl ELSE IF q = b THEN bl ELSE A.links[q]]
      BY <2>1
    <3> HIDE DEF f, A2
    <3> QED BY <2>0, <3>1, <3>2
  <2>2. CASE s # NULL
    <3>1. s \in D /\ s # w
      BY <2>2
    <3>2. A2.links[s] = IF s = b THEN bl ELSE A.links[s]
      BY <2>0, <3>1
    <3>3. [A2.links[s] EXCEPT !.parent = w] = sl
      <4>1. CASE s # b
        BY <3>2, <4>1
      <4>2. CASE s = b
        <5>1. A2.links[s] = sl
          BY <1>5, <3>2, <4>2
        <5>2. [sl EXCEPT !.parent = w] = sl
          BY <1>1, <3>1 DEF Header
        <5> QED BY <5>1, <5>2
      <4> QED BY <4>1, <4>2
    <3>4. H = [A2 EXCEPT !.links = [A2.links EXCEPT ![s] = sl]]
      BY <1>2, <2>2, <3>3 DEF SetParent
    <3> HIDE DEF bl, sl, A2
    <3>5. [A2.links EXCEPT ![s] = sl] = f
      BY <2>0, <3>1
    <3> HIDE DEF f
    <3> QED BY <2>0, <3>4, <3>5
  <2> QED BY <2>1, <2>2
<1>7. s \in Nat /\ b \in Nat /\ w \in Nat /\ m \in Nat /\ NULL \in Nat
  <2>1. NULL \in Nat
    BY DEF NULL
  <2>2. b # NULL => A.links[b].max \in Nat
    BY <1>1 DEF Header
  <2>3. A.links[w].size \in Nat
    BY <1>1 DEF Header
  <2> QED BY <2>1, <2>2, <2>3
<1> HIDE DEF m
<1>8. /\ wl \in Header /\ wl.prev = A.links[w].prev /\ wl.next = A.links[w].next /\ wl.used = A.links[w].used
      /\ wl.size = A.links[w].size /\ wl.max = m /\ wl.parent = NULL /\ wl.smaller = s /\ wl.bigger = b
  BY <1>1, <1>7 DEF Header
<1>9. s # NULL =>
      /\ sl \in Header /\ sl.prev = A.links[s].prev /\ sl.next = A.links[s].next /\ sl.used = A.links[s].used
      /\ sl.size = A.links[s].size /\ sl.max = A.links[s].max /\ sl.parent = w
      /\ sl.smaller = A.links[s].smaller /\ sl.bigger = A.links[s].bigger
  <2>1. s # NULL => s \in D
    OBVIOUS
  <2> QED BY <1>1, <2>1 DEF Header
<1>10. b # NULL =>
      /\ bl \in Header /\ bl.prev = A.links[b].prev /\ bl.next = A.links[b].next /\ bl.used = A.links[b].used
      /\ bl.size = A.links[b].size /\ bl.max = A.links[b].max /\ bl.parent = w
      /\ bl.smaller = A.links[b].smaller /\ bl.bigger = A.links[b].bigger
  <2>1. b # NULL => b \in D
    OBVIOUS
  <2> QED BY <1>1, <2>1 DEF Header
<1> HIDE DEF wl, sl, bl, H
<1>11. H.last = A.last /\ \A q \in D : H.links[q] = IF q = w THEN wl ELSE IF q = s THEN sl ELSE IF q = b THEN bl ELSE A.links[q]
  BY <1>6
<1>12. H \in Heaps(D)
  <2>1. \A q \in D : f[q] \in Header
    BY <1>1, <1>8, <1>9, <1>10
  <2>2. A.last \in Nat
    BY DEF Heaps
  <2>3. f \in [D -> Header]
    BY <2>1
  <2> HIDE DEF f
  <2> QED BY <1>6, <2>2, <2>3 DEF Heaps
<1>13. SameChain(A, H, D)
  BY <1>8, <1>9, <1>10, <1>11 DEF SameChain
<1>14. \A q \in D :
       /\ H.links[q].smaller = IF q = w THEN s ELSE A.links[q].smaller
       /\ H.links[q].bigger = IF q = w THEN b ELSE A.links[q].bigger
       /\ H.links[q].parent = IF q = w THEN NULL ELSE IF q \in {s, b} THEN w ELSE A.links[q].parent
       /\ H.links[q].max = IF q # w THEN A.links[q].max ELSE m
  BY <1>8, <1>9, <1>10, <1>11
<1>15. Seated(A, H, D, w, s, b)
  BY <1>12, <1>13, <1>14 DEF Seated, m
<1> QED BY <1>15 DEF H

(* w fits in the place of e.                                               *)
Replaces(A, T, sub, e, w) ==
  /\ Belongs(A, T, sub, e, A.links[w].size)
  /\ \A y \in Under(sub, A.links[e].smaller) : A.links[y].size <= A.links[w].size
  /\ \A y \in Under(sub, A.links[e].bigger) : A.links[y].size >= A.links[w].size

(* The subtrees with w instead of e.                                       *)
Exchanged(sub, T, e, w) ==
  [q \in (T \ {e}) \cup {w} |->
     IF q = w THEN (sub[e] \ {e}) \cup {w}
     ELSE IF e \in sub[q] THEN (sub[q] \ {e}) \cup {w} ELSE sub[q]]

(* H is the tree A with w prepared for the place of e below p.             *)
Seating(A, D, T, sub, e, w, p, onBigger, H) ==
  /\ Tree(A, D, T, sub) /\ w \in D \ T /\ e \in T \ {Root} /\ p = A.links[e].parent
  /\ \A q \in (D \ T) \ {w} : A.links[q].parent = NULL
  /\ Replaces(A, T, sub, e, w)
  /\ onBigger \in BOOLEAN /\ (onBigger <=> e # A.links[p].smaller)
  /\ Seated(A, H, D, w, A.links[e].smaller, A.links[e].bigger)

(* w in the place of e: all but max is right.                              *)
LEMMA SeatHangs ==
  ASSUME NEW D, NEW A, NEW T, NEW sub, NEW w, NEW e, NEW p, NEW onBigger, NEW H,
         Seating(A, D, T, sub, e, w, p, onBigger, H),
         NEW X, Hooked(H, X, D, p, w, onBigger)
  PROVE  Hung(X, D, (T \ {e}) \cup {w}, Exchanged(sub, T, e, w), p, w, onBigger)
<1> DEFINE V == T \ {e}
           U == V \cup {w}
           sub2 == Exchanged(sub, T, e, w)
<1> DEFINE s == A.links[e].smaller
           b == A.links[e].bigger
<1>a. /\ Tree(A, D, T, sub) /\ w \in D \ T /\ e \in T \ {Root} /\ p = A.links[e].parent
      /\ \A q \in (D \ T) \ {w} : A.links[q].parent = NULL
      /\ Replaces(A, T, sub, e, w)
      /\ onBigger \in BOOLEAN /\ (onBigger <=> e # A.links[p].smaller)
      /\ Seated(A, H, D, w, s, b)
  BY DEF Seating
<1> USE <1>a
<1>b. s = A.links[e].smaller /\ b = A.links[e].bigger
  OBVIOUS
<1> HIDE DEF s, b
<1> USE <1>b
<1>0. /\ T \subseteq D /\ Root \in T /\ Shape(A, D, T, sub) /\ A \in Heaps(D) /\ IsFiniteSet(T)
      /\ sub \in [T -> SUBSET T] /\ NULL \notin D
  BY DEF Tree, Shape
<1>1. \A q \in T : Joint(A, T, sub, q) /\ Sorted(A, sub, q) /\ MaxAt(A, q)
  BY DEF Tree, Shape
<1>2. p \in T /\ e \in {A.links[p].smaller, A.links[p].bigger} /\ e # NULL
  BY <1>0, <1>1 DEF Joint
<1>3. p # e /\ e \in sub[p] /\ p \notin sub[e]
  BY <1>0, <1>2, SmallerBelow, BelowNode
<1>4. IF onBigger THEN A.links[p].bigger = e /\ A.links[p].smaller # e
                  ELSE A.links[p].smaller = e /\ A.links[p].bigger # e
  BY <1>1, <1>2 DEF Joint
<1>5. /\ sub[e] = {e} \cup Under(sub, s) \cup Under(sub, b)
      /\ e \notin Under(sub, s) /\ e \notin Under(sub, b) /\ (s = b => s = NULL)
  BY <1>1 DEF Joint
<1>6. \A x \in {s, b} \ {NULL} : x \in V \ {Root} /\ x # p /\ x # w /\ A.links[x].parent = e /\ e \notin sub[x]
  <2> TAKE x \in {s, b} \ {NULL}
  <2>1. x \in T \ {Root} /\ A.links[x].parent = e /\ e \notin sub[x] /\ x \in sub[e] /\ x \in sub[x]
    BY <1>0, SmallerBelow, BelowNode
  <2> QED BY <1>3, <2>1
<1>7. /\ X \in Heaps(D) /\ SameChain(A, X, D)
      /\ \A q \in D :
           /\ X.links[q].smaller = IF q = w THEN s ELSE IF q = p /\ ~onBigger THEN w ELSE A.links[q].smaller
           /\ X.links[q].bigger = IF q = w THEN b ELSE IF q = p /\ onBigger THEN w ELSE A.links[q].bigger
           /\ X.links[q].parent = IF q = w THEN p ELSE IF q \in {s, b} THEN w ELSE A.links[q].parent
           /\ X.links[q].max = IF q # w THEN A.links[q].max
                               ELSE IF b # NULL THEN A.links[b].max ELSE A.links[w].size
  <2>1. SameChain(A, X, D)
    BY DEF Seated, Hooked, SameChain
  <2>2. p # w
    BY <1>2
  <2> QED BY <2>1, <2>2 DEF Seated, Hooked
<1>8. ASSUME NEW q \in V, NEW x \in {A.links[q].smaller, A.links[q].bigger} \ {NULL}
      PROVE  x \in T \ {Root} /\ x \in D /\ A.links[x].parent = q /\ x \notin {s, b} /\ x # w /\ (x = e => q = p)
  <2>1. x \in T \ {Root} /\ A.links[x].parent = q
    BY <1>0, SmallerBelow
  <2> QED BY <1>0, <1>6, <2>1
<1>9. sub2 \in [U -> SUBSET U]
  BY <1>0 DEF Exchanged
<1>10. /\ sub2[w] = (sub[e] \ {e}) \cup {w}
       /\ \A q \in V : sub2[q] = IF e \in sub[q] THEN (sub[q] \ {e}) \cup {w} ELSE sub[q]
  BY <1>0 DEF Exchanged
<1>11. /\ \A q \in V : q \in D /\ q \in T /\ q # NULL /\ q # w /\ q # e
       /\ p \in V /\ e \in D /\ e \notin U /\ w \in D /\ w # NULL /\ w # Root /\ w # e /\ w \in U /\ V \subseteq U
  BY <1>0, <1>2, <1>3
<1>12. U \subseteq V \cup {w} /\ T \subseteq V \cup {e}
  OBVIOUS
<1> HIDE DEF U, V, sub2
<1>13. ASSUME NEW q \in V
       PROVE  /\ Under(sub2, X.links[q].smaller) =
                   IF e \in Under(sub, A.links[q].smaller) THEN (Under(sub, A.links[q].smaller) \ {e}) \cup {w}
                   ELSE Under(sub, A.links[q].smaller)
              /\ Under(sub2, X.links[q].bigger) =
                   IF e \in Under(sub, A.links[q].bigger) THEN (Under(sub, A.links[q].bigger) \ {e}) \cup {w}
                   ELSE Under(sub, A.links[q].bigger)
  <2> DEFINE R(Z) == IF e \in Z THEN (Z \ {e}) \cup {w} ELSE Z
  <2>1. Under(sub2, w) = R(Under(sub, e))
    BY <1>2, <1>5, <1>10, <1>11 DEF Under
  <2>2. ASSUME NEW x \in {A.links[q].smaller, A.links[q].bigger}, x # e
        PROVE  Under(sub2, x) = R(Under(sub, x))
    <3>1. x # NULL => x \in V
      BY <1>8, <1>12, <2>2
    <3> QED BY <1>10, <3>1 DEF Under
  <2>3. Under(sub2, X.links[q].smaller) = R(Under(sub, A.links[q].smaller))
    <3>1. CASE q = p /\ ~onBigger
      <4>1. X.links[q].smaller = w /\ A.links[q].smaller = e
        BY <1>4, <1>7, <1>11, <3>1
      <4> QED BY <2>1, <4>1
    <3>2. CASE ~(q = p /\ ~onBigger)
      <4>1. X.links[q].smaller = A.links[q].smaller
        BY <1>7, <1>11, <3>2
      <4>2. A.links[q].smaller # e
        BY <1>2, <1>4, <1>8, <3>2
      <4> HIDE DEF R
      <4> QED BY <2>2, <4>1, <4>2
    <3> QED BY <3>1, <3>2
  <2>4. Under(sub2, X.links[q].bigger) = R(Under(sub, A.links[q].bigger))
    <3>1. CASE q = p /\ onBigger
      <4>1. X.links[q].bigger = w /\ A.links[q].bigger = e
        BY <1>4, <1>7, <1>11, <3>1
      <4> QED BY <2>1, <4>1
    <3>2. CASE ~(q = p /\ onBigger)
      <4>1. X.links[q].bigger = A.links[q].bigger
        BY <1>7, <1>11, <3>2
      <4>2. A.links[q].bigger # e
        BY <1>2, <1>4, <1>8, <3>2
      <4> HIDE DEF R
      <4> QED BY <2>2, <4>1, <4>2
    <3> QED BY <3>1, <3>2
  <2> QED BY <2>3, <2>4
<1>14. /\ X.links[w].smaller = s /\ X.links[w].bigger = b /\ X.links[w].parent = p
       /\ Under(sub2, s) = Under(sub, s) /\ Under(sub2, b) = Under(sub, b)
  BY <1>6, <1>7, <1>10, <1>11 DEF Under
<1>15. ASSUME NEW q \in V PROVE Joint(X, U, sub2, q)
  <2>0. Joint(A, T, sub, q) /\ q \in D /\ q # e /\ q # w
    BY <1>1, <1>11
  <2>1. /\ X.links[q].smaller = IF q = p /\ ~onBigger THEN w ELSE A.links[q].smaller
        /\ X.links[q].bigger = IF q = p /\ onBigger THEN w ELSE A.links[q].bigger
    BY <1>7, <2>0
  <2>2. \A x \in {X.links[q].smaller, X.links[q].bigger} \ {NULL} :
          \/ x = w /\ q = p
          \/ x \in {A.links[q].smaller, A.links[q].bigger} /\ x # e
    BY <1>2, <1>4, <1>8, <2>1
  <2>3. \A x \in {X.links[q].smaller, X.links[q].bigger} \ {NULL} : x \in U \ {Root} /\ X.links[x].parent = q
    <3> TAKE x \in {X.links[q].smaller, X.links[q].bigger} \ {NULL}
    <3>1. CASE x = w /\ q = p
      BY <1>7, <1>11, <3>1
    <3>2. CASE x \in {A.links[q].smaller, A.links[q].bigger} /\ x # e
      <4>1. x \in T \ {Root} /\ x \in D /\ A.links[x].parent = q /\ x \notin {s, b} /\ x # w
        BY <1>8, <3>2
      <4> QED BY <1>7, <1>11, <1>12, <3>2, <4>1
    <3> QED BY <2>2, <3>1, <3>2
  <2>4. X.links[q].smaller = X.links[q].bigger => X.links[q].smaller = NULL
    <3>1. A.links[q].smaller = A.links[q].bigger => A.links[q].smaller = NULL
      BY <2>0 DEF Joint
    <3>2. w \notin {A.links[q].smaller, A.links[q].bigger}
      BY <1>8, <1>11
    <3> QED BY <2>1, <3>1, <3>2
  <2>5. q # Root => X.links[q].parent \in U /\ q \in {X.links[X.links[q].parent].smaller, X.links[X.links[q].parent].bigger}
    <3> SUFFICES ASSUME q # Root
                 PROVE  X.links[q].parent \in U /\ q \in {X.links[X.links[q].parent].smaller, X.links[X.links[q].parent].bigger}
      OBVIOUS
    <3>1. CASE q \in {s, b}
      <4>1. X.links[q].parent = w
        BY <1>7, <2>0, <3>1
      <4> QED BY <1>11, <1>14, <3>1, <4>1
    <3>2. CASE q \notin {s, b}
      <4> DEFINE x == A.links[q].parent
      <4>1. x \in T /\ q \in {A.links[x].smaller, A.links[x].bigger} /\ q # NULL
        BY <1>11, <2>0 DEF Joint
      <4>2. X.links[q].parent = x
        BY <1>7, <2>0, <3>2
      <4> HIDE DEF x
      <4>3. x # e
        BY <3>2, <4>1
      <4>4. x \in V /\ x \in D /\ x # w
        BY <1>11, <1>12, <4>1, <4>3
      <4>5. q \in {X.links[x].smaller, X.links[x].bigger}
        BY <1>4, <1>7, <2>0, <4>1, <4>4
      <4> QED BY <1>11, <4>2, <4>4, <4>5
    <3> QED BY <3>1, <3>2
  <2>6. sub2[q] = {q} \cup Under(sub2, X.links[q].smaller) \cup Under(sub2, X.links[q].bigger)
    <3>1. sub[q] = {q} \cup Under(sub, A.links[q].smaller) \cup Under(sub, A.links[q].bigger)
      BY <2>0 DEF Joint
    <3>2. e \in sub[q] <=> e \in Under(sub, A.links[q].smaller) \/ e \in Under(sub, A.links[q].bigger)
      BY <2>0, <3>1
    <3>3. CASE e \notin sub[q]
      BY <1>10, <1>13, <3>1, <3>2, <3>3
    <3>4. CASE e \in sub[q]
      <4>1. sub2[q] = (sub[q] \ {e}) \cup {w}
        BY <1>10, <3>4
      <4> DEFINE Y == Under(sub, A.links[q].smaller)
                 Z == Under(sub, A.links[q].bigger)
      <4>2. /\ Under(sub2, X.links[q].smaller) = IF e \in Y THEN (Y \ {e}) \cup {w} ELSE Y
            /\ Under(sub2, X.links[q].bigger) = IF e \in Z THEN (Z \ {e}) \cup {w} ELSE Z
            /\ sub[q] = {q} \cup Y \cup Z /\ (e \in Y \/ e \in Z)
        BY <1>13, <3>1, <3>2, <3>4
      <4> HIDE DEF Y, Z
      <4> QED BY <2>0, <4>1, <4>2
    <3> QED BY <3>3, <3>4
  <2>7. q \notin Under(sub2, X.links[q].smaller) /\ q \notin Under(sub2, X.links[q].bigger)
    <3>1. q \notin Under(sub, A.links[q].smaller) /\ q \notin Under(sub, A.links[q].bigger)
      BY <2>0 DEF Joint
    <3>2. /\ Under(sub2, X.links[q].smaller) \subseteq Under(sub, A.links[q].smaller) \cup {w}
          /\ Under(sub2, X.links[q].bigger) \subseteq Under(sub, A.links[q].bigger) \cup {w}
      BY <1>13
    <3> QED BY <2>0, <3>1, <3>2
  <2> QED BY <2>3, <2>4, <2>5, <2>6, <2>7 DEF Joint
<1>16. Joint(X, U, sub2, w)
  <2>1. \A x \in {s, b} \ {NULL} : x \in U \ {Root} /\ X.links[x].parent = w
    <3> TAKE x \in {s, b} \ {NULL}
    <3>1. x \in V \ {Root} /\ x # w /\ x \in D
      BY <1>6, <1>11
    <3> QED BY <1>7, <1>11, <3>1
  <2>2. w \in {X.links[p].smaller, X.links[p].bigger} /\ p \in U
    BY <1>7, <1>11
  <2>3. sub2[w] = {w} \cup Under(sub2, s) \cup Under(sub2, b)
    BY <1>5, <1>10, <1>14
  <2>4. w \notin Under(sub2, s) /\ w \notin Under(sub2, b)
    <3>1. \A x \in {s, b} \ {NULL} : sub[x] \subseteq T
      BY <1>0, <1>6, <1>11
    <3>2. Under(sub, s) \subseteq T /\ Under(sub, b) \subseteq T
      BY <3>1 DEF Under
    <3> QED BY <1>14, <3>2
  <2> QED BY <1>5, <1>11, <1>14, <2>1, <2>2, <2>3, <2>4 DEF Joint
<1>17. Shape(X, D, U, sub2)
  <2>1. IsFiniteSet(U) /\ U \subseteq D /\ Root \in U
    BY <1>0, FS_RemoveElement, FS_AddElement DEF U, V
  <2>2. X.links[Root].parent = NULL
    <3>1. Root \in D /\ Root \notin {s, b} /\ Root # w /\ A.links[Root].parent = NULL
      BY <1>0, <1>6, <1>11 DEF Shape
    <3> QED BY <1>7, <3>1
  <2>3. \A q \in U : Joint(X, U, sub2, q)
    BY <1>12, <1>15, <1>16
  <2> QED BY <1>0, <1>9, <2>1, <2>2, <2>3 DEF Shape
<1>18. \A x \in D : X.links[x].size = A.links[x].size
  BY <1>7 DEF SameChain
<1>19. ASSUME NEW q \in V PROVE Sorted(X, sub2, q)
  <2>0. q \in D /\ q \in T /\ Sorted(A, sub, q)
    BY <1>1, <1>11
  <2>1. Under(sub, A.links[q].smaller) \subseteq D /\ Under(sub, A.links[q].bigger) \subseteq D
    BY <1>0, <1>8 DEF Under
  <2>2. /\ e \in Under(sub, A.links[q].smaller) => A.links[w].size <= A.links[q].size
        /\ e \in Under(sub, A.links[q].bigger) => A.links[q].size <= A.links[w].size
    BY <2>0 DEF Replaces, Belongs
  <2>3. \A y \in Under(sub2, X.links[q].smaller) :
          \/ y \in Under(sub, A.links[q].smaller)
          \/ y = w /\ e \in Under(sub, A.links[q].smaller)
    BY <1>13
  <2>4. \A y \in Under(sub2, X.links[q].bigger) :
          \/ y \in Under(sub, A.links[q].bigger)
          \/ y = w /\ e \in Under(sub, A.links[q].bigger)
    BY <1>13
  <2>5. A.links[q].size \in Nat /\ A.links[w].size \in Nat
    BY <1>0, <1>11, <2>0 DEF Heaps, Header
  <2> QED BY <1>11, <1>18, <2>0, <2>1, <2>2, <2>3, <2>4, <2>5 DEF Sorted
<1>20. Sorted(X, sub2, w)
  <2>1. \A x \in {s, b} \ {NULL} : sub[x] \subseteq T
    BY <1>0, <1>6, <1>11
  <2>2. Under(sub, s) \subseteq D /\ Under(sub, b) \subseteq D
    BY <1>0, <2>1 DEF Under
  <2> QED BY <1>11, <1>14, <1>18, <2>2 DEF Sorted, Replaces
<1>21. MaxAt(X, w)
  <2>1. b # NULL => X.links[b].max = A.links[b].max
    BY <1>6, <1>7, <1>11
  <2> QED BY <1>7, <1>11, <1>18, <2>1 DEF MaxAt
<1>22. ASSUME NEW q \in V, q # p \/ ~onBigger PROVE MaxAt(X, q)
  <2>1. /\ q \in D /\ q # w /\ MaxAt(A, q)
        /\ X.links[q].bigger = A.links[q].bigger /\ X.links[q].max = A.links[q].max
    BY <1>1, <1>7, <1>11, <1>22
  <2>2. A.links[q].bigger # NULL => X.links[A.links[q].bigger].max = A.links[A.links[q].bigger].max
    BY <1>7, <1>8
  <2> QED BY <1>18, <2>1, <2>2 DEF MaxAt
<1>23. \A q \in D \ U : X.links[q].parent \in U \cup {NULL}
  <2> TAKE q \in D \ U
  <2>0. q # w /\ q \notin V
    BY <1>11
  <2>1. q \notin {s, b}
    BY <1>0, <1>6, <2>0
  <2>2. X.links[q].parent = A.links[q].parent
    BY <1>7, <2>0, <2>1
  <2>3. CASE q = e
    BY <1>11, <2>2, <2>3
  <2>4. CASE q # e
    BY <1>12, <2>0, <2>2, <2>4
  <2> QED BY <2>3, <2>4
<1>24. X.links[Root].size = 0
  BY <1>0, <1>18 DEF Tree
<1>25. w = IF onBigger THEN X.links[p].bigger ELSE X.links[p].smaller
  BY <1>7, <1>11
<1>26. Hung(X, D, U, sub2, p, w, onBigger)
  <2>1. \A q \in U : Sorted(X, sub2, q)
    BY <1>12, <1>19, <1>20
  <2>2. \A q \in U : q # p => MaxAt(X, q)
    BY <1>12, <1>21, <1>22
  <2>3. ~onBigger => MaxAt(X, p)
    BY <1>11, <1>22
  <2> QED BY <1>7, <1>11, <1>17, <1>23, <1>24, <1>25, <2>1, <2>2, <2>3 DEF Hung
<1> QED BY <1>26 DEF U, V, sub2

-----------------------------------------------------------------------------
(* fph_remove.                                                             *)

(* The tree without e, and e without sides and parent.                     *)
Uprooted(H, G, D, T, e) ==
  \E sub : Tree(G, D, T \ {e}, sub) /\ Apart(G, D, T \ {e}) /\ SameChain(H, G, D)

(* A node with one side at most.                                           *)
LEMMA RelinkUproots ==
  ASSUME NEW D \in SUBSET Nat, NEW H, NEW T, NEW sub, Tree(H, D, T, sub), Apart(H, D, T),
         NEW e \in T \ {Root}, H.links[e].smaller = NULL \/ H.links[e].bigger = NULL
  PROVE  Uprooted(H, fph_relink(H, H.links[e].parent, e, OnlyChild(H, e)), D, T, e)
<1> DEFINE p == H.links[e].parent
           c == OnlyChild(H, e)
           onBigger == H.links[p].bigger = e
           U == T \ {e}
           sub2 == Pruned(sub, T, e)
<1>0. /\ T \subseteq D /\ Shape(H, D, T, sub) /\ H \in Heaps(D) /\ NULL \notin D
      /\ Joint(H, T, sub, e)
  BY DEF Tree, Shape
<1>1. p \in D /\ c \in D \cup {NULL} /\ c # p /\ onBigger \in BOOLEAN /\ (onBigger <=> e # H.links[p].smaller)
  <2>1. p \in T /\ e \in {H.links[p].smaller, H.links[p].bigger} \ {NULL}
    BY <1>0 DEF Joint
  <2>2. c # NULL => c \in {H.links[e].smaller, H.links[e].bigger} \ {NULL}
    BY DEF OnlyChild
  <2>3. c # NULL => c \in T /\ c \in sub[e] /\ e \notin sub[c]
    BY <1>0, <2>2, SmallerBelow, BelowNode
  <2>4. e \in sub[p] /\ Joint(H, T, sub, p)
    <3> HIDE DEF p
    <3>1. e \in sub[p]
      BY <1>0, <2>1, SmallerBelow, BelowNode
    <3>2. Joint(H, T, sub, p)
      BY <1>0, <2>1 DEF Shape
    <3> QED BY <3>1, <3>2
  <2>5. H.links[p].smaller = H.links[p].bigger => H.links[p].smaller = NULL
    BY <2>4 DEF Joint
  <2> HIDE DEF p, c
  <2> QED BY <1>0, <2>1, <2>3, <2>4, <2>5 DEF onBigger
<1>2. p = H.links[e].parent /\ c = OnlyChild(H, e) /\ (onBigger <=> H.links[p].bigger = e)
  OBVIOUS
<1>3. e \in D \ U
  BY <1>0
<1>4. \A q \in (D \ U) \ {e} : H.links[q].smaller = NULL /\ H.links[q].bigger = NULL /\ H.links[q].parent = NULL
  BY DEF Apart
<1> HIDE DEF p, c, onBigger, sub2
<1>5. \A X : Hooked(H, X, D, p, c, onBigger) => Hung(X, D, U, sub2, p, c, onBigger)
  BY <1>1, <1>2, Unhooks DEF sub2
<1> HIDE DEF U
<1>6. /\ Tree(fph_relink(H, p, e, c), D, U, sub2) /\ Apart(fph_relink(H, p, e, c), D, U)
      /\ SameChain(H, fph_relink(H, p, e, c), D)
  <2>1. PICK pp, cc, oo, u, s2 : pp = p /\ cc = c /\ oo = onBigger /\ u = U /\ s2 = sub2
    OBVIOUS
  <2>2. /\ D \in SUBSET Nat /\ NULL \notin D /\ H \in Heaps(D) /\ pp \in D /\ cc \in D \cup {NULL} /\ cc # pp
        /\ e \in D \ u /\ oo \in BOOLEAN /\ (oo <=> e # H.links[pp].smaller)
        /\ \A X : Hooked(H, X, D, pp, cc, oo) => Hung(X, D, u, s2, pp, cc, oo)
        /\ \A q \in (D \ u) \ {e} : H.links[q].smaller = NULL /\ H.links[q].bigger = NULL /\ H.links[q].parent = NULL
    BY <1>0, <1>1, <1>3, <1>4, <1>5, <2>1
  <2>3. Relinked(H, fph_relink(H, pp, e, cc), D, u, s2)
    BY <2>2, Relinks DEF Relinking
  <2> QED BY <2>1, <2>3 DEF Relinked
<1>7. Uprooted(H, fph_relink(H, p, e, c), D, T, e)
  BY <1>6 DEF Uprooted, U
<1> QED BY <1>7 DEF p, c

(* A node with two sides: w takes its place.                               *)
Work(H, e, post) == IF post THEN fph_post(H, e) ELSE fph_pre(H, e)

(* What fph_post and fph_pre find fits, whatever rand_r says.              *)
LEMMA WorkFits ==
  ASSUME NEW D, NEW H, NEW T, NEW sub, Tree(H, D, T, sub), Apart(H, D, T),
         NEW e \in T \ {Root}, H.links[e].smaller # NULL, H.links[e].bigger # NULL, NEW post \in BOOLEAN
  PROVE  \E w \in sub[e] \ {e} :
           /\ Work(H, e, post) = w /\ (H.links[w].smaller = NULL \/ H.links[w].bigger = NULL)
           /\ \A y \in Under(sub, H.links[e].smaller) : H.links[y].size <= H.links[w].size
           /\ \A y \in Under(sub, H.links[e].bigger) : H.links[y].size >= H.links[w].size
<1> DEFINE a == H.links[e].smaller
           b == H.links[e].bigger
<1>0. /\ T \subseteq D /\ Shape(H, D, T, sub) /\ sub \in [T -> SUBSET T]
      /\ Joint(H, T, sub, e) /\ Sorted(H, sub, e) /\ \A q \in D : H.links[q].size \in Nat
  BY DEF Tree, Shape, Heaps, Header
<1>1. /\ sub[e] = {e} \cup sub[a] \cup sub[b] /\ e \notin sub[a] /\ e \notin sub[b]
      /\ Under(sub, a) = sub[a] /\ Under(sub, b) = sub[b]
  BY <1>0 DEF Joint, Under
<1>2. /\ \A y \in sub[a] : y \in D /\ H.links[y].size <= H.links[e].size
      /\ \A y \in sub[b] : y \in D /\ H.links[y].size >= H.links[e].size
  BY <1>0, <1>1 DEF Sorted
<1>3. CASE post
  <2>1. PICK w \in sub[b] : /\ fph_post(H, e) = w /\ H.links[w].smaller = NULL
                            /\ \A y \in sub[b] : H.links[w].size <= H.links[y].size
    BY PostLeast
  <2>2. Work(H, e, post) = w
    BY <1>3, <2>1 DEF Work
  <2> HIDE DEF a, b
  <2>3. \A y \in sub[a] : H.links[y].size <= H.links[w].size
    BY <1>0, <1>2, <2>1
  <2>4. \A y \in sub[b] : H.links[y].size >= H.links[w].size
    BY <1>0, <1>2, <2>1
  <2>5. w \in sub[e] \ {e}
    BY <1>1, <2>1
  <2> QED BY <1>1, <2>1, <2>2, <2>3, <2>4, <2>5 DEF a, b
<1>4. CASE ~post
  <2>1. PICK w \in sub[a] : /\ fph_pre(H, e) = w /\ H.links[w].bigger = NULL
                            /\ \A y \in sub[a] : H.links[w].size >= H.links[y].size
    BY PreGreatest
  <2>2. Work(H, e, post) = w
    BY <1>4, <2>1 DEF Work
  <2> HIDE DEF a, b
  <2>3. \A y \in sub[a] : H.links[y].size <= H.links[w].size
    BY <1>0, <1>2, <2>1
  <2>4. \A y \in sub[b] : H.links[y].size >= H.links[w].size
    BY <1>0, <1>2, <2>1
  <2>5. w \in sub[e] \ {e}
    BY <1>1, <2>1
  <2> QED BY <1>1, <2>1, <2>2, <2>3, <2>4, <2>5 DEF a, b
<1> QED BY <1>3, <1>4

(* fph_remove of a node with two sides leaves a sound tree without it.     *)
LEMMA SwapUproots ==
  ASSUME NEW D \in SUBSET Nat, NEW H, NEW T, NEW sub, Tree(H, D, T, sub), Apart(H, D, T),
         NEW e \in T \ {Root}, NEW w \in sub[e] \ {e},
         H.links[w].smaller = NULL \/ H.links[w].bigger = NULL,
         \A y \in Under(sub, H.links[e].smaller) : H.links[y].size <= H.links[w].size,
         \A y \in Under(sub, H.links[e].bigger) : H.links[y].size >= H.links[w].size,
         NEW A, A = fph_remove_single(H, w)
  PROVE  Uprooted(H, fph_relink(Seat(A, w, A.links[e].smaller, A.links[e].bigger), H.links[e].parent, e, w), D, T, e)
<1> DEFINE S == T \ {w}
           sub1 == Pruned(sub, T, w)
           p == H.links[e].parent
           s == A.links[e].smaller
           b == A.links[e].bigger
           onBigger == e # A.links[p].smaller
           F == Seat(A, w, s, b)
           U == (S \ {e}) \cup {w}
           sub2 == Exchanged(sub1, S, e, w)
<1>0. /\ T \subseteq D /\ Root \in T /\ Shape(H, D, T, sub) /\ H \in Heaps(D) /\ NULL \notin D
      /\ sub \in [T -> SUBSET T]
  BY DEF Tree, Shape
<1>1. w \in T \ {Root} /\ w # e /\ e \notin sub[w] /\ w \in sub[e]
  BY <1>0, BelowNode
<1>2. Unhooked(H, A, D, T, sub, w)
  BY <1>1, SingleUnhooks
<1>3. /\ Tree(A, D, S, sub1) /\ Apart(A, D, T) /\ SameChain(H, A, D)
      /\ \A q \in S :
           /\ Under(sub1, A.links[q].smaller) = Under(sub, H.links[q].smaller) \ {w}
           /\ Under(sub1, A.links[q].bigger) = Under(sub, H.links[q].bigger) \ {w}
           /\ H.links[q].parent # w => A.links[q].parent = H.links[q].parent
  BY <1>2 DEF Unhooked
<1>4. e \in S \ {Root} /\ w \in D \ S /\ S \subseteq D /\ U = T \ {e}
  BY <1>0, <1>1
<1>5. p # w /\ A.links[e].parent = p
  <2>1. e \in {H.links[p].smaller, H.links[p].bigger} \ {NULL} /\ p \in T
    BY <1>0 DEF Shape, Joint
  <2>2. e \in sub[p]
    BY <1>0, <2>1, SmallerBelow, BelowNode
  <2> HIDE DEF p
  <2>3. p # w
    BY <1>1, <2>2
  <2> QED BY <1>3, <1>4, <2>3 DEF p
<1>6. Replaces(A, S, sub1, e, w)
  <2>1. \A y \in D : A.links[y].size = H.links[y].size
    BY <1>3 DEF SameChain
  <2>2. ASSUME NEW q \in S
        PROVE  /\ e \in Under(sub1, A.links[q].smaller) => A.links[w].size <= A.links[q].size
               /\ e \in Under(sub1, A.links[q].bigger) => A.links[q].size <= A.links[w].size
    <3>0. q \in T /\ q \in D /\ w \in D /\ Sorted(H, sub, q)
      BY <1>0, <1>1 DEF Tree
    <3>1. ASSUME NEW x \in {H.links[q].smaller, H.links[q].bigger}, e \in Under(sub, x) PROVE w \in Under(sub, x)
      <4>1. x # NULL /\ e \in sub[x]
        BY <3>1 DEF Under
      <4>2. x \in T
        BY <1>0, <3>0, <4>1, SmallerBelow
      <4>3. w \in sub[x]
        BY <1>0, <1>1, <4>1, <4>2, BelowNode
      <4> QED BY <4>1, <4>3 DEF Under
    <3>2. A.links[w].size = H.links[w].size /\ A.links[q].size = H.links[q].size
      BY <2>1, <3>0
    <3>3. H.links[w].size \in Nat /\ H.links[q].size \in Nat
      BY <1>0, <3>0 DEF Heaps, Header
    <3>4. e \in Under(sub1, A.links[q].smaller) => H.links[w].size <= H.links[q].size
      BY <1>3, <3>0, <3>1 DEF Sorted
    <3>5. e \in Under(sub1, A.links[q].bigger) => H.links[q].size <= H.links[w].size
      <4>1. e \in Under(sub1, A.links[q].bigger) => H.links[w].size >= H.links[q].size
        BY <1>3, <3>0, <3>1 DEF Sorted
      <4> QED BY <3>3, <4>1
    <3> QED BY <3>2, <3>4, <3>5
  <2>3. ASSUME NEW x \in {H.links[e].smaller, H.links[e].bigger} PROVE Under(sub, x) \subseteq D
    <3>1. x # NULL => x \in T
      BY <1>0, SmallerBelow
    <3> QED BY <1>0, <3>1 DEF Under
  <2>4. \A y \in Under(sub1, A.links[e].smaller) : A.links[y].size <= A.links[w].size
    BY <1>3, <1>4, <2>1, <2>3
  <2>5. \A y \in Under(sub1, A.links[e].bigger) : A.links[y].size >= A.links[w].size
    BY <1>3, <1>4, <2>1, <2>3
  <2> QED BY <2>2, <2>4, <2>5 DEF Replaces, Belongs
<1>7. A \in Heaps(D) /\ Shape(A, D, S, sub1) /\ Joint(A, S, sub1, e)
  BY <1>3, <1>4 DEF Tree, Shape
<1>8. s \in (D \cup {NULL}) \ {w} /\ b \in (D \cup {NULL}) \ {w} /\ p \in S
  <2>1. \A x \in {s, b} \ {NULL} : x \in S
    BY <1>7 DEF Joint
  <2>2. p \in S
    BY <1>4, <1>5, <1>7 DEF Joint
  <2> HIDE DEF s, b, p
  <2> QED BY <1>0, <1>1, <1>4, <2>1, <2>2
<1>9. s = A.links[e].smaller /\ b = A.links[e].bigger /\ p = A.links[e].parent /\ (onBigger <=> e # A.links[p].smaller)
  BY <1>5
<1>10. onBigger \in BOOLEAN
  OBVIOUS
<1>11. \A q \in (D \ S) \ {w} : A.links[q].smaller = NULL /\ A.links[q].bigger = NULL /\ A.links[q].parent = NULL
  BY <1>3 DEF Apart
<1> HIDE DEF s, b, p, onBigger, sub1, F, sub2
<1>12. Seated(A, F, D, w, s, b)
  <2>1. w \in D
    BY <1>4
  <2> QED BY <1>0, <1>7, <1>8, <2>1, SeatFields DEF F
<1> HIDE DEF S
<1>13. \A X : Hooked(F, X, D, p, w, onBigger) => Hung(X, D, U, sub2, p, w, onBigger)
  <2> SUFFICES ASSUME NEW X, Hooked(F, X, D, p, w, onBigger) PROVE Hung(X, D, U, sub2, p, w, onBigger)
    OBVIOUS
  <2>1. PICK t, pp, oo, ff, a1 : t = S /\ pp = p /\ oo = onBigger /\ ff = F /\ a1 = sub1
    OBVIOUS
  <2>2. Seating(A, D, t, a1, e, w, pp, oo, ff)
    BY <1>3, <1>4, <1>6, <1>9, <1>10, <1>11, <1>12, <2>1 DEF Seating
  <2>3. Hung(X, D, (t \ {e}) \cup {w}, Exchanged(a1, t, e, w), pp, w, oo)
    BY <2>1, <2>2, SeatHangs
  <2> QED BY <2>1, <2>3 DEF sub2
<1>14. F \in Heaps(D) /\ p \in D /\ w \in D \cup {NULL} /\ w # p /\ e \in D \ U
  BY <1>4, <1>5, <1>8, <1>12 DEF Seated
<1>15. onBigger <=> e # F.links[p].smaller
  BY <1>5, <1>9, <1>12, <1>14 DEF Seated
<1>16. \A q \in (D \ U) \ {e} : F.links[q].smaller = NULL /\ F.links[q].bigger = NULL /\ F.links[q].parent = NULL
  <2> TAKE q \in (D \ U) \ {e}
  <2>1. q \in (D \ S) \ {w} /\ q \in D
    BY <1>4 DEF S
  <2>2. q \notin {s, b}
    <3>1. \A x \in {s, b} \ {NULL} : x \in S
      BY <1>7, <1>9 DEF Joint
    <3> QED BY <1>0, <2>1, <3>1
  <2> QED BY <1>11, <1>12, <2>1, <2>2 DEF Seated
<1> HIDE DEF U
<1>17. /\ Tree(fph_relink(F, p, e, w), D, U, sub2) /\ Apart(fph_relink(F, p, e, w), D, U)
       /\ SameChain(F, fph_relink(F, p, e, w), D)
  <2>1. PICK ff, pp, oo, u, s2 : ff = F /\ pp = p /\ oo = onBigger /\ u = U /\ s2 = sub2
    OBVIOUS
  <2>2. /\ D \in SUBSET Nat /\ NULL \notin D /\ ff \in Heaps(D) /\ pp \in D /\ w \in D \cup {NULL} /\ w # pp /\ e \in D \ u
        /\ oo \in BOOLEAN /\ (oo <=> e # ff.links[pp].smaller)
        /\ \A X : Hooked(ff, X, D, pp, w, oo) => Hung(X, D, u, s2, pp, w, oo)
        /\ \A q \in (D \ u) \ {e} : ff.links[q].smaller = NULL /\ ff.links[q].bigger = NULL /\ ff.links[q].parent = NULL
    BY <1>0, <1>10, <1>13, <1>14, <1>15, <1>16, <2>1
  <2>3. Relinked(ff, fph_relink(ff, pp, e, w), D, u, s2)
    BY <2>2, Relinks DEF Relinking
  <2> QED BY <2>1, <2>3 DEF Relinked
<1> DEFINE G == fph_relink(F, p, e, w)
<1> HIDE DEF G
<1>18. Tree(G, D, U, sub2) /\ Apart(G, D, U) /\ SameChain(F, G, D)
  BY <1>17 DEF G
<1>19. SameChain(H, G, D)
  BY <1>3, <1>12, <1>18 DEF SameChain, Seated
<1>20. Uprooted(H, G, D, T, e)
  BY <1>4, <1>18, <1>19 DEF Uprooted
<1> QED BY <1>20 DEF G, F, s, b, p

(* fph_remove of any node does.                                            *)
LEMMA RemoveUproots ==
  ASSUME NEW D \in SUBSET Nat, NEW H, NEW T, NEW sub, Tree(H, D, T, sub), Apart(H, D, T),
         NEW e \in T \ {Root}, NEW post \in BOOLEAN
  PROVE  Uprooted(H, fph_remove(H, e, post), D, T, e)
<1> DEFINE p == H.links[e].parent
           A == fph_remove_single(H, Work(H, e, post))
<1>1. fph_remove(H, e, post) =
        IF H.links[e].smaller = NULL THEN fph_relink(H, p, e, H.links[e].bigger)
        ELSE IF H.links[e].bigger = NULL THEN fph_relink(H, p, e, H.links[e].smaller)
        ELSE fph_relink(Seat(A, Work(H, e, post), A.links[e].smaller, A.links[e].bigger), p, e, Work(H, e, post))
  BY Zenon DEF fph_remove, Work, Seat
<1>2. CASE H.links[e].smaller = NULL
  <2>1. OnlyChild(H, e) = H.links[e].bigger
    BY <1>2 DEF OnlyChild
  <2> QED BY <1>1, <1>2, <2>1, RelinkUproots
<1>3. CASE H.links[e].smaller # NULL /\ H.links[e].bigger = NULL
  <2>1. OnlyChild(H, e) = H.links[e].smaller
    BY <1>3 DEF OnlyChild
  <2> QED BY <1>1, <1>3, <2>1, RelinkUproots
<1>4. CASE H.links[e].smaller # NULL /\ H.links[e].bigger # NULL
  <2>1. PICK w \in sub[e] \ {e} :
           /\ Work(H, e, post) = w /\ (H.links[w].smaller = NULL \/ H.links[w].bigger = NULL)
           /\ \A y \in Under(sub, H.links[e].smaller) : H.links[y].size <= H.links[w].size
           /\ \A y \in Under(sub, H.links[e].bigger) : H.links[y].size >= H.links[w].size
    BY <1>4, WorkFits
  <2>2. PICK a : a = fph_remove_single(H, w)
    OBVIOUS
  <2>3. fph_remove(H, e, post) = fph_relink(Seat(a, w, a.links[e].smaller, a.links[e].bigger), p, e, w)
    BY <1>1, <1>4, <2>1, <2>2, Zenon
  <2>4. Uprooted(H, fph_relink(Seat(a, w, a.links[e].smaller, a.links[e].bigger), p, e, w), D, T, e)
    BY <2>1, <2>2, SwapUproots
  <2> QED BY <2>3, <2>4
<1> QED BY <1>2, <1>3, <1>4

-----------------------------------------------------------------------------
(* The search.                                                             *)

(* max is the largest size in the subtree.                                 *)
LEMMA MaxOfSubtree ==
  ASSUME NEW D, NEW H, NEW T, NEW sub, Tree(H, D, T, sub)
  PROVE  \A p \in T : /\ \A q \in sub[p] : H.links[q].size <= H.links[p].max
                      /\ \E q \in sub[p] : H.links[q].size = H.links[p].max
<1> DEFINE Fine(p) == /\ \A q \in sub[p] : H.links[q].size <= H.links[p].max
                      /\ \E q \in sub[p] : H.links[q].size = H.links[p].max
           S == {p \in T : Fine(p)}
<1>0. /\ T \subseteq D /\ Shape(H, D, T, sub) /\ sub \in [T -> SUBSET T] /\ NULL \notin D
      /\ \A p \in D : H.links[p].size \in Nat /\ H.links[p].max \in Nat
  BY DEF Tree, Heaps, Header, Shape
<1>1. PICK r \in [D -> Nat] : Descends(H, D, T, r)
  BY <1>0, DownRank
<1>2. ASSUME NEW p \in T, \A x \in T : r[x] < r[p] => x \in S PROVE p \in S
  <2> DEFINE a == H.links[p].smaller
             b == H.links[p].bigger
  <2>1. Joint(H, T, sub, p) /\ Sorted(H, sub, p) /\ MaxAt(H, p)
    BY DEF Tree, Shape
  <2>2. sub[p] = {p} \cup Under(sub, a) \cup Under(sub, b) /\ sub[p] \subseteq D
    BY <1>0, <2>1 DEF Joint
  <2>3. /\ \A y \in Under(sub, a) : H.links[y].size <= H.links[p].size
        /\ \A y \in Under(sub, b) : H.links[y].size >= H.links[p].size
    BY <2>1 DEF Sorted
  <2>4. CASE b = NULL
    <3>1. H.links[p].max = H.links[p].size /\ Under(sub, b) = {}
      BY <2>1, <2>4 DEF MaxAt, Under
    <3> HIDE DEF a, b
    <3>2. Fine(p)
      BY <1>0, <2>2, <2>3, <3>1
    <3> QED BY <3>2
  <2>5. CASE b # NULL
    <3>1. H.links[p].max = H.links[b].max /\ Under(sub, b) = sub[b]
      BY <2>1, <2>5 DEF MaxAt, Under
    <3>2. b \in T /\ r[b] < r[p] /\ b \in sub[b]
      BY <1>0, <1>1, <2>5, SmallerBelow, BelowNode DEF Descends
    <3> HIDE DEF a, b
    <3>3. Fine(b)
      BY <1>2, <3>2
    <3>4. \A y \in sub[p] : H.links[y].size <= H.links[p].max
      <4>1. \A y \in sub[b] : y \in D /\ H.links[y].size <= H.links[p].max
        BY <2>2, <3>1, <3>3
      <4>2. H.links[b].size <= H.links[p].max /\ H.links[p].size <= H.links[b].size /\ b \in D /\ p \in D
        BY <1>0, <2>3, <3>1, <3>2, <4>1
      <4>3. H.links[p].size <= H.links[p].max
        BY <1>0, <4>2
      <4>4. \A y \in Under(sub, a) : y \in D /\ H.links[y].size <= H.links[p].size
        BY <2>2, <2>3
      <4>5. \A y \in Under(sub, a) : H.links[y].size <= H.links[p].max
        BY <1>0, <4>2, <4>3, <4>4
      <4> QED BY <2>2, <3>1, <4>1, <4>3, <4>5
    <3>5. \E y \in sub[p] : H.links[y].size = H.links[p].max
      BY <2>2, <3>1, <3>3
    <3> QED BY <3>4, <3>5
  <2> QED BY <2>4, <2>5
<1>3. S = T
  <2>1. S \in SUBSET T
    OBVIOUS
  <2> HIDE DEF S
  <2> DEFINE s == [p \in T |-> r[p]]
  <2>3. s \in [T -> Nat] /\ \A p \in T : (\A q \in T : s[q] < s[p] => q \in S) => p \in S
    BY <1>0, <1>2
  <2> HIDE DEF s
  <2> QED BY <2>1, <2>3, RankInduction
<1> QED BY <1>3

(* f is the smallest free link of at least this size, or there is none.    *)
Best(H, T, sz, f) ==
  LET fits == {p \in T \ {Root} : H.links[p].size >= sz}
  IN /\ fits = {} <=> f = NULL
     /\ f # NULL => f \in fits /\ \A p \in fits : H.links[f].size <= H.links[p].size

(* fph_find finds a smallest node that is large enough, if there is one.   *)
LEMMA FindsBest ==
  ASSUME NEW D, NEW H, NEW T, NEW sub, Tree(H, D, T, sub), Apart(H, D, T), NEW sz \in Nat \ {0}
  PROVE  Best(H, T, sz, fph_find(H, sz))
<1> DEFINE Body(F) == [p \in DOMAIN H.links |->
              LET l == H.links[p]
              IN IF l.size > sz
                 THEN IF l.smaller # NULL /\ H.links[l.smaller].max >= sz
                      THEN F[l.smaller] ELSE p
                 ELSE IF l.size = sz THEN p
                 ELSE IF l.bigger # NULL /\ l.max >= sz THEN F[l.bigger] ELSE NULL]
           K == CHOOSE F : F = Body(F)
           nx == [p \in D |-> IF H.links[p].size > sz THEN H.links[p].smaller ELSE H.links[p].bigger]
           C == {p \in D : \/ /\ H.links[p].size > sz
                              /\ H.links[p].smaller # NULL /\ H.links[H.links[p].smaller].max >= sz
                           \/ /\ ~(H.links[p].size > sz) /\ H.links[p].size # sz
                              /\ H.links[p].bigger # NULL /\ H.links[p].max >= sz}
           v == [p \in D |-> IF H.links[p].size > sz \/ H.links[p].size = sz THEN p ELSE NULL]
           Z == {x \in T : \A y \in T : H.links[y].size >= sz =>
                   \E z \in sub[x] : H.links[z].size >= sz /\ H.links[z].size <= H.links[y].size}
<1>0. /\ DOMAIN H.links = D /\ T \subseteq D /\ Shape(H, D, T, sub) /\ sub \in [T -> SUBSET T] /\ NULL \notin D
      /\ \A p \in D : H.links[p].size \in Nat /\ H.links[p].max \in Nat
      /\ Root \in T /\ H.links[Root].size = 0
  BY DEF Tree, Heaps, Header, Shape
<1>1. fph_find(H, sz) = K[Root]
  BY Zenon DEF fph_find
<1>2. PICK r \in [D -> Nat] : Descends(H, D, T, r)
  BY <1>0, DownRank
<1>3. \A p \in C : nx[p] \in D /\ r[nx[p]] < r[p] /\ p \in T
  BY <1>2 DEF Apart, Descends
<1>4. \A F : Followed(F, D, C, nx, v) <=> F = Body(F)
  BY <1>0 DEF Followed
<1>5. Followed(K, D, C, nx, v)
  <2>1. C \in SUBSET D
    OBVIOUS
  <2> HIDE DEF C, nx, v
  <2>2. PICK c, n, u : c = C /\ n = nx /\ u = v
    OBVIOUS
  <2>3. c \in SUBSET D /\ \A p \in c : n[p] \in D /\ r[n[p]] < r[p]
    BY <1>3, <2>1, <2>2
  <2>4. \E F : Followed(F, D, c, n, u)
    BY <2>3, FollowRec
  <2> HIDE DEF Body
  <2>5. \E F : F = Body(F)
    BY <1>4, <2>2, <2>4
  <2>6. K = Body(K)
    BY <2>5
  <2> HIDE DEF K
  <2> QED BY <1>4, <2>6
<1>6. \A p \in T : /\ Joint(H, T, sub, p) /\ Sorted(H, sub, p)
                   /\ \A q \in sub[p] : H.links[q].size <= H.links[p].max
                   /\ \E q \in sub[p] : H.links[q].size = H.links[p].max
  BY MaxOfSubtree DEF Tree, Shape
<1>7. ASSUME NEW p \in T
      PROVE  LET a == H.links[p].smaller
                 b == H.links[p].bigger
             IN  /\ sub[p] = {p} \cup Under(sub, a) \cup Under(sub, b)
                 /\ \A y \in Under(sub, a) : y \in D /\ H.links[y].size <= H.links[p].size
                 /\ \A y \in Under(sub, b) : y \in D /\ H.links[y].size >= H.links[p].size
                 /\ a # NULL => a \in T /\ Under(sub, a) = sub[a]
                 /\ b # NULL => b \in T /\ Under(sub, b) = sub[b]
  <2> DEFINE a == H.links[p].smaller
             b == H.links[p].bigger
  <2>1. sub[p] = {p} \cup Under(sub, a) \cup Under(sub, b) /\ sub[p] \subseteq D
    BY <1>0, <1>6 DEF Joint
  <2>2. /\ \A y \in Under(sub, a) : H.links[y].size <= H.links[p].size
        /\ \A y \in Under(sub, b) : H.links[y].size >= H.links[p].size
    BY <1>6 DEF Sorted
  <2>3. (a # NULL => a \in T) /\ (b # NULL => b \in T)
    BY <1>6 DEF Joint
  <2> HIDE DEF a, b
  <2>4. /\ sub[p] = {p} \cup Under(sub, a) \cup Under(sub, b)
        /\ \A y \in Under(sub, a) : y \in D /\ H.links[y].size <= H.links[p].size
        /\ \A y \in Under(sub, b) : y \in D /\ H.links[y].size >= H.links[p].size
        /\ a # NULL => a \in T /\ Under(sub, a) = sub[a]
        /\ b # NULL => b \in T /\ Under(sub, b) = sub[b]
    BY <2>1, <2>2, <2>3 DEF Under
  <2> QED BY <2>4 DEF a, b
<1>8. \A p \in Z \cap C : nx[p] \in Z
  <2> TAKE p \in Z \cap C
  <2> DEFINE a == H.links[p].smaller
             b == H.links[p].bigger
  <2>0. p \in T /\ p \in D
    BY <1>0
  <2>1. /\ sub[p] = {p} \cup Under(sub, a) \cup Under(sub, b)
        /\ \A y \in Under(sub, a) : y \in D /\ H.links[y].size <= H.links[p].size
        /\ \A y \in Under(sub, b) : y \in D /\ H.links[y].size >= H.links[p].size
        /\ a # NULL => a \in T /\ Under(sub, a) = sub[a]
        /\ b # NULL => b \in T /\ Under(sub, b) = sub[b]
    BY <1>7, <2>0
  <2>2. \A y \in T : y \in D /\ H.links[y].size \in Nat
    BY <1>0
  <2>3. \A y \in T : H.links[y].size >= sz =>
           \E z \in sub[p] : H.links[z].size >= sz /\ H.links[z].size <= H.links[y].size
    OBVIOUS
  <2>4. CASE H.links[p].size > sz
    <3>1. nx[p] = a /\ a # NULL /\ H.links[a].max >= sz /\ a \in T
      BY <1>0, <2>0, <2>1, <2>4
    <3> HIDE DEF a, b, nx
    <3>2. PICK x \in sub[a] : H.links[x].size = H.links[a].max
      BY <1>6, <3>1
    <3>3. x \in D /\ H.links[x].size >= sz /\ H.links[x].size <= H.links[p].size
      BY <2>1, <3>1, <3>2
    <3>4. ASSUME NEW y \in T, H.links[y].size >= sz
          PROVE  \E z \in sub[a] : H.links[z].size >= sz /\ H.links[z].size <= H.links[y].size
      <4>1. PICK z \in sub[p] : H.links[z].size >= sz /\ H.links[z].size <= H.links[y].size
        BY <2>3, <3>4
      <4>2. CASE z \in sub[a]
        BY <4>1, <4>2
      <4>3. CASE z \notin sub[a]
        <5>1. z \in D /\ H.links[p].size <= H.links[z].size
          BY <1>0, <2>0, <2>1, <3>1, <4>3
        <5>2. H.links[x].size <= H.links[y].size
          BY <1>0, <2>0, <2>2, <3>3, <4>1, <5>1
        <5> QED BY <3>3, <5>2
      <4> QED BY <4>2, <4>3
    <3> QED BY <3>1, <3>4
  <2>5. CASE ~(H.links[p].size > sz)
    <3>1. nx[p] = b /\ b # NULL /\ H.links[p].size < sz /\ b \in T
      <4>1. p \in C
        OBVIOUS
      <4>2. H.links[p].size # sz /\ b # NULL
        BY <2>5, <4>1
      <4>3. nx[p] = b
        BY <2>0, <2>5
      <4> HIDE DEF a, b, nx, C, Z
      <4>4. H.links[p].size < sz
        BY <1>0, <2>0, <2>5, <4>2
      <4> QED BY <2>1, <4>2, <4>3, <4>4
    <3> HIDE DEF a, b, nx
    <3>2. \A z \in sub[p] : H.links[z].size >= sz => z \in sub[b]
      BY <1>0, <2>0, <2>1, <3>1
    <3>3. \A y \in T : H.links[y].size >= sz =>
            \E z \in sub[b] : H.links[z].size >= sz /\ H.links[z].size <= H.links[y].size
      BY <2>3, <3>2
    <3> QED BY <3>1, <3>3
  <2> QED BY <2>4, <2>5
<1>9. Root \in Z
  <2>1. sub[Root] = T
    <3>1. \A q \in D \ T : H.links[q].parent \in T \cup {NULL}
      BY DEF Apart
    <3> QED BY <1>0, <3>1, AllBelowRoot
  <2> QED BY <1>0, <2>1
<1>10. PICK z \in Z \ C : K[Root] = v[z]
  <2>1. C \in SUBSET D /\ Z \in SUBSET D
    BY <1>0
  <2> HIDE DEF C, nx, v, Z, K
  <2>3. PICK c, n, u, s, k : c = C /\ n = nx /\ u = v /\ s = Z /\ k = K
    OBVIOUS
  <2>4. /\ c \in SUBSET D /\ s \in SUBSET D /\ \A p \in c : n[p] \in D /\ r[n[p]] < r[p]
        /\ Followed(k, D, c, n, u) /\ \A p \in s \cap c : n[p] \in s
    BY <1>3, <1>5, <1>8, <2>1, <2>3
  <2>5. \A p \in s : \E z \in s \ c : k[p] = u[z]
    BY <2>4, FollowStays
  <2> QED BY <1>9, <2>3, <2>5
<1> DEFINE a == H.links[z].smaller
           b == H.links[z].bigger
<1>11. z \in T /\ z \in D /\ z \notin C
  <2>1. z \in Z /\ z \notin C
    <3> HIDE DEF Z, C
    <3> QED OBVIOUS
  <2>2. Z \subseteq T
    OBVIOUS
  <2> HIDE DEF Z, C
  <2> QED BY <1>0, <2>1, <2>2
<1>12. /\ sub[z] = {z} \cup Under(sub, a) \cup Under(sub, b)
       /\ \A y \in Under(sub, a) : y \in D /\ H.links[y].size <= H.links[z].size
       /\ \A y \in Under(sub, b) : y \in D /\ H.links[y].size >= H.links[z].size
       /\ a # NULL => a \in T /\ Under(sub, a) = sub[a]
       /\ b # NULL => b \in T /\ Under(sub, b) = sub[b]
  BY <1>7, <1>11
<1>13. \A y \in T : H.links[y].size >= sz =>
         \E x \in sub[z] : H.links[x].size >= sz /\ H.links[x].size <= H.links[y].size
  OBVIOUS
<1>14. v[z] = IF H.links[z].size >= sz THEN z ELSE NULL
  <2>1. z \in D /\ H.links[z].size \in Nat
    BY <1>0, <1>11
  <2> HIDE DEF C, Z
  <2>2. v[z] = IF H.links[z].size > sz \/ H.links[z].size = sz THEN z ELSE NULL
    BY <2>1
  <2> HIDE DEF v
  <2> QED BY <2>1, <2>2
<1>15. ~(H.links[z].size > sz /\ a # NULL /\ H.links[a].max >= sz)
  BY <1>11
<1>16. ~(H.links[z].size < sz /\ b # NULL /\ H.links[z].max >= sz)
  BY <1>0, <1>11
<1> HIDE DEF K, C, v, Z, a, b
<1>17. CASE H.links[z].size >= sz
  <2>1. \A x \in sub[z] : H.links[x].size >= sz => x \in D /\ H.links[z].size <= H.links[x].size
    <3> SUFFICES ASSUME NEW x \in sub[z], H.links[x].size >= sz PROVE x \in D /\ H.links[z].size <= H.links[x].size
      OBVIOUS
    <3>1. CASE x \in Under(sub, a)
      <4>1. a # NULL /\ a \in T /\ x \in sub[a] /\ x \in D
        BY <1>12, <3>1 DEF Under
      <4>2. H.links[x].size <= H.links[a].max
        BY <1>6, <4>1
      <4>3. H.links[a].max >= sz
        BY <1>0, <3>1, <4>1, <4>2
      <4>4. H.links[z].size = sz
        BY <1>0, <1>11, <1>15, <1>17, <4>1, <4>3
      <4> QED BY <1>0, <4>1, <4>4
    <3>2. CASE x \notin Under(sub, a)
      BY <1>0, <1>11, <1>12, <3>2
    <3> QED BY <3>1, <3>2
  <2>2. z # Root /\ z # NULL
    BY <1>0, <1>11, <1>17
  <2>3. \A y \in T : H.links[y].size >= sz => H.links[z].size <= H.links[y].size
    <3> SUFFICES ASSUME NEW y \in T, H.links[y].size >= sz PROVE H.links[z].size <= H.links[y].size
      OBVIOUS
    <3>1. PICK x \in sub[z] : H.links[x].size >= sz /\ H.links[x].size <= H.links[y].size
      BY <1>13
    <3>2. x \in D /\ H.links[z].size <= H.links[x].size /\ y \in D
      BY <1>0, <2>1, <3>1
    <3> QED BY <1>0, <1>11, <3>1, <3>2
  <2> QED BY <1>1, <1>10, <1>11, <1>14, <1>17, <2>2, <2>3 DEF Best
<1>18. CASE ~(H.links[z].size >= sz)
  <2>0. H.links[z].size < sz
    BY <1>0, <1>11, <1>18
  <2>1. \A x \in sub[z] : ~(H.links[x].size >= sz)
    <3> SUFFICES ASSUME NEW x \in sub[z], H.links[x].size >= sz PROVE FALSE
      OBVIOUS
    <3>1. x \in Under(sub, b) /\ x \in D
      BY <1>0, <1>11, <1>12, <2>0
    <3>2. b # NULL
      BY <3>1 DEF Under
    <3>3. H.links[x].size <= H.links[z].max
      BY <1>6, <1>11
    <3> QED BY <1>0, <1>11, <1>16, <2>0, <3>1, <3>2, <3>3
  <2>2. \A y \in T : ~(H.links[y].size >= sz)
    BY <1>13, <2>1
  <2> QED BY <1>1, <1>10, <1>14, <1>18, <2>2 DEF Best
<1> QED BY <1>17, <1>18

-----------------------------------------------------------------------------
(* The chain.                                                              *)

(* The chain around one link.                                              *)
Linked(H, D, p) ==
  LET l == H.links[p]
  IN /\ (l.next = NULL) <=> (p = H.last)
     /\ l.next # NULL => l.next = p + HDR + l.size /\ l.next \in D /\ H.links[l.next].prev = p
     /\ (l.prev = NULL) <=> (p = Root)
     /\ l.prev # NULL => l.prev \in D /\ H.links[l.prev].next = p

(* The links tile the file up to the last one.                             *)
Chain(H, D) ==
  /\ H \in Heaps(D) /\ D \subseteq Nat \ {NULL} /\ IsFiniteSet(D)
  /\ Root \in D /\ H.last \in D /\ ~H.links[Root].used
  /\ \A p \in D : Linked(H, D, p) /\ p <= H.last
  /\ \A p, q \in D : p < q => p + HDR + H.links[p].size <= q

Stem(H, D, T) == \E sub : Tree(H, D, T, sub) /\ Apart(H, D, T)

Good(H, D, T) == Chain(H, D) /\ Stem(H, D, T) /\ T \subseteq D /\ Root \in T

(* What changes only the tree keeps the chain.                             *)
LEMMA ChainSame ==
  ASSUME NEW D, NEW H, Chain(H, D), NEW G \in Heaps(D), SameChain(H, G, D)
  PROVE  Chain(G, D)
<1>1. \A p \in D : Linked(H, D, p)
  BY DEF Chain
<1>2. ASSUME NEW p \in D PROVE Linked(G, D, p)
  <2>1. /\ H.links[p].next # NULL => H.links[p].next \in D
        /\ H.links[p].prev # NULL => H.links[p].prev \in D
    BY <1>1 DEF Linked
  <2> QED BY <1>1, <2>1 DEF Linked, SameChain
<1> QED BY <1>2 DEF Chain, SameChain

(* The tree only depends on the links in it.                               *)
SameNodes(H, G, T) ==
  \A q \in T : /\ G.links[q].smaller = H.links[q].smaller /\ G.links[q].bigger = H.links[q].bigger
               /\ G.links[q].parent = H.links[q].parent /\ G.links[q].max = H.links[q].max
               /\ G.links[q].size = H.links[q].size

(* What changes only the chain keeps the tree.                             *)
LEMMA StemMoves ==
  ASSUME NEW D, NEW H, NEW T, Stem(H, D, T),
         NEW E, NEW G \in Heaps(E), T \subseteq E, NULL \notin E, SameNodes(H, G, T), Apart(G, E, T)
  PROVE  Stem(G, E, T)
<1>1. PICK sub : Tree(H, D, T, sub)
  BY DEF Stem
<1>2. Shape(H, D, T, sub) /\ Root \in T /\ sub \in [T -> SUBSET T]
  BY <1>1 DEF Tree, Shape
<1>3. ASSUME NEW q \in T PROVE Joint(G, T, sub, q) /\ Sorted(G, sub, q) /\ MaxAt(G, q)
  <2>1. Joint(H, T, sub, q) /\ Sorted(H, sub, q) /\ MaxAt(H, q)
    BY <1>1 DEF Tree, Shape
  <2>2. \A x \in {H.links[q].smaller, H.links[q].bigger} : x = NULL \/ x \in T
    BY <2>1 DEF Joint
  <2>3. q # Root => H.links[q].parent \in T
    BY <2>1 DEF Joint
  <2>4. Joint(G, T, sub, q)
    BY <2>1, <2>2, <2>3 DEF Joint, SameNodes
  <2>5. Under(sub, H.links[q].smaller) \subseteq T /\ Under(sub, H.links[q].bigger) \subseteq T
    BY <1>2, <2>2 DEF Under
  <2>6. Sorted(G, sub, q)
    BY <2>1, <2>5 DEF Sorted, SameNodes
  <2>7. MaxAt(G, q)
    BY <2>1, <2>2 DEF MaxAt, SameNodes
  <2> QED BY <2>4, <2>6, <2>7
<1>4. Shape(G, E, T, sub)
  BY <1>2, <1>3 DEF Shape, SameNodes
<1>5. Tree(G, E, T, sub)
  BY <1>1, <1>2, <1>3, <1>4 DEF Tree, SameNodes
<1> QED BY <1>5 DEF Stem

(* fph_insert keeps both.                                                  *)
LEMMA InsertGood ==
  ASSUME NEW D, NEW H, NEW T, Good(H, D, T), NEW e \in D \ T
  PROVE  Good(fph_insert(H, e), D, T \cup {e}) /\ SameChain(H, fph_insert(H, e), D)
<1>1. PICK sub : Tree(H, D, T, sub) /\ Apart(H, D, T)
  BY DEF Good, Stem
<1>2. D \in SUBSET Nat /\ Chain(H, D)
  BY DEF Good, Chain
<1>3. PICK G : G = fph_insert(H, e)
  OBVIOUS
<1>4. Planted(H, G, D, T, e)
  BY <1>1, <1>2, <1>3, InsertPlants
<1>5. PICK s2 : Tree(G, D, T \cup {e}, s2) /\ Apart(G, D, T \cup {e}) /\ SameChain(H, G, D)
  BY <1>4 DEF Planted
<1>6. G \in Heaps(D) /\ Stem(G, D, T \cup {e})
  BY <1>5 DEF Tree, Stem
<1>7. Chain(G, D)
  BY <1>2, <1>5, <1>6, ChainSame
<1> QED BY <1>3, <1>5, <1>6, <1>7 DEF Good

(* fph_remove keeps both.                                                  *)
LEMMA RemoveGood ==
  ASSUME NEW D, NEW H, NEW T, Good(H, D, T), NEW e \in T \ {Root}, NEW post \in BOOLEAN
  PROVE  Good(fph_remove(H, e, post), D, T \ {e}) /\ SameChain(H, fph_remove(H, e, post), D)
<1>1. PICK sub : Tree(H, D, T, sub) /\ Apart(H, D, T)
  BY DEF Good, Stem
<1>2. D \in SUBSET Nat /\ Chain(H, D)
  BY DEF Good, Chain
<1>3. PICK G : G = fph_remove(H, e, post)
  OBVIOUS
<1>4. Uprooted(H, G, D, T, e)
  BY <1>1, <1>2, <1>3, RemoveUproots
<1>5. PICK s2 : Tree(G, D, T \ {e}, s2) /\ Apart(G, D, T \ {e}) /\ SameChain(H, G, D)
  BY <1>4 DEF Uprooted
<1>6. G \in Heaps(D) /\ Stem(G, D, T \ {e})
  BY <1>5 DEF Tree, Stem
<1>7. Chain(G, D)
  BY <1>2, <1>5, <1>6, ChainSame
<1> QED BY <1>3, <1>5, <1>6, <1>7 DEF Good

(* used of another link than the dummy matters to neither chain nor tree.  *)
OnlyUsed(H, F, D) ==
  /\ F \in Heaps(D) /\ F.last = H.last /\ ~F.links[Root].used
  /\ \A q \in D : /\ F.links[q].size = H.links[q].size
                  /\ F.links[q].next = H.links[q].next /\ F.links[q].prev = H.links[q].prev
                  /\ F.links[q].smaller = H.links[q].smaller /\ F.links[q].bigger = H.links[q].bigger
                  /\ F.links[q].parent = H.links[q].parent /\ F.links[q].max = H.links[q].max

(* Marking a link keeps both.                                              *)
LEMMA UsedGood ==
  ASSUME NEW D, NEW H, NEW T, Good(H, D, T), NEW G, OnlyUsed(H, G, D)
  PROVE  Good(G, D, T)
<1>1. Chain(G, D)
  <2>1. ASSUME NEW q \in D PROVE Linked(G, D, q)
    <3>1. Linked(H, D, q)
      BY DEF Good, Chain
    <3>2. /\ H.links[q].next # NULL => H.links[q].next \in D
          /\ H.links[q].prev # NULL => H.links[q].prev \in D
      BY <3>1 DEF Linked
    <3> QED BY <3>1, <3>2 DEF Linked, OnlyUsed
  <2> QED BY <2>1 DEF Good, Chain, OnlyUsed
<1>2. Stem(G, D, T)
  <2>1. Stem(H, D, T) /\ T \subseteq D /\ NULL \notin D /\ G \in Heaps(D)
    BY DEF Good, Chain, OnlyUsed
  <2>2. SameNodes(H, G, T)
    BY <2>1 DEF SameNodes, OnlyUsed
  <2>3. Apart(G, D, T)
    <3>1. Apart(H, D, T)
      BY <2>1 DEF Stem
    <3> QED BY <3>1 DEF Apart, OnlyUsed
  <2> QED BY <2>1, <2>2, <2>3, StemMoves
<1> QED BY <1>1, <1>2 DEF Good

Marked(H, F, D, T, p) ==
  /\ Good(F, D, T) /\ F.last = H.last
  /\ \A q \in D \ {p} : F.links[q].used = H.links[q].used
  /\ \A q \in D : /\ F.links[q].size = H.links[q].size
                  /\ F.links[q].next = H.links[q].next /\ F.links[q].prev = H.links[q].prev

(* fphMalloc marks a link as used.                                         *)
LEMMA MarkUsed ==
  ASSUME NEW D, NEW H, NEW T, Good(H, D, T), NEW p \in D \ {Root}
  PROVE  Marked(H, [H EXCEPT !.links[p].used = TRUE], D, T, p) /\ [H EXCEPT !.links[p].used = TRUE].links[p].used
<1> DEFINE pl == [H.links[p] EXCEPT !.used = TRUE]
           G == [H EXCEPT !.links[p].used = TRUE]
<1>1. H \in Heaps(D) /\ DOMAIN H.links = D /\ (\A q \in D : H.links[q] \in Header) /\ Root \in D /\ ~H.links[Root].used
  BY DEF Good, Chain, Heaps
<1>2. G = [last |-> H.last, links |-> [q \in D |-> IF q = p THEN pl ELSE H.links[q]]]
  <2>1. G = [H EXCEPT !.links = [H.links EXCEPT ![p] = pl]]
    OBVIOUS
  <2> HIDE DEF pl, G
  <2>2. [H.links EXCEPT ![p] = pl] = [q \in D |-> IF q = p THEN pl ELSE H.links[q]]
    BY <1>1
  <2> QED BY <1>1, <2>1, <2>2 DEF Heaps
<1>3. /\ pl \in Header /\ pl.used /\ pl.prev = H.links[p].prev /\ pl.next = H.links[p].next
      /\ pl.size = H.links[p].size /\ pl.max = H.links[p].max /\ pl.smaller = H.links[p].smaller
      /\ pl.bigger = H.links[p].bigger /\ pl.parent = H.links[p].parent
  BY <1>1 DEF Header
<1> HIDE DEF pl, G
<1>4. G.last = H.last /\ \A q \in D : G.links[q] = IF q = p THEN pl ELSE H.links[q]
  BY <1>2
<1>5. G \in Heaps(D)
  BY <1>1, <1>2, <1>3 DEF Heaps
<1>6. /\ G.links[p].used /\ \A q \in D \ {p} : G.links[q].used = H.links[q].used
      /\ \A q \in D : /\ G.links[q].size = H.links[q].size
                      /\ G.links[q].next = H.links[q].next /\ G.links[q].prev = H.links[q].prev
                      /\ G.links[q].smaller = H.links[q].smaller /\ G.links[q].bigger = H.links[q].bigger
                      /\ G.links[q].parent = H.links[q].parent /\ G.links[q].max = H.links[q].max
  BY <1>3, <1>4
<1>7. ~G.links[Root].used
  BY <1>1, <1>6
<1>8. OnlyUsed(H, G, D)
  BY <1>4, <1>5, <1>6, <1>7 DEF OnlyUsed
<1>9. Good(G, D, T)
  BY <1>8, UsedGood
<1> QED BY <1>4, <1>6, <1>9 DEF G, Marked

(* fphFree marks it as free.                                               *)
LEMMA MarkFree ==
  ASSUME NEW D, NEW H, NEW T, Good(H, D, T), NEW p \in D \ {Root}
  PROVE  Marked(H, [H EXCEPT !.links[p].used = FALSE], D, T, p) /\ ~[H EXCEPT !.links[p].used = FALSE].links[p].used
<1> DEFINE pl == [H.links[p] EXCEPT !.used = FALSE]
           G == [H EXCEPT !.links[p].used = FALSE]
<1>1. H \in Heaps(D) /\ DOMAIN H.links = D /\ (\A q \in D : H.links[q] \in Header) /\ Root \in D /\ ~H.links[Root].used
  BY DEF Good, Chain, Heaps
<1>2. G = [last |-> H.last, links |-> [q \in D |-> IF q = p THEN pl ELSE H.links[q]]]
  <2>1. G = [H EXCEPT !.links = [H.links EXCEPT ![p] = pl]]
    OBVIOUS
  <2> HIDE DEF pl, G
  <2>2. [H.links EXCEPT ![p] = pl] = [q \in D |-> IF q = p THEN pl ELSE H.links[q]]
    BY <1>1
  <2> QED BY <1>1, <2>1, <2>2 DEF Heaps
<1>3. /\ pl \in Header /\ ~pl.used /\ pl.prev = H.links[p].prev /\ pl.next = H.links[p].next
      /\ pl.size = H.links[p].size /\ pl.max = H.links[p].max /\ pl.smaller = H.links[p].smaller
      /\ pl.bigger = H.links[p].bigger /\ pl.parent = H.links[p].parent
  BY <1>1 DEF Header
<1> HIDE DEF pl, G
<1>4. G.last = H.last /\ \A q \in D : G.links[q] = IF q = p THEN pl ELSE H.links[q]
  BY <1>2
<1>5. G \in Heaps(D)
  BY <1>1, <1>2, <1>3 DEF Heaps
<1>6. /\ ~G.links[p].used /\ \A q \in D \ {p} : G.links[q].used = H.links[q].used
      /\ \A q \in D : /\ G.links[q].size = H.links[q].size
                      /\ G.links[q].next = H.links[q].next /\ G.links[q].prev = H.links[q].prev
                      /\ G.links[q].smaller = H.links[q].smaller /\ G.links[q].bigger = H.links[q].bigger
                      /\ G.links[q].parent = H.links[q].parent /\ G.links[q].max = H.links[q].max
  BY <1>3, <1>4
<1>7. ~G.links[Root].used
  BY <1>1, <1>6
<1>8. OnlyUsed(H, G, D)
  BY <1>4, <1>5, <1>6, <1>7 DEF OnlyUsed
<1>9. Good(G, D, T)
  BY <1>8, UsedGood
<1> QED BY <1>4, <1>6, <1>9 DEF G, Marked

-----------------------------------------------------------------------------
(* fph_split.                                                              *)

(* The chain part of fph_split.                                            *)
SplitChain(H, p, sz) ==
  LET l == H.links[p]
      ep == p + HDR + sz
      A == Put(H, ep, Loose(p, l.next, l.size - sz - HDR))
      B == [A EXCEPT !.links[p].next = ep, !.links[p].size = sz]
  IN SetPrev(B, l.next, ep)

(* What it leaves: the rest of p is the link e.                            *)
SplitDone(H, G, D, p, sz, e) ==
  /\ G \in Heaps(D \cup {e})
  /\ G.last = (IF H.links[p].next = NULL THEN e ELSE H.last)
  /\ \A q \in D :
       /\ G.links[q].used = H.links[q].used
       /\ G.links[q].size = (IF q = p THEN sz ELSE H.links[q].size)
       /\ G.links[q].next = (IF q = p THEN e ELSE H.links[q].next)
       /\ G.links[q].prev = (IF q = H.links[p].next THEN e ELSE H.links[q].prev)
       /\ G.links[q].smaller = H.links[q].smaller /\ G.links[q].bigger = H.links[q].bigger
       /\ G.links[q].parent = H.links[q].parent /\ G.links[q].max = H.links[q].max
  /\ G.links[e] = Loose(p, H.links[p].next, H.links[p].size - sz - HDR)

(* The chain part of fph_split, field by field.                            *)
LEMMA SplitFields ==
  ASSUME NEW D \in SUBSET Nat, NULL \notin D, NEW H \in Heaps(D), NEW p \in D, NEW sz \in Nat,
         H.links[p].next \in (D \cup {NULL}) \ {p}, p + HDR + sz \notin D,
         H.links[p].size > sz + HDR
  PROVE  SplitDone(H, SplitChain(H, p, sz), D, p, sz, p + HDR + sz)
<1> DEFINE e == p + HDR + sz
           n == H.links[p].next
           el == Loose(p, n, H.links[p].size - sz - HDR)
           pl == [H.links[p] EXCEPT !.next = e, !.size = sz]
           nl == [H.links[n] EXCEPT !.prev = e]
           A == Put(H, e, el)
           B == [A EXCEPT !.links[p].next = e, !.links[p].size = sz]
           E == D \cup {e}
           fB == [q \in E |-> IF q = e THEN el ELSE IF q = p THEN pl ELSE H.links[q]]
           f == [q \in E |-> IF q = e THEN el ELSE IF q = p THEN pl ELSE IF q = n THEN nl ELSE H.links[q]]
           G == SetPrev(B, n, e)
<1>0. DOMAIN H.links = D /\ H.last \in Nat /\ \A q \in D : H.links[q] \in Header
  BY DEF Heaps
<1>1. e \in Nat /\ p \in Nat /\ n \in Nat /\ H.links[p].size - sz - HDR \in Nat /\ HDR \in Nat
  <2>1. H.links[p].size \in Nat /\ n \in Nat
    BY <1>0 DEF Header
  <2> HIDE DEF n
  <2> QED BY <2>1, FpMmAssumption
<1>2. /\ el \in Header
      /\ pl \in Header /\ pl.used = H.links[p].used /\ pl.prev = H.links[p].prev /\ pl.next = e /\ pl.size = sz
      /\ pl.smaller = H.links[p].smaller /\ pl.bigger = H.links[p].bigger
      /\ pl.parent = H.links[p].parent /\ pl.max = H.links[p].max
  <2> DEFINE k == H.links[p].size - sz - HDR
  <2>1. k \in Nat /\ NULL \in Nat
    BY <1>1 DEF NULL
  <2> HIDE DEF e, n, k
  <2>2. el \in Header
    BY <1>1, <2>1 DEF Header, Loose
  <2>3. H.links[p] \in Header
    BY <1>0
  <2> QED BY <1>1, <2>2, <2>3 DEF Header
<1>3. n # NULL =>
      /\ nl \in Header /\ nl.used = H.links[n].used /\ nl.prev = e /\ nl.next = H.links[n].next
      /\ nl.size = H.links[n].size /\ nl.smaller = H.links[n].smaller /\ nl.bigger = H.links[n].bigger
      /\ nl.parent = H.links[n].parent /\ nl.max = H.links[n].max
  <2>1. n # NULL => n \in D
    OBVIOUS
  <2> HIDE DEF e, n
  <2> QED BY <1>0, <1>1, <2>1 DEF Header
<1>4. SplitChain(H, p, sz) = G
  BY Zenon DEF SplitChain
<1> HIDE DEF e
<1>5. A = [last |-> H.last, links |-> [q \in E |-> IF q = e THEN el ELSE H.links[q]]]
  <2> HIDE DEF el, n
  <2> QED BY <1>0 DEF Put, Heaps
<1>6. p # e /\ p \in E
  BY DEF e
<1>7. B = [last |-> H.last, links |-> fB]
  <2> HIDE DEF el, n, A
  <2>1. B = [A EXCEPT !.links = [A.links EXCEPT ![p] = [[A.links[p] EXCEPT !.next = e] EXCEPT !.size = sz]]]
    BY <1>5, <1>6
  <2>2. [[A.links[p] EXCEPT !.next = e] EXCEPT !.size = sz] = pl
    <3>1. A.links[p] = H.links[p]
      BY <1>5, <1>6
    <3>2. H.links[p] \in Header
      BY <1>0
    <3> QED BY <3>1, <3>2 DEF Header
  <2> HIDE DEF pl, B
  <2>3. [A.links EXCEPT ![p] = pl] = fB
    BY <1>5, <1>6
  <2> HIDE DEF fB
  <2> QED BY <1>5, <2>1, <2>2, <2>3
<1> HIDE DEF el, pl, nl, A, B
<1>8. G = [last |-> IF n = NULL THEN e ELSE H.last, links |-> f]
  <2>1. CASE n = NULL
    <3>1. f = fB
      BY <2>1
    <3>2. G = [B EXCEPT !.last = e]
      BY <2>1 DEF SetPrev
    <3> HIDE DEF f, fB, n, G
    <3> QED BY <1>7, <2>1, <3>1, <3>2
  <2>2. CASE n # NULL
    <3>1. n \in D /\ n # p /\ n # e
      BY <2>2 DEF e
    <3>2. G = [B EXCEPT !.links[n].prev = e]
      BY <2>2 DEF SetPrev
    <3> HIDE DEF n, G
    <3>3. B.links[n] = H.links[n]
      BY <1>7, <3>1
    <3>4. G = [B EXCEPT !.links = [B.links EXCEPT ![n] = nl]]
      BY <3>2, <3>3 DEF nl
    <3>5. [B.links EXCEPT ![n] = nl] = f
      BY <1>7, <3>1
    <3> HIDE DEF f, fB
    <3> QED BY <1>7, <2>2, <3>4, <3>5
  <2> QED BY <2>1, <2>2
<1> HIDE DEF G
<1>9. \A q \in E : f[q] = IF q = e THEN el ELSE IF q = p THEN pl ELSE IF q = n THEN nl ELSE H.links[q]
  OBVIOUS
<1>10. f \in [E -> Header]
  <2>1. \A q \in E : f[q] \in Header
    <3>1. \A q \in E : q = e \/ q \in D
      OBVIOUS
    <3>2. n = NULL => n \notin D
      OBVIOUS
    <3> HIDE DEF f, n, E
    <3>3. \A q \in D : q = n => n # NULL
      BY <3>2
    <3> QED BY <1>0, <1>2, <1>3, <1>9, <3>1, <3>3
  <2> HIDE DEF E, n
  <2> QED BY <2>1
<1>11. n = NULL => n \notin D
  OBVIOUS
<1>12. e \notin D /\ E = D \cup {e}
  BY DEF e
<1> HIDE DEF f, n, E
<1>13. G \in Heaps(E)
  BY <1>0, <1>1, <1>8, <1>10 DEF Heaps
<1>14. G.last = (IF n = NULL THEN e ELSE H.last) /\ G.links = f
  BY <1>8
<1>15. \A q \in D :
       /\ G.links[q].used = H.links[q].used
       /\ G.links[q].size = (IF q = p THEN sz ELSE H.links[q].size)
       /\ G.links[q].next = (IF q = p THEN e ELSE H.links[q].next)
       /\ G.links[q].prev = (IF q = n THEN e ELSE H.links[q].prev)
       /\ G.links[q].smaller = H.links[q].smaller /\ G.links[q].bigger = H.links[q].bigger
       /\ G.links[q].parent = H.links[q].parent /\ G.links[q].max = H.links[q].max
  <2> TAKE q \in D
  <2>1. G.links[q] = IF q = p THEN pl ELSE IF q = n THEN nl ELSE H.links[q]
    BY <1>9, <1>12, <1>14
  <2>2. n # p
    BY DEF n
  <2>3. CASE q = p
    BY <1>2, <2>1, <2>2, <2>3
  <2>4. CASE q # p /\ q = n
    BY <1>3, <1>11, <2>1, <2>4
  <2>5. CASE q # p /\ q # n
    BY <2>1, <2>5
  <2> QED BY <2>3, <2>4, <2>5
<1>16. G.links[e] = el
  BY <1>9, <1>12, <1>14
<1>17. SplitDone(H, G, D, p, sz, e)
  BY <1>12, <1>13, <1>14, <1>15, <1>16 DEF SplitDone, n, el
<1> QED BY <1>4, <1>17 DEF e

(* The two halves tile what was one link.                                  *)
LEMMA SplitGood ==
  ASSUME NEW D, NEW H, NEW T, Good(H, D, T), NEW p \in D \ T, NEW sz \in Nat,
         H.links[p].size > sz + HDR,
         NEW e, e = p + HDR + sz, NEW G, SplitDone(H, G, D, p, sz, e)
  PROVE  e \notin D /\ Good(G, D \cup {e}, T)
<1> DEFINE E == D \cup {e}
           n == H.links[p].next
           rest == H.links[p].size - sz - HDR
<1>0. /\ H \in Heaps(D) /\ D \subseteq Nat \ {NULL} /\ IsFiniteSet(D)
      /\ Root \in D /\ H.last \in D /\ ~H.links[Root].used
      /\ \A q \in D : Linked(H, D, q) /\ q <= H.last
      /\ \A q, x \in D : q < x => q + HDR + H.links[q].size <= x
      /\ T \subseteq D /\ Root \in T /\ Stem(H, D, T) /\ HDR \in Nat \ {0}
      /\ \A q \in D : H.links[q].size \in Nat
  BY FpMmAssumption DEF Good, Chain, Heaps, Header
<1>1. rest \in Nat /\ e \in Nat \ {NULL} /\ p < e /\ H.links[p].size = sz + HDR + rest
  <2>1. p \in Nat /\ p # 0 /\ H.links[p].size \in Nat /\ HDR \in Nat /\ HDR # 0
    BY <1>0 DEF NULL
  <2>2. PICK k : k = H.links[p].size
    OBVIOUS
  <2>3. k \in Nat /\ k > sz + HDR
    BY <2>1, <2>2
  <2>4. k - sz - HDR \in Nat /\ e \in Nat \ {0} /\ p < e /\ k = sz + HDR + (k - sz - HDR)
    BY <2>1, <2>3
  <2> QED BY <2>2, <2>4 DEF NULL
<1>2. e \notin D
  BY <1>0, <1>1
<1>3. /\ G \in Heaps(E)
      /\ G.last = (IF n = NULL THEN e ELSE H.last)
      /\ \A q \in D :
           /\ G.links[q].used = H.links[q].used
           /\ G.links[q].size = (IF q = p THEN sz ELSE H.links[q].size)
           /\ G.links[q].next = (IF q = p THEN e ELSE H.links[q].next)
           /\ G.links[q].prev = (IF q = n THEN e ELSE H.links[q].prev)
           /\ G.links[q].smaller = H.links[q].smaller /\ G.links[q].bigger = H.links[q].bigger
           /\ G.links[q].parent = H.links[q].parent /\ G.links[q].max = H.links[q].max
      /\ G.links[e].prev = p /\ G.links[e].next = n /\ G.links[e].size = rest
      /\ G.links[e].smaller = NULL /\ G.links[e].bigger = NULL /\ G.links[e].parent = NULL
  BY DEF SplitDone, Loose
<1>4. /\ (n = NULL) <=> (p = H.last)
      /\ n # NULL => n = p + HDR + H.links[p].size /\ n \in D /\ H.links[n].prev = p
  BY <1>0 DEF Linked
<1> HIDE DEF E, n, rest
<1>5. n # NULL => n = e + HDR + rest /\ p < n /\ e < n
  <2> SUFFICES ASSUME n # NULL PROVE n = e + HDR + rest /\ p < n /\ e < n
    OBVIOUS
  <2>1. n = p + HDR + (sz + HDR + rest)
    BY <1>1, <1>4
  <2> QED BY <1>0, <1>1, <2>1
<1>6. E = D \cup {e}
  BY DEF E
<1>7. ASSUME NEW q \in D PROVE Linked(G, E, q) /\ q <= G.last
  <2>0. /\ (H.links[q].next = NULL) <=> (q = H.last)
        /\ H.links[q].next # NULL =>
             H.links[q].next = q + HDR + H.links[q].size /\ H.links[q].next \in D /\ H.links[H.links[q].next].prev = q
        /\ (H.links[q].prev = NULL) <=> (q = Root)
        /\ H.links[q].prev # NULL => H.links[q].prev \in D /\ H.links[H.links[q].prev].next = q
        /\ q <= H.last
    BY <1>0 DEF Linked
  <2>1. q <= G.last
    <3>1. CASE n = NULL
      BY <1>0, <1>1, <1>3, <1>4, <2>0, <3>1
    <3>2. CASE n # NULL
      BY <1>3, <2>0, <3>2
    <3> QED BY <3>1, <3>2
  <2>2. /\ (G.links[q].next = NULL) <=> (q = G.last)
        /\ G.links[q].next # NULL =>
             G.links[q].next = q + HDR + G.links[q].size /\ G.links[q].next \in E /\ G.links[G.links[q].next].prev = q
    <3>1. CASE q = p
      <4>1. G.links[q].next = e /\ e # NULL /\ G.links[q].size = sz /\ e \in E
        BY <1>1, <1>3, <1>6, <3>1
      <4>2. q # G.last
        BY <1>2, <1>3, <1>4, <3>1
      <4> QED BY <1>3, <3>1, <4>1, <4>2
    <3>2. CASE q # p
      <4>1. G.links[q].next = H.links[q].next /\ G.links[q].size = H.links[q].size
        BY <1>3, <3>2
      <4>2. (q = G.last) <=> (q = H.last)
        BY <1>2, <1>3, <1>4, <3>2
      <4>3. H.links[q].next # NULL => H.links[q].next # n
        BY <1>4, <2>0, <3>2
      <4> QED BY <1>3, <1>6, <2>0, <4>1, <4>2, <4>3
    <3> QED BY <3>1, <3>2
  <2>3. /\ (G.links[q].prev = NULL) <=> (q = Root)
        /\ G.links[q].prev # NULL => G.links[q].prev \in E /\ G.links[G.links[q].prev].next = q
    <3>1. CASE q = n
      <4>1. G.links[q].prev = e /\ e \in E /\ e # NULL /\ G.links[e].next = q
        BY <1>1, <1>3, <1>6, <3>1
      <4>2. q # Root
        <5>1. n # NULL /\ H.links[q].prev = p /\ p # NULL
          BY <1>0, <1>4, <3>1
        <5> QED BY <2>0, <5>1
      <4> QED BY <4>1, <4>2
    <3>2. CASE q # n
      <4>1. G.links[q].prev = H.links[q].prev
        BY <1>3, <3>2
      <4>2. H.links[q].prev # NULL => H.links[q].prev # p
        BY <2>0, <3>2 DEF n
      <4> QED BY <1>3, <1>6, <2>0, <4>1, <4>2
    <3> QED BY <3>1, <3>2
  <2> QED BY <2>1, <2>2, <2>3 DEF Linked
<1>8. Linked(G, E, e) /\ e <= G.last
  <2>1. G.links[p].next = e /\ p \in E /\ p # NULL /\ e # Root
    BY <1>0, <1>2, <1>3, <1>6
  <2>2. n # NULL => G.links[n].prev = e /\ n \in E
    BY <1>3, <1>4, <1>6
  <2>3. (n = NULL) <=> (e = G.last)
    BY <1>0, <1>2, <1>3
  <2>4. e <= G.last
    <3>1. CASE n = NULL
      BY <1>1, <1>3, <3>1
    <3>2. CASE n # NULL
      <4>1. n \in D /\ n <= H.last /\ e < n /\ n \in Nat /\ H.last \in Nat
        BY <1>0, <1>4, <1>5, <3>2
      <4> QED BY <1>1, <1>3, <3>2, <4>1
    <3> QED BY <3>1, <3>2
  <2> QED BY <1>3, <1>5, <2>1, <2>2, <2>3, <2>4 DEF Linked
<1>9. ASSUME NEW q \in E, NEW x \in E, q < x PROVE q + HDR + G.links[q].size <= x
  <2>1. CASE q \in D /\ x \in D
    <3>1. q + HDR + H.links[q].size <= x
      BY <1>0, <1>9, <2>1
    <3>2. G.links[q].size <= H.links[q].size /\ G.links[q].size \in Nat
      BY <1>0, <1>1, <1>3, <2>1
    <3> QED BY <1>0, <2>1, <3>1, <3>2
  <2>2. CASE q \in D /\ x = e
    <3>1. CASE q = p
      <4>1. G.links[p].size = sz /\ p + HDR + sz <= e
        BY <1>0, <1>1, <1>3
      <4> QED BY <2>2, <3>1, <4>1
    <3>2. CASE q # p
      <4>1. q < p
        <5>1. ~(p < q)
          <6> SUFFICES ASSUME p < q PROVE FALSE
            OBVIOUS
          <6>1. p + HDR + H.links[p].size <= q
            BY <1>0, <2>2
          <6> QED BY <1>0, <1>1, <1>9, <2>2, <6>1
        <5> QED BY <1>0, <2>2, <3>2, <5>1
      <4>2. q + HDR + H.links[q].size <= p
        BY <1>0, <2>2, <4>1
      <4> QED BY <1>0, <1>1, <1>3, <2>2, <3>2, <4>2
    <3> QED BY <3>1, <3>2
  <2>3. CASE q = e /\ x \in D
    <3>1. p < x
      BY <1>0, <1>1, <1>9, <2>3
    <3>2. p + HDR + H.links[p].size <= x
      BY <1>0, <2>3, <3>1
    <3> QED BY <1>0, <1>1, <1>3, <2>3, <3>2
  <2>4. CASE q = e /\ x = e
    BY <1>1, <1>9, <2>4
  <2> QED BY <1>6, <2>1, <2>2, <2>3, <2>4
<1>10. Chain(G, E)
  <2>1. IsFiniteSet(E)
    BY <1>0, <1>6, FS_AddElement
  <2>2. E \subseteq Nat \ {NULL} /\ Root \in E /\ G.last \in E /\ ~G.links[Root].used
    BY <1>0, <1>1, <1>3, <1>6
  <2>3. \A q \in E : Linked(G, E, q) /\ q <= G.last
    BY <1>6, <1>7, <1>8
  <2> QED BY <1>3, <1>9, <2>1, <2>2, <2>3 DEF Chain
<1>11. Stem(G, E, T)
  <2>1. T \subseteq E /\ NULL \notin E
    BY <1>0, <1>1, <1>6
  <2>2. SameNodes(H, G, T)
    BY <1>0, <1>3 DEF SameNodes
  <2>3. Apart(G, E, T)
    <3>1. Apart(H, D, T)
      BY <1>0 DEF Stem
    <3> QED BY <1>3, <1>6, <3>1 DEF Apart
  <2> QED BY <1>0, <1>3, <2>1, <2>2, <2>3, StemMoves
<1> QED BY <1>0, <1>2, <1>6, <1>10, <1>11 DEF Good

-----------------------------------------------------------------------------
(* fph_merge.                                                              *)

(* What it leaves: b has become a part of a.                               *)
MergeDone(H, G, D, a, b) ==
  /\ G \in Heaps(D \ {b})
  /\ G.last = (IF H.links[b].next = NULL THEN a ELSE H.last)
  /\ \A q \in D \ {b} :
       /\ G.links[q].used = H.links[q].used
       /\ G.links[q].size = (IF q = a THEN H.links[a].size + H.links[b].size + HDR ELSE H.links[q].size)
       /\ G.links[q].next = (IF q = a THEN H.links[b].next ELSE H.links[q].next)
       /\ G.links[q].prev = (IF q = H.links[b].next THEN a ELSE H.links[q].prev)
       /\ G.links[q].smaller = H.links[q].smaller /\ G.links[q].bigger = H.links[q].bigger
       /\ G.links[q].parent = H.links[q].parent /\ G.links[q].max = H.links[q].max

(* fph_merge, field by field.                                              *)
LEMMA MergeFields ==
  ASSUME NEW D \in SUBSET Nat, NULL \notin D, NEW H \in Heaps(D), NEW a \in D, NEW b \in D \ {a},
         H.links[b].next \in (D \cup {NULL}) \ {a, b}
  PROVE  MergeDone(H, fph_merge(H, a, b), D, a, b)
<1> DEFINE n == H.links[b].next
           sz == H.links[a].size + H.links[b].size + HDR
           al == [H.links[a] EXCEPT !.next = n, !.size = sz]
           nl == [H.links[n] EXCEPT !.prev = a]
           A == [H EXCEPT !.links[a].next = n, !.links[a].size = @ + H.links[b].size + HDR]
           E == D \ {b}
           fA == [q \in D |-> IF q = a THEN al ELSE H.links[q]]
           f == [q \in D |-> IF q = a THEN al ELSE IF q = n THEN nl ELSE H.links[q]]
           g == [q \in E |-> IF q = a THEN al ELSE IF q = n THEN nl ELSE H.links[q]]
           B == SetPrev(A, n, a)
           G == Drop(B, b)
<1>0. DOMAIN H.links = D /\ H.last \in Nat /\ \A q \in D : H.links[q] \in Header
  BY DEF Heaps
<1>1. a \in Nat /\ n \in Nat /\ sz \in Nat
  <2>1. H.links[a].size \in Nat /\ H.links[b].size \in Nat /\ H.links[b].next \in Nat
    BY <1>0 DEF Header
  <2> QED BY <2>1, FpMmAssumption
<1>2. /\ al \in Header /\ al.used = H.links[a].used /\ al.prev = H.links[a].prev /\ al.next = n /\ al.size = sz
      /\ al.smaller = H.links[a].smaller /\ al.bigger = H.links[a].bigger
      /\ al.parent = H.links[a].parent /\ al.max = H.links[a].max
  <2>1. H.links[a] \in Header
    BY <1>0
  <2> HIDE DEF n, sz
  <2> QED BY <1>1, <2>1 DEF Header
<1>3. n # NULL =>
      /\ nl \in Header /\ nl.used = H.links[n].used /\ nl.prev = a /\ nl.next = H.links[n].next
      /\ nl.size = H.links[n].size /\ nl.smaller = H.links[n].smaller /\ nl.bigger = H.links[n].bigger
      /\ nl.parent = H.links[n].parent /\ nl.max = H.links[n].max
  <2>1. n # NULL => n \in D
    OBVIOUS
  <2> HIDE DEF n
  <2> QED BY <1>0, <1>1, <2>1 DEF Header
<1>4. fph_merge(H, a, b) = G
  BY Zenon DEF fph_merge
<1>5. A = [last |-> H.last, links |-> fA]
  <2>0. A = [H EXCEPT !.links = [H.links EXCEPT ![a] = [[H.links[a] EXCEPT !.next = n] EXCEPT !.size = H.links[a].size + H.links[b].size + HDR]]]
    <3>1. [H.links[a] EXCEPT !.next = n].size = H.links[a].size
      BY <1>0 DEF Header
    <3> HIDE DEF n
    <3> QED BY <1>0, <3>1 DEF Heaps
  <2>1. [[H.links[a] EXCEPT !.next = n] EXCEPT !.size = H.links[a].size + H.links[b].size + HDR] = al
    <3>2. H.links[a] \in Header
      BY <1>0
    <3>3. PICK k, m : k = sz /\ m = n
      OBVIOUS
    <3>4. [[H.links[a] EXCEPT !.next = m] EXCEPT !.size = k] = [H.links[a] EXCEPT !.next = m, !.size = k]
      BY <3>2 DEF Header
    <3> QED BY <3>3, <3>4
  <2> HIDE DEF al, A, n
  <2>2. [H.links EXCEPT ![a] = al] = fA
    BY <1>0
  <2> HIDE DEF fA
  <2>3. A = [H EXCEPT !.links = fA]
    BY <2>0, <2>1, <2>2
  <2> QED BY <2>3 DEF Heaps
<1>6. n # a /\ n # b /\ (n # NULL => n \in D)
  OBVIOUS
<1> HIDE DEF al, nl, A, n
<1>7. B = [last |-> IF n = NULL THEN a ELSE H.last, links |-> f]
  <2>1. CASE n = NULL
    <3>1. f = fA
      BY <2>1
    <3>2. B = [A EXCEPT !.last = a]
      BY <2>1 DEF SetPrev
    <3> HIDE DEF f, fA, B
    <3> QED BY <1>5, <2>1, <3>1, <3>2
  <2>2. CASE n # NULL
    <3>1. n \in D /\ n # a
      BY <1>6, <2>2
    <3>2. B = [A EXCEPT !.links[n].prev = a]
      BY <2>2 DEF SetPrev
    <3> HIDE DEF B
    <3>3. A.links[n] = H.links[n]
      BY <1>5, <3>1
    <3>4. B = [A EXCEPT !.links = [A.links EXCEPT ![n] = nl]]
      BY <3>2, <3>3 DEF nl
    <3>5. [A.links EXCEPT ![n] = nl] = f
      BY <1>5, <3>1
    <3> HIDE DEF f, fA
    <3> QED BY <1>5, <2>2, <3>4, <3>5
  <2> QED BY <2>1, <2>2
<1>8. G = [last |-> IF n = NULL THEN a ELSE H.last, links |-> g]
  <2>1. G = [B EXCEPT !.links = [q \in DOMAIN B.links \ {b} |-> B.links[q]]]
    BY DEF Drop
  <2>2. [q \in DOMAIN B.links \ {b} |-> B.links[q]] = g
    <3> HIDE DEF B
    <3> QED BY <1>7
  <2> HIDE DEF g, B, f, G
  <2> QED BY <1>7, <2>1, <2>2
<1> HIDE DEF G
<1>9. \A q \in E : g[q] = IF q = a THEN al ELSE IF q = n THEN nl ELSE H.links[q]
  OBVIOUS
<1>10. g \in [E -> Header]
  <2>1. \A q \in E : g[q] \in Header
    <3> TAKE q \in E
    <3>1. q \in D /\ (q = n => n # NULL)
      OBVIOUS
    <3> HIDE DEF g
    <3> QED BY <1>0, <1>2, <1>3, <1>9, <3>1
  <2> QED BY <2>1
<1>11. E = D \ {b}
  OBVIOUS
<1> HIDE DEF g, E, sz
<1>12. G \in Heaps(E)
  BY <1>0, <1>1, <1>8, <1>10 DEF Heaps
<1>13. G.last = (IF n = NULL THEN a ELSE H.last) /\ G.links = g
  BY <1>8
<1>14. \A q \in E :
       /\ G.links[q].used = H.links[q].used
       /\ G.links[q].size = (IF q = a THEN sz ELSE H.links[q].size)
       /\ G.links[q].next = (IF q = a THEN n ELSE H.links[q].next)
       /\ G.links[q].prev = (IF q = n THEN a ELSE H.links[q].prev)
       /\ G.links[q].smaller = H.links[q].smaller /\ G.links[q].bigger = H.links[q].bigger
       /\ G.links[q].parent = H.links[q].parent /\ G.links[q].max = H.links[q].max
  <2> TAKE q \in E
  <2>1. G.links[q] = IF q = a THEN al ELSE IF q = n THEN nl ELSE H.links[q]
    BY <1>9, <1>13
  <2>2. q \in D
    BY <1>11
  <2>3. CASE q = a
    BY <1>2, <1>6, <2>1, <2>3
  <2>4. CASE q # a /\ q = n
    BY <1>3, <2>1, <2>2, <2>4
  <2>5. CASE q # a /\ q # n
    BY <2>1, <2>5
  <2> QED BY <2>3, <2>4, <2>5
<1>15. MergeDone(H, G, D, a, b)
  BY <1>11, <1>12, <1>13, <1>14 DEF MergeDone, n, sz
<1> QED BY <1>4, <1>15

(* One link tiles what were two.                                           *)
LEMMA MergeGood ==
  ASSUME NEW D, NEW H, NEW T, Good(H, D, T), NEW a \in D \ T, H.links[a].next # NULL, H.links[a].next \notin T,
         NEW b, b = H.links[a].next
  PROVE  Good(fph_merge(H, a, b), D \ {b}, T) /\ MergeDone(H, fph_merge(H, a, b), D, a, b)
<1> DEFINE E == D \ {b}
           n == H.links[b].next
           G == fph_merge(H, a, b)
<1>0. /\ H \in Heaps(D) /\ D \subseteq Nat \ {NULL} /\ IsFiniteSet(D)
      /\ Root \in D /\ H.last \in D /\ ~H.links[Root].used
      /\ \A q \in D : Linked(H, D, q) /\ q <= H.last
      /\ \A q, x \in D : q < x => q + HDR + H.links[q].size <= x
      /\ T \subseteq D /\ Root \in T /\ Stem(H, D, T) /\ HDR \in Nat \ {0}
      /\ \A q \in D : H.links[q].size \in Nat
  BY FpMmAssumption DEF Good, Chain, Heaps, Header
<1>1. b \in D /\ b = a + HDR + H.links[a].size /\ H.links[b].prev = a /\ a # H.last
  BY <1>0 DEF Linked
<1>2. a < b /\ a # b /\ b # Root
  <2>1. a \in Nat /\ b \in Nat /\ H.links[a].size \in Nat
    BY <1>0, <1>1
  <2>2. a < b
    BY <1>0, <1>1, <2>1
  <2>3. b # Root
    BY <1>0
  <2> QED BY <2>1, <2>2, <2>3
<1>3. /\ (n = NULL) <=> (b = H.last)
      /\ n # NULL => n = b + HDR + H.links[b].size /\ n \in D /\ H.links[n].prev = b /\ b < n
  <2>1. /\ (n = NULL) <=> (b = H.last)
        /\ n # NULL => n = b + HDR + H.links[b].size /\ n \in D /\ H.links[n].prev = b
    BY <1>0, <1>1 DEF Linked
  <2>2. n # NULL => b < n
    <3> SUFFICES ASSUME n # NULL PROVE b < n
      OBVIOUS
    <3>1. b \in Nat /\ H.links[b].size \in Nat /\ n = b + HDR + H.links[b].size
      BY <1>0, <1>1, <2>1
    <3> HIDE DEF n
    <3> QED BY <1>0, <3>1
  <2> QED BY <2>1, <2>2
<1>4. n \in (D \cup {NULL}) \ {a, b}
  <2>1. n = NULL \/ n \in D
    BY <1>3
  <2>2. n # NULL => a < n /\ b < n /\ n \in Nat /\ a \in Nat /\ b \in Nat
    <3> SUFFICES ASSUME n # NULL PROVE a < n /\ b < n /\ n \in Nat /\ a \in Nat /\ b \in Nat
      OBVIOUS
    <3>1. n \in Nat /\ a \in Nat /\ b \in Nat /\ b < n
      BY <1>0, <1>1, <1>3
    <3> HIDE DEF n
    <3> QED BY <1>2, <3>1
  <2>3. a # NULL /\ b # NULL
    BY <1>0, <1>1
  <2> HIDE DEF n
  <2> QED BY <2>1, <2>2, <2>3
<1>5. MergeDone(H, G, D, a, b)
  <2>1. D \in SUBSET Nat /\ NULL \notin D /\ a \in D /\ b \in D \ {a}
    BY <1>0, <1>1, <1>2
  <2> QED BY <1>0, <1>4, <2>1, MergeFields
<1>6. /\ G \in Heaps(E)
      /\ G.last = (IF n = NULL THEN a ELSE H.last)
      /\ \A q \in E :
           /\ G.links[q].used = H.links[q].used
           /\ G.links[q].size = (IF q = a THEN H.links[a].size + H.links[b].size + HDR ELSE H.links[q].size)
           /\ G.links[q].next = (IF q = a THEN n ELSE H.links[q].next)
           /\ G.links[q].prev = (IF q = n THEN a ELSE H.links[q].prev)
           /\ G.links[q].smaller = H.links[q].smaller /\ G.links[q].bigger = H.links[q].bigger
           /\ G.links[q].parent = H.links[q].parent /\ G.links[q].max = H.links[q].max
  BY <1>5 DEF MergeDone
<1> HIDE DEF n, G
<1>7. a \in E /\ (n # NULL => n \in E /\ n # a)
  BY <1>2, <1>4
<1>8. \A q \in E : q \in D /\ q # b
  OBVIOUS
<1>9. \A q \in D : q # b => q \in E
  OBVIOUS
<1>10. IsFiniteSet(E)
  BY <1>0, FS_RemoveElement
<1> HIDE DEF E
<1>11. ASSUME NEW q \in E PROVE Linked(G, E, q) /\ q <= G.last
  <2>0. /\ (H.links[q].next = NULL) <=> (q = H.last)
        /\ H.links[q].next # NULL =>
             H.links[q].next = q + HDR + H.links[q].size /\ H.links[q].next \in D /\ H.links[H.links[q].next].prev = q
        /\ (H.links[q].prev = NULL) <=> (q = Root)
        /\ H.links[q].prev # NULL => H.links[q].prev \in D /\ H.links[H.links[q].prev].next = q
        /\ q <= H.last /\ q # b /\ q \in D
    BY <1>0, <1>8 DEF Linked
  <2>1. q <= G.last
    <3>1. CASE n = NULL
      <4>1. q < b /\ q \in Nat /\ a \in Nat
        BY <1>0, <1>1, <1>3, <2>0, <3>1
      <4>2. ~(a < q)
        <5> SUFFICES ASSUME a < q PROVE FALSE
          OBVIOUS
        <5>1. a + HDR + H.links[a].size <= q
          BY <1>0, <2>0
        <5> QED BY <1>0, <1>1, <4>1, <5>1
      <4> QED BY <1>6, <3>1, <4>1, <4>2
    <3>2. CASE n # NULL
      BY <1>6, <2>0, <3>2
    <3> QED BY <3>1, <3>2
  <2>2. /\ (G.links[q].next = NULL) <=> (q = G.last)
        /\ G.links[q].next # NULL =>
             G.links[q].next = q + HDR + G.links[q].size /\ G.links[q].next \in E /\ G.links[G.links[q].next].prev = q
    <3>1. CASE q = a
      <4>1. G.links[q].next = n /\ G.links[q].size = H.links[a].size + H.links[b].size + HDR
        BY <1>6, <3>1
      <4>2. (n = NULL) <=> (q = G.last)
        BY <1>1, <1>6, <3>1
      <4>3. n # NULL => n = q + HDR + (H.links[a].size + H.links[b].size + HDR)
        <5> SUFFICES ASSUME n # NULL PROVE n = a + HDR + (H.links[a].size + H.links[b].size + HDR)
          BY <3>1
        <5>1. n = b + HDR + H.links[b].size /\ a \in Nat /\ H.links[a].size \in Nat /\ H.links[b].size \in Nat
          BY <1>0, <1>1, <1>3
        <5> QED BY <1>0, <1>1, <5>1
      <4>4. n # NULL => n \in E /\ G.links[n].prev = a
        BY <1>6, <1>7
      <4> QED BY <3>1, <4>1, <4>2, <4>3, <4>4
    <3>2. CASE q # a
      <4>1. G.links[q].next = H.links[q].next /\ G.links[q].size = H.links[q].size
        BY <1>6, <3>2
      <4>2. (q = G.last) <=> (q = H.last)
        BY <1>3, <1>6, <2>0, <3>2
      <4>3. H.links[q].next # NULL => H.links[q].next # n /\ H.links[q].next # b
        BY <1>1, <1>3, <2>0, <3>2
      <4> QED BY <1>6, <1>9, <2>0, <4>1, <4>2, <4>3
    <3> QED BY <3>1, <3>2
  <2>3. /\ (G.links[q].prev = NULL) <=> (q = Root)
        /\ G.links[q].prev # NULL => G.links[q].prev \in E /\ G.links[G.links[q].prev].next = q
    <3>1. CASE q = n
      <4>1. G.links[q].prev = a /\ a # NULL /\ G.links[a].next = q
        BY <1>0, <1>6, <1>7, <3>1
      <4>2. q # Root
        <5>1. n # NULL /\ H.links[q].prev = b /\ b # NULL
          BY <1>0, <1>1, <1>3, <2>0, <3>1
        <5> QED BY <2>0, <5>1
      <4> QED BY <1>7, <4>1, <4>2
    <3>2. CASE q # n
      <4>1. G.links[q].prev = H.links[q].prev
        BY <1>6, <3>2
      <4>2. H.links[q].prev # NULL => H.links[q].prev # b /\ H.links[q].prev # a
        BY <2>0, <3>2 DEF n
      <4> QED BY <1>6, <1>9, <2>0, <4>1, <4>2
    <3> QED BY <3>1, <3>2
  <2> QED BY <2>1, <2>2, <2>3 DEF Linked
<1>12. ASSUME NEW q \in E, NEW x \in E, q < x PROVE q + HDR + G.links[q].size <= x
  <2>0. q \in D /\ x \in D /\ q # b /\ x # b /\ q \in Nat /\ x \in Nat /\ b \in Nat /\ a \in Nat
    BY <1>0, <1>1, <1>8
  <2>1. CASE q # a
    <3>1. G.links[q].size = H.links[q].size
      BY <1>6, <2>1
    <3> QED BY <1>0, <1>12, <2>0, <3>1
  <2>2. CASE q = a
    <3>1. a + HDR + H.links[a].size <= x
      BY <1>0, <1>12, <2>0, <2>2
    <3>2. b < x
      BY <1>1, <2>0, <3>1
    <3>3. b + HDR + H.links[b].size <= x
      BY <1>0, <1>1, <2>0, <3>2
    <3>4. G.links[q].size = H.links[a].size + H.links[b].size + HDR
      BY <1>6, <2>2
    <3>5. H.links[a].size \in Nat /\ H.links[b].size \in Nat
      BY <1>0, <1>1
    <3> QED BY <1>0, <1>1, <2>0, <2>2, <3>3, <3>4, <3>5
  <2> QED BY <2>1, <2>2
<1>13. Chain(G, E)
  <2>1. E \subseteq Nat \ {NULL} /\ Root \in E /\ G.last \in E /\ ~G.links[Root].used
    <3>1. Root \in E
      BY <1>0, <1>2, <1>9
    <3>2. G.last \in E
      BY <1>0, <1>3, <1>6, <1>7, <1>9
    <3> QED BY <1>0, <1>6, <1>8, <3>1, <3>2
  <2> QED BY <1>6, <1>10, <1>11, <1>12, <2>1 DEF Chain
<1>14. T \subseteq E
  BY <1>0, <1>9
<1>15. Stem(G, E, T)
  <2>1. NULL \notin E
    BY <1>0, <1>8
  <2>2. SameNodes(H, G, T)
    BY <1>6, <1>14 DEF SameNodes
  <2>3. Apart(G, E, T)
    <3>1. Apart(H, D, T)
      BY <1>0 DEF Stem
    <3> QED BY <1>6, <1>8, <3>1 DEF Apart
  <2> QED BY <1>0, <1>6, <1>14, <2>1, <2>2, <2>3, StemMoves
<1>16. Good(G, E, T)
  BY <1>0, <1>13, <1>14, <1>15 DEF Good
<1> QED BY <1>5, <1>16 DEF G, E

-----------------------------------------------------------------------------
(* fph_grow.                                                               *)

(* The chain part of fph_grow.                                             *)
GrowChain(H, size) ==
  LET ap == H.last
      bp == ap + H.links[ap].size + HDR
  IN Put([H EXCEPT !.links[ap].next = bp, !.last = bp], bp, Loose(ap, NULL, size))

(* What it leaves: the link e behind the last one.                         *)
GrowDone(H, G, D, size, e) ==
  /\ G \in Heaps(D \cup {e})
  /\ G.last = e
  /\ \A q \in D :
       /\ G.links[q].used = H.links[q].used
       /\ G.links[q].size = H.links[q].size
       /\ G.links[q].next = (IF q = H.last THEN e ELSE H.links[q].next)
       /\ G.links[q].prev = H.links[q].prev
       /\ G.links[q].smaller = H.links[q].smaller /\ G.links[q].bigger = H.links[q].bigger
       /\ G.links[q].parent = H.links[q].parent /\ G.links[q].max = H.links[q].max
  /\ G.links[e] = Loose(H.last, NULL, size)

(* The chain part of fph_grow, field by field.                             *)
LEMMA GrowFields ==
  ASSUME NEW D \in SUBSET Nat, NEW H \in Heaps(D), H.last \in D, NEW size \in Nat,
         NEW e \in Nat \ D, e = H.last + H.links[H.last].size + HDR
  PROVE  GrowDone(H, GrowChain(H, size), D, size, e)
<1> DEFINE bp == H.last + H.links[H.last].size + HDR
           A == [H EXCEPT !.links[H.last].next = bp, !.last = bp]
           G == Put(A, bp, Loose(H.last, NULL, size))
<1>0. DOMAIN H.links = D /\ H.last \in Nat /\ \A q \in D : H.links[q] \in Header
  BY DEF Heaps
<1>1. GrowChain(H, size) = G
  BY Zenon DEF GrowChain
<1>2. e = bp
  OBVIOUS
<1> HIDE DEF bp
<1>3. PICK a, el : a = H.last /\ el = Loose(a, NULL, size)
  OBVIOUS
<1>4. PICK al : al = [H.links[a] EXCEPT !.next = e]
  OBVIOUS
<1>5. /\ a \in D /\ a \in Nat /\ a # e
      /\ al \in Header /\ al.used = H.links[a].used /\ al.prev = H.links[a].prev /\ al.next = e
      /\ al.size = H.links[a].size /\ al.smaller = H.links[a].smaller /\ al.bigger = H.links[a].bigger
      /\ al.parent = H.links[a].parent /\ al.max = H.links[a].max
  BY <1>0, <1>3, <1>4 DEF Header
<1>6. el \in Header
  BY <1>0, <1>3 DEF Loose, Header, NULL
<1> DEFINE fA == [q \in D |-> IF q = a THEN al ELSE H.links[q]]
           E == D \cup {e}
           f == [q \in E |-> IF q = e THEN el ELSE IF q = a THEN al ELSE H.links[q]]
<1>7. A = [last |-> e, links |-> fA]
  <2>1. A = [H EXCEPT !.links = [H.links EXCEPT ![a] = al], !.last = e]
    BY <1>0, <1>2, <1>3, <1>4
  <2>2. [H.links EXCEPT ![a] = al] = fA
    BY <1>0
  <2> HIDE DEF fA, A
  <2>3. A = [H EXCEPT !.links = fA, !.last = e]
    BY <2>1, <2>2
  <2> QED BY <2>3 DEF Heaps
<1> HIDE DEF A
<1>8. G = [last |-> e, links |-> f]
  <2>1. G = [A EXCEPT !.links = [q \in DOMAIN A.links \cup {e} |-> IF q = e THEN el ELSE A.links[q]]]
    BY <1>2, <1>3 DEF Put
  <2>2. [q \in DOMAIN A.links \cup {e} |-> IF q = e THEN el ELSE A.links[q]] = f
    BY <1>7
  <2> HIDE DEF G, f, fA
  <2> QED BY <1>7, <2>1, <2>2
<1> HIDE DEF G
<1>9. /\ \A q \in D : f[q] = IF q = a THEN al ELSE H.links[q]
      /\ f[e] = el
      /\ f \in [E -> Header]
  <2>1. /\ \A q \in D : f[q] = IF q = a THEN al ELSE H.links[q]
        /\ f[e] = el
    OBVIOUS
  <2>2. \A q \in E : f[q] \in Header
    <3> HIDE DEF f
    <3> QED BY <1>0, <1>5, <1>6, <2>1
  <2> QED BY <2>1, <2>2
<1> HIDE DEF f
<1>10. G \in Heaps(E) /\ G.last = e /\ G.links = f
  BY <1>8, <1>9 DEF Heaps
<1>11. \A q \in D :
       /\ G.links[q].used = H.links[q].used
       /\ G.links[q].size = H.links[q].size
       /\ G.links[q].next = (IF q = a THEN e ELSE H.links[q].next)
       /\ G.links[q].prev = H.links[q].prev
       /\ G.links[q].smaller = H.links[q].smaller /\ G.links[q].bigger = H.links[q].bigger
       /\ G.links[q].parent = H.links[q].parent /\ G.links[q].max = H.links[q].max
  BY <1>5, <1>9, <1>10
<1>12. GrowDone(H, G, D, size, e)
  BY <1>3, <1>9, <1>10, <1>11 DEF GrowDone
<1> QED BY <1>1, <1>12

(* The new last link begins where the file ended.                          *)
LEMMA GrowGood ==
  ASSUME NEW D, NEW H, NEW T, Good(H, D, T), NEW size \in Nat,
         NEW e, e = H.last + H.links[H.last].size + HDR
  PROVE  e \notin D /\ Good(GrowChain(H, size), D \cup {e}, T) /\ GrowDone(H, GrowChain(H, size), D, size, e)
<1> DEFINE E == D \cup {e}
           G == GrowChain(H, size)
           a == H.last
<1>0. /\ H \in Heaps(D) /\ D \subseteq Nat \ {NULL} /\ IsFiniteSet(D)
      /\ Root \in D /\ a \in D /\ ~H.links[Root].used
      /\ \A q \in D : Linked(H, D, q) /\ q <= a
      /\ \A q, x \in D : q < x => q + HDR + H.links[q].size <= x
      /\ T \subseteq D /\ Root \in T /\ Stem(H, D, T) /\ HDR \in Nat \ {0}
      /\ \A q \in D : H.links[q].size \in Nat
  BY FpMmAssumption DEF Good, Chain, Heaps, Header
<1>1. e \in Nat \ {NULL} /\ a < e /\ e = a + HDR + H.links[a].size /\ a \in Nat \ {NULL}
  <2>1. a \in Nat \ {NULL} /\ H.links[a].size \in Nat /\ e = a + H.links[a].size + HDR
    BY <1>0
  <2> HIDE DEF a
  <2> QED BY <1>0, <2>1 DEF NULL
<1> HIDE DEF a
<1>2. e \notin D
  BY <1>0, <1>1
<1>3. GrowDone(H, G, D, size, e)
  <2>1. D \in SUBSET Nat /\ e \in Nat \ D /\ H.last \in D
    BY <1>0, <1>1, <1>2 DEF a
  <2> QED BY <1>0, <2>1, GrowFields
<1> HIDE DEF G
<1>4. /\ G \in Heaps(E)
      /\ G.last = e
      /\ \A q \in D :
           /\ G.links[q].used = H.links[q].used
           /\ G.links[q].size = H.links[q].size
           /\ G.links[q].next = (IF q = a THEN e ELSE H.links[q].next)
           /\ G.links[q].prev = H.links[q].prev
           /\ G.links[q].smaller = H.links[q].smaller /\ G.links[q].bigger = H.links[q].bigger
           /\ G.links[q].parent = H.links[q].parent /\ G.links[q].max = H.links[q].max
      /\ G.links[e].prev = a /\ G.links[e].next = NULL /\ G.links[e].size = size
      /\ G.links[e].smaller = NULL /\ G.links[e].bigger = NULL /\ G.links[e].parent = NULL
  BY <1>3 DEF GrowDone, Loose, a
<1>5. E = D \cup {e}
  OBVIOUS
<1> HIDE DEF E
<1>6. ASSUME NEW q \in D PROVE Linked(G, E, q) /\ q <= G.last
  <2>0. /\ (H.links[q].next = NULL) <=> (q = a)
        /\ H.links[q].next # NULL =>
             H.links[q].next = q + HDR + H.links[q].size /\ H.links[q].next \in D /\ H.links[H.links[q].next].prev = q
        /\ (H.links[q].prev = NULL) <=> (q = Root)
        /\ H.links[q].prev # NULL => H.links[q].prev \in D /\ H.links[H.links[q].prev].next = q
        /\ q <= a /\ q \in Nat
    BY <1>0 DEF Linked, a
  <2>1. q <= G.last
    BY <1>1, <1>4, <2>0
  <2>2. /\ (G.links[q].next = NULL) <=> (q = G.last)
        /\ G.links[q].next # NULL =>
             G.links[q].next = q + HDR + G.links[q].size /\ G.links[q].next \in E /\ G.links[G.links[q].next].prev = q
    <3>1. CASE q = a
      BY <1>1, <1>2, <1>4, <1>5, <3>1
    <3>2. CASE q # a
      <4>1. PICK x : x = H.links[q].next
        OBVIOUS
      <4>2. x # NULL /\ x = q + HDR + H.links[q].size /\ x \in D /\ H.links[x].prev = q
        BY <2>0, <3>2, <4>1
      <4>3. /\ G.links[q].next = x /\ G.links[q].size = H.links[q].size
            /\ G.links[x].prev = q /\ q # G.last
        BY <1>2, <1>4, <3>2, <4>1, <4>2
      <4> QED BY <1>5, <4>2, <4>3
    <3> QED BY <3>1, <3>2
  <2>3. /\ (G.links[q].prev = NULL) <=> (q = Root)
        /\ G.links[q].prev # NULL => G.links[q].prev \in E /\ G.links[G.links[q].prev].next = q
    <3>1. q # NULL
      BY <1>0
    <3>2. G.links[q].prev = H.links[q].prev
      BY <1>4
    <3>3. H.links[q].prev # NULL => H.links[q].prev # a
      BY <2>0, <3>1, <1>0 DEF Linked, a
    <3>4. CASE H.links[q].prev = NULL
      BY <2>0, <3>2, <3>4
    <3>5. CASE H.links[q].prev # NULL
      <4>1. PICK x : x = H.links[q].prev
        OBVIOUS
      <4>2. x # NULL /\ x # a /\ x \in D /\ H.links[x].next = q /\ q # Root
        BY <2>0, <3>3, <3>5, <4>1
      <4>3. G.links[q].prev = x /\ G.links[x].next = q
        BY <1>4, <3>2, <4>1, <4>2
      <4> QED BY <1>5, <4>2, <4>3
    <3> QED BY <3>4, <3>5
  <2> QED BY <2>1, <2>2, <2>3 DEF Linked
<1>7. Linked(G, E, e) /\ e <= G.last
  <2>1. G.links[a].next = e /\ a \in E /\ a # NULL /\ e # Root
    BY <1>0, <1>1, <1>2, <1>4, <1>5
  <2>2. e <= G.last /\ e = G.last
    BY <1>1, <1>4
  <2>3. G.links[e].next = NULL /\ G.links[e].prev = a
    BY <1>4
  <2> HIDE DEF E
  <2> QED BY <2>1, <2>2, <2>3 DEF Linked
<1>8. ASSUME NEW q \in E, NEW x \in E, q < x PROVE q + HDR + G.links[q].size <= x
  <2>1. CASE q \in D /\ x \in D
    BY <1>0, <1>4, <1>8, <2>1
  <2>2. CASE q \in D /\ x = e
    <3>1. CASE q = a
      BY <1>0, <1>1, <1>4, <2>2, <3>1
    <3>2. CASE q # a
      <4>1. q < a
        BY <1>0, <1>1, <2>2, <3>2
      <4>2. q + HDR + H.links[q].size <= a
        BY <1>0, <2>2, <4>1
      <4> QED BY <1>0, <1>1, <1>4, <2>2, <4>2
    <3> QED BY <3>1, <3>2
  <2>3. CASE q = e
    <3>1. x <= e /\ x \in Nat
      <4>1. CASE x = e
        BY <1>1, <4>1
      <4>2. CASE x \in D
        BY <1>0, <1>1, <4>2
      <4> QED BY <1>5, <4>1, <4>2
    <3> QED BY <1>1, <1>8, <2>3, <3>1
  <2> QED BY <1>5, <2>1, <2>2, <2>3
<1>9. Chain(G, E)
  <2>1. IsFiniteSet(E)
    BY <1>0, <1>5, FS_AddElement
  <2>2. E \subseteq Nat \ {NULL} /\ Root \in E /\ G.last \in E /\ ~G.links[Root].used
    BY <1>0, <1>1, <1>4, <1>5
  <2>3. \A q \in E : Linked(G, E, q) /\ q <= G.last
    BY <1>5, <1>6, <1>7
  <2> QED BY <1>4, <1>8, <2>1, <2>2, <2>3 DEF Chain
<1>10. Stem(G, E, T)
  <2>1. T \subseteq E /\ NULL \notin E
    BY <1>0, <1>1, <1>5
  <2>2. SameNodes(H, G, T)
    BY <1>0, <1>4 DEF SameNodes
  <2>3. Apart(G, E, T)
    <3>1. Apart(H, D, T)
      BY <1>0 DEF Stem
    <3> QED BY <1>4, <1>5, <3>1 DEF Apart
  <2> QED BY <1>0, <1>4, <2>1, <2>2, <2>3, StemMoves
<1>11. Good(G, E, T)
  BY <1>0, <1>5, <1>9, <1>10 DEF Good
<1> QED BY <1>2, <1>3, <1>5, <1>11 DEF G

-----------------------------------------------------------------------------
(* fph_shrink.                                                             *)

(* The last link z is cut off behind prev.                                 *)
CutChain(H, prev, z) == Drop([H EXCEPT !.links[prev].next = NULL, !.last = prev], z)

CutDone(H, G, D, prev, z) ==
  /\ G \in Heaps(D \ {z})
  /\ G.last = prev
  /\ \A q \in D \ {z} :
       /\ G.links[q].used = H.links[q].used
       /\ G.links[q].size = H.links[q].size
       /\ G.links[q].next = (IF q = prev THEN NULL ELSE H.links[q].next)
       /\ G.links[q].prev = H.links[q].prev
       /\ G.links[q].smaller = H.links[q].smaller /\ G.links[q].bigger = H.links[q].bigger
       /\ G.links[q].parent = H.links[q].parent /\ G.links[q].max = H.links[q].max

(* A round of fph_shrink behind fph_remove, field by field.                *)
LEMMA CutFields ==
  ASSUME NEW D \in SUBSET Nat, NEW H \in Heaps(D), NEW z \in D, NEW a \in D \ {z}
  PROVE  CutDone(H, CutChain(H, a, z), D, a, z)
<1> DEFINE A == [H EXCEPT !.links[a].next = NULL, !.last = a]
           G == Drop(A, z)
           E == D \ {z}
<1>0. DOMAIN H.links = D /\ H.last \in Nat /\ \A q \in D : H.links[q] \in Header
  BY DEF Heaps
<1>1. CutChain(H, a, z) = G
  BY Zenon DEF CutChain
<1>2. PICK al : al = [H.links[a] EXCEPT !.next = NULL]
  OBVIOUS
<1>3. /\ a \in D /\ a \in Nat
      /\ al \in Header /\ al.used = H.links[a].used /\ al.prev = H.links[a].prev /\ al.next = NULL
      /\ al.size = H.links[a].size /\ al.smaller = H.links[a].smaller /\ al.bigger = H.links[a].bigger
      /\ al.parent = H.links[a].parent /\ al.max = H.links[a].max
  BY <1>0, <1>2 DEF Header, NULL
<1> DEFINE fA == [q \in D |-> IF q = a THEN al ELSE H.links[q]]
           f == [q \in E |-> IF q = a THEN al ELSE H.links[q]]
<1>4. A = [last |-> a, links |-> fA]
  <2>1. A = [H EXCEPT !.links = [H.links EXCEPT ![a] = al], !.last = a]
    BY <1>0, <1>2
  <2>2. [H.links EXCEPT ![a] = al] = fA
    BY <1>0
  <2> HIDE DEF fA, A
  <2>3. A = [H EXCEPT !.links = fA, !.last = a]
    BY <2>1, <2>2
  <2> QED BY <2>3 DEF Heaps
<1> HIDE DEF A
<1>5. G = [last |-> a, links |-> f]
  <2>1. G = [A EXCEPT !.links = [q \in DOMAIN A.links \ {z} |-> A.links[q]]]
    BY DEF Drop
  <2>2. [q \in DOMAIN A.links \ {z} |-> A.links[q]] = f
    BY <1>4
  <2> HIDE DEF G, f, fA
  <2> QED BY <1>4, <2>1, <2>2
<1> HIDE DEF G
<1>6. /\ \A q \in E : f[q] = IF q = a THEN al ELSE H.links[q]
      /\ f \in [E -> Header]
  <2>1. \A q \in E : f[q] = IF q = a THEN al ELSE H.links[q]
    OBVIOUS
  <2>2. \A q \in E : f[q] \in Header
    <3> HIDE DEF f
    <3> QED BY <1>0, <1>3, <2>1
  <2> QED BY <2>1, <2>2
<1> HIDE DEF f
<1>7. G \in Heaps(E) /\ G.last = a /\ G.links = f
  BY <1>3, <1>5, <1>6 DEF Heaps
<1>8. \A q \in E :
       /\ G.links[q].used = H.links[q].used
       /\ G.links[q].size = H.links[q].size
       /\ G.links[q].next = (IF q = a THEN NULL ELSE H.links[q].next)
       /\ G.links[q].prev = H.links[q].prev
       /\ G.links[q].smaller = H.links[q].smaller /\ G.links[q].bigger = H.links[q].bigger
       /\ G.links[q].parent = H.links[q].parent /\ G.links[q].max = H.links[q].max
  BY <1>3, <1>6, <1>7
<1>9. CutDone(H, G, D, a, z)
  BY <1>7, <1>8 DEF CutDone
<1> QED BY <1>1, <1>9

(* The link before the last one is the last one then.                      *)
LEMMA CutGood ==
  ASSUME NEW D, NEW H, NEW T, Good(H, D, T), NEW z \in D \ T, z = H.last,
         NEW a, a = H.links[z].prev
  PROVE  a \in D \ {z} /\ Good(CutChain(H, a, z), D \ {z}, T) /\ CutDone(H, CutChain(H, a, z), D, a, z)
<1> DEFINE E == D \ {z}
           G == CutChain(H, a, z)
<1>0. /\ H \in Heaps(D) /\ D \subseteq Nat \ {NULL} /\ IsFiniteSet(D)
      /\ Root \in D /\ z \in D /\ ~H.links[Root].used
      /\ \A q \in D : Linked(H, D, q) /\ q <= z
      /\ \A q, x \in D : q < x => q + HDR + H.links[q].size <= x
      /\ T \subseteq D /\ Root \in T /\ Stem(H, D, T) /\ HDR \in Nat \ {0}
      /\ \A q \in D : H.links[q].size \in Nat
  BY FpMmAssumption DEF Good, Chain, Heaps, Header
<1>1. z # Root /\ a # NULL /\ a \in D /\ H.links[a].next = z /\ z # NULL
  BY <1>0 DEF Linked
<1>2. a < z /\ a # z /\ z = a + HDR + H.links[a].size
  <2>1. z = a + HDR + H.links[a].size
    <3>1. Linked(H, D, a)
      BY <1>0, <1>1
    <3> QED BY <1>1, <3>1 DEF Linked
  <2>2. PICK k : k = H.links[a].size
    OBVIOUS
  <2>3. z \in Nat /\ a \in Nat /\ k \in Nat /\ HDR \in Nat \ {0}
    BY <1>0, <1>1, <2>2
  <2>4. z = a + HDR + k
    BY <2>1, <2>2
  <2>5. a + HDR + k \in Nat /\ a < a + HDR + k /\ a # a + HDR + k
    BY <2>3
  <2>6. a < z /\ a # z
    BY <2>4, <2>5
  <2> QED BY <2>1, <2>6
<1>3. CutDone(H, G, D, a, z)
  <2>1. D \in SUBSET Nat /\ a \in D \ {z}
    BY <1>0, <1>1, <1>2
  <2> QED BY <1>0, <2>1, CutFields
<1> HIDE DEF G
<1>4. /\ G \in Heaps(E)
      /\ G.last = a
      /\ \A q \in E :
           /\ G.links[q].used = H.links[q].used
           /\ G.links[q].size = H.links[q].size
           /\ G.links[q].next = (IF q = a THEN NULL ELSE H.links[q].next)
           /\ G.links[q].prev = H.links[q].prev
           /\ G.links[q].smaller = H.links[q].smaller /\ G.links[q].bigger = H.links[q].bigger
           /\ G.links[q].parent = H.links[q].parent /\ G.links[q].max = H.links[q].max
  BY <1>3 DEF CutDone
<1>5. /\ \A q \in E : q \in D /\ q # z
      /\ \A q \in D : q # z => q \in E
      /\ IsFiniteSet(E)
  BY <1>0, FS_RemoveElement
<1> HIDE DEF E
<1>6. ASSUME NEW q \in E PROVE Linked(G, E, q) /\ q <= G.last
  <2>0. /\ (H.links[q].next = NULL) <=> (q = z)
        /\ H.links[q].next # NULL =>
             H.links[q].next = q + HDR + H.links[q].size /\ H.links[q].next \in D /\ H.links[H.links[q].next].prev = q
        /\ (H.links[q].prev = NULL) <=> (q = Root)
        /\ H.links[q].prev # NULL => H.links[q].prev \in D /\ H.links[H.links[q].prev].next = q
        /\ q <= z /\ q \in Nat /\ q \in D /\ q # z
    BY <1>0, <1>5 DEF Linked
  <2>1. q <= G.last
    <3>1. ~(a < q)
      <4> SUFFICES ASSUME a < q PROVE FALSE
        OBVIOUS
      <4>1. a + HDR + H.links[a].size <= q
        BY <1>0, <1>1, <2>0
      <4>2. z <= q
        BY <1>2, <4>1
      <4>3. q \in Nat /\ z \in Nat /\ q <= z /\ q # z
        BY <1>0, <2>0
      <4> QED BY <4>2, <4>3
    <3> QED BY <1>0, <1>1, <1>4, <2>0, <3>1
  <2>2. /\ (G.links[q].next = NULL) <=> (q = G.last)
        /\ G.links[q].next # NULL =>
             G.links[q].next = q + HDR + G.links[q].size /\ G.links[q].next \in E /\ G.links[G.links[q].next].prev = q
    <3>1. CASE q = a
      BY <1>4, <3>1
    <3>2. CASE q # a
      <4>1. H.links[q].next # z
        BY <1>0, <1>1, <2>0, <3>2
      <4>2. G.links[q].next = H.links[q].next /\ G.links[q].size = H.links[q].size /\ q # G.last
        BY <1>4, <3>2
      <4>3. H.links[q].next \in E
        BY <1>5, <2>0, <4>1
      <4>4. G.links[H.links[q].next].prev = H.links[H.links[q].next].prev
        BY <1>4, <4>3
      <4> QED BY <2>0, <4>2, <4>3, <4>4
    <3> QED BY <3>1, <3>2
  <2>3. /\ (G.links[q].prev = NULL) <=> (q = Root)
        /\ G.links[q].prev # NULL => G.links[q].prev \in E /\ G.links[G.links[q].prev].next = q
    <3>1. G.links[q].prev = H.links[q].prev
      BY <1>4
    <3>2. H.links[q].prev # NULL => H.links[q].prev # z /\ H.links[q].prev # a
      <4>1. Linked(H, D, z) /\ NULL \notin D
        BY <1>0
      <4>2. H.links[z].next = NULL /\ q # NULL
        BY <1>0, <2>0, <4>1 DEF Linked
      <4> QED BY <1>1, <2>0, <4>2
    <3>3. H.links[q].prev # NULL => H.links[q].prev \in E /\ G.links[H.links[q].prev].next = H.links[H.links[q].prev].next
      <4>1. H.links[q].prev # NULL => H.links[q].prev \in E
        BY <1>5, <2>0, <3>2
      <4> QED BY <1>4, <3>2, <4>1
    <3> QED BY <2>0, <3>1, <3>3
  <2> QED BY <2>1, <2>2, <2>3 DEF Linked
<1>7. Chain(G, E)
  <2>1. E \subseteq Nat \ {NULL} /\ Root \in E /\ G.last \in E /\ ~G.links[Root].used
    BY <1>0, <1>1, <1>2, <1>4, <1>5
  <2>2. \A q, x \in E : q < x => q + HDR + G.links[q].size <= x
    BY <1>0, <1>4, <1>5
  <2> QED BY <1>4, <1>5, <1>6, <2>1, <2>2 DEF Chain
<1>8. T \subseteq E
  BY <1>0, <1>5
<1>9. Stem(G, E, T)
  <2>1. NULL \notin E
    BY <1>0, <1>5
  <2>2. SameNodes(H, G, T)
    BY <1>4, <1>8 DEF SameNodes
  <2>3. Apart(G, E, T)
    <3>1. Apart(H, D, T)
      BY <1>0 DEF Stem
    <3> QED BY <1>4, <1>5, <3>1 DEF Apart
  <2> QED BY <1>0, <1>4, <1>8, <2>1, <2>2, <2>3, StemMoves
<1>10. Good(G, E, T)
  BY <1>0, <1>7, <1>8, <1>9 DEF Good
<1> QED BY <1>1, <1>2, <1>3, <1>10 DEF G, E

-----------------------------------------------------------------------------
(* The heap between two calls, and in the middle of fphFree.               *)

FreeOf(H, D) == {p \in D : ~H.links[p].used}
Live(H, D) == {p \in D : H.links[p].used}

(* No two links of the tree are neighbours.                                *)
Alone(H, T) == \A p \in T \ {Root} : H.links[p].next \notin T \ {Root}

Sound(H, D) == Good(H, D, FreeOf(H, D)) /\ Alone(H, FreeOf(H, D))

(* e is free but not in the tree.                                          *)
Half(H, D, T, e) ==
  /\ Good(H, D, T) /\ Alone(H, T)
  /\ e \in D \ T /\ FreeOf(H, D) = T \cup {e}

(* The blocks in use are the same.                                         *)
Keeps(H, D, G, E) ==
  /\ Live(G, E) = Live(H, D)
  /\ \A q \in Live(H, D) : G.links[q].size = H.links[q].size

(* Two steps that keep the blocks, one after the other.                    *)
LEMMA KeepsTrans ==
  ASSUME NEW H, NEW D, NEW G, NEW E, NEW A, NEW B, Keeps(H, D, G, E), Keeps(G, E, A, B)
  PROVE  Keeps(H, D, A, B)
BY DEF Keeps

(* What changes only the tree keeps the blocks.                            *)
LEMMA KeepsSame ==
  ASSUME NEW H, NEW D, NEW G, SameChain(H, G, D)
  PROVE  Keeps(H, D, G, D) /\ FreeOf(G, D) = FreeOf(H, D)
BY DEF Keeps, Live, FreeOf, SameChain

(* The links around p, one by one.                                         *)
LEMMA Around ==
  ASSUME NEW H, NEW D, NEW T, Good(H, D, T), NEW p \in D
  PROVE  /\ p \in Nat \ {NULL} /\ NULL \notin D /\ Root \in D /\ Root \in T /\ T \subseteq D /\ H.last \in D
         /\ DOMAIN H.links = D /\ ~H.links[Root].used
         /\ H.links[p].size \in Nat /\ HDR \in Nat \ {0} /\ p <= H.last
         /\ (H.links[p].next = NULL) <=> (p = H.last)
         /\ H.links[p].next # NULL =>
              /\ H.links[p].next \in D /\ H.links[H.links[p].next].prev = p /\ H.links[p].next # Root
              /\ p < H.links[p].next /\ H.links[p].next = p + HDR + H.links[p].size
         /\ (H.links[p].prev = NULL) <=> (p = Root)
         /\ H.links[p].prev # NULL =>
              /\ H.links[p].prev \in D /\ H.links[H.links[p].prev].next = p
<1>1. /\ p \in Nat \ {NULL} /\ NULL \notin D /\ Root \in D /\ Root \in T /\ T \subseteq D /\ H.last \in D
      /\ DOMAIN H.links = D /\ ~H.links[Root].used
      /\ H.links[p].size \in Nat /\ HDR \in Nat \ {0} /\ p <= H.last /\ Linked(H, D, p) /\ Linked(H, D, Root)
  BY FpMmAssumption DEF Good, Chain, Heaps, Header
<1>2. /\ (H.links[p].next = NULL) <=> (p = H.last)
      /\ H.links[p].next # NULL =>
              /\ H.links[p].next \in D /\ H.links[H.links[p].next].prev = p
              /\ H.links[p].next = p + HDR + H.links[p].size
      /\ (H.links[p].prev = NULL) <=> (p = Root)
      /\ H.links[p].prev # NULL =>
              /\ H.links[p].prev \in D /\ H.links[H.links[p].prev].next = p
      /\ H.links[Root].prev = NULL
  BY <1>1 DEF Linked
<1>3. H.links[p].next # NULL => H.links[p].next # Root /\ p < H.links[p].next
  <2>1. PICK n, k : n = H.links[p].next /\ k = H.links[p].size
    OBVIOUS
  <2>2. n # NULL => n # Root
    BY <1>1, <1>2, <2>1
  <2>3. n # NULL => p < n
    <3>1. n # NULL => n = p + HDR + k
      BY <1>2, <2>1
    <3>2. k \in Nat /\ HDR \in Nat \ {0} /\ p \in Nat
      BY <1>1, <2>1
    <3>3. p < p + HDR + k
      BY <3>2
    <3> QED BY <3>1, <3>3
  <2> QED BY <2>1, <2>2, <2>3
<1> QED BY <1>1, <1>2, <1>3

(* fph_coalesce1, for one of the neighbours: x leaves the tree, and of x   *)
(* and e the one behind becomes a part of the one before.                  *)
Joined(H, G, D, T, x, a, b) ==
  /\ Half(G, D \ {b}, T \ {x}, a) /\ Keeps(H, D, G, D \ {b})
  /\ \A q \in D \ {b} : G.links[q].next = IF q = a THEN H.links[b].next ELSE H.links[q].next
  /\ G.links[a].prev = H.links[a].prev

(* fph_merge with a free neighbour keeps everything sound but for e.       *)
LEMMA Joins ==
  ASSUME NEW H, NEW D, NEW T, NEW e, Half(H, D, T, e), NEW x \in T \ {Root}, NEW post \in BOOLEAN,
         NEW a, NEW b, (a = e /\ b = x) \/ (a = x /\ b = e), b = H.links[a].next
  PROVE  Joined(H, fph_merge(fph_remove(H, x, post), a, b), D, T, x, a, b)
<1>1. PICK A : A = fph_remove(H, x, post)
  OBVIOUS
<1>2. PICK G : G = fph_merge(A, a, b)
  OBVIOUS
<1>0. Good(H, D, T) /\ Alone(H, T) /\ e \in D \ T /\ FreeOf(H, D) = T \cup {e} /\ T \subseteq D /\ Root \in T
  BY DEF Half, Good
<1>3. Good(A, D, T \ {x}) /\ SameChain(H, A, D)
  BY <1>0, <1>1, RemoveGood
<1>4. PICK U : U = T \ {x}
  OBVIOUS
<1>5. a \in D \ U /\ b \in D \ U /\ Root \in U
  BY <1>0, <1>4
<1>6. A.links[a].next = b /\ b # NULL
  <2>1. A.links[a].next = H.links[a].next
    BY <1>3, <1>5 DEF SameChain
  <2> QED BY <1>0, <1>5, <2>1, Around
<1>7. Good(G, D \ {b}, U) /\ MergeDone(A, G, D, a, b)
  BY <1>2, <1>3, <1>4, <1>5, <1>6, MergeGood
<1>8. \A q \in D : A.links[q].used = H.links[q].used /\ A.links[q].next = H.links[q].next
                   /\ A.links[q].prev = H.links[q].prev /\ A.links[q].size = H.links[q].size
  BY <1>3 DEF SameChain
<1>9. \A q \in D \ {b} :
        /\ G.links[q].used = H.links[q].used
        /\ G.links[q].next = (IF q = a THEN H.links[b].next ELSE H.links[q].next)
        /\ q # a => G.links[q].size = H.links[q].size
        /\ G.links[q].prev = (IF q = H.links[b].next THEN a ELSE H.links[q].prev)
  BY <1>5, <1>7, <1>8 DEF MergeDone
<1>10. a # b /\ a # H.links[b].next
  <2>1. H.links[a].next = b /\ b # NULL /\ a \in D /\ b \in D
    BY <1>5, <1>6
  <2>2. a < b /\ a \in Nat \ {NULL} /\ b \in Nat
    BY <1>0, <2>1, Around
  <2>3. H.links[b].next # NULL => b < H.links[b].next
    BY <1>0, <2>1, Around
  <2>4. PICK n : n = H.links[b].next
    OBVIOUS
  <2>5. n # NULL => b < n /\ n \in D
    BY <1>0, <2>1, <2>3, <2>4, Around
  <2>6. n # NULL => n \in Nat
    BY <1>0, <2>5, Around
  <2> QED BY <2>2, <2>4, <2>5, <2>6
<1>11. ~H.links[a].used /\ ~H.links[b].used
  <2>1. a \in FreeOf(H, D) /\ b \in FreeOf(H, D)
    BY <1>0
  <2> QED BY <2>1 DEF FreeOf
<1>12. Keeps(H, D, G, D \ {b})
  <2>1. Live(G, D \ {b}) = Live(H, D)
    BY <1>9, <1>11 DEF Live
  <2>2. \A q \in Live(H, D) : q \in D \ {b} /\ q # a
    BY <1>11 DEF Live
  <2> QED BY <1>9, <2>1, <2>2 DEF Keeps
<1>13. FreeOf(G, D \ {b}) = U \cup {a}
  <2>1. FreeOf(G, D \ {b}) = FreeOf(H, D) \ {b}
    BY <1>9 DEF FreeOf
  <2> QED BY <1>0, <1>4, <1>10, <2>1
<1>14. Alone(G, U)
  <2>1. ASSUME NEW q \in U \ {Root} PROVE G.links[q].next \notin U \ {Root}
    <3>1. q \in D \ {b} /\ q # a /\ q \in T \ {Root}
      BY <1>0, <1>4, <1>5
    <3>2. H.links[q].next \notin T \ {Root}
      BY <1>0, <3>1 DEF Alone
    <3> QED BY <1>4, <1>9, <3>1, <3>2
  <2> QED BY <2>1 DEF Alone
<1>15. G.links[a].prev = H.links[a].prev
  BY <1>5, <1>9, <1>10
<1>16. Half(G, D \ {b}, U, a)
  BY <1>5, <1>7, <1>10, <1>13, <1>14 DEF Half
<1> QED BY <1>1, <1>2, <1>4, <1>9, <1>12, <1>15, <1>16 DEF Joined

(* What fph_coalesce1 leaves: a free link at without free neighbours.      *)
Coalesced(H, D, G, at, E, U) ==
  /\ Half(G, E, U, at) /\ Keeps(H, D, G, E)
  /\ G.links[at].next \notin U \ {Root}
  /\ \A q \in U \ {Root} : G.links[q].next # at

(* fph_coalesce1: the link behind e joins e if it is free.                 *)
LEMMA JoinsNext ==
  ASSUME NEW H, NEW D, NEW T, NEW e, Half(H, D, T, e), NEW post \in BOOLEAN,
         NEW n, n = H.links[e].next,
         NEW A, A = IF n # NULL /\ ~H.links[n].used THEN fph_merge(fph_remove(H, n, post), e, n) ELSE H
  PROVE  \E E, U : /\ Half(A, E, U, e) /\ Keeps(H, D, A, E) /\ E \subseteq D
                   /\ A.links[e].next \notin U \ {Root}
                   /\ A.links[e].prev = H.links[e].prev
                   /\ H.links[e].prev \in E
<1>0. Good(H, D, T) /\ Alone(H, T) /\ e \in D \ T /\ FreeOf(H, D) = T \cup {e} /\ T \subseteq D /\ Root \in T
  BY DEF Half, Good
<1>1. H.links[e].prev \in D /\ H.links[H.links[e].prev].next = e
  BY <1>0, Around
<1>2. CASE n # NULL /\ ~H.links[n].used
  <2>1. n \in D /\ n # Root /\ n # e
    BY <1>0, <1>2, Around
  <2>2. n \in T \ {Root}
    <3>1. n \in FreeOf(H, D)
      BY <1>2, <2>1 DEF FreeOf
    <3> QED BY <1>0, <2>1, <3>1
  <2>3. Joined(H, A, D, T, n, e, n)
    BY <1>2, <2>2, Joins
  <2>4. H.links[e].prev # n
    <3> SUFFICES ASSUME H.links[e].prev = n PROVE FALSE
      OBVIOUS
    <3>1. H.links[n].next = e /\ e \in Nat /\ n \in Nat /\ e < n
      BY <1>0, <1>1, <1>2, <2>1, Around
    <3>2. e # NULL
      BY <1>0, Around
    <3>3. n < e
      BY <1>0, <2>1, <3>1, <3>2, Around
    <3> QED BY <3>1, <3>3
  <2>5. A.links[e].next \notin (T \ {n}) \ {Root}
    <3>1. A.links[e].next = H.links[n].next
      BY <1>0, <2>1, <2>3 DEF Joined
    <3>2. H.links[n].next \notin T \ {Root}
      BY <1>0, <2>2 DEF Alone
    <3> QED BY <3>1, <3>2
  <2>6. Half(A, D \ {n}, T \ {n}, e) /\ Keeps(H, D, A, D \ {n}) /\ A.links[e].prev = H.links[e].prev
    BY <2>3 DEF Joined
  <2>7. D \ {n} \subseteq D /\ H.links[e].prev \in D \ {n}
    BY <1>1, <2>4
  <2> QED BY <2>5, <2>6, <2>7
<1>3. CASE ~(n # NULL /\ ~H.links[n].used)
  <2>1. A = H
    BY <1>3
  <2>2. n \notin T \ {Root}
    <3>1. \A q \in T : q # NULL /\ q \in FreeOf(H, D)
      BY <1>0, Around
    <3>2. \A q \in T : ~H.links[q].used
      BY <3>1 DEF FreeOf
    <3> QED BY <1>3, <3>1, <3>2
  <2>3. Keeps(H, D, H, D)
    BY DEF Keeps
  <2> QED BY <1>1, <2>1, <2>2, <2>3
<1> QED BY <1>2, <1>3

(* fph_coalesce1: then e joins the link before it.                         *)
LEMMA Coalesces ==
  ASSUME NEW H, NEW D, NEW T, NEW e, Half(H, D, T, e), NEW post, post.next \in BOOLEAN, post.prev \in BOOLEAN,
         NEW c, c = fph_coalesce1(H, e, post)
  PROVE  \E E, U : Coalesced(H, D, c.h, c.at, E, U)
<1> DEFINE n == H.links[e].next
           A == IF n # NULL /\ ~H.links[n].used
                THEN fph_merge(fph_remove(H, n, post.next), e, n) ELSE H
           prev == H.links[e].prev
           joins == H.links[prev].prev # NULL /\ ~H.links[prev].used
<1>1. c = IF joins THEN [at |-> prev, h |-> fph_merge(fph_remove(A, prev, post.prev), prev, e)]
          ELSE [at |-> e, h |-> A]
  BY Zenon DEF fph_coalesce1
<1>2. \E E, U : /\ Half(A, E, U, e) /\ Keeps(H, D, A, E) /\ E \subseteq D
                /\ A.links[e].next \notin U \ {Root}
                /\ A.links[e].prev = prev
                /\ prev \in E
  <2>1. PICK a, m : a = A /\ m = n
    OBVIOUS
  <2>2. a = IF m # NULL /\ ~H.links[m].used THEN fph_merge(fph_remove(H, m, post.next), e, m) ELSE H
    BY <2>1
  <2>3. m = H.links[e].next
    BY <2>1
  <2> HIDE DEF A
  <2>4. \E E, U : /\ Half(a, E, U, e) /\ Keeps(H, D, a, E) /\ E \subseteq D
                  /\ a.links[e].next \notin U \ {Root}
                  /\ a.links[e].prev = H.links[e].prev
                  /\ H.links[e].prev \in E
    BY <2>2, <2>3, JoinsNext
  <2> QED BY <2>1, <2>4
<1> HIDE DEF A
<1>3. PICK E, U : /\ Half(A, E, U, e) /\ Keeps(H, D, A, E) /\ E \subseteq D
                  /\ A.links[e].next \notin U \ {Root}
                  /\ A.links[e].prev = prev
                  /\ prev \in E
  BY <1>2
<1>4. Good(A, E, U) /\ Alone(A, U) /\ e \in E \ U /\ FreeOf(A, E) = U \cup {e} /\ U \subseteq E /\ Root \in U /\ prev \in D
  BY <1>3 DEF Half, Good
<1>5. prev # NULL /\ A.links[prev].next = e /\ e # Root /\ prev # e
  <2>1. prev # NULL /\ A.links[prev].next = e /\ e # Root /\ e # NULL
    BY <1>3, <1>4, Around
  <2>2. prev < e /\ prev \in Nat
    BY <1>3, <1>4, <2>1, Around
  <2> QED BY <2>1, <2>2
<1>6. A.links[prev].used <=> H.links[prev].used
  <2>1. Live(A, E) = Live(H, D)
    BY <1>3 DEF Keeps
  <2>2. prev \in Live(A, E) <=> prev \in Live(H, D)
    BY <2>1
  <2> HIDE DEF prev
  <2> QED BY <1>3, <1>4, <2>2 DEF Live
<1>7. H.links[prev].prev # NULL <=> prev # Root
  <2>1. Good(H, D, T)
    BY DEF Half
  <2> QED BY <1>4, <2>1, Around
<1>8. CASE joins
  <2>1. prev \in U \ {Root}
    <3>1. prev # Root /\ prev \in FreeOf(A, E)
      BY <1>3, <1>6, <1>7, <1>8 DEF FreeOf
    <3> QED BY <1>4, <1>5, <3>1
  <2>2. PICK G, p : p = prev /\ G = fph_merge(fph_remove(A, p, post.prev), p, e)
    OBVIOUS
  <2>3. Joined(A, G, E, U, p, p, e)
    <3>1. e = A.links[p].next /\ p \in U \ {Root} /\ Half(A, E, U, e)
      BY <1>3, <1>5, <2>1, <2>2
    <3> QED BY <2>2, <3>1, Joins
  <2>4. c.h = G /\ c.at = p
    <3>1. c = [at |-> p, h |-> G]
      BY <1>1, <1>8, <2>2
    <3> QED BY <3>1
  <2> HIDE DEF prev, joins
  <2>5. Half(G, E \ {e}, U \ {p}, p) /\ Keeps(A, E, G, E \ {e})
    BY <2>3 DEF Joined
  <2>6. Keeps(H, D, G, E \ {e})
    BY <1>3, <2>5, KeepsTrans
  <2>7. G.links[p].next \notin (U \ {p}) \ {Root}
    <3>1. G.links[p].next = A.links[e].next
      BY <1>3, <1>5, <2>2, <2>3 DEF Joined
    <3> QED BY <1>3, <3>1
  <2>8. ASSUME NEW q \in (U \ {p}) \ {Root} PROVE G.links[q].next # p
    <3>1. G.links[q].next = A.links[q].next
      BY <1>4, <2>3 DEF Joined
    <3>2. A.links[q].next \notin U \ {Root}
      BY <1>4 DEF Alone
    <3> QED BY <2>1, <2>2, <3>1, <3>2
  <2>9. Coalesced(H, D, G, p, E \ {e}, U \ {p})
    BY <2>5, <2>6, <2>7, <2>8 DEF Coalesced
  <2> QED BY <2>4, <2>9
<1>9. CASE ~joins
  <2>1. c.h = A /\ c.at = e
    <3>1. c = [at |-> e, h |-> A]
      BY <1>1, <1>9
    <3> HIDE DEF joins
    <3> QED BY <3>1
  <2>2. ASSUME NEW q \in U \ {Root}, A.links[q].next = e PROVE FALSE
    <3>1. A.links[e].prev = q /\ q \in E
      BY <1>4, <2>2, Around
    <3>2. q = prev
      BY <1>3, <3>1
    <3>3. q \in FreeOf(A, E)
      BY <1>4
    <3>4. ~A.links[prev].used
      BY <3>2, <3>3 DEF FreeOf
    <3> QED BY <1>6, <1>7, <1>9, <3>2, <3>4
  <2>3. Coalesced(H, D, A, e, E, U)
    BY <1>3, <2>2 DEF Coalesced
  <2> QED BY <2>1, <2>3
<1> QED BY <1>8, <1>9

(* The joined link goes into the tree.                                     *)
LEMMA Returns ==
  ASSUME NEW H, NEW D, NEW G, NEW at, NEW E, NEW U, Coalesced(H, D, G, at, E, U)
  PROVE  Sound(fph_insert(G, at), E) /\ Keeps(H, D, fph_insert(G, at), E)
<1>0. /\ Good(G, E, U) /\ Alone(G, U) /\ at \in E \ U /\ FreeOf(G, E) = U \cup {at} /\ U \subseteq E
      /\ Keeps(H, D, G, E) /\ G.links[at].next \notin U \ {Root}
      /\ \A q \in U \ {Root} : G.links[q].next # at
  BY DEF Coalesced, Half, Good
<1>1. PICK F : F = fph_insert(G, at)
  OBVIOUS
<1>2. Good(F, E, U \cup {at}) /\ SameChain(G, F, E)
  BY <1>0, <1>1, InsertGood
<1>3. Keeps(G, E, F, E) /\ FreeOf(F, E) = U \cup {at}
  BY <1>0, <1>2, KeepsSame
<1>4. G.links[at].next # at
  <2>1. at \in Nat \ {NULL} /\ (G.links[at].next # NULL => at < G.links[at].next)
    BY <1>0, Around
  <2> QED BY <2>1
<1>5. ASSUME NEW q \in (U \cup {at}) \ {Root} PROVE F.links[q].next \notin (U \cup {at}) \ {Root}
  <2>1. F.links[q].next = G.links[q].next
    BY <1>0, <1>2 DEF SameChain
  <2>2. CASE q = at
    BY <1>0, <1>4, <2>1, <2>2
  <2>3. CASE q # at
    <3>1. q \in U \ {Root}
      BY <2>3
    <3>2. G.links[q].next \notin U \ {Root} /\ G.links[q].next # at
      BY <1>0, <3>1 DEF Alone
    <3> QED BY <2>1, <3>2
  <2> QED BY <2>2, <2>3
<1>6. Sound(F, E)
  <2>1. Alone(F, U \cup {at})
    BY <1>5 DEF Alone
  <2> QED BY <1>2, <1>3, <2>1 DEF Sound
<1>7. Keeps(H, D, F, E)
  BY <1>0, <1>3, KeepsTrans
<1> QED BY <1>1, <1>6, <1>7

-----------------------------------------------------------------------------
(* fph_shrink.                                                             *)

(* One round.                                                              *)
LEMMA Cuts ==
  ASSUME NEW H, NEW D, Sound(H, D), NEW post \in BOOLEAN,
         NEW z, z = H.last, NEW a, a = H.links[z].prev, a # NULL, ~H.links[z].used,
         NEW G, G = CutChain(fph_remove(H, z, post), a, z)
  PROVE  Sound(G, D \ {z}) /\ Keeps(H, D, G, D \ {z})
<1>1. PICK T : T = FreeOf(H, D)
  OBVIOUS
<1>2. PICK A : A = fph_remove(H, z, post)
  OBVIOUS
<1>3. Good(H, D, T) /\ Alone(H, T) /\ Root \in T /\ T \subseteq D
  BY <1>1 DEF Sound, Good
<1>4. z \in D
  BY <1>3, Around
<1>5. z \in T \ {Root}
  <2>1. z # Root
    BY <1>3, <1>4, Around
  <2>2. z \in FreeOf(H, D)
    BY <1>4 DEF FreeOf
  <2> QED BY <1>1, <2>1, <2>2
<1>6. Good(A, D, T \ {z}) /\ SameChain(H, A, D)
  BY <1>2, <1>3, <1>5, RemoveGood
<1>7. PICK U : U = T \ {z}
  OBVIOUS
<1>8. A.last = z /\ A.links[z].prev = a /\ z \in D \ U
  BY <1>4, <1>6, <1>7 DEF SameChain
<1>9. a \in D \ {z} /\ Good(G, D \ {z}, U) /\ CutDone(A, G, D, a, z)
  BY <1>2, <1>6, <1>7, <1>8, CutGood
<1>10. \A q \in D \ {z} :
         /\ G.links[q].used = H.links[q].used /\ G.links[q].size = H.links[q].size
         /\ G.links[q].next = IF q = a THEN NULL ELSE H.links[q].next
  <2> TAKE q \in D \ {z}
  <2>1. /\ G.links[q].used = A.links[q].used /\ G.links[q].size = A.links[q].size
        /\ G.links[q].next = IF q = a THEN NULL ELSE A.links[q].next
    BY <1>9 DEF CutDone
  <2>2. /\ A.links[q].used = H.links[q].used /\ A.links[q].size = H.links[q].size
        /\ A.links[q].next = H.links[q].next
    BY <1>6 DEF SameChain
  <2> QED BY <2>1, <2>2
<1>11. FreeOf(G, D \ {z}) = U
  BY <1>1, <1>7, <1>10 DEF FreeOf
<1>12. Alone(G, U)
  <2>1. ASSUME NEW q \in U \ {Root} PROVE G.links[q].next \notin U \ {Root}
    <3>1. q \in D \ {z} /\ q \in T \ {Root}
      BY <1>3, <1>7
    <3>2. H.links[q].next \notin T \ {Root}
      BY <1>3, <3>1 DEF Alone
    <3>3. NULL \notin U
      BY <1>3, <1>4, <1>7, Around
    <3> QED BY <1>7, <1>10, <3>1, <3>2, <3>3
  <2> QED BY <2>1 DEF Alone
<1>13. Keeps(H, D, G, D \ {z})
  <2>1. Live(G, D \ {z}) = Live(H, D)
    BY <1>10 DEF Live
  <2>2. \A q \in Live(H, D) : q \in D \ {z}
    BY DEF Live
  <2> QED BY <1>10, <2>1, <2>2 DEF Keeps
<1> QED BY <1>9, <1>11, <1>12, <1>13 DEF Sound

(* fph_shrink: as many rounds as there are.                                *)
LEMMA Shrinks ==
  ASSUME NEW H, NEW D, Sound(H, D), NEW post \in BOOLEAN
  PROVE  \E E : Sound(fph_shrink(H, post), E) /\ Keeps(H, D, fph_shrink(H, post), E)
<1> DEFINE Cut(G) == LET prev == G.links[G.last].prev
                         A == fph_remove(G, G.last, post)
                     IN Drop([A EXCEPT !.links[prev].next = NULL, !.last = prev], G.last)
           Large(l) == ~l.used /\ l.prev # NULL /\ l.size >= 2 * fragment_size
           Body(F) == [n \in 0 .. Cardinality(DOMAIN H.links) |->
             IF n = 0 THEN H
             ELSE LET G == F[n - 1] IN IF Large(G.links[G.last]) THEN Cut(G) ELSE G]
           K == CHOOSE F : F = Body(F)
           N == Cardinality(DOMAIN H.links)
           Step(G) == IF Large(G.links[G.last]) THEN Cut(G) ELSE G
           Fine(G) == \E E : Sound(G, E) /\ Keeps(H, D, G, E)
<1>1. fph_shrink(H, post) = K[N]
  BY Zenon DEF fph_shrink
<1>2. N \in Nat
  <2>1. DOMAIN H.links = D /\ IsFiniteSet(D)
    BY DEF Sound, Good, Chain, Heaps
  <2> QED BY <2>1, FS_CardinalityType
<1>3. Fine(H)
  <2>1. Keeps(H, D, H, D)
    BY DEF Keeps
  <2> QED BY <2>1
<1>4. ASSUME NEW G, Fine(G) PROVE Fine(Step(G))
  <2>1. PICK E : Sound(G, E) /\ Keeps(H, D, G, E)
    BY <1>4
  <2>2. CASE Large(G.links[G.last])
    <3>1. PICK z, a : z = G.last /\ a = G.links[z].prev
      OBVIOUS
    <3>2. a # NULL /\ ~G.links[z].used
      BY <2>2, <3>1
    <3>3. PICK F : F = CutChain(fph_remove(G, z, post), a, z)
      OBVIOUS
    <3>4. Sound(F, E \ {z}) /\ Keeps(G, E, F, E \ {z})
      BY <2>1, <3>1, <3>2, <3>3, Cuts
    <3>5. Keeps(H, D, F, E \ {z})
      BY <2>1, <3>4, KeepsTrans
    <3>6. Cut(G) = F
      BY Zenon, <3>1, <3>3 DEF CutChain
    <3>7. Step(G) = F
      <4> HIDE DEF Cut, Large
      <4> QED BY <2>2, <3>6
    <3> QED BY <3>4, <3>5, <3>7
  <2>3. CASE ~Large(G.links[G.last])
    <3>1. Step(G) = G
      <4> HIDE DEF Cut, Large
      <4> QED BY <2>3
    <3> HIDE DEF Step
    <3> QED BY <2>1, <3>1
  <2> QED BY <2>2, <2>3
<1> DEFINE Part(F, m) == DOMAIN F = 0 .. m /\ F[0] = H /\ \A n \in 1 .. m : F[n] = Step(F[n - 1])
<1>5. \A F : F = Body(F) <=> F = [n \in 0 .. N |-> IF n = 0 THEN H ELSE Step(F[n - 1])]
  OBVIOUS
<1> HIDE DEF Body, Step, Fine, N, Cut, Large
<1>6. \A m \in Nat : \E F : F = [n \in 0 .. m |-> IF n = 0 THEN H ELSE Step(F[n - 1])]
  <2> DEFINE R(F, m) == F = [n \in 0 .. m |-> IF n = 0 THEN H ELSE Step(F[n - 1])]
             S == {m \in Nat : \E F : R(F, m)}
  <2>1. 0 \in S
    <3> DEFINE F == [n \in 0 .. 0 |-> H]
    <3>1. R(F, 0)
      OBVIOUS
    <3> QED BY <3>1
  <2>2. ASSUME NEW m \in S PROVE m + 1 \in S
    <3>1. PICK F : F = [n \in 0 .. m |-> IF n = 0 THEN H ELSE Step(F[n - 1])]
      OBVIOUS
    <3>2. PICK w : w = Step(F[m])
      OBVIOUS
    <3> DEFINE G == [n \in 0 .. m + 1 |-> IF n = m + 1 THEN w ELSE F[n]]
    <3>3. m \in Nat
      OBVIOUS
    <3>4. ASSUME NEW n \in 0 .. m + 1 PROVE G[n] = IF n = 0 THEN H ELSE Step(G[n - 1])
      <4>1. CASE n = m + 1
        <5>1. n # 0 /\ n - 1 = m /\ m \in 0 .. m + 1 /\ m # m + 1
          BY <3>3, <4>1
        <5>2. G[n] = w /\ G[n - 1] = F[m]
          BY <4>1, <5>1
        <5> QED BY <3>2, <5>1, <5>2
      <4>2. CASE n # m + 1
        <5>1. n \in 0 .. m /\ (n # 0 => n - 1 \in 0 .. m /\ n - 1 # m + 1 /\ n - 1 \in 0 .. m + 1)
          BY <3>3, <4>2
        <5>2. F[n] = IF n = 0 THEN H ELSE Step(F[n - 1])
          BY <3>1, <5>1
        <5>3. G[n] = F[n] /\ (n # 0 => G[n - 1] = F[n - 1])
          BY <4>2, <5>1
        <5> HIDE DEF G
        <5> QED BY <5>2, <5>3
      <4> QED BY <4>1, <4>2
    <3>5. DOMAIN G = 0 .. m + 1 /\ G = [n \in DOMAIN G |-> G[n]]
      OBVIOUS
    <3> HIDE DEF G
    <3>6. R(G, m + 1)
      BY <3>4, <3>5
    <3>7. m + 1 \in Nat
      BY <3>3
    <3> HIDE DEF R
    <3> QED BY <3>6, <3>7
  <2>3. S \in SUBSET Nat
    OBVIOUS
  <2> HIDE DEF R
  <2>4. S = Nat
    <3> HIDE DEF S
    <3> QED BY <2>1, <2>2, <2>3, NatSetInduction
  <2>5. \A m \in Nat : \E F : R(F, m)
    BY <2>4
  <2> QED BY <2>5 DEF R
<1>7. K = [n \in 0 .. N |-> IF n = 0 THEN H ELSE Step(K[n - 1])]
  <2>1. \E F : F = Body(F)
    BY <1>2, <1>5, <1>6
  <2>2. K = Body(K)
    BY <2>1
  <2> HIDE DEF K
  <2> QED BY <1>5, <2>2
<1> HIDE DEF K
<1>8. Fine(K[N])
  <2> DEFINE S == {m \in Nat : m <= N => Fine(K[m])}
  <2>1. 0 \in S
    <3>1. K[0] = H
      BY <1>2, <1>7
    <3> QED BY <1>3, <3>1
  <2>2. ASSUME NEW m \in S PROVE m + 1 \in S
    <3>1. m \in Nat /\ (m <= N => Fine(K[m]))
      OBVIOUS
    <3>2. CASE m + 1 <= N
      <4>1. m <= N /\ m + 1 \in 0 .. N /\ m + 1 # 0 /\ (m + 1) - 1 = m /\ m + 1 \in Nat
        BY <1>2, <3>1, <3>2
      <4>2. K[m + 1] = Step(K[m])
        BY <1>7, <4>1
      <4>3. Fine(Step(K[m]))
        BY <1>4, <3>1, <4>1
      <4> QED BY <4>1, <4>2, <4>3
    <3>3. CASE ~(m + 1 <= N)
      BY <3>1, <3>3
    <3> QED BY <3>2, <3>3
  <2>3. S \in SUBSET Nat
    OBVIOUS
  <2>4. S = Nat
    <3> HIDE DEF S
    <3> QED BY <2>1, <2>2, <2>3, NatSetInduction
  <2> QED BY <1>2, <2>4
<1> QED BY <1>1, <1>8 DEF Fine

-----------------------------------------------------------------------------
(* fphMalloc.                                                              *)

(* f is a link of the heap G that a block of sz fits into.                 *)
Fitted(H, D, G, E, f, sz) ==
  /\ Good(G, E, FreeOf(G, E)) /\ Keeps(H, D, G, E)
  /\ f \in FreeOf(G, E) \ {Root} /\ G.links[f].size >= sz
  /\ Alone(G, FreeOf(G, E) \ {f})
  /\ G.links[f].next \notin FreeOf(G, E) \ {Root}

(* fph_find in a sound heap.                                               *)
LEMMA Finds ==
  ASSUME NEW H, NEW D, NEW T, Good(H, D, T), NEW sz \in Nat \ {0}
  PROVE  Best(H, T, sz, fph_find(H, sz))
<1>1. PICK sub : Tree(H, D, T, sub) /\ Apart(H, D, T)
  BY DEF Good, Stem
<1> QED BY <1>1, FindsBest

(* If no link is large enough, the one fph_grow makes is.                  *)
LEMMA GrowFits ==
  ASSUME NEW H, NEW D, Sound(H, D), fragment_size \in Nat \ {0}, NEW sz \in Nat \ {0},
         fph_find(H, sz) = NULL, NEW G, G = fph_grow(H, sz)
  PROVE  \E E : Fitted(H, D, G, E, fph_find(G, sz), sz)
<1>1. PICK T, a : T = FreeOf(H, D) /\ a = H.last
  OBVIOUS
<1>2. Good(H, D, T) /\ Alone(H, T) /\ T \subseteq D /\ Root \in T
  BY <1>1 DEF Sound, Good
<1>3. PICK size, e : size = (IF sz < fragment_size THEN fragment_size ELSE sz) /\ e = a + H.links[a].size + HDR
  OBVIOUS
<1>4. size \in Nat /\ size >= sz
  BY <1>3
<1>5. PICK A : A = GrowChain(H, size)
  OBVIOUS
<1>6. G = fph_insert(A, e)
  BY <1>1, <1>3, <1>5 DEF fph_grow, GrowChain
<1>7. e \notin D /\ Good(A, D \cup {e}, T) /\ GrowDone(H, A, D, size, e)
  BY <1>1, <1>2, <1>3, <1>4, <1>5, GrowGood
<1>8. PICK E : E = D \cup {e}
  OBVIOUS
<1>9. Good(G, E, T \cup {e}) /\ SameChain(A, G, E)
  BY <1>2, <1>6, <1>7, <1>8, InsertGood
<1>10. /\ G.last = e
       /\ \A q \in D : /\ G.links[q].used = H.links[q].used /\ G.links[q].size = H.links[q].size
                       /\ G.links[q].next = IF q = a THEN e ELSE H.links[q].next
       /\ ~G.links[e].used /\ G.links[e].size = size /\ G.links[e].next = NULL
  <2>1. /\ A.last = e
        /\ \A q \in D : /\ A.links[q].used = H.links[q].used /\ A.links[q].size = H.links[q].size
                        /\ A.links[q].next = IF q = a THEN e ELSE H.links[q].next
        /\ ~A.links[e].used /\ A.links[e].size = size /\ A.links[e].next = NULL
    BY <1>1, <1>7 DEF GrowDone, Loose
  <2>2. /\ G.last = A.last
        /\ \A q \in E : /\ G.links[q].used = A.links[q].used /\ G.links[q].size = A.links[q].size
                        /\ G.links[q].next = A.links[q].next
    BY <1>9 DEF SameChain
  <2> QED BY <1>8, <2>1, <2>2
<1>11. FreeOf(G, E) = T \cup {e}
  BY <1>1, <1>8, <1>10 DEF FreeOf
<1>12. Keeps(H, D, G, E)
  <2>1. Live(G, E) = Live(H, D)
    BY <1>8, <1>10 DEF Live
  <2>2. \A q \in Live(H, D) : q \in D
    BY DEF Live
  <2> QED BY <1>10, <2>1, <2>2 DEF Keeps
<1>13. NULL \notin T /\ e # Root /\ e # NULL /\ e \notin T
  <2>1. Root \in D /\ NULL \notin D
    BY <1>2, Around
  <2>2. NULL \notin E
    BY <1>8, <1>9, Around
  <2> QED BY <1>2, <1>7, <1>8, <2>1, <2>2
<1>14. fph_find(G, sz) = e
  <2>1. PICK f : f = fph_find(G, sz)
    OBVIOUS
  <2>2. Best(G, T \cup {e}, sz, f) /\ Best(H, T, sz, NULL)
    BY <1>2, <1>9, <2>1, Finds
  <2>3. {p \in T \ {Root} : H.links[p].size >= sz} = {}
    BY <2>2 DEF Best
  <2>4. \A p \in T \ {Root} : ~(G.links[p].size >= sz)
    BY <1>2, <1>10, <2>3
  <2>5. {p \in (T \cup {e}) \ {Root} : G.links[p].size >= sz} = {e}
    BY <1>4, <1>10, <1>13, <2>4
  <2>6. f \in {e}
    BY <2>2, <2>5 DEF Best
  <2> QED BY <2>1, <2>6
<1>15. Alone(G, (T \cup {e}) \ {e})
  <2>1. ASSUME NEW q \in T \ {Root} PROVE G.links[q].next \notin T \ {Root}
    <3>1. H.links[q].next \notin T \ {Root}
      BY <1>2 DEF Alone
    <3> QED BY <1>2, <1>10, <1>13, <3>1
  <2>2. (T \cup {e}) \ {e} = T
    BY <1>13
  <2> QED BY <2>1, <2>2 DEF Alone
<1>16. e \in (T \cup {e}) \ {Root} /\ G.links[e].size >= sz /\ G.links[e].next \notin (T \cup {e}) \ {Root}
  BY <1>4, <1>10, <1>13
<1>17. Fitted(H, D, G, E, e, sz)
  BY <1>9, <1>11, <1>12, <1>15, <1>16 DEF Fitted
<1> QED BY <1>14, <1>17

(* If one is found, it fits without growing.                               *)
LEMMA FoundFits ==
  ASSUME NEW H, NEW D, Sound(H, D), NEW sz \in Nat \ {0},
         NEW f, f = fph_find(H, sz), f # NULL
  PROVE  Fitted(H, D, H, D, f, sz)
<1>1. PICK T : T = FreeOf(H, D)
  OBVIOUS
<1>2. Good(H, D, T) /\ Alone(H, T)
  BY <1>1 DEF Sound
<1>3. Best(H, T, sz, f)
  BY <1>2, Finds
<1>4. f \in T \ {Root} /\ H.links[f].size >= sz
  BY <1>3 DEF Best
<1>5. Alone(H, T \ {f}) /\ H.links[f].next \notin T \ {Root}
  BY <1>2, <1>4 DEF Alone
<1>6. Keeps(H, D, H, D)
  BY DEF Keeps
<1> QED BY <1>1, <1>2, <1>4, <1>5, <1>6 DEF Fitted

(* Found or grown, fphMalloc has a link that fits.                         *)
LEMMA GrownFits ==
  ASSUME NEW D, Sound(heap, D), fragment_size \in Nat \ {0}, NEW sz \in Nat \ {0}
  PROVE  \E E : Fitted(heap, D, Grown(sz), E, fph_find(Grown(sz), sz), sz)
<1>1. CASE fph_find(heap, sz) = NULL
  <2>1. PICK G : G = fph_grow(heap, sz)
    OBVIOUS
  <2>2. Grown(sz) = G
    BY <1>1, <2>1 DEF Grown
  <2>3. \E E : Fitted(heap, D, G, E, fph_find(G, sz), sz)
    BY <1>1, <2>1, GrowFits
  <2> QED BY <2>2, <2>3
<1>2. CASE fph_find(heap, sz) # NULL
  <2>1. Grown(sz) = heap
    BY <1>2 DEF Grown
  <2> QED BY <1>2, <2>1, FoundFits
<1> QED BY <1>1, <1>2

(* f is out of the tree but not yet marked as used.                        *)
Taken(H, D, B, X, f) ==
  /\ Good(B, X, FreeOf(B, X) \ {f}) /\ Keeps(H, D, B, X)
  /\ f \in FreeOf(B, X) \ {Root} /\ Alone(B, FreeOf(B, X) \ {f})

(* It leaves the tree,                                                     *)
LEMMA Takes ==
  ASSUME NEW H, NEW D, NEW G, NEW E, NEW f, NEW sz \in Nat, Fitted(H, D, G, E, f, sz), NEW post \in BOOLEAN,
         NEW A, A = fph_remove(G, f, post)
  PROVE  Taken(H, D, A, E, f) /\ A.links[f].next \notin FreeOf(A, E) \ {Root}
<1>1. PICK U : U = FreeOf(G, E)
  OBVIOUS
<1>2. /\ Good(G, E, U) /\ Keeps(H, D, G, E) /\ f \in U \ {Root} /\ Alone(G, U \ {f})
      /\ G.links[f].next \notin U \ {Root} /\ U \subseteq E
  BY <1>1 DEF Fitted, Good
<1>3. Good(A, E, U \ {f}) /\ SameChain(G, A, E)
  BY <1>2, RemoveGood
<1>4. Keeps(G, E, A, E) /\ FreeOf(A, E) = U
  BY <1>1, <1>3, KeepsSame
<1>5. Keeps(H, D, A, E)
  BY <1>2, <1>4, KeepsTrans
<1>6. \A q \in U : A.links[q].next = G.links[q].next
  BY <1>2, <1>3 DEF SameChain
<1>7. Alone(A, U \ {f}) /\ A.links[f].next \notin U \ {Root}
  BY <1>2, <1>6 DEF Alone
<1> QED BY <1>2, <1>3, <1>4, <1>5, <1>7 DEF Taken

(* what it does not need becomes a free link,                              *)
LEMMA Splits ==
  ASSUME NEW H, NEW D, NEW A, NEW E, NEW f, Taken(H, D, A, E, f), A.links[f].next \notin FreeOf(A, E) \ {Root},
         NEW sz \in Nat, NEW B, B = fph_split(A, f, sz)
  PROVE  \E X : Taken(H, D, B, X, f)
<1>1. PICK U : U = FreeOf(A, E)
  OBVIOUS
<1>2. /\ Good(A, E, U \ {f}) /\ Keeps(H, D, A, E) /\ f \in U \ {Root} /\ Alone(A, U \ {f})
      /\ U \subseteq E /\ Root \in U /\ f \in E
  BY <1>1 DEF Taken, Good, FreeOf
<1>3. CASE A.links[f].size <= sz + HDR
  <2>1. B = A
    BY <1>3 DEF fph_split
  <2> QED BY <2>1
<1>4. CASE ~(A.links[f].size <= sz + HDR)
  <2>1. PICK e, n : e = f + HDR + sz /\ n = A.links[f].next
    OBVIOUS
  <2>2. PICK C : C = SplitChain(A, f, sz)
    OBVIOUS
  <2>3. B = fph_insert(C, e)
    BY <1>4, <2>1, <2>2 DEF fph_split, SplitChain
  <2>4. /\ A.links[f].size > sz + HDR /\ n \in (E \cup {NULL}) \ {f} /\ NULL \notin E /\ E \in SUBSET Nat
        /\ A \in Heaps(E)
    <3>1. A.links[f].size \in Nat /\ HDR \in Nat /\ f \in Nat \ {NULL} /\ (n # NULL => n \in E /\ f < n) /\ NULL \notin E
      BY <1>2, <2>1, Around
    <3>2. PICK k : k = A.links[f].size
      OBVIOUS
    <3>3. k > sz + HDR
      BY <1>4, <3>1, <3>2
    <3>4. n # f
      BY <3>1
    <3> QED BY <1>2, <3>1, <3>2, <3>3, <3>4 DEF Good, Chain
  <2>5. e \notin E
    <3> SUFFICES ASSUME e \in E PROVE FALSE
      OBVIOUS
    <3>1. f < e /\ f \in Nat
      <4>1. f \in Nat /\ HDR \in Nat \ {0}
        BY <1>2, Around
      <4> QED BY <2>1, <4>1
    <3>2. f + HDR + A.links[f].size <= e
      BY <1>2, <3>1 DEF Good, Chain
    <3>3. PICK k : k = A.links[f].size
      OBVIOUS
    <3>4. k \in Nat /\ HDR \in Nat /\ k > sz + HDR /\ f + HDR + k <= f + HDR + sz
      BY <1>2, <2>1, <2>4, <3>2, <3>3, Around
    <3> QED BY <3>1, <3>4
  <2>6. SplitDone(A, C, E, f, sz, e)
    <3>1. /\ E \in SUBSET Nat /\ NULL \notin E /\ A \in Heaps(E) /\ f \in E
          /\ A.links[f].next \in (E \cup {NULL}) \ {f} /\ f + HDR + sz \notin E /\ A.links[f].size > sz + HDR
      BY <1>2, <2>1, <2>4, <2>5
    <3> QED BY <2>1, <2>2, <3>1, SplitFields
  <2>7. PICK T, X : T = U \ {f} /\ X = E \cup {e}
    OBVIOUS
  <2>8. Good(C, X, T) /\ f \in E \ T /\ T \subseteq E
    <3>1. f \in E \ T /\ Good(A, E, T)
      BY <1>2, <2>7
    <3> QED BY <1>2, <2>1, <2>4, <2>6, <2>7, <3>1, SplitGood
  <2>9. Good(B, X, T \cup {e}) /\ SameChain(C, B, X)
    BY <2>3, <2>5, <2>7, <2>8, InsertGood
  <2>10. /\ \A q \in E : /\ B.links[q].used = A.links[q].used
                         /\ q # f => B.links[q].size = A.links[q].size /\ B.links[q].next = A.links[q].next
         /\ ~B.links[e].used /\ B.links[e].next = n
    <3>1. /\ \A q \in E : /\ C.links[q].used = A.links[q].used
                          /\ q # f => C.links[q].size = A.links[q].size /\ C.links[q].next = A.links[q].next
          /\ ~C.links[e].used /\ C.links[e].next = n
      BY <2>1, <2>6 DEF SplitDone, Loose
    <3>2. \A q \in X : B.links[q].used = C.links[q].used /\ B.links[q].size = C.links[q].size
                       /\ B.links[q].next = C.links[q].next
      BY <2>9 DEF SameChain
    <3> QED BY <2>7, <3>1, <3>2
  <2>11. FreeOf(B, X) = U \cup {e}
    BY <1>1, <2>7, <2>10 DEF FreeOf
  <2>12. Keeps(A, E, B, X)
    <3>1. Live(B, X) = Live(A, E)
      BY <2>7, <2>10 DEF Live
    <3>2. \A q \in Live(A, E) : q \in E /\ q # f
      BY <1>1, <1>2 DEF Live, FreeOf
    <3> QED BY <2>10, <3>1, <3>2 DEF Keeps
  <2>13. Keeps(H, D, B, X)
    BY <1>2, <2>12, KeepsTrans
  <2>14. (U \cup {e}) \ {f} = T \cup {e} /\ e # Root /\ e # NULL
    <3>1. e # NULL
      BY <2>7, <2>9, Around
    <3> QED BY <1>2, <2>5, <2>7, <3>1
  <2>15. Alone(B, T \cup {e})
    <3>1. ASSUME NEW q \in (T \cup {e}) \ {Root} PROVE B.links[q].next \notin (T \cup {e}) \ {Root}
      <4>1. CASE q = e
        BY <1>1, <2>1, <2>4, <2>5, <2>7, <2>10, <2>14, <4>1
      <4>2. CASE q # e
        <5>1. q \in T \ {Root} /\ q \in E /\ q # f
          BY <2>7, <2>8, <4>2
        <5>2. A.links[q].next \notin T \ {Root}
          BY <1>2, <2>7, <5>1 DEF Alone
        <5>3. A.links[q].next = NULL \/ A.links[q].next \in E
          BY <1>2, <5>1, Around
        <5> QED BY <2>5, <2>10, <2>14, <5>1, <5>2, <5>3
      <4> QED BY <4>1, <4>2
    <3> QED BY <3>1 DEF Alone
  <2>16. f \in (U \cup {e}) \ {Root}
    BY <1>2
  <2>17. Taken(H, D, B, X, f)
    BY <2>9, <2>11, <2>13, <2>14, <2>15, <2>16 DEF Taken
  <2> QED BY <2>17
<1> QED BY <1>3, <1>4

(* The block f is new.                                                     *)
Allocated(H, D, F, X, f) ==
  /\ Sound(F, X) /\ f \notin Live(H, D) /\ f \in X
  /\ Live(F, X) = Live(H, D) \cup {f}
  /\ \A q \in Live(H, D) : F.links[q].size = H.links[q].size

(* and it is marked as used: the block is new and no other has changed.    *)
LEMMA Marks ==
  ASSUME NEW H, NEW D, NEW B, NEW X, NEW f, Taken(H, D, B, X, f),
         NEW F, F = [B EXCEPT !.links[f].used = TRUE]
  PROVE  Allocated(H, D, F, X, f)
<1>1. PICK U, T : U = FreeOf(B, X) /\ T = U \ {f}
  OBVIOUS
<1>2. Good(B, X, T) /\ Keeps(H, D, B, X) /\ f \in U \ {Root} /\ Alone(B, T) /\ f \in X /\ f \notin Live(B, X)
      /\ T \subseteq X
  BY <1>1 DEF Taken, FreeOf, Live, Good
<1>3. /\ Good(F, X, T) /\ F.links[f].used
      /\ \A q \in X \ {f} : F.links[q].used = B.links[q].used
      /\ \A q \in X : F.links[q].size = B.links[q].size /\ F.links[q].next = B.links[q].next
  <2>1. f \in X \ {Root} /\ Good(B, X, T)
    BY <1>2
  <2>2. Marked(B, F, X, T, f) /\ F.links[f].used
    BY <2>1, MarkUsed
  <2> QED BY <2>2 DEF Marked
<1>4. FreeOf(F, X) = T
  BY <1>1, <1>3 DEF FreeOf
<1>5. Live(F, X) = Live(B, X) \cup {f}
  BY <1>2, <1>3 DEF Live
<1>6. Alone(F, T)
  BY <1>2, <1>3 DEF Alone
<1>7. Live(B, X) = Live(H, D) /\ \A q \in Live(H, D) : q \in X /\ B.links[q].size = H.links[q].size
  BY <1>2 DEF Keeps, Live
<1> QED BY <1>2, <1>3, <1>4, <1>5, <1>6, <1>7 DEF Allocated, Sound

-----------------------------------------------------------------------------
(* The calls.                                                              *)

(* The inductive invariant.                                                *)
FpInv ==
  /\ fragment_size \in Nat \ {0}
  /\ Sound(heap, Links)

(* The links of a sound heap.                                              *)
LEMMA SoundDomain ==
  ASSUME NEW H, NEW D, Sound(H, D)
  PROVE  DOMAIN H.links = D
BY DEF Sound, Good, Chain, Heaps

(* fphMalloc allocates one block.                                          *)
LEMMA Mallocs ==
  ASSUME FpInv, NEW sz \in ReqSizes, NEW post \in BOOLEAN, fphMalloc(sz, post)
  PROVE  \E f : Allocated(heap, Links, heap', Links', f)
<1> DEFINE G == Grown(sz)
           f == fph_find(G, sz)
           A == fph_remove(G, f, post)
           B == IF A.links[f].size > sz + (sz \div 2) + 2 * HDR THEN fph_split(A, f, sz) ELSE A
<1>0. sz \in Nat \ {0} /\ sz \in Nat
  BY FpMmAssumption
<1>1. heap' = [B EXCEPT !.links[f].used = TRUE]
  BY Zenon DEF fphMalloc
<1>2. PICK E : Fitted(heap, Links, G, E, f, sz)
  <2>1. \E E : Fitted(heap, Links, Grown(sz), E, fph_find(Grown(sz), sz), sz)
    BY <1>0, GrownFits DEF FpInv
  <2> QED BY <2>1
<1> HIDE DEF G, f
<1>3. Taken(heap, Links, A, E, f) /\ A.links[f].next \notin FreeOf(A, E) \ {Root}
  BY <1>0, <1>2, Takes
<1> HIDE DEF A
<1>4. \E X : Taken(heap, Links, B, X, f)
  <2>1. CASE B = fph_split(A, f, sz)
    <3> HIDE DEF B
    <3> QED BY <1>0, <1>3, <2>1, Splits
  <2>2. CASE B = A
    BY <1>3, <2>2
  <2> QED BY <2>1, <2>2
<1> HIDE DEF B
<1>5. PICK X : Taken(heap, Links, B, X, f)
  BY <1>4
<1>6. Allocated(heap, Links, heap', X, f)
  BY <1>1, <1>5, Marks
<1>7. X = Links'
  <2>1. Sound(heap', X)
    BY <1>6 DEF Allocated
  <2>2. DOMAIN heap'.links = X
    BY <2>1, SoundDomain
  <2> QED BY <2>2 DEF Links
<1> QED BY <1>6, <1>7

Freed(H, D, F, X, p) ==
  /\ Sound(F, X)
  /\ Live(F, X) = Live(H, D) \ {p}
  /\ \A q \in Live(H, D) \ {p} : F.links[q].size = H.links[q].size

(* fphFree frees its block.                                                *)
LEMMA Frees ==
  ASSUME FpInv, NEW p \in Links, NEW post \in RandChoices(p), fphFree(p, post)
  PROVE  Freed(heap, Links, heap', Links', p) /\ p \in Live(heap, Links)
<1>0. post.next \in BOOLEAN /\ post.prev \in BOOLEAN /\ post.last \in BOOLEAN
  BY DEF RandChoices
<1>1. PICK T : T = FreeOf(heap, Links)
  OBVIOUS
<1>2. Good(heap, Links, T) /\ Alone(heap, T) /\ ~heap.links[Root].used /\ heap.links[p].used
      /\ T \subseteq Links /\ Root \in T
  BY <1>1 DEF FpInv, Sound, fphFree, Good, Chain
<1>3. PICK H : H = [heap EXCEPT !.links[p].used = FALSE]
  OBVIOUS
<1>4. Marked(heap, H, Links, T, p) /\ ~H.links[p].used
  <2>1. p \in Links \ {Root}
    BY <1>2
  <2> QED BY <1>2, <1>3, <2>1, MarkFree
<1>5. PICK c : c = fph_coalesce1(H, p, post)
  OBVIOUS
<1>6. heap' = fph_shrink(fph_insert(c.h, c.at), post.last)
  BY <1>3, <1>5, Zenon DEF fphFree
<1>7. Half(H, Links, T, p)
  <2>1. Good(H, Links, T) /\ p \in Links \ T
    BY <1>1, <1>2, <1>4 DEF Marked, FreeOf
  <2>2. FreeOf(H, Links) = T \cup {p}
    BY <1>1, <1>2, <1>4 DEF Marked, FreeOf
  <2>3. Alone(H, T)
    BY <1>2, <1>4 DEF Alone, Marked
  <2> QED BY <2>1, <2>2, <2>3 DEF Half
<1>8. PICK E, U : Coalesced(H, Links, c.h, c.at, E, U)
  BY <1>0, <1>5, <1>7, Coalesces
<1>9. PICK G : G = fph_insert(c.h, c.at)
  OBVIOUS
<1>10. Sound(G, E) /\ Keeps(H, Links, G, E)
  BY <1>8, <1>9, Returns
<1>11. PICK X : Sound(heap', X) /\ Keeps(G, E, heap', X)
  <2>1. PICK l \in BOOLEAN : l = post.last
    BY <1>0
  <2>2. \E X : Sound(fph_shrink(G, l), X) /\ Keeps(G, E, fph_shrink(G, l), X)
    BY <1>10, Shrinks
  <2> QED BY <1>6, <1>9, <2>1, <2>2
<1>12. Keeps(H, Links, heap', X)
  BY <1>10, <1>11, KeepsTrans
<1>13. Live(H, Links) = Live(heap, Links) \ {p} /\ p \in Live(heap, Links)
       /\ \A q \in Links : H.links[q].size = heap.links[q].size
  BY <1>2, <1>4 DEF Marked, Live
<1>14. \A q \in Live(heap, Links) : q \in Links
  BY DEF Live
<1>15. X = Links'
  <2>1. DOMAIN heap'.links = X
    BY <1>11, SoundDomain
  <2> QED BY <2>1 DEF Links
<1>16. Freed(heap, Links, heap', X, p)
  BY <1>11, <1>12, <1>13, <1>14 DEF Freed, Keeps
<1> QED BY <1>13, <1>15, <1>16

(* The file fphInit and fphZero write.                                     *)
LEMMA EmptySound ==
  Sound(EmptyHeap, {Root}) /\ Live(EmptyHeap, {Root}) = {} /\ DOMAIN EmptyHeap.links = {Root}
<1> DEFINE H == EmptyHeap
           D == {Root}
           sub == [q \in D |-> {Root}]
<1>0. Root \in Nat /\ NULL \in Nat /\ Root # NULL
  BY DEF Root, NULL
<1>1. /\ DOMAIN H.links = D /\ H.last = Root
      /\ H.links[Root].prev = NULL /\ H.links[Root].next = NULL /\ H.links[Root].used = FALSE
      /\ H.links[Root].size = 0 /\ H.links[Root].max = 0 /\ H.links[Root].smaller = NULL
      /\ H.links[Root].bigger = NULL /\ H.links[Root].parent = NULL
  BY DEF EmptyHeap, Loose
<1>2. H \in Heaps(D)
  BY <1>0 DEF EmptyHeap, Loose, Heaps, Header
<1>3. FreeOf(H, D) = D /\ Live(H, D) = {}
  BY <1>1 DEF FreeOf, Live
<1>4. IsFiniteSet(D)
  BY FS_Singleton
<1> HIDE DEF H
<1>5. Chain(H, D)
  <2>1. Linked(H, D, Root)
    BY <1>0, <1>1 DEF Linked
  <2> QED BY <1>0, <1>1, <1>2, <1>4, <2>1 DEF Chain
<1>6. Joint(H, D, sub, Root) /\ Sorted(H, sub, Root) /\ MaxAt(H, Root)
  BY <1>0, <1>1 DEF Joint, Sorted, MaxAt, Under
<1>7. Tree(H, D, D, sub)
  <2>1. sub \in [D -> SUBSET D]
    OBVIOUS
  <2> HIDE DEF sub
  <2> QED BY <1>0, <1>1, <1>2, <1>4, <1>6, <2>1 DEF Tree, Shape
<1>8. Stem(H, D, D)
  BY <1>7 DEF Stem, Apart
<1>9. Alone(H, D)
  BY DEF Alone
<1> QED BY <1>1, <1>3, <1>5, <1>8, <1>9 DEF Sound, Good, H

-----------------------------------------------------------------------------
(* The invariant.                                                          *)

(* It holds in an empty file                                               *)
LEMMA InitSound ==
  ASSUME fphInit
  PROVE  FpInv
<1>1. heap = EmptyHeap /\ fragment_size \in Nat \ {0}
  BY FpMmAssumption DEF fphInit
<1>2. Links = {Root}
  BY <1>1, EmptySound DEF Links
<1> QED BY <1>1, <1>2, EmptySound DEF FpInv

(* and every call keeps it.                                                *)
LEMMA StepSound ==
  ASSUME FpInv, [FpNext]_fpVars
  PROVE  FpInv'
<1>1. ASSUME NEW sz \in ReqSizes, NEW post \in BOOLEAN, fphMalloc(sz, post) PROVE FpInv'
  <2>1. Sound(heap', Links')
    BY <1>1, Mallocs DEF Allocated
  <2>2. fragment_size' \in Nat \ {0}
    BY <1>1 DEF fphMalloc, FpInv
  <2> QED BY <2>1, <2>2 DEF FpInv
<1>2. ASSUME NEW p \in Links, NEW post \in RandChoices(p), fphFree(p, post) PROVE FpInv'
  <2>1. Sound(heap', Links')
    BY <1>2, Frees DEF Freed
  <2>2. fragment_size' \in Nat \ {0}
    BY <1>2 DEF fphFree, FpInv
  <2> QED BY <2>1, <2>2 DEF FpInv
<1>3. CASE fphZero
  <2>1. heap' = EmptyHeap /\ fragment_size' \in Nat \ {0}
    BY <1>3, FpMmAssumption DEF fphZero
  <2>2. Links' = {Root}
    BY <2>1, EmptySound DEF Links
  <2> QED BY <2>1, <2>2, EmptySound DEF FpInv
<1>4. CASE fphAttach
  <2>1. heap' = heap /\ fragment_size' \in Nat \ {0}
    BY <1>4, FpMmAssumption DEF fphAttach
  <2> QED BY <2>1 DEF FpInv, Links
<1>5. ASSUME NEW sz \in FragSizes, fphSetFragmentSize(sz) PROVE FpInv'
  <2>1. heap' = heap /\ fragment_size' \in Nat \ {0}
    <3>1. sz \in Nat /\ sz # 0 /\ HDR \in Nat \ {0}
      BY <1>5, FpMmAssumption DEF fphSetFragmentSize
    <3> QED BY <1>5, <3>1 DEF fphSetFragmentSize
  <2> QED BY <2>1 DEF FpInv, Links
<1>6. CASE UNCHANGED fpVars
  BY <1>6 DEF fpVars, FpInv, Links
<1> QED BY <1>1, <1>2, <1>3, <1>4, <1>5, <1>6 DEF FpNext, Links

(* The invariant holds in every reachable state.                           *)
LEMMA FpInductive == FpSpec => []FpInv
<1>1. fphInit => FpInv
  BY InitSound
<1>2. FpInv /\ [FpNext]_fpVars => FpInv'
  BY StepSound
<1> QED BY <1>1, <1>2, PTL DEF FpSpec

-----------------------------------------------------------------------------
(* What it implies.                                                        *)

(* The nodes of the tree are the dummy and the free links.                 *)
LEMMA FreeNodes ==
  ASSUME FpInv
  PROVE  /\ Good(heap, Links, FreeLinks \cup {Root}) /\ FreeLinks \subseteq Links \ {Root}
         /\ FreeOf(heap, Links) = FreeLinks \cup {Root}
<1>1. Root \in Links /\ ~heap.links[Root].used
  BY DEF FpInv, Sound, Good, Chain
<1>2. FreeOf(heap, Links) = FreeLinks \cup {Root}
  BY <1>1 DEF FreeOf, FreeLinks
<1> QED BY <1>2 DEF FpInv, Sound, FreeLinks

(* The chain of the invariant is that of ChainSound.                       *)
LEMMA ChainHolds ==
  ASSUME FpInv
  PROVE  ChainSound
<1>1. Good(heap, Links, FreeLinks \cup {Root}) /\ FreeLinks \subseteq Links \ {Root}
  BY FreeNodes
<1>2. Root \in Links /\ Links \subseteq Nat \ {NULL} /\ heap.last \in Links /\ heap \in Heaps(Links)
  BY <1>1 DEF Good, Chain
<1>3. FpTypeOK
  <2>1. \A p \in Links : heap.links[p] \in Header
    BY <1>2 DEF Heaps
  <2> QED BY <1>2, <2>1 DEF FpTypeOK, FpInv, Links
<1>4. ASSUME NEW p \in Links
      PROVE  LET l == heap.links[p] IN
             /\ (l.next = NULL) <=> (p = heap.last)
             /\ l.next # NULL => l.next = p + HDR + l.size /\ l.next \in Links /\ heap.links[l.next].prev = p
             /\ (l.prev = NULL) <=> (p = Root)
             /\ l.prev # NULL => l.prev \in Links /\ heap.links[l.prev].next = p
  <2>1. Linked(heap, Links, p)
    BY <1>1 DEF Good, Chain
  <2> QED BY <2>1 DEF Linked
<1>5. ASSUME NEW p \in FreeLinks PROVE heap.links[p].next \notin FreeLinks
  <2>1. Alone(heap, FreeLinks \cup {Root})
    BY FreeNodes DEF FpInv, Sound
  <2> QED BY <1>1, <2>1 DEF Alone
<1> QED BY <1>3, <1>4, <1>5 DEF ChainSound

(* Subtree has the nodes of the proofs' function.                          *)
LEMMA SubtreeNodes ==
  ASSUME NEW T, NEW sub, Tree(heap, Links, T, sub), Apart(heap, Links, T)
  PROVE  (\A p \in T : Subtree(p) = sub[p]) /\ Subtree(NULL) = {}
<1> DEFINE D == Links
           Body(F) == [q \in Links \cup {NULL} |->
             IF q = NULL THEN {}
             ELSE {q} \cup F[heap.links[q].smaller] \cup F[heap.links[q].bigger]]
           K == CHOOSE F : F = Body(F)
           W == [q \in D \cup {NULL} |-> IF q = NULL THEN {} ELSE IF q \in T THEN sub[q] ELSE {q}]
<1>0. /\ T \subseteq D /\ Shape(heap, D, T, sub) /\ sub \in [T -> SUBSET T] /\ NULL \notin D
      /\ \A q \in T : Joint(heap, T, sub, q)
  BY DEF Tree, Shape
<1>1. \A p : Subtree(p) = K[p]
  BY Zenon DEF Subtree
<1>2. \A q \in T : \A c \in {heap.links[q].smaller, heap.links[q].bigger} : c = NULL \/ c \in T
  BY <1>0 DEF Joint
<1>3. \A q \in D \ T : heap.links[q].smaller = NULL /\ heap.links[q].bigger = NULL
  BY DEF Apart
<1>4. W = Body(W)
  <2>1. \A c : c = NULL \/ c \in T => W[c] = Under(sub, c)
    BY <1>0 DEF Under
  <2>2. ASSUME NEW q \in D \cup {NULL}
        PROVE  W[q] = IF q = NULL THEN {}
                      ELSE {q} \cup W[heap.links[q].smaller] \cup W[heap.links[q].bigger]
    <3>1. CASE q = NULL
      BY <3>1
    <3>2. CASE q \in T
      <4>1. W[q] = sub[q] /\ q # NULL
        BY <1>0, <3>2
      <4>2. sub[q] = {q} \cup Under(sub, heap.links[q].smaller) \cup Under(sub, heap.links[q].bigger)
        BY <1>0, <3>2 DEF Joint
      <4> HIDE DEF W
      <4> QED BY <1>2, <2>1, <3>2, <4>1, <4>2
    <3>3. CASE q \in D \ T
      <4>1. W[q] = {q} /\ W[NULL] = {} /\ q # NULL
        BY <1>0, <3>3
      <4> HIDE DEF W
      <4> QED BY <1>3, <3>3, <4>1
    <3> QED BY <3>1, <3>2, <3>3
  <2>3. DOMAIN W = D \cup {NULL} /\ W = [q \in DOMAIN W |-> W[q]]
    OBVIOUS
  <2> HIDE DEF W
  <2> QED BY <2>2, <2>3
<1>5. K = Body(K)
  <2> HIDE DEF W, Body
  <2>1. \E F : F = Body(F)
    BY <1>4
  <2> QED BY <2>1
<1> HIDE DEF K
<1>6. /\ K[NULL] = {}
      /\ \A q \in D : K[q] = {q} \cup K[heap.links[q].smaller] \cup K[heap.links[q].bigger]
  BY <1>0, <1>5
<1>7. PICK r \in [D -> Nat] : Descends(heap, D, T, r)
  BY <1>0, DownRank
<1> DEFINE S == {q \in T : K[q] = sub[q]}
<1>8. ASSUME NEW q \in T, \A x \in T : r[x] < r[q] => x \in S PROVE q \in S
  <2>1. \A c \in {heap.links[q].smaller, heap.links[q].bigger} : K[c] = Under(sub, c)
    <3> TAKE c \in {heap.links[q].smaller, heap.links[q].bigger}
    <3>1. CASE c = NULL
      BY <1>6, <3>1 DEF Under
    <3>2. CASE c # NULL
      <4>1. c \in T /\ r[c] < r[q]
        BY <1>2, <1>7, <3>2 DEF Descends
      <4>2. c \in S
        BY <1>8, <4>1
      <4> QED BY <3>2, <4>2 DEF Under
    <3> QED BY <3>1, <3>2
  <2>2. sub[q] = {q} \cup Under(sub, heap.links[q].smaller) \cup Under(sub, heap.links[q].bigger)
    BY <1>0 DEF Joint
  <2>3. K[q] = sub[q]
    BY <1>0, <1>6, <2>1, <2>2
  <2> QED BY <2>3
<1>9. S = T
  <2>1. S \in SUBSET T
    OBVIOUS
  <2> HIDE DEF S
  <2> DEFINE s == [p \in T |-> r[p]]
  <2>3. s \in [T -> Nat] /\ \A p \in T : (\A q \in T : s[q] < s[p] => q \in S) => p \in S
    BY <1>0, <1>8
  <2> HIDE DEF s
  <2> QED BY <2>1, <2>3, RankInduction
<1> QED BY <1>1, <1>6, <1>9

(* The tree of the invariant is that of TreeSound.                         *)
LEMMA TreeHolds ==
  ASSUME FpInv
  PROVE  TreeSound
<1>1. PICK T : T = FreeLinks \cup {Root}
  OBVIOUS
<1>2. PICK sub : Tree(heap, Links, T, sub) /\ Apart(heap, Links, T)
  BY <1>1, FreeNodes DEF Good, Stem
<1>3. (\A p \in T : Subtree(p) = sub[p]) /\ Subtree(NULL) = {}
  BY <1>2, SubtreeNodes
<1>4. /\ T \subseteq Links /\ Root \in T /\ NULL \notin Links /\ sub \in [T -> SUBSET T]
      /\ Shape(heap, Links, T, sub)
      /\ \A p \in T : Joint(heap, T, sub, p) /\ Sorted(heap, sub, p)
  BY <1>2 DEF Tree, Shape
<1>5. Subtree(Root) = T
  <2>1. \A q \in Links \ T : heap.links[q].parent \in T \cup {NULL}
    BY <1>2 DEF Apart
  <2>2. sub[Root] = T
    BY <1>4, <2>1, AllBelowRoot
  <2> QED BY <1>3, <1>4, <2>2
<1>6. ASSUME NEW p \in T
      PROVE  LET l == heap.links[p] IN
             /\ \A q \in Subtree(l.smaller) : heap.links[q].size <= l.size
             /\ \A q \in Subtree(l.bigger) : heap.links[q].size >= l.size
             /\ \A q \in {l.smaller, l.bigger} \ {NULL} : heap.links[q].parent = p
             /\ \A q \in Subtree(p) : heap.links[q].size <= l.max
             /\ \E q \in Subtree(p) : heap.links[q].size = l.max
  <2>1. \A c \in {heap.links[p].smaller, heap.links[p].bigger} \ {NULL} : c \in T /\ heap.links[c].parent = p
    BY <1>4 DEF Joint
  <2>2. \A c \in {heap.links[p].smaller, heap.links[p].bigger} : Subtree(c) = Under(sub, c)
    BY <1>3, <2>1 DEF Under
  <2>3. /\ \A q \in Under(sub, heap.links[p].smaller) : heap.links[q].size <= heap.links[p].size
        /\ \A q \in Under(sub, heap.links[p].bigger) : heap.links[q].size >= heap.links[p].size
    BY <1>4 DEF Sorted
  <2>4. /\ \A q \in sub[p] : heap.links[q].size <= heap.links[p].max
        /\ \E q \in sub[p] : heap.links[q].size = heap.links[p].max
    BY <1>2, MaxOfSubtree
  <2>5. Subtree(p) = sub[p]
    BY <1>3
  <2> HIDE DEF Links
  <2> QED BY <2>1, <2>2, <2>3, <2>4, <2>5
<1> QED BY <1>1, <1>5, <1>6 DEF TreeSound

(* The search of the invariant is that of BestFit.                         *)
LEMMA BestHolds ==
  ASSUME FpInv
  PROVE  BestFit
<1>1. PICK T : T = FreeLinks \cup {Root}
  OBVIOUS
<1>2. Good(heap, Links, T) /\ T \ {Root} = FreeLinks
  BY <1>1, FreeNodes
<1>3. ASSUME NEW sz \in ReqSizes
      PROVE  LET fits == {p \in FreeLinks : heap.links[p].size >= sz}
                 found == fph_find(heap, sz)
             IN /\ fits = {} <=> found = NULL
                /\ found # NULL => /\ found \in fits
                                   /\ \A p \in fits : heap.links[found].size <= heap.links[p].size
                /\ fph_find(Grown(sz), sz) # NULL
  <2>1. sz \in Nat \ {0}
    BY FpMmAssumption
  <2>2. PICK f : f = fph_find(heap, sz)
    OBVIOUS
  <2>3. Best(heap, T, sz, f)
    BY <1>2, <2>1, <2>2, Finds
  <2>4. PICK g : g = fph_find(Grown(sz), sz)
    OBVIOUS
  <2>5. g # NULL
    <3>1. PICK E : Fitted(heap, Links, Grown(sz), E, g, sz)
      BY <2>1, <2>4, GrownFits DEF FpInv
    <3>2. Good(Grown(sz), E, FreeOf(Grown(sz), E)) /\ g \in E
      BY <3>1 DEF Fitted, FreeOf
    <3> QED BY <3>2, Around
  <2> QED BY <1>2, <2>2, <2>3, <2>4, <2>5 DEF Best
<1> QED BY <1>3 DEF BestFit

-----------------------------------------------------------------------------
(* The blocks of the abstract heap.                                        *)

Block(q) == [p |-> q, size |-> HDR + heap.links[q].size]

(* They are the used links.                                                *)
LEMMA BlocksLive == Blocks = {Block(q) : q \in Live(heap, Links)}
BY DEF Blocks, Block, Live

(* An empty file has none.                                                 *)
LEMMA InitHeap ==
  ASSUME fphInit
  PROVE  AbstractHeap!HeapInit
<1>1. Links = {Root} /\ heap = EmptyHeap
  BY EmptySound DEF fphInit, Links
<1>2. Live(heap, Links) = {}
  BY <1>1, EmptySound
<1> QED BY <1>2, BlocksLive DEF AbstractHeap!HeapInit

(* A new block overlaps no other.                                          *)
LEMMA AllocHeap ==
  ASSUME FpInv, NEW f, Allocated(heap, Links, heap', Links', f)
  PROVE  AbstractHeap!Alloc
<1>1. PICK L, M, X : L = Live(heap, Links) /\ M = Live(heap', Links') /\ X = Links'
  OBVIOUS
<1>2. /\ Good(heap', X, FreeOf(heap', X)) /\ f \notin L /\ f \in X /\ M = L \cup {f} /\ M \subseteq X
      /\ \A q \in L : heap'.links[q].size = heap.links[q].size
  BY <1>1 DEF Allocated, Sound, Live
<1>3. /\ \A q \in X : q \in Nat /\ heap'.links[q].size \in Nat
      /\ HDR \in Nat \ {0}
      /\ \A q, x \in X : q < x => q + HDR + heap'.links[q].size <= x
  BY <1>2, FpMmAssumption DEF Good, Chain, Heaps, Header
<1>4. PICK b : b = [p |-> f, size |-> HDR + heap'.links[f].size]
  OBVIOUS
<1>5. Blocks' = {[p |-> q, size |-> HDR + heap'.links[q].size] : q \in M}
  BY <1>1 DEF Blocks, Live
<1>6. Blocks = {[p |-> q, size |-> HDR + heap'.links[q].size] : q \in L}
  <2>1. Blocks = {[p |-> q, size |-> HDR + heap.links[q].size] : q \in L}
    BY <1>1 DEF Blocks, Live
  <2> QED BY <1>2, <2>1
<1>7. b \in Blocks' /\ Blocks' = Blocks \cup {b}
  BY <1>2, <1>4, <1>5, <1>6
<1>8. b.size > 0
  <2>1. b.size = HDR + heap'.links[f].size
    BY <1>4
  <2>2. PICK k : k = heap'.links[f].size
    OBVIOUS
  <2>3. k \in Nat
    BY <1>2, <1>3, <2>2
  <2> QED BY <1>3, <2>1, <2>2, <2>3
<1>9. ASSUME NEW other \in Blocks PROVE ~AbstractHeap!Overlap(b, other)
  <2>1. PICK q \in L : other = [p |-> q, size |-> HDR + heap'.links[q].size]
    BY <1>6
  <2>2. q # f /\ q \in X /\ f \in X
    BY <1>2
  <2>3. PICK k, m : k = heap'.links[q].size /\ m = heap'.links[f].size
    OBVIOUS
  <2>4. q \in Nat /\ f \in Nat /\ k \in Nat /\ m \in Nat
    BY <1>3, <2>2, <2>3
  <2>5. (q < f => q + HDR + k <= f) /\ (f < q => f + HDR + m <= q)
    BY <1>3, <2>2, <2>3
  <2>6. ~(f < q + (HDR + k) /\ q < f + (HDR + m))
    BY <1>3, <2>2, <2>4, <2>5
  <2>7. b.p = f /\ b.size = HDR + m /\ other.p = q /\ other.size = HDR + k
    BY <1>4, <2>1, <2>3
  <2> QED BY <2>6, <2>7 DEF AbstractHeap!Overlap
<1> QED BY <1>7, <1>8, <1>9 DEF AbstractHeap!Alloc

(* A free block is one block less.                                         *)
LEMMA ReleaseHeap ==
  ASSUME NEW p \in Live(heap, Links), Freed(heap, Links, heap', Links', p)
  PROVE  AbstractHeap!Release
<1>1. PICK L, M : L = Live(heap, Links) /\ M = Live(heap', Links')
  OBVIOUS
<1>2. M = L \ {p} /\ p \in L /\ \A q \in L \ {p} : heap'.links[q].size = heap.links[q].size
  BY <1>1 DEF Freed
<1>3. PICK b : b = [p |-> p, size |-> HDR + heap.links[p].size]
  OBVIOUS
<1>4. Blocks = {[p |-> q, size |-> HDR + heap.links[q].size] : q \in L}
  BY <1>1 DEF Blocks, Live
<1>5. Blocks' = {[p |-> q, size |-> HDR + heap.links[q].size] : q \in L \ {p}}
  <2>1. Blocks' = {[p |-> q, size |-> HDR + heap'.links[q].size] : q \in M}
    BY <1>1 DEF Blocks, Live
  <2> QED BY <1>2, <2>1
<1>6. b \in Blocks
  BY <1>2, <1>3, <1>4
<1>7. \A q \in L : [p |-> q, size |-> HDR + heap.links[q].size] = b => q = p
  BY <1>3
<1>8. Blocks' = Blocks \ {b}
  BY <1>2, <1>3, <1>4, <1>5, <1>7
<1> QED BY <1>6, <1>8 DEF AbstractHeap!Release

(* Every call is an operation of the abstract heap, or nothing it sees.    *)
LEMMA StepHeap ==
  ASSUME FpInv, [FpNext]_fpVars
  PROVE  [AbstractHeap!Alloc \/ AbstractHeap!Release \/ AbstractHeap!Clear]_Blocks
<1>1. ASSUME NEW sz \in ReqSizes, NEW post \in BOOLEAN, fphMalloc(sz, post) PROVE AbstractHeap!Alloc
  <2>1. PICK f : Allocated(heap, Links, heap', Links', f)
    BY <1>1, Mallocs
  <2> QED BY <2>1, AllocHeap
<1>2. ASSUME NEW p \in Links, NEW post \in RandChoices(p), fphFree(p, post) PROVE AbstractHeap!Release
  <2>1. Freed(heap, Links, heap', Links', p) /\ p \in Live(heap, Links)
    BY <1>2, Frees
  <2> QED BY <2>1, ReleaseHeap
<1>3. CASE fphZero
  <2>1. heap' = EmptyHeap
    BY <1>3 DEF fphZero
  <2>2. Links' = {Root}
    BY <2>1, EmptySound DEF Links
  <2>3. Live(heap', Links') = {}
    BY <2>1, <2>2, EmptySound
  <2>4. Blocks' = {}
    BY <2>3 DEF Blocks, Live
  <2> QED BY <2>4 DEF AbstractHeap!Clear
<1>4. CASE heap' = heap
  BY <1>4 DEF Blocks, Links
<1>5. fphAttach => heap' = heap
  BY DEF fphAttach
<1>6. \A sz : fphSetFragmentSize(sz) => heap' = heap
  BY DEF fphSetFragmentSize
<1>7. UNCHANGED fpVars => heap' = heap
  BY DEF fpVars
<1> QED BY <1>1, <1>2, <1>3, <1>4, <1>5, <1>6, <1>7 DEF FpNext, Links

-----------------------------------------------------------------------------
(* The theorems.                                                           *)

(* In every file the allocator writes, the links tile it from the dummy to *)
(* the last one, chained both ways, and no two free links are neighbours,  *)
(* for all sizes, orders of calls and outcomes of rand_r (fph_split,       *)
(* fph_merge, fph_grow, fph_shrink).                                       *)
THEOREM AlwaysChained == FpSpec => []ChainSound
<1>1. FpInv => ChainSound
  BY ChainHolds
<1> QED BY <1>1, FpInductive, PTL

(* The search tree always holds exactly the free links, ordered by size,   *)
(* and max is right at every node, with the updates fph_insert,            *)
(* fph_remove_single, fph_relink and fph_remax make and no others.         *)
THEOREM TreeAlwaysSound == FpSpec => []TreeSound
<1>1. FpInv => TreeSound
  BY TreeHolds
<1> QED BY <1>1, FpInductive, PTL

(* fph_get always finds a smallest link that is large enough, and the      *)
(* abort () behind fph_grow in fphMalloc is never reached.                 *)
THEOREM AlwaysBestFit == FpSpec => []BestFit
<1>1. FpInv => BestFit
  BY BestHolds
<1> QED BY <1>1, FpInductive, PTL

(* fphMalloc, fphFree and fphZero do what the abstract heap promises: no   *)
(* block overlaps another one, moves or grows while it is allocated.       *)
THEOREM HeapImplemented == FpSpec => ImplementsHeap
<1>1. fphInit => AbstractHeap!HeapInit
  BY InitHeap
<1>2. FpInv /\ [FpNext]_fpVars => [AbstractHeap!Alloc \/ AbstractHeap!Release \/ AbstractHeap!Clear]_Blocks
  BY StepHeap
<1> QED BY <1>1, <1>2, FpInductive, PTL DEF FpSpec, ImplementsHeap, AbstractHeap!HeapSpec
=============================================================================
