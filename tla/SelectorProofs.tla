--------------------------- MODULE SelectorProofs ---------------------------
(***************************************************************************)
(* The selector for any number of ports, pids and blocks.                  *)
(*                                                                         *)
(* Filters: the hardware filters of dvb.c follow the pids of the ports,    *)
(* whatever order ports come, change and go in and whichever filters fail  *)
(* to open.  FilterInv is inductive as it stands.                          *)
(*                                                                         *)
(* Blocks: every step is a step of BufferPool or leaves the pool alone, so *)
(* the counters are exact.  The mapping holds only in states in which no   *)
(* queue has a block twice, nobody but the transfer thread has the blocks  *)
(* it reads into, nobody but its sender has an event not yet fed, a port   *)
(* that is not linked has an empty queue and a batch fits the vector:      *)
(* Handling, proved together with the invariant of the pool (SelInv).      *)
(*                                                                         *)
(* Queues: what Filter leaves is found by induction over the queue; with   *)
(* it events are never purged and elements never overtake each other.      *)
(***************************************************************************)
EXTENDS Selector, FiniteSetTheorems, FunctionTheorems, SequenceTheorems, WellFoundedInduction, TLAPS

FilterType ==
  /\ linked \in SUBSET Ports
  /\ pids \in [Ports -> SUBSET Pids]
  /\ fds \in SUBSET Pids
  /\ lost \in SUBSET Pids

FilterInv == FilterType /\ FiltersFollowPorts

filterVars == <<linked, pids, fds, lost>>

(* Reporting the difference of the wanted pids to dvb_restart makes the    *)
(* filters follow, whichever of the new ones fail.                         *)
LEMMA PidChangeFollows ==
  ASSUME FilterInv, PidChange, AllPids' \in SUBSET Pids
  PROVE  /\ fds' \in SUBSET Pids /\ lost' \in SUBSET Pids
         /\ FiltersFollowPorts'
<1>1. CASE AllPids' = AllPids
  BY <1>1 DEF PidChange, FilterInv, FilterType, FiltersFollowPorts, filters
<1>2. CASE AllPids' # AllPids
  <2>1. PICK failed \in SUBSET (AllPids' \ AllPids) :
          /\ fds' = (fds \ (AllPids \ AllPids')) \cup ((AllPids' \ AllPids) \ failed)
          /\ lost' = (lost \ (AllPids \ AllPids')) \cup failed
    BY <1>2 DEF PidChange, dvb_restart
  <2>2. fds \cup lost = AllPids /\ fds \cap lost = {}
    BY DEF FilterInv, FiltersFollowPorts
  <2>3. fds' \cup lost' = AllPids' /\ fds' \cap lost' = {}
    BY <2>1, <2>2
  <2>4. fds' \in SUBSET Pids /\ lost' \in SUBSET Pids
    BY <2>3
  <2> QED BY <2>3, <2>4 DEF FiltersFollowPorts
<1> QED BY <1>1, <1>2

(* A new port asks for no pid.                                             *)
LEMMA AddPortFollows ==
  ASSUME FilterInv, NEW p \in Ports, AddPort(p)
  PROVE  FilterInv'
<1>1. linked' \in SUBSET Ports /\ pids' \in [Ports -> SUBSET Pids]
  BY DEF FilterInv, FilterType, AddPort
<1>2. p \notin linked /\ linked' = linked \cup {p}
  BY DEF AddPort
<1>3. pids'[p] = {} /\ \A q \in linked : pids'[q] = pids[q]
  BY <1>2 DEF FilterInv, FilterType, AddPort
<1>4. AllPids' = AllPids
  BY <1>2, <1>3 DEF AllPids
<1> QED BY <1>1, <1>4 DEF FilterInv, FilterType, FiltersFollowPorts, AddPort, filters

(* No step of any thread lets the filters and the ports drift apart.       *)
LEMMA FilterStep ==
  ASSUME FilterInv, [Next]_vars
  PROVE  FilterInv'
<1>1. ASSUME NEW p \in Ports, AddPort(p) PROVE FilterInv'
  BY <1>1, AddPortFollows
<1>2. ASSUME NEW p \in Ports, RemovePort(p) PROVE FilterInv'
  <2>1. linked' \in SUBSET Ports /\ pids' \in [Ports -> SUBSET Pids]
    BY <1>2 DEF RemovePort, FilterInv, FilterType
  <2>2. AllPids' \in SUBSET Pids
    BY <2>1 DEF AllPids
  <2>3. PidChange
    BY <1>2 DEF RemovePort
  <2> QED BY <2>1, <2>2, <2>3, PidChangeFollows DEF FilterInv, FilterType
<1>3. ASSUME NEW p \in Ports, NEW set \in SUBSET Pids, ModPort(p, set)
      PROVE  FilterInv'
  <2>1. linked' \in SUBSET Ports /\ pids' \in [Ports -> SUBSET Pids]
    BY <1>3 DEF ModPort, FilterInv, FilterType
  <2>2. AllPids' \in SUBSET Pids
    BY <2>1 DEF AllPids
  <2>3. PidChange
    BY <1>3 DEF ModPort
  <2> QED BY <2>1, <2>2, <2>3, PidChangeFollows DEF FilterInv, FilterType
<1>4. CASE Reinit
  <2>1. AllPids' = {}
    BY <1>4 DEF Reinit, AllPids, FilterInv, FilterType
  <2> QED BY <1>4, <2>1 DEF Reinit, FilterInv, FilterType, FiltersFollowPorts
<1>5. CASE UNCHANGED filterVars
  BY <1>5 DEF filterVars, FilterInv, FilterType, FiltersFollowPorts, AllPids
<1>6. ASSUME NEW p \in Ports,
             ReadElement(p) \/ \E b \in Bufs : ReleaseElement(p, b)
      PROVE  UNCHANGED filterVars
  BY <1>6 DEF ReadElement, ReleaseElement, filterVars, filters
<1>7. ASSUME NEW b \in Bufs, SndEvtAlloc(b) \/ SndEvtFeed(b) \/ AllocElement(b)
      PROVE  UNCHANGED filterVars
  BY <1>7 DEF SndEvtAlloc, SndEvtFeed, AllocElement, filterVars, filters
<1>8. ASSUME \/ TransferStart \/ Readv \/ NotAligned \/ BatchDone \/ TransferStop
             \/ \E pid \in Pids : FeedPacket(pid)
      PROVE  UNCHANGED filterVars
  BY <1>8 DEF TransferStart, Readv, NotAligned, BatchDone, TransferStop, FeedPacket,
              filterVars, filters
<1>9. CASE UNCHANGED vars
  BY <1>5, <1>9 DEF vars, filterVars
<1> QED BY <1>1, <1>2, <1>3, <1>4, <1>5, <1>6, <1>7, <1>8, <1>9 DEF Next

(* For every set of ports and pids: no filter outlives the last port that  *)
(* wants its pid, and every wanted pid has its filter unless the device    *)
(* refused to open it.                                                     *)
THEOREM FiltersAlwaysFollow == Spec => []FiltersFollowPorts
<1>1. Init => FilterInv
  BY DEF Init, FilterInv, FilterType, FiltersFollowPorts, AllPids
<1>2. FilterInv /\ [Next]_vars => FilterInv'
  BY FilterStep
<1>3. FilterInv => FiltersFollowPorts
  BY DEF FilterInv
<1> QED BY <1>1, <1>2, <1>3, PTL DEF Spec

-----------------------------------------------------------------------------
(* Queues.                                                                 *)

(* Induction over the natural numbers, for a set.                          *)
LEMMA NatSetInduction ==
  ASSUME NEW S \in SUBSET Nat, 0 \in S, \A n \in S : n + 1 \in S
  PROVE  S = Nat
<1> DEFINE T == Nat \ S
           R == OpToRel(<, Nat)
<1> SUFFICES ASSUME T # {} PROVE FALSE
  OBVIOUS
<1>1. IsWellFoundedOn(R, Nat)
  BY NatLessThanWellFounded
<1>2. \A i, j \in Nat : <<i, j>> \in R <=> i < j
  BY DEF OpToRel
<1> HIDE DEF R
<1>3. PICK x \in T : \A y \in T : ~(<<y, x>> \in R)
  BY <1>1, WFMin
<1>4. x \in Nat /\ x \notin S
  OBVIOUS
<1>5. x # 0 /\ x - 1 \in Nat /\ x = (x - 1) + 1
  BY <1>4
<1>6. x - 1 \in S
  <2>1. <<x - 1, x>> \in R
    BY <1>2, <1>4, <1>5
  <2>2. x - 1 \notin T
    BY <1>3, <2>1
  <2> QED BY <1>5, <2>2
<1> QED BY <1>4, <1>5, <1>6

(* F is the function Filter is computed with, up to n.                     *)
Keeps(F, q, S, n) ==
  /\ F[0] = <<>>
  /\ \A i \in 1 .. n : F[i] = IF q[i] \in S THEN Append(F[i - 1], q[i]) ELSE F[i - 1]

(* Filter is the last of the sequences its recursive function computes.    *)
LEMMA FilterRec ==
  ASSUME NEW q \in Seq(Bufs), NEW S
  PROVE  \E F : Keeps(F, q, S, Len(q)) /\ Filter(q, S) = F[Len(q)]
<1> DEFINE m == Len(q)
           Body(F) == [i \in 0 .. m |->
                         IF i = 0 THEN <<>>
                         ELSE IF q[i] \in S THEN Append(F[i - 1], q[i]) ELSE F[i - 1]]
           K == CHOOSE F : F = Body(F)
           N == {n \in Nat : \E F : Keeps(F, q, S, n)}
<1>1. m \in Nat
  OBVIOUS
<1>2. N = Nat
  <2>1. 0 \in N
    <3> DEFINE F == [i \in {0} |-> <<>>]
    <3>1. Keeps(F, q, S, 0)
      BY DEF Keeps
    <3> QED BY <3>1
  <2>2. ASSUME NEW n \in N PROVE n + 1 \in N
    <3>1. PICK F : Keeps(F, q, S, n)
      OBVIOUS
    <3> DEFINE G == [i \in 0 .. n + 1 |->
                       IF i <= n THEN F[i]
                       ELSE IF q[n + 1] \in S THEN Append(F[n], q[n + 1]) ELSE F[n]]
    <3>2. n \in Nat
      OBVIOUS
    <3> HIDE DEF N
    <3>3. /\ \A i \in 0 .. n : G[i] = F[i]
          /\ G[n + 1] = IF q[n + 1] \in S THEN Append(F[n], q[n + 1]) ELSE F[n]
      BY <3>2
    <3> HIDE DEF G
    <3>4. ASSUME NEW i \in 1 .. n + 1
          PROVE  G[i] = IF q[i] \in S THEN Append(G[i - 1], q[i]) ELSE G[i - 1]
      <4>1. CASE i <= n
        <5>1. i \in 1 .. n /\ i - 1 \in 0 .. n /\ i \in 0 .. n
          BY <3>2, <4>1
        <5> QED BY <3>1, <3>3, <5>1 DEF Keeps
      <4>2. CASE ~(i <= n)
        <5>1. i = n + 1 /\ i - 1 = n /\ n \in 0 .. n
          BY <3>2, <4>2
        <5> QED BY <3>3, <5>1
      <4> QED BY <4>1, <4>2
    <3>5. G[0] = <<>>
      BY <3>1, <3>2, <3>3 DEF Keeps
    <3>6. Keeps(G, q, S, n + 1)
      BY <3>4, <3>5 DEF Keeps
    <3> QED BY <3>2, <3>6 DEF N
  <2> HIDE DEF N
  <2>3. N \in SUBSET Nat
    BY DEF N
  <2> QED BY <2>1, <2>2, <2>3, NatSetInduction
<1>3. PICK F0 : Keeps(F0, q, S, m)
  BY <1>1, <1>2
<1>4. \E F : F = Body(F)
  <2> DEFINE F == [i \in 0 .. m |-> F0[i]]
  <2>1. ASSUME NEW i \in 0 .. m PROVE F[i] = Body(F)[i]
    <3>1. CASE i = 0
      BY <1>1, <1>3, <3>1 DEF Keeps
    <3>2. CASE i # 0
      <4>1. i \in 1 .. m /\ i - 1 \in 0 .. m
        BY <1>1, <3>2
      <4> QED BY <1>3, <3>2, <4>1 DEF Keeps
    <3> QED BY <3>1, <3>2
  <2>2. F = Body(F)
    BY <2>1
  <2> QED BY <2>2
<1>5. K = Body(K)
  BY <1>4
<1>6. Filter(q, S) = K[m]
  BY DEF Filter
<1> HIDE DEF K
<1>7. Keeps(K, q, S, m)
  <2>1. K[0] = <<>>
    BY <1>1, <1>5
  <2>2. ASSUME NEW i \in 1 .. m
        PROVE  K[i] = IF q[i] \in S THEN Append(K[i - 1], q[i]) ELSE K[i - 1]
    <3>1. i \in 0 .. m /\ i # 0
      BY <1>1
    <3>2. Body(K)[i] = IF q[i] \in S THEN Append(K[i - 1], q[i]) ELSE K[i - 1]
      BY <3>1
    <3> HIDE DEF Body
    <3> QED BY <1>5, <3>2
  <2> QED BY <2>1, <2>2 DEF Keeps
<1> QED BY <1>6, <1>7

(* No element is twice in q.                                               *)
Once(q) == \A i, j \in DOMAIN q : q[i] = q[j] => i = j

(* list_add_tail: one more element, the others where they were.            *)
LEMMA AppendEffect ==
  ASSUME NEW q \in Seq(Bufs), NEW b \in Bufs
  PROVE  /\ Append(q, b) \in Seq(Bufs) /\ Len(Append(q, b)) = Len(q) + 1
         /\ Entries(Append(q, b)) = Entries(q) \cup {b}
         /\ Once(q) /\ b \notin Entries(q) => Once(Append(q, b))
         /\ SubSeq(Append(q, b), 1, Len(q)) = q
<1> DEFINE r == Append(q, b)
           n == Len(q)
<1>1. /\ r \in Seq(Bufs) /\ Len(r) = n + 1 /\ n \in Nat
      /\ DOMAIN q = 1 .. n /\ DOMAIN r = 1 .. n + 1
      /\ \A i \in 1 .. n : r[i] = q[i]
      /\ r[n + 1] = b
  OBVIOUS
<1> HIDE DEF r, n
<1>2. \A i \in 1 .. n + 1 : i \in 1 .. n \/ i = n + 1
  BY <1>1
<1>a. \A i \in 1 .. n : i \in 1 .. n + 1
  BY <1>1
<1>3. Entries(r) = Entries(q) \cup {b}
  <2>1. n + 1 \in 1 .. n + 1
    BY <1>1
  <2> QED BY <1>1, <1>2, <1>a, <2>1 DEF Entries
<1>4. Once(q) /\ b \notin Entries(q) => Once(r)
  <2> SUFFICES ASSUME Once(q), b \notin Entries(q), NEW i \in 1 .. n + 1, NEW j \in 1 .. n + 1,
                      r[i] = r[j]
               PROVE  i = j
    BY <1>1 DEF Once
  <2> QED BY <1>1, <1>2 DEF Once, Entries
<1>5. SubSeq(r, 1, n) = q
  <2>1. \A i \in 1 .. n : r[i] \in Bufs
    BY <1>1
  <2>2. /\ SubSeq(r, 1, n) \in Seq(Bufs)
        /\ Len(SubSeq(r, 1, n)) = IF 1 <= n THEN n - 1 + 1 ELSE 0
        /\ \A i \in 1 .. n - 1 + 1 : SubSeq(r, 1, n)[i] = r[1 + i - 1]
    BY <1>1, <2>1, SubSeqProperties
  <2>3. Len(SubSeq(r, 1, n)) = n /\ \A i \in 1 .. n : SubSeq(r, 1, n)[i] = q[i]
    BY <1>1, <2>2
  <2> QED BY <1>1, <2>2, <2>3, SeqEqual DEF n
<1> QED BY <1>1, <1>3, <1>4, <1>5 DEF r, n

(* Filter keeps the elements in S, each as often as it was.                *)
LEMMA FilterEffect ==
  ASSUME NEW q \in Seq(Bufs), NEW S
  PROVE  /\ Filter(q, S) \in Seq(Bufs)
         /\ Entries(Filter(q, S)) = Entries(q) \cap S
         /\ Once(q) => Once(Filter(q, S))
<1> DEFINE m == Len(q)
           Upto(i) == {q[j] : j \in 1 .. i}
<1>1. m \in Nat /\ DOMAIN q = 1 .. m /\ \A i \in 1 .. m : q[i] \in Bufs
  OBVIOUS
<1>2. PICK F : Keeps(F, q, S, m) /\ Filter(q, S) = F[m]
  BY FilterRec
<1> DEFINE Good(i) == /\ F[i] \in Seq(Bufs) /\ Entries(F[i]) = Upto(i) \cap S
                      /\ Once(q) => Once(F[i])
           N == {i \in Nat : i <= m => Good(i)}
<1>3. 0 \in N
  <2>1. F[0] = <<>>
    BY <1>2 DEF Keeps
  <2>2. <<>> \in Seq(Bufs) /\ Entries(<<>>) = {} /\ Once(<<>>)
    BY DEF Entries, Once
  <2>3. Upto(0) = {}
    OBVIOUS
  <2> QED BY <2>1, <2>2, <2>3
<1>4. ASSUME NEW n \in N PROVE n + 1 \in N
  <2>1. n \in Nat /\ n + 1 \in Nat
    OBVIOUS
  <2> SUFFICES ASSUME n + 1 <= m PROVE Good(n + 1)
    OBVIOUS
  <2>2. /\ n + 1 \in 1 .. m /\ (n + 1) - 1 = n
        /\ \A j \in 1 .. n : j \in 1 .. m /\ j \in 1 .. n + 1
        /\ \A j \in 1 .. n + 1 : j \in 1 .. n \/ j = n + 1
        /\ n + 1 \in 1 .. n + 1 /\ n + 1 \notin 1 .. n
    BY <1>1, <2>1
  <2>3. Good(n)
    BY <1>1, <2>1
  <2> DEFINE b == q[n + 1]
             f == F[n]
             g == F[n + 1]
  <2>4. b \in Bufs /\ g = IF b \in S THEN Append(f, b) ELSE f
    BY <1>1, <1>2, <2>2 DEF Keeps
  <2>5. Upto(n + 1) = Upto(n) \cup {b}
    BY <2>2
  <2>6. Once(q) => b \notin Upto(n)
    BY <1>1, <2>2 DEF Once
  <2>7. f \in Seq(Bufs) /\ Entries(f) = Upto(n) \cap S /\ (Once(q) => Once(f))
    BY <2>3
  <2> HIDE DEF b, f, Upto, N
  <2>8. g \in Seq(Bufs) /\ Entries(g) = Upto(n + 1) \cap S /\ (Once(q) => Once(g))
    <3> HIDE DEF g
    <3>1. CASE b \in S
      BY <2>4, <2>5, <2>6, <2>7, <3>1, AppendEffect
    <3>2. CASE b \notin S
      BY <2>4, <2>5, <2>7, <3>2
    <3> QED BY <3>1, <3>2
  <2> QED BY <2>8
<1> HIDE DEF N
<1>5. N = Nat
  <2>1. N \in SUBSET Nat
    BY DEF N
  <2> QED BY <1>3, <1>4, <2>1, NatSetInduction
<1>6. Good(m)
  <2> HIDE DEF Good
  <2>1. m \in N /\ m <= m
    BY <1>1, <1>5
  <2> QED BY <2>1 DEF N
<1>7. Upto(m) = Entries(q)
  BY <1>1 DEF Entries
<1> QED BY <1>2, <1>6, <1>7

(* What is kept is the same for sets that agree on the elements of q.      *)
LEMMA FilterSame ==
  ASSUME NEW q \in Seq(Bufs), NEW S, NEW T, Entries(q) \cap S = Entries(q) \cap T
  PROVE  Filter(q, S) = Filter(q, T)
<1> DEFINE m == Len(q)
<1>1. m \in Nat /\ \A i \in 1 .. m : q[i] \in S <=> q[i] \in T
  BY DEF Entries
<1>2. PICK F : Keeps(F, q, S, m) /\ Filter(q, S) = F[m]
  BY FilterRec
<1>3. PICK G : Keeps(G, q, T, m) /\ Filter(q, T) = G[m]
  BY FilterRec
<1> DEFINE N == {i \in Nat : i <= m => F[i] = G[i]}
<1>4. 0 \in N
  BY <1>2, <1>3 DEF Keeps
<1>5. ASSUME NEW n \in N PROVE n + 1 \in N
  <2> SUFFICES ASSUME n + 1 <= m PROVE F[n + 1] = G[n + 1]
    OBVIOUS
  <2>1. n + 1 \in 1 .. m /\ (n + 1) - 1 = n /\ F[n] = G[n]
    BY <1>1
  <2> HIDE DEF N
  <2> QED BY <1>1, <1>2, <1>3, <2>1 DEF Keeps
<1> HIDE DEF N
<1>6. N = Nat
  <2>1. N \in SUBSET Nat
    BY DEF N
  <2> QED BY <1>4, <1>5, <2>1, NatSetInduction
<1> QED BY <1>1, <1>2, <1>3, <1>6 DEF N

(* What is kept if only the first k elements go.                           *)
LEMMA FilterSuffix ==
  ASSUME NEW q \in Seq(Bufs), NEW S, NEW k \in Nat,
         \A i \in 1 .. Len(q) : q[i] \in S <=> i > k
  PROVE  Filter(q, S) = SubSeq(q, k + 1, Len(q))
<1> DEFINE m == Len(q)
<1>1. m \in Nat /\ \A i \in 1 .. m : q[i] \in Bufs
  OBVIOUS
<1>2. PICK F : Keeps(F, q, S, m) /\ Filter(q, S) = F[m]
  BY FilterRec
<1> DEFINE Sub(i) == SubSeq(q, k + 1, i)
           N == {i \in Nat : i <= m => F[i] = Sub(i)}
<1>3. \A i \in 0 .. m : /\ Sub(i) \in Seq(Bufs)
                        /\ Len(Sub(i)) = IF k + 1 <= i THEN i - (k + 1) + 1 ELSE 0
                        /\ \A j \in 1 .. i - (k + 1) + 1 : Sub(i)[j] = q[k + 1 + j - 1]
  <2> SUFFICES ASSUME NEW i \in 0 .. m
               PROVE  /\ Sub(i) \in Seq(Bufs)
                      /\ Len(Sub(i)) = IF k + 1 <= i THEN i - (k + 1) + 1 ELSE 0
                      /\ \A j \in 1 .. i - (k + 1) + 1 : Sub(i)[j] = q[k + 1 + j - 1]
    OBVIOUS
  <2>1. \A j \in (k + 1) .. i : q[j] \in Bufs
    BY <1>1
  <2> QED BY <1>1, <2>1, SubSeqProperties
<1> HIDE DEF Sub
<1>4. 0 \in N
  <2>1. 0 \in 0 .. m /\ ~(k + 1 <= 0)
    BY <1>1
  <2>2. Sub(0) \in Seq(Bufs) /\ Len(Sub(0)) = 0
    BY <1>3, <2>1
  <2>3. Sub(0) = <<>>
    BY <2>2, EmptySeq
  <2> QED BY <1>2, <2>3 DEF Keeps
<1>5. ASSUME NEW n \in N PROVE n + 1 \in N
  <2> SUFFICES ASSUME n + 1 <= m PROVE F[n + 1] = Sub(n + 1)
    OBVIOUS
  <2>1. n \in Nat /\ n + 1 \in 1 .. m /\ n + 1 \in 0 .. m /\ n \in 0 .. m /\ (n + 1) - 1 = n /\ F[n] = Sub(n)
    BY <1>1
  <2> HIDE DEF N
  <2>2. F[n + 1] = IF n + 1 > k THEN Append(Sub(n), q[n + 1]) ELSE Sub(n)
    BY <1>2, <2>1 DEF Keeps
  <2> DEFINE a == Sub(n)
             c == Sub(n + 1)
             b == q[n + 1]
  <2>3. /\ a \in Seq(Bufs) /\ c \in Seq(Bufs) /\ b \in Bufs
        /\ Len(a) = IF k + 1 <= n THEN n - k ELSE 0
        /\ Len(c) = IF k + 1 <= n + 1 THEN n + 1 - k ELSE 0
    <3>1. /\ a \in Seq(Bufs) /\ Len(a) = IF k + 1 <= n THEN n - (k + 1) + 1 ELSE 0
          /\ c \in Seq(Bufs) /\ Len(c) = IF k + 1 <= n + 1 THEN n + 1 - (k + 1) + 1 ELSE 0
      BY <1>3, <2>1
    <3>2. n - (k + 1) + 1 = n - k /\ n + 1 - (k + 1) + 1 = n + 1 - k
      BY <2>1
    <3>3. b \in Bufs
      BY <1>1, <2>1
    <3> QED BY <3>1, <3>2, <3>3
  <2>4. /\ \A j \in 1 .. n - k : a[j] = q[k + j]
        /\ \A j \in 1 .. n + 1 - k : c[j] = q[k + j]
    <3>a. \A j \in 1 .. n - (k + 1) + 1 : a[j] = q[k + 1 + j - 1]
      BY <1>3, <2>1
    <3>1. \A j \in 1 .. n + 1 - (k + 1) + 1 : c[j] = q[k + 1 + j - 1]
      BY <1>3, <2>1
    <3>2. /\ \A j \in 1 .. n - k : j \in 1 .. n - (k + 1) + 1 /\ k + 1 + j - 1 = k + j
          /\ \A j \in 1 .. n + 1 - k : j \in 1 .. n + 1 - (k + 1) + 1 /\ k + 1 + j - 1 = k + j
      BY <2>1
    <3> HIDE DEF a, c
    <3> QED BY <3>a, <3>1, <3>2
  <2> HIDE DEF a, b, c, m
  <2>5. CASE n + 1 > k
    <3>1. Len(a) = n - k /\ Len(c) = n - k + 1 /\ n - k \in Nat
      BY <2>1, <2>3, <2>5
    <3>2. Append(a, b) \in Seq(Bufs) /\ Len(Append(a, b)) = n - k + 1
          /\ (\A j \in 1 .. n - k : Append(a, b)[j] = a[j]) /\ Append(a, b)[n - k + 1] = b
      BY <2>3, <3>1
    <3>3. ASSUME NEW j \in 1 .. n - k + 1 PROVE c[j] = Append(a, b)[j]
      <4>1. j \in 1 .. n + 1 - k
        BY <2>1
      <4>2. CASE j <= n - k
        <5>1. j \in 1 .. n - k
          BY <2>1, <4>2
        <5> QED BY <2>4, <3>2, <4>1, <5>1
      <4>3. CASE ~(j <= n - k)
        <5>1. j = n - k + 1 /\ k + j = n + 1
          BY <2>1, <4>3
        <5> QED BY <2>4, <3>2, <4>1, <5>1 DEF b
      <4> QED BY <4>2, <4>3
    <3>4. c = Append(a, b)
      BY <2>3, <3>1, <3>2, <3>3, SeqEqual
    <3> QED BY <2>2, <2>5, <3>4 DEF a, b, c
  <2>6. CASE ~(n + 1 > k)
    <3>1. Len(a) = 0 /\ Len(c) = 0
      BY <2>1, <2>3, <2>6
    <3>2. a = <<>> /\ c = <<>>
      BY <2>3, <3>1, EmptySeq
    <3> QED BY <2>2, <2>6, <3>2 DEF a, c
  <2> QED BY <2>5, <2>6
<1> HIDE DEF N
<1>6. N = Nat
  <2>1. N \in SUBSET Nat
    BY DEF N
  <2> QED BY <1>4, <1>5, <2>1, NatSetInduction
<1> QED BY <1>1, <1>2, <1>6 DEF N, Sub

-----------------------------------------------------------------------------
(* The pool.                                                               *)

PoolProofs == INSTANCE BufferPoolProofs WITH Holders <- PoolHolders, hold <- PoolHold, data <- PoolData

(* The two instances of the pool speak of the same cardinalities.          *)
LEMMA SameCardinality ==
  ASSUME NEW S
  PROVE  /\ PoolProofs!Cardinality(S) = Cardinality(S) /\ Pool!Cardinality(S) = Cardinality(S)
         /\ PoolProofs!IsFiniteSet(S) <=> IsFiniteSet(S)
<1>1. PoolProofs!Cardinality(S) = Cardinality(S)
  BY DEF PoolProofs!Cardinality, Cardinality
<1>2. Pool!Cardinality(S) = Cardinality(S)
  BY DEF Pool!Cardinality, Cardinality
<1>3. PoolProofs!IsFiniteSet(S) <=> IsFiniteSet(S)
  BY DEF PoolProofs!IsFiniteSet, IsFiniteSet
<1> QED BY <1>1, <1>2, <1>3

(* The two instances of the pool have the same parts,                      *)
LEMMA SameParts ==
  /\ PoolProofs!Freed = Pool!Freed /\ PoolProofs!TypeOK = Pool!TypeOK /\ PoolProofs!Live = Pool!Live
  /\ \A b : PoolProofs!HoldersOf(b) = Pool!HoldersOf(b) /\ PoolProofs!Dropping(b) = Pool!Dropping(b)
<1>1. \A b : PoolProofs!HoldersOf(b) = Pool!HoldersOf(b) /\ PoolProofs!Dropping(b) = Pool!Dropping(b)
  BY DEF PoolProofs!HoldersOf, Pool!HoldersOf, PoolProofs!Dropping, Pool!Dropping
<1>2. PoolProofs!Live = Pool!Live
  BY DEF PoolProofs!Live, Pool!Live
<1>3. PoolProofs!Freed = Pool!Freed
  BY <1>1, SameCardinality DEF PoolProofs!Freed, Pool!Freed
<1>4. PoolProofs!TypeOK = Pool!TypeOK
  BY DEF PoolProofs!TypeOK, Pool!TypeOK
<1> QED BY <1>1, <1>2, <1>3, <1>4

(* the same invariant,                                                     *)
LEMMA SameInv == PoolProofs!PoolInv <=> Pool!PoolInv
BY SameParts, SameCardinality DEF PoolProofs!PoolInv, Pool!PoolInv, PoolProofs!RefcountExact, Pool!RefcountExact,
  PoolProofs!NumBuffersExact, Pool!NumBuffersExact, PoolProofs!DataLive, Pool!DataLive, PoolProofs!DataWithinLimit, Pool!DataWithinLimit

(* the same invariant after a step,                                        *)
LEMMA SamePrimed == (PoolProofs!PoolInv)' <=> (Pool!PoolInv)'
<1>1. \A b : PoolProofs!HoldersOf(b)' = Pool!HoldersOf(b)'
  BY DEF PoolProofs!HoldersOf, Pool!HoldersOf
<1>2. (PoolProofs!Live)' = (Pool!Live)' /\ (PoolProofs!TypeOK)' = (Pool!TypeOK)'
  BY DEF PoolProofs!Live, Pool!Live, PoolProofs!TypeOK, Pool!TypeOK
<1> QED BY <1>1, <1>2, SameCardinality DEF PoolProofs!PoolInv, Pool!PoolInv, PoolProofs!RefcountExact, Pool!RefcountExact,
  PoolProofs!NumBuffersExact, Pool!NumBuffersExact, PoolProofs!DataLive, Pool!DataLive, PoolProofs!DataWithinLimit, Pool!DataWithinLimit

(* and the same steps.                                                     *)
LEMMA SameNext == Pool!Next => PoolProofs!Next
<1>1. ASSUME NEW h, NEW b PROVE Pool!AllocElement(h, b) => PoolProofs!AllocElement(h, b)
  BY DEF PoolProofs!AllocElement, PoolProofs!Malloc, Pool!AllocElement, Pool!Malloc
<1>a. ASSUME NEW h, NEW b PROVE Pool!AllocEvent(h, b) => PoolProofs!AllocEvent(h, b)
  BY DEF PoolProofs!AllocEvent, PoolProofs!Malloc, Pool!AllocEvent, Pool!Malloc
<1>2. ASSUME NEW h, NEW b, NEW r PROVE Pool!Feed(h, b, r) => PoolProofs!Feed(h, b, r)
  BY SameCardinality, SameParts DEF PoolProofs!Feed, Pool!Feed
<1>3. ASSUME NEW h, NEW b, NEW g PROVE Pool!Read(h, g, b) => PoolProofs!Read(h, g, b)
  BY DEF PoolProofs!Read, Pool!Read
<1>4. Pool!Release => PoolProofs!Release
  BY SameCardinality, SameParts DEF PoolProofs!Release, Pool!Release
<1> SUFFICES ASSUME Pool!Next PROVE PoolProofs!Next
  OBVIOUS
<1>5. CASE \E h \in PoolHolders, b \in Bufs : Pool!AllocElement(h, b)
  <2>1. PICK h \in PoolHolders, b \in Bufs : Pool!AllocElement(h, b)
    BY <1>5
  <2>2. PoolProofs!AllocElement(h, b)
    BY <1>1, <2>1
  <2> QED BY <2>2 DEF PoolProofs!Next
<1>6. CASE \E h \in PoolHolders, b \in Bufs : Pool!AllocEvent(h, b)
  <2>1. PICK h \in PoolHolders, b \in Bufs : Pool!AllocEvent(h, b)
    BY <1>6
  <2>2. PoolProofs!AllocEvent(h, b)
    BY <1>a, <2>1
  <2> QED BY <2>2 DEF PoolProofs!Next
<1>7. CASE \E h \in PoolHolders : \E b \in PoolHold[h] :
             \E r \in SUBSET (PoolHolders \ Pool!HoldersOf(b)) : Pool!Feed(h, b, r)
  BY <1>2, <1>7, SameParts DEF PoolProofs!Next
<1>8. CASE \E h, g \in PoolHolders : \E b \in PoolHold[h] : Pool!Read(h, g, b)
  BY <1>3, <1>8 DEF PoolProofs!Next
<1>9. CASE Pool!Release
  BY <1>4, <1>9 DEF PoolProofs!Next
<1> QED BY <1>5, <1>6, <1>7, <1>8, <1>9 DEF Pool!Next

(* The holders are finitely many.                                          *)
LEMMA PoolAssumptionHolds == IsFiniteSet(PoolHolders) /\ IsFiniteSet(Bufs) /\ Limit \in Nat
<1>1. IsFiniteSet(Ports) /\ IsFiniteSet(Bufs) /\ Limit \in Nat
  BY SelectorAssumption
<1>2. IsFiniteSet({"queue", "hand"}) /\ IsFiniteSet({"dvb"}) /\ IsFiniteSet({"iov", "evt"})
  <2>1. ASSUME NEW x, NEW y PROVE IsFiniteSet({x, y})
    <3>1. IsFiniteSet({x}) /\ IsFiniteSet({y}) /\ {x, y} = {x} \cup {y}
      BY FS_Singleton
    <3>2. IsFiniteSet({x} \cup {y})
      BY <3>1, FS_Union
    <3> QED BY <3>1, <3>2
  <2> QED BY <2>1, FS_Singleton
<1>3. IsFiniteSet({"queue", "hand"} \X Ports) /\ IsFiniteSet({"dvb"} \X {"iov", "evt"})
  BY <1>1, <1>2, FS_Product
<1>4. IsFiniteSet(PoolHolders)
  BY <1>3, FS_Union DEF PoolHolders
<1> QED BY <1>1, <1>4

(* PoolInv holds along the steps of the pool.                              *)
LEMMA PoolKeeps ==
  ASSUME Pool!PoolInv, Pool!Next \/ UNCHANGED <<PoolHold, ref, PoolData, num_buffers>>
  PROVE  Pool!PoolInv'
<1>1. PoolProofs!PoolInv /\ [PoolProofs!Next]_(PoolProofs!vars)
  BY SameInv, SameNext DEF PoolProofs!vars
<1>2. PoolProofs!PoolInv'
  BY <1>1, PoolAssumptionHolds, SameCardinality, PoolProofs!PoolStep
<1> QED BY <1>2, SamePrimed

-----------------------------------------------------------------------------
(* Holders.                                                                *)

(* A holder is a queue, a client, the vector or the senders of events.     *)
LEMMA HolderKinds ==
  /\ \A h \in PoolHolders : \/ \E p \in Ports : h = <<"queue", p>> \/ h = <<"hand", p>>
                            \/ h = <<"dvb", "iov">> \/ h = <<"dvb", "evt">>
  /\ \A p \in Ports : <<"queue", p>> \in PoolHolders /\ <<"hand", p>> \in PoolHolders
  /\ <<"dvb", "iov">> \in PoolHolders /\ <<"dvb", "evt">> \in PoolHolders
BY DEF PoolHolders

(* What each of them holds, before and after a step.                       *)
LEMMA HoldIs ==
  /\ PoolHold = [h \in PoolHolders |-> PoolHold[h]]
  /\ \A p \in Ports : PoolHold[<<"queue", p>>] = Entries(queue[p]) /\ PoolHold[<<"hand", p>>] = hand[p]
  /\ PoolHold[<<"dvb", "iov">>] = Entries(iov) /\ PoolHold[<<"dvb", "evt">>] = sending
BY HolderKinds DEF PoolHold

(* The same after a step.                                                  *)
LEMMA HoldIsPrimed ==
  /\ PoolHold' = [h \in PoolHolders |-> PoolHold'[h]]
  /\ \A p \in Ports : PoolHold'[<<"queue", p>>] = Entries(queue'[p]) /\ PoolHold'[<<"hand", p>>] = hand'[p]
  /\ PoolHold'[<<"dvb", "iov">>] = Entries(iov') /\ PoolHold'[<<"dvb", "evt">>] = sending'
<1>1. Entries(iov)' = Entries(iov') /\ \A p \in Ports : Entries(queue[p])' = Entries(queue'[p])
  BY DEF Entries
<1> QED BY <1>1, HolderKinds DEF PoolHold

(* To know what is held after a step, it is enough to know it of each kind.*)
LEMMA HoldBecomes ==
  ASSUME NEW f, f = [h \in PoolHolders |-> f[h]],
         \A p \in Ports : f[<<"queue", p>>] = Entries(queue'[p]) /\ f[<<"hand", p>>] = hand'[p],
         f[<<"dvb", "iov">>] = Entries(iov'), f[<<"dvb", "evt">>] = sending'
  PROVE  PoolHold' = f
<1>1. ASSUME NEW h \in PoolHolders PROVE PoolHold'[h] = f[h]
  <2>1. CASE \E p \in Ports : h = <<"queue", p>> \/ h = <<"hand", p>>
    BY <2>1, HoldIsPrimed
  <2>2. CASE h = <<"dvb", "iov">> \/ h = <<"dvb", "evt">>
    BY <2>2, HoldIsPrimed
  <2> QED BY <2>1, <2>2, HolderKinds
<1> HIDE DEF PoolHold
<1> QED BY <1>1, HoldIsPrimed

(* The blocks in use as the types have them.                               *)
BlockType ==
  /\ queue \in [Ports -> Seq(Bufs)]
  /\ hand \in [Ports -> SUBSET Bufs]
  /\ content \in [Bufs -> Pids \cup {Evt, Unfilled, Free}]
  /\ sending \in SUBSET Bufs
  /\ iov \in Seq(Bufs) /\ Len(iov) <= NumBuf
  /\ step \in {"stopped", "poll", "work"}
  /\ left \in 0..NumBuf
  /\ misaligned \in BOOLEAN

(* Nobody but the transfer thread has the packets it reads into, nobody    *)
(* but its sender an event not yet fed; no port has a block twice; and a   *)
(* port that is not linked has an empty queue, as AddPort takes for        *)
(* granted.                                                                *)
Alone(b) == \A p \in Ports : b \notin Entries(queue[p]) /\ b \notin hand[p]

Apart ==
  /\ \A p \in Ports : Once(queue[p]) /\ Entries(queue[p]) \cap hand[p] = {}
  /\ Once(iov)
  /\ \A b \in Entries(iov) : content[b] = Unfilled /\ b \notin sending /\ Alone(b)
  /\ \A b \in sending : content[b] = Evt /\ Alone(b)
  /\ \A b \in Bufs : content[b] = Free <=> ref[b] = 0

Unlinked == \A p \in Ports \ linked : queue[p] = <<>>

Batch ==
  /\ left <= Len(iov) /\ (misaligned => left < Len(iov))
  /\ step # "work" => left = 0 /\ ~misaligned

Handling == Apart /\ Unlinked /\ Batch

SelInv ==
  /\ FilterInv
  /\ BlockType
  /\ Handling
  /\ Pool!PoolInv

(* A step of the pool, or none, that keeps the rest.                       *)
PoolVars == <<PoolHold, ref, PoolData, num_buffers>>

Fine ==
  /\ Pool!Next \/ UNCHANGED PoolVars
  /\ BlockType' /\ Handling'

(* The contents of a block are told apart.                                 *)
LEMMA Contents == Evt # Unfilled /\ Evt # Free /\ Unfilled # Free /\ {Evt, Unfilled, Free} \cap Pids = {}
<1>1. Cardinality({Evt, Unfilled, Free}) = 3 /\ {Evt, Unfilled, Free} \cap Pids = {}
  BY SelectorAssumption
<1>2. ASSUME NEW x, NEW y, {Evt, Unfilled, Free} = {x, y} PROVE FALSE
  <2>1. IsFiniteSet({x}) /\ Cardinality({x}) = 1
    BY FS_Singleton
  <2>2. Cardinality({x} \cup {y}) <= 2
    <3>1. Cardinality({x} \cup {y}) = IF y \in {x} THEN Cardinality({x}) ELSE Cardinality({x}) + 1
      BY <2>1, FS_AddElement
    <3> QED BY <2>1, <3>1
  <2>3. {x, y} = {x} \cup {y}
    OBVIOUS
  <2> QED BY <1>1, <1>2, <2>2, <2>3
<1>3. ASSUME Evt = Unfilled PROVE FALSE
  <2>1. {Evt, Unfilled, Free} = {Evt, Free}
    BY <1>3
  <2> QED BY <1>2, <2>1
<1>4. ASSUME Evt = Free PROVE FALSE
  <2>1. {Evt, Unfilled, Free} = {Evt, Unfilled}
    BY <1>4
  <2> QED BY <1>2, <2>1
<1>5. ASSUME Unfilled = Free PROVE FALSE
  <2>1. {Evt, Unfilled, Free} = {Evt, Unfilled}
    BY <1>5
  <2> QED BY <1>2, <2>1
<1> QED BY <1>1, <1>3, <1>4, <1>5

(* A block somebody holds is in use.                                       *)
LEMMA HeldCounts ==
  ASSUME NEW H, NEW b, NEW h \in PoolHolders, b \in H[h]
  PROVE  Cardinality({g \in PoolHolders : b \in H[g]}) # 0
<1> DEFINE S == {g \in PoolHolders : b \in H[g]}
<1>1. IsFiniteSet(S)
  BY PoolAssumptionHolds, FS_Subset
<1>2. h \in S
  OBVIOUS
<1> QED BY <1>1, <1>2, FS_EmptySet

(* Whatever a queue, a client, the vector or a sender has is in use.       *)
LEMMA InUse ==
  ASSUME SelInv
  PROVE  /\ \A p \in Ports, b \in Bufs : b \in Entries(queue[p]) \/ b \in hand[p] => ref[b] # 0
         /\ \A b \in Bufs : b \in Entries(iov) \/ b \in sending => ref[b] # 0
         /\ ref \in [Bufs -> Nat] /\ num_buffers \in Nat
<1>1. \A b \in Bufs : ref[b] = Cardinality({g \in PoolHolders : b \in PoolHold[g]})
  BY SameCardinality DEF SelInv, Pool!PoolInv, Pool!RefcountExact, Pool!HoldersOf
<1>2. \A b \in Bufs, h \in PoolHolders : b \in PoolHold[h] => ref[b] # 0
  BY <1>1, HeldCounts
<1>3. ref \in [Bufs -> Nat] /\ num_buffers \in Nat
  BY DEF SelInv, Pool!PoolInv, Pool!TypeOK
<1> QED BY <1>2, <1>3, HoldIs, HolderKinds

(* The same after a step that keeps the pool.                              *)
LEMMA InUsePrimed ==
  ASSUME Pool!PoolInv'
  PROVE  /\ \A p \in Ports, b \in Bufs : b \in Entries(queue'[p]) \/ b \in hand'[p] => ref'[b] # 0
         /\ \A b \in Bufs : b \in Entries(iov') \/ b \in sending' => ref'[b] # 0
         /\ ref' \in [Bufs -> Nat] /\ num_buffers' \in Nat
<1>1. \A b \in Bufs : ref'[b] = Cardinality({g \in PoolHolders : b \in PoolHold'[g]})
  BY SameCardinality DEF Pool!PoolInv, Pool!RefcountExact, Pool!HoldersOf
<1>2. \A b \in Bufs, h \in PoolHolders : b \in PoolHold'[h] => ref'[b] # 0
  BY <1>1, HeldCounts
<1>3. ref' \in [Bufs -> Nat] /\ num_buffers' \in Nat
  BY DEF Pool!PoolInv, Pool!TypeOK
<1> QED BY <1>2, <1>3, HoldIsPrimed, HolderKinds

-----------------------------------------------------------------------------
(* Steps that leave the pool alone.                                        *)

(* A step that touches no block and no queue leaves the pool alone.        *)
LEMMA QuietPool ==
  ASSUME BlockType, Apart, UNCHANGED <<queue, hand, blocks, sending, iov>>
  PROVE  UNCHANGED PoolVars /\ Apart'
<1>1. queue' = queue /\ hand' = hand /\ ref' = ref /\ content' = content /\ num_buffers' = num_buffers
      /\ sending' = sending /\ iov' = iov
  BY DEF blocks
<1>2. PoolHold' = PoolHold
  BY <1>1 DEF PoolHold, Entries
<1>3. PoolData' = PoolData
  BY <1>1 DEF PoolData
<1>4. Apart'
  BY <1>1 DEF Apart, Alone, Entries, Once
<1> QED BY <1>1, <1>2, <1>3, <1>4 DEF PoolVars

(* selectorAddPort: the queue of the port was empty.                       *)
LEMMA AddPortFine ==
  ASSUME SelInv, NEW p \in Ports, AddPort(p)
  PROVE  Fine
<1>1. BlockType /\ Apart /\ Unlinked /\ Batch
  BY DEF SelInv, Handling
<1>2. queue' = queue
  BY <1>1 DEF AddPort, Unlinked, BlockType
<1>3. UNCHANGED <<hand, blocks, sending, transfer>> /\ linked' = linked \cup {p}
  BY DEF AddPort
<1>4. UNCHANGED PoolVars /\ Apart'
  BY <1>1, <1>2, <1>3, QuietPool DEF transfer
<1>5. Unlinked'
  BY <1>1, <1>2, <1>3 DEF Unlinked
<1>6. Batch' /\ BlockType'
  BY <1>1, <1>2, <1>3 DEF Batch, BlockType, transfer, blocks
<1> QED BY <1>4, <1>5, <1>6 DEF Fine, Handling

(* The transfer thread starts, reads a batch, or ends one.                 *)
LEMMA TransferQuietFine ==
  ASSUME SelInv, TransferStart \/ Readv \/ BatchDone
  PROVE  Fine
<1>1. BlockType /\ Apart /\ Unlinked /\ Batch
  BY DEF SelInv, Handling
<1>2. UNCHANGED <<linked, queue, hand, blocks, sending, iov>>
  BY DEF TransferStart, Readv, BatchDone
<1>3. UNCHANGED PoolVars /\ Apart'
  BY <1>1, <1>2, QuietPool
<1>4. Unlinked'
  BY <1>1, <1>2 DEF Unlinked
<1>5. /\ step' \in {"stopped", "poll", "work"} /\ left' \in 0 .. NumBuf /\ misaligned' \in BOOLEAN
      /\ Batch'
  <2>1. iov' = iov /\ Len(iov) \in Nat /\ Len(iov) <= NumBuf /\ NumBuf \in Nat
    BY <1>1, <1>2, SelectorAssumption DEF BlockType
  <2>2. CASE TransferStart
    BY <1>1, <2>1, <2>2 DEF TransferStart, Batch, BlockType
  <2>3. CASE Readv
    BY <2>1, <2>3 DEF Readv, Batch
  <2>4. CASE BatchDone
    BY <1>1, <2>1, <2>4 DEF BatchDone, Batch, BlockType
  <2> QED BY <2>2, <2>3, <2>4
<1>6. BlockType'
  BY <1>1, <1>2, <1>5 DEF BlockType, blocks
<1> QED BY <1>3, <1>4, <1>5, <1>6 DEF Fine, Handling

(* A stuttering step.                                                      *)
LEMMA StutterFine ==
  ASSUME SelInv, UNCHANGED vars
  PROVE  Fine
<1>1. BlockType /\ Apart /\ Unlinked /\ Batch
  BY DEF SelInv, Handling
<1>2. UNCHANGED <<linked, queue, hand, blocks, sending, transfer>>
  BY DEF vars, blocks, transfer
<1>3. UNCHANGED PoolVars /\ Apart'
  BY <1>1, <1>2, QuietPool DEF transfer
<1>4. Unlinked' /\ Batch' /\ BlockType'
  BY <1>1, <1>2 DEF Unlinked, Batch, BlockType, transfer, blocks
<1> QED BY <1>3, <1>4 DEF Fine, Handling

-----------------------------------------------------------------------------
(* A reference moves from a port's queue to its client.                    *)

(* Taking the head of a queue.                                             *)
LEMMA TailEffect ==
  ASSUME NEW q \in Seq(Bufs), q # <<>>
  PROVE  /\ Head(q) \in Bufs /\ Head(q) \in Entries(q) /\ Tail(q) \in Seq(Bufs)
         /\ Len(Tail(q)) = Len(q) - 1 /\ Len(q) \in Nat \ {0}
         /\ Entries(q) = Entries(Tail(q)) \cup {Head(q)}
         /\ Once(q) => Once(Tail(q)) /\ Head(q) \notin Entries(Tail(q))
<1> DEFINE n == Len(q)
           t == Tail(q)
<1>1. /\ n \in Nat \ {0} /\ DOMAIN q = 1 .. n /\ Head(q) = q[1] /\ Head(q) \in Bufs
      /\ t \in Seq(Bufs) /\ Len(t) = n - 1 /\ DOMAIN t = 1 .. n - 1
      /\ \A i \in 1 .. n - 1 : t[i] = q[i + 1]
  <2>1. n \in Nat \ {0}
    BY EmptySeq
  <2> QED BY <2>1
<1> HIDE DEF n, t
<1>2. /\ 1 \in 1 .. n /\ \A i \in 1 .. n - 1 : i + 1 \in 1 .. n /\ i + 1 # 1
      /\ \A i \in 1 .. n : i = 1 \/ (i - 1 \in 1 .. n - 1 /\ (i - 1) + 1 = i)
  BY <1>1
<1>3. Entries(q) = Entries(t) \cup {Head(q)}
  <2>1. Entries(q) \subseteq Entries(t) \cup {Head(q)}
    <3> SUFFICES ASSUME NEW i \in 1 .. n PROVE q[i] \in Entries(t) \cup {Head(q)}
      BY <1>1 DEF Entries
    <3>1. CASE i = 1
      BY <1>1, <3>1
    <3>2. CASE i # 1
      <4>1. i - 1 \in 1 .. n - 1 /\ t[i - 1] = q[i]
        BY <1>1, <1>2, <3>2
      <4> QED BY <1>1, <4>1 DEF Entries
    <3> QED BY <3>1, <3>2
  <2>2. Entries(t) \cup {Head(q)} \subseteq Entries(q)
    BY <1>1, <1>2 DEF Entries
  <2> QED BY <2>1, <2>2
<1>4. ASSUME Once(q) PROVE Once(t) /\ Head(q) \notin Entries(t)
  <2>1. ASSUME NEW i \in 1 .. n - 1, NEW j \in 1 .. n - 1, t[i] = t[j] PROVE i = j
    <3>1. q[i + 1] = q[j + 1] /\ i + 1 \in 1 .. n /\ j + 1 \in 1 .. n
      BY <1>1, <1>2, <2>1
    <3>2. i + 1 = j + 1
      BY <1>1, <1>4, <3>1 DEF Once
    <3> QED BY <3>2
  <2>2. ASSUME NEW i \in 1 .. n - 1 PROVE t[i] # Head(q)
    BY <1>1, <1>2, <1>4 DEF Once
  <2> QED BY <1>1, <2>1, <2>2 DEF Once, Entries
<1> QED BY <1>1, <1>2, <1>3, <1>4 DEF n, t

(* selectorReadElement is a Read of the pool.                              *)
LEMMA ReadElementFine ==
  ASSUME SelInv, NEW p \in Ports, ReadElement(p)
  PROVE  Fine
<1>1. BlockType /\ Apart /\ Unlinked /\ Batch
  BY DEF SelInv, Handling
<1> DEFINE b == Head(queue[p])
           hq == <<"queue", p>>
           hh == <<"hand", p>>
<1>2. /\ p \in linked /\ queue[p] # <<>>
      /\ queue' = [queue EXCEPT ![p] = Tail(queue[p])]
      /\ hand' = [hand EXCEPT ![p] = hand[p] \cup {b}]
      /\ UNCHANGED <<linked, blocks, sending, transfer>>
  BY DEF ReadElement
<1>3. /\ queue[p] \in Seq(Bufs) /\ queue \in [Ports -> Seq(Bufs)] /\ hand \in [Ports -> SUBSET Bufs]
      /\ Once(queue[p]) /\ Entries(queue[p]) \cap hand[p] = {}
  BY <1>1 DEF BlockType, Apart
<1>4. /\ b \in Bufs /\ b \in Entries(queue[p]) /\ Tail(queue[p]) \in Seq(Bufs)
      /\ Entries(queue[p]) = Entries(Tail(queue[p])) \cup {b}
      /\ Once(Tail(queue[p])) /\ b \notin Entries(Tail(queue[p]))
  BY <1>2, <1>3, TailEffect
<1> HIDE DEF b
<1>5. /\ queue' \in [Ports -> Seq(Bufs)] /\ hand' \in [Ports -> SUBSET Bufs]
      /\ queue'[p] = Tail(queue[p]) /\ hand'[p] = hand[p] \cup {b}
      /\ \A q \in Ports : q # p => queue'[q] = queue[q] /\ hand'[q] = hand[q]
      /\ ref' = ref /\ content' = content /\ num_buffers' = num_buffers
      /\ sending' = sending /\ iov' = iov /\ linked' = linked
      /\ step' = step /\ left' = left /\ misaligned' = misaligned
  BY <1>2, <1>3, <1>4 DEF blocks, transfer
<1>6. Entries(queue'[p]) = Entries(queue[p]) \ {b}
  BY <1>4, <1>5
<1>7. Pool!Read(hq, hh, b)
  <2>1. PoolHold' = [PoolHold EXCEPT ![hq] = PoolHold[hq] \ {b}, ![hh] = PoolHold[hh] \cup {b}]
    <3> PICK f : f = [PoolHold EXCEPT ![hq] = PoolHold[hq] \ {b}, ![hh] = PoolHold[hh] \cup {b}]
      OBVIOUS
    <3>1. f = [h \in PoolHolders |-> f[h]]
      BY HoldIs
    <3>2. /\ \A q \in Ports : /\ f[<<"queue", q>>] = IF q = p THEN PoolHold[hq] \ {b} ELSE PoolHold[<<"queue", q>>]
                              /\ f[<<"hand", q>>] = IF q = p THEN PoolHold[hh] \cup {b} ELSE PoolHold[<<"hand", q>>]
          /\ f[<<"dvb", "iov">>] = PoolHold[<<"dvb", "iov">>] /\ f[<<"dvb", "evt">>] = PoolHold[<<"dvb", "evt">>]
      BY HoldIs, HolderKinds
    <3>3. /\ \A q \in Ports : f[<<"queue", q>>] = Entries(queue'[q]) /\ f[<<"hand", q>>] = hand'[q]
          /\ f[<<"dvb", "iov">>] = Entries(iov') /\ f[<<"dvb", "evt">>] = sending'
      <4>1. ASSUME NEW q \in Ports PROVE f[<<"queue", q>>] = Entries(queue'[q])
        <5>1. CASE q = p
          BY <1>6, <3>2, <5>1, HoldIs
        <5>2. CASE q # p
          BY <1>5, <3>2, <5>2, HoldIs
        <5> QED BY <5>1, <5>2
      <4>2. ASSUME NEW q \in Ports PROVE f[<<"hand", q>>] = hand'[q]
        <5>1. CASE q = p
          BY <1>5, <3>2, <5>1, HoldIs
        <5>2. CASE q # p
          BY <1>5, <3>2, <5>2, HoldIs
        <5> QED BY <5>1, <5>2
      <4>3. f[<<"dvb", "iov">>] = Entries(iov') /\ f[<<"dvb", "evt">>] = sending'
        BY <1>5, <3>2, HoldIs
      <4> QED BY <4>1, <4>2, <4>3
    <3>4. PoolHold' = f
      BY <3>1, <3>3, HoldBecomes
    <3> QED BY <3>4
  <2>2. PoolData' = PoolData
    BY <1>5 DEF PoolData
  <2>3. hq # hh /\ b \in PoolHold[hq] /\ b \notin PoolHold[hh]
    BY <1>3, <1>4, HoldIs
  <2> QED BY <1>5, <2>1, <2>2, <2>3 DEF Pool!Read
<1>8. Pool!Next
  <2>1. hq \in PoolHolders /\ hh \in PoolHolders /\ b \in PoolHold[hq]
    BY <1>4, HolderKinds, HoldIs
  <2> QED BY <1>7, <2>1 DEF Pool!Next
<1>9. Apart'
  <2>1. ASSUME NEW q \in Ports PROVE Once(queue'[q]) /\ Entries(queue'[q]) \cap hand'[q] = {}
    BY <1>1, <1>3, <1>4, <1>5, <1>6 DEF Apart
  <2>2. ASSUME NEW x, x # b, Alone(x) PROVE Alone(x)'
    <3>1. ASSUME NEW q \in Ports PROVE x \notin Entries(queue'[q]) /\ x \notin hand'[q]
      BY <1>5, <1>6, <2>2 DEF Alone
    <3> QED BY <3>1 DEF Alone, Entries
  <2>3. ~Alone(b)
    BY <1>4 DEF Alone
  <2>4. ASSUME NEW x \in Entries(iov') PROVE content'[x] = Unfilled /\ x \notin sending' /\ Alone(x)'
    BY <1>1, <1>5, <2>2, <2>3 DEF Apart
  <2>5. ASSUME NEW x \in sending' PROVE content'[x] = Evt /\ Alone(x)'
    BY <1>1, <1>5, <2>2, <2>3 DEF Apart
  <2>6. Once(iov') /\ \A x \in Bufs : content'[x] = Free <=> ref'[x] = 0
    BY <1>1, <1>5 DEF Apart
  <2> QED BY <2>1, <2>4, <2>5, <2>6 DEF Apart, Once, Entries
<1>10. Unlinked' /\ Batch' /\ BlockType'
  BY <1>1, <1>2, <1>5 DEF Unlinked, Batch, BlockType
<1> QED BY <1>8, <1>9, <1>10 DEF Fine, Handling

-----------------------------------------------------------------------------
(* A free block gets its first reference.                                  *)

(* Apart after a step, from what the step leaves.                          *)
LEMMA ApartBecomes ==
  ASSUME \A p \in Ports : Once(queue'[p]) /\ Entries(queue'[p]) \cap hand'[p] = {},
         Once(iov'),
         \A b \in Entries(iov') : content'[b] = Unfilled /\ b \notin sending',
         \A b \in sending' : content'[b] = Evt,
         \A b \in Entries(iov') \cup sending', p \in Ports :
           b \notin Entries(queue'[p]) /\ b \notin hand'[p],
         \A b \in Bufs : content'[b] = Free <=> ref'[b] = 0
  PROVE  Apart'
<1>1. \A b \in Entries(iov') \cup sending' : Alone(b)'
  BY DEF Alone, Entries
<1> QED BY <1>1 DEF Apart, Once, Entries

(* A block that is allocated was in nobody's hands.                        *)
LEMMA MallocEffect ==
  ASSUME SelInv, NEW b \in Bufs, NEW c \in {Evt, Unfilled}, Malloc(b, c)
  PROVE  /\ content' \in [Bufs -> Pids \cup {Evt, Unfilled, Free}]
         /\ content[b] = Free /\ content'[b] = c /\ \A x \in Bufs : x # b => content'[x] = content[x]
         /\ \A x \in Bufs : content'[x] = Free <=> ref'[x] = 0
         /\ \A p \in Ports : b \notin Entries(queue[p]) /\ b \notin hand[p]
         /\ b \notin Entries(iov) /\ b \notin sending
         /\ PoolData' = IF c = Evt THEN PoolData ELSE PoolData \cup {b}
<1>1. /\ content \in [Bufs -> Pids \cup {Evt, Unfilled, Free}] /\ ref \in [Bufs -> Nat]
      /\ \A x \in Bufs : content[x] = Free <=> ref[x] = 0
  BY InUse DEF SelInv, BlockType, Handling, Apart
<1>2. ref[b] = 0 /\ ref' = [ref EXCEPT ![b] = 1] /\ content' = [content EXCEPT ![b] = c]
  BY DEF Malloc
<1>3. /\ content' \in [Bufs -> Pids \cup {Evt, Unfilled, Free}]
      /\ content[b] = Free /\ content'[b] = c /\ \A x \in Bufs : x # b => content'[x] = content[x]
  BY <1>1, <1>2
<1>4. \A x \in Bufs : content'[x] = Free <=> ref'[x] = 0
  BY <1>1, <1>2, <1>3, Contents
<1>5. /\ \A p \in Ports : b \notin Entries(queue[p]) /\ b \notin hand[p]
      /\ b \notin Entries(iov) /\ b \notin sending
  BY <1>2, InUse
<1>6. PoolData' = IF c = Evt THEN PoolData ELSE PoolData \cup {b}
  <2>1. \A x \in Bufs : x \in PoolData' <=> content'[x] \notin {Evt, Free}
    BY DEF PoolData
  <2>2. \A x \in Bufs : x \in PoolData <=> content[x] \notin {Evt, Free}
    BY DEF PoolData
  <2>3. PoolData \subseteq Bufs /\ PoolData' \subseteq Bufs
    BY DEF PoolData
  <2> HIDE DEF PoolData
  <2>4. CASE c = Evt
    BY <1>3, <2>1, <2>2, <2>3, <2>4
  <2>5. CASE c # Evt
    BY <1>3, <2>1, <2>2, <2>3, <2>5, Contents
  <2> QED BY <2>4, <2>5
<1> QED BY <1>3, <1>4, <1>5, <1>6

(* selectorSndEvt, first half, is an AllocEvent of the pool.               *)
LEMMA SndEvtAllocFine ==
  ASSUME SelInv, NEW b \in Bufs, SndEvtAlloc(b)
  PROVE  Fine
<1>1. BlockType /\ Apart /\ Unlinked /\ Batch
  BY DEF SelInv, Handling
<1> DEFINE he == <<"dvb", "evt">>
<1>2. /\ Malloc(b, Evt) /\ sending' = sending \cup {b}
      /\ queue' = queue /\ hand' = hand /\ linked' = linked
      /\ iov' = iov /\ step' = step /\ left' = left /\ misaligned' = misaligned
  BY DEF SndEvtAlloc, transfer
<1>3. Evt \in {Evt, Unfilled}
  OBVIOUS
<1>4. /\ content' \in [Bufs -> Pids \cup {Evt, Unfilled, Free}]
      /\ content'[b] = Evt /\ \A x \in Bufs : x # b => content'[x] = content[x]
      /\ \A x \in Bufs : content'[x] = Free <=> ref'[x] = 0
      /\ \A p \in Ports : b \notin Entries(queue[p]) /\ b \notin hand[p]
      /\ b \notin Entries(iov) /\ b \notin sending
      /\ PoolData' = PoolData
  BY <1>2, <1>3, MallocEffect
<1>5. Pool!AllocEvent(he, b)
  <2>1. PoolHold' = [PoolHold EXCEPT ![he] = PoolHold[he] \cup {b}]
    <3> PICK f : f = [PoolHold EXCEPT ![he] = PoolHold[he] \cup {b}]
      OBVIOUS
    <3>1. f = [h \in PoolHolders |-> f[h]]
      BY HoldIs
    <3>2. /\ \A q \in Ports : f[<<"queue", q>>] = PoolHold[<<"queue", q>>] /\ f[<<"hand", q>>] = PoolHold[<<"hand", q>>]
          /\ f[<<"dvb", "iov">>] = PoolHold[<<"dvb", "iov">>] /\ f[he] = PoolHold[he] \cup {b}
      BY HoldIs, HolderKinds
    <3>3. /\ \A q \in Ports : f[<<"queue", q>>] = Entries(queue'[q]) /\ f[<<"hand", q>>] = hand'[q]
          /\ f[<<"dvb", "iov">>] = Entries(iov') /\ f[<<"dvb", "evt">>] = sending'
      BY <1>2, <3>2, HoldIs
    <3>4. PoolHold' = f
      BY <3>1, <3>3, HoldBecomes
    <3> QED BY <3>4
  <2> QED BY <1>2, <1>4, <2>1 DEF Pool!AllocEvent, Pool!Malloc, Malloc
<1>6. Pool!Next
  BY <1>5, HolderKinds DEF Pool!Next
<1>7. Apart'
  <2>1. Entries(iov) \subseteq Bufs
    BY <1>1 DEF BlockType, Entries
  <2>2. /\ \A p \in Ports : Once(queue'[p]) /\ Entries(queue'[p]) \cap hand'[p] = {}
        /\ Once(iov')
    BY <1>1, <1>2 DEF Apart
  <2>3. \A x \in Entries(iov') : content'[x] = Unfilled /\ x \notin sending'
    BY <1>1, <1>2, <1>4, <2>1 DEF Apart
  <2>4. \A x \in sending' : content'[x] = Evt
    BY <1>1, <1>2, <1>4 DEF Apart, BlockType
  <2>5. \A x \in Entries(iov') \cup sending', p \in Ports : x \notin Entries(queue'[p]) /\ x \notin hand'[p]
    BY <1>1, <1>2, <1>4 DEF Apart, Alone
  <2> QED BY <1>4, <2>2, <2>3, <2>4, <2>5, ApartBecomes
<1>8. Unlinked' /\ Batch' /\ BlockType'
  BY <1>1, <1>2, <1>4 DEF Unlinked, Batch, BlockType
<1> QED BY <1>6, <1>7, <1>8 DEF Fine, Handling

(* selectorAllocElementUnsafe is an AllocElement of the pool.              *)
LEMMA AllocElementFine ==
  ASSUME SelInv, NEW b \in Bufs, AllocElement(b)
  PROVE  Fine
<1>1. BlockType /\ Apart /\ Unlinked /\ Batch
  BY DEF SelInv, Handling
<1> DEFINE hi == <<"dvb", "iov">>
<1>2. /\ Malloc(b, Unfilled) /\ iov' = Append(iov, b) /\ CanAlloc
      /\ queue' = queue /\ hand' = hand /\ linked' = linked /\ sending' = sending
      /\ step = "work" /\ left = 0 /\ ~misaligned /\ step' = step /\ left' = left /\ misaligned' = misaligned
  BY DEF AllocElement
<1>3. Unfilled \in {Evt, Unfilled} /\ Unfilled # Evt
  BY Contents
<1>4. /\ content' \in [Bufs -> Pids \cup {Evt, Unfilled, Free}]
      /\ content'[b] = Unfilled /\ \A x \in Bufs : x # b => content'[x] = content[x]
      /\ \A x \in Bufs : content'[x] = Free <=> ref'[x] = 0
      /\ \A p \in Ports : b \notin Entries(queue[p]) /\ b \notin hand[p]
      /\ b \notin Entries(iov) /\ b \notin sending
      /\ PoolData' = PoolData \cup {b}
  BY <1>2, <1>3, MallocEffect
<1>5. /\ iov \in Seq(Bufs) /\ iov' \in Seq(Bufs) /\ Len(iov') = Len(iov) + 1
      /\ Entries(iov') = Entries(iov) \cup {b} /\ Once(iov')
  BY <1>1, <1>2, <1>4, AppendEffect DEF BlockType, Apart
<1>6. Pool!AllocElement(hi, b)
  <2>1. PoolHold' = [PoolHold EXCEPT ![hi] = PoolHold[hi] \cup {b}]
    <3> PICK f : f = [PoolHold EXCEPT ![hi] = PoolHold[hi] \cup {b}]
      OBVIOUS
    <3>1. f = [h \in PoolHolders |-> f[h]]
      BY HoldIs
    <3>2. /\ \A q \in Ports : f[<<"queue", q>>] = PoolHold[<<"queue", q>>] /\ f[<<"hand", q>>] = PoolHold[<<"hand", q>>]
          /\ f[<<"dvb", "evt">>] = PoolHold[<<"dvb", "evt">>] /\ f[hi] = PoolHold[hi] \cup {b}
      BY HoldIs, HolderKinds
    <3>3. /\ \A q \in Ports : f[<<"queue", q>>] = Entries(queue'[q]) /\ f[<<"hand", q>>] = hand'[q]
          /\ f[<<"dvb", "iov">>] = Entries(iov') /\ f[<<"dvb", "evt">>] = sending'
      BY <1>2, <1>5, <3>2, HoldIs
    <3>4. PoolHold' = f
      BY <3>1, <3>3, HoldBecomes
    <3> QED BY <3>4
  <2>2. num_buffers < Limit
    BY <1>2 DEF CanAlloc
  <2> QED BY <1>2, <1>4, <2>1, <2>2 DEF Pool!AllocElement, Pool!Malloc, Malloc
<1>7. Pool!Next
  BY <1>6, HolderKinds DEF Pool!Next
<1>8. Apart'
  <2>1. Entries(iov) \subseteq Bufs
    BY <1>1 DEF BlockType, Entries
  <2>2. /\ \A p \in Ports : Once(queue'[p]) /\ Entries(queue'[p]) \cap hand'[p] = {}
        /\ Once(iov')
    BY <1>1, <1>2, <1>5 DEF Apart
  <2>3. \A x \in Entries(iov') : content'[x] = Unfilled /\ x \notin sending'
    BY <1>1, <1>2, <1>4, <1>5, <2>1 DEF Apart
  <2>4. \A x \in sending' : content'[x] = Evt
    BY <1>1, <1>2, <1>4 DEF Apart, BlockType
  <2>5. \A x \in Entries(iov') \cup sending', p \in Ports : x \notin Entries(queue'[p]) /\ x \notin hand'[p]
    BY <1>1, <1>2, <1>4, <1>5 DEF Apart, Alone
  <2> QED BY <1>4, <2>2, <2>3, <2>4, <2>5, ApartBecomes
<1>9. Len(iov) \in Nat /\ Len(iov) < NumBuf /\ NumBuf \in Nat
  BY <1>2, <1>5, SelectorAssumption DEF CanAlloc
<1>10. BlockType'
  BY <1>1, <1>2, <1>4, <1>5, <1>9 DEF BlockType
<1>11. Unlinked' /\ Batch'
  BY <1>1, <1>2, <1>5, <1>9 DEF Unlinked, Batch
<1> QED BY <1>7, <1>8, <1>10, <1>11 DEF Fine, Handling

-----------------------------------------------------------------------------
(* selectorFeedUnsafe: the reference of the transfer thread or of a sender *)
(* of events becomes one reference of every receiver.                      *)

(* The feeder was the only holder, so the counter ends as the receivers.   *)
LEMMA FeedFine ==
  ASSUME SelInv, NEW b \in Bufs, NEW h \in {<<"dvb", "iov">>, <<"dvb", "evt">>}, b \in PoolHold[h],
         NEW R \in SUBSET linked, Deliver(b, R),
         NEW c \in Pids \cup {Evt}, c = Evt <=> content[b] = Evt,
         content' = [content EXCEPT ![b] = IF R = {} THEN Free ELSE c],
         linked' = linked, hand' = hand, Once(iov'),
         Entries(iov') = IF h = <<"dvb", "iov">> THEN Entries(iov) \ {b} ELSE Entries(iov),
         sending' = IF h = <<"dvb", "evt">> THEN sending \ {b} ELSE sending
  PROVE  /\ Pool!Next /\ Apart' /\ Unlinked'
         /\ queue' \in [Ports -> Seq(Bufs)] /\ content' \in [Bufs -> Pids \cup {Evt, Unfilled, Free}]
<1>1. BlockType /\ Apart /\ Unlinked /\ linked \in SUBSET Ports
  BY DEF SelInv, Handling, FilterInv, FilterType
<1>2. /\ queue' = [p \in Ports |-> IF p \in R THEN Append(queue[p], b) ELSE queue[p]]
      /\ ref' = [ref EXCEPT ![b] = (ref[b] + Cardinality(R)) - 1]
      /\ num_buffers' = IF (ref[b] + Cardinality(R)) - 1 = 0 THEN num_buffers - 1 ELSE num_buffers
  BY DEF Deliver
<1>3. /\ h = <<"dvb", "iov">> => b \in Entries(iov) /\ b \notin sending
      /\ h = <<"dvb", "evt">> => b \in sending /\ b \notin Entries(iov)
      /\ \A p \in Ports : b \notin Entries(queue[p]) /\ b \notin hand[p]
  BY <1>1, HoldIs DEF Apart, Alone
<1>a. \A p \in Ports : <<"queue", p>> # h /\ <<"hand", p>> # h
  <2>1. h[1] = "dvb"
    OBVIOUS
  <2>2. \A p \in Ports : <<"queue", p>>[1] = "queue" /\ <<"hand", p>>[1] = "hand"
    OBVIOUS
  <2> QED BY <2>1, <2>2
<1>4. Pool!HoldersOf(b) = {h}
  <2>1. h \in PoolHolders
    BY HolderKinds
  <2>2. ASSUME NEW g \in PoolHolders, b \in PoolHold[g] PROVE g = h
    <3>1. CASE \E p \in Ports : g = <<"queue", p>> \/ g = <<"hand", p>>
      BY <1>3, <2>2, <3>1, HoldIs
    <3>2. CASE g = <<"dvb", "iov">>
      BY <1>3, <2>2, <3>2, HoldIs
    <3>3. CASE g = <<"dvb", "evt">>
      BY <1>3, <2>2, <3>3, HoldIs
    <3> QED BY <3>1, <3>2, <3>3, HolderKinds
  <2> QED BY <2>1, <2>2 DEF Pool!HoldersOf
<1>5. ref[b] = 1 /\ ref \in [Bufs -> Nat]
  <2>1. ref[b] = Cardinality({h}) /\ ref \in [Bufs -> Nat]
    BY <1>4, SameCardinality DEF SelInv, Pool!PoolInv, Pool!RefcountExact, Pool!TypeOK
  <2> QED BY <2>1, FS_Singleton
<1> DEFINE Q == {"queue"} \X R
<1>6. Cardinality(Q) = Cardinality(R) /\ Cardinality(R) \in Nat /\ (Cardinality(R) = 0 <=> R = {})
  <2>1. IsFiniteSet(R)
    BY <1>1, SelectorAssumption, FS_Subset
  <2>2. IsFiniteSet({"queue"}) /\ Cardinality({"queue"}) = 1
    BY FS_Singleton
  <2>3. Cardinality(Q) = 1 * Cardinality(R)
    BY <2>1, <2>2, FS_Product
  <2>4. Cardinality(R) \in Nat /\ (Cardinality(R) = 0 <=> R = {})
    BY <2>1, FS_CardinalityType, FS_EmptySet
  <2> QED BY <2>3, <2>4
<1>7. ref'[b] = Cardinality(R) /\ \A x \in Bufs : x # b => ref'[x] = ref[x]
  BY <1>2, <1>5, <1>6
<1>8. /\ content' \in [Bufs -> Pids \cup {Evt, Unfilled, Free}]
      /\ content'[b] = (IF R = {} THEN Free ELSE c) /\ \A x \in Bufs : x # b => content'[x] = content[x]
  BY <1>1 DEF BlockType
<1>9. ASSUME NEW p \in Ports
      PROVE  /\ queue'[p] \in Seq(Bufs) /\ Once(queue'[p])
             /\ Entries(queue'[p]) = IF p \in R THEN Entries(queue[p]) \cup {b} ELSE Entries(queue[p])
  <2>1. queue[p] \in Seq(Bufs) /\ Once(queue[p]) /\ b \notin Entries(queue[p])
    BY <1>1, <1>3 DEF BlockType, Apart
  <2>2. CASE p \in R
    <3>1. queue'[p] = Append(queue[p], b)
      BY <1>2, <2>2
    <3> QED BY <2>1, <2>2, <3>1, AppendEffect
  <2>3. CASE p \notin R
    BY <1>2, <2>1, <2>3
  <2> QED BY <2>2, <2>3
<1>10. queue' \in [Ports -> Seq(Bufs)]
  BY <1>2, <1>9
<1>11. PoolHold' = [g \in PoolHolders |-> IF g \in Q THEN PoolHold[g] \cup {b}
                                          ELSE IF g = h THEN PoolHold[g] \ {b} ELSE PoolHold[g]]
  <2> PICK f : f = [g \in PoolHolders |-> IF g \in Q THEN PoolHold[g] \cup {b}
                                          ELSE IF g = h THEN PoolHold[g] \ {b} ELSE PoolHold[g]]
    OBVIOUS
  <2>1. f = [g \in PoolHolders |-> f[g]]
    OBVIOUS
  <2>2. ASSUME NEW p \in Ports PROVE f[<<"queue", p>>] = Entries(queue'[p])
    <3>1. <<"queue", p>> \in PoolHolders /\ <<"queue", p>> # h /\ (<<"queue", p>> \in Q <=> p \in R)
      <4>1. <<"queue", p>> \in Q <=> p \in R
        OBVIOUS
      <4> HIDE DEF Q
      <4> QED BY <1>a, <4>1, HolderKinds
    <3>2. f[<<"queue", p>>] = IF p \in R THEN PoolHold[<<"queue", p>>] \cup {b} ELSE PoolHold[<<"queue", p>>]
      BY <3>1
    <3> QED BY <1>9, <3>2, HoldIs
  <2>3. ASSUME NEW p \in Ports PROVE f[<<"hand", p>>] = hand'[p]
    <3>1. <<"hand", p>> \in PoolHolders /\ <<"hand", p>> # h /\ <<"hand", p>> \notin Q
      <4>1. <<"hand", p>> \notin Q
        OBVIOUS
      <4> HIDE DEF Q
      <4> QED BY <1>a, <4>1, HolderKinds
    <3>2. f[<<"hand", p>>] = PoolHold[<<"hand", p>>]
      BY <3>1
    <3> QED BY <3>2, HoldIs
  <2>4. f[<<"dvb", "iov">>] = Entries(iov')
    <3>1. <<"dvb", "iov">> \in PoolHolders /\ <<"dvb", "iov">> \notin Q
      <4>1. ASSUME NEW g \in Q PROVE g # <<"dvb", "iov">>
        <5>1. g[1] = "queue"
          OBVIOUS
        <5> HIDE DEF Q
        <5> QED BY <5>1
      <4> HIDE DEF Q
      <4> QED BY <4>1, HolderKinds
    <3>2. f[<<"dvb", "iov">>] = IF h = <<"dvb", "iov">> THEN PoolHold[<<"dvb", "iov">>] \ {b} ELSE PoolHold[<<"dvb", "iov">>]
      BY <3>1
    <3> QED BY <3>2, HoldIs
  <2>5. f[<<"dvb", "evt">>] = sending'
    <3>1. <<"dvb", "evt">> \in PoolHolders /\ <<"dvb", "evt">> \notin Q
      <4>1. ASSUME NEW g \in Q PROVE g # <<"dvb", "evt">>
        <5>1. g[1] = "queue"
          OBVIOUS
        <5> HIDE DEF Q
        <5> QED BY <5>1
      <4> HIDE DEF Q
      <4> QED BY <4>1, HolderKinds
    <3>2. f[<<"dvb", "evt">>] = IF h = <<"dvb", "evt">> THEN PoolHold[<<"dvb", "evt">>] \ {b} ELSE PoolHold[<<"dvb", "evt">>]
      BY <3>1
    <3> QED BY <3>2, HoldIs
  <2>6. PoolHold' = f
    BY <2>1, <2>2, <2>3, <2>4, <2>5, HoldBecomes
  <2> QED BY <2>6
<1>12. PoolData' = IF R = {} THEN PoolData \ {b} ELSE PoolData
  <2>1. \A x \in Bufs : (x \in PoolData' <=> content'[x] \notin {Evt, Free}) /\ (x \in PoolData <=> content[x] \notin {Evt, Free})
    BY DEF PoolData
  <2>2. PoolData \subseteq Bufs /\ PoolData' \subseteq Bufs
    BY DEF PoolData
  <2>3. content[b] # Free /\ c # Free
    BY <1>1, <1>5, Contents DEF Apart
  <2> HIDE DEF PoolData
  <2>4. CASE R = {}
    BY <1>8, <2>1, <2>2, <2>4
  <2>5. CASE R # {}
    BY <1>8, <2>1, <2>2, <2>3, <2>5
  <2> QED BY <2>4, <2>5
<1>13. Pool!Feed(h, b, Q)
  <2>1. Q \cap Pool!HoldersOf(b) = {}
    BY <1>4
  <2>2. ref' = [ref EXCEPT ![b] = (ref[b] + Pool!Cardinality(Q)) - 1]
    BY <1>2, <1>6, SameCardinality
  <2>3. ref'[b] = 0 <=> R = {}
    BY <1>6, <1>7
  <2>4. (ref[b] + Cardinality(R)) - 1 = 0 <=> R = {}
    BY <1>5, <1>6
  <2>5. IF ref'[b] = 0 THEN num_buffers' = num_buffers - 1 /\ PoolData' = PoolData \ {b}
        ELSE num_buffers' = num_buffers /\ PoolData' = PoolData
    BY <1>2, <1>12, <2>3, <2>4
  <2> QED BY <1>11, <2>1, <2>2, <2>5 DEF Pool!Feed
<1>14. Pool!Next
  <2>1. h \in PoolHolders /\ Q \in SUBSET (PoolHolders \ Pool!HoldersOf(b))
    <3>1. h \in PoolHolders
      BY HolderKinds
    <3>2. ASSUME NEW g \in Q PROVE g \in PoolHolders /\ g # h
      <4>1. PICK p \in R : g = <<"queue", p>>
        OBVIOUS
      <4>2. p \in Ports
        BY <1>1
      <4> QED BY <1>a, <4>1, <4>2, HolderKinds
    <3> HIDE DEF Q
    <3> QED BY <1>4, <3>1, <3>2
  <2> HIDE DEF Q
  <2> QED BY <1>13, <2>1 DEF Pool!Next
<1>15. Apart'
  <2>1. \A p \in Ports : Once(queue'[p]) /\ Entries(queue'[p]) \cap hand'[p] = {}
    BY <1>1, <1>3, <1>9 DEF Apart
  <2>2. Entries(iov) \subseteq Bufs /\ sending \subseteq Bufs /\ b \notin Entries(iov') /\ b \notin sending'
        /\ Entries(iov') \subseteq Entries(iov) /\ sending' \subseteq sending
    <3>1. Entries(iov) \subseteq Bufs /\ sending \subseteq Bufs
      BY <1>1 DEF BlockType, Entries
    <3>2. b \notin Entries(iov') /\ b \notin sending'
      BY <1>3
    <3>3. Entries(iov') \subseteq Entries(iov) /\ sending' \subseteq sending
      OBVIOUS
    <3> QED BY <3>1, <3>2, <3>3
  <2>3. \A x \in Entries(iov') : content'[x] = Unfilled /\ x \notin sending'
    BY <1>1, <1>8, <2>2 DEF Apart
  <2>4. \A x \in sending' : content'[x] = Evt
    BY <1>1, <1>8, <2>2 DEF Apart
  <2>5. \A x \in Entries(iov') \cup sending', p \in Ports : x \notin Entries(queue'[p]) /\ x \notin hand'[p]
    <3> SUFFICES ASSUME NEW x \in Entries(iov') \cup sending', NEW p \in Ports
                 PROVE  x \notin Entries(queue'[p]) /\ x \notin hand'[p]
      OBVIOUS
    <3>1. x # b /\ x \in Entries(iov) \cup sending
      BY <2>2
    <3>2. x \notin Entries(queue[p]) /\ x \notin hand[p]
      BY <1>1, <3>1 DEF Apart, Alone
    <3> QED BY <1>9, <3>1, <3>2
  <2>6. \A x \in Bufs : content'[x] = Free <=> ref'[x] = 0
    <3>1. content'[b] = Free <=> ref'[b] = 0
      BY <1>6, <1>7, <1>8, Contents
    <3> QED BY <1>1, <1>7, <1>8, <3>1 DEF Apart
  <2> QED BY <2>1, <2>3, <2>4, <2>5, <2>6, ApartBecomes
<1>16. Unlinked'
  BY <1>1, <1>2 DEF Unlinked
<1> QED BY <1>8, <1>10, <1>14, <1>15, <1>16

(* selectorSndEvt, second half.                                            *)
LEMMA SndEvtFeedFine ==
  ASSUME SelInv, NEW b \in Bufs, SndEvtFeed(b)
  PROVE  Fine
<1>1. BlockType /\ Apart /\ Batch
  BY DEF SelInv, Handling
<1>2. PICK R \in SUBSET linked :
        /\ Deliver(b, R) /\ content' = [content EXCEPT ![b] = IF R = {} THEN Free ELSE Evt]
  <2>1. b \in sending /\ content[b] = Evt
    BY <1>1 DEF SndEvtFeed, Apart
  <2> QED BY <2>1 DEF SndEvtFeed, Deliver
<1>3. /\ b \in sending /\ sending' = sending \ {b}
      /\ hand' = hand /\ linked' = linked
      /\ iov' = iov /\ step' = step /\ left' = left /\ misaligned' = misaligned
  BY DEF SndEvtFeed, transfer
<1>4. /\ b \in PoolHold[<<"dvb", "evt">>] /\ content[b] = Evt /\ Once(iov')
      /\ <<"dvb", "evt">> # <<"dvb", "iov">>
  BY <1>1, <1>3, HoldIs DEF Apart
<1>5. /\ Pool!Next /\ Apart' /\ Unlinked'
      /\ queue' \in [Ports -> Seq(Bufs)] /\ content' \in [Bufs -> Pids \cup {Evt, Unfilled, Free}]
  BY <1>2, <1>3, <1>4, FeedFine
<1>6. BlockType' /\ Batch'
  BY <1>1, <1>3, <1>5 DEF BlockType, Batch
<1> QED BY <1>5, <1>6 DEF Fine, Handling

(* dvb_proc_iov, one packet.                                               *)
LEMMA FeedPacketFine ==
  ASSUME SelInv, NEW pid \in Pids, FeedPacket(pid)
  PROVE  Fine
<1>1. BlockType /\ Apart /\ Batch
  BY DEF SelInv, Handling
<1>2. /\ left > 0 /\ left' = left - 1 /\ iov' = Tail(iov) /\ step = "work"
      /\ hand' = hand /\ linked' = linked /\ sending' = sending /\ step' = step /\ misaligned' = misaligned
  BY DEF FeedPacket
<1>3. iov \in Seq(Bufs) /\ left \in 0 .. NumBuf /\ left <= Len(iov) /\ NumBuf \in Nat /\ Len(iov) <= NumBuf
  BY <1>1, SelectorAssumption DEF BlockType, Batch
<1>4. iov # <<>> /\ Len(iov) \in Nat
  BY <1>2, <1>3
<1>5. /\ Head(iov) \in Bufs /\ Head(iov) \in Entries(iov) /\ Tail(iov) \in Seq(Bufs) /\ Len(Tail(iov)) = Len(iov) - 1
      /\ Entries(iov) = Entries(Tail(iov)) \cup {Head(iov)}
      /\ Once(Tail(iov)) /\ Head(iov) \notin Entries(Tail(iov))
  BY <1>1, <1>3, <1>4, TailEffect DEF Apart
<1>6. PICK b \in Bufs : b = Head(iov)
  BY <1>5
<1>7. PICK R \in SUBSET linked :
        /\ Deliver(b, R) /\ content' = [content EXCEPT ![b] = IF R = {} THEN Free ELSE pid]
  <2> PICK R : R = {p \in linked : pid \in pids[p]}
    OBVIOUS
  <2>1. R \in SUBSET linked
    OBVIOUS
  <2>2. Deliver(b, R) /\ content' = [content EXCEPT ![b] = IF R = {} THEN Free ELSE pid]
    BY <1>6 DEF FeedPacket, Deliver
  <2> QED BY <2>1, <2>2
<1>8. /\ b \in PoolHold[<<"dvb", "iov">>] /\ content[b] = Unfilled /\ Once(iov')
      /\ Entries(iov') = Entries(iov) \ {b} /\ pid # Evt /\ Unfilled # Evt
      /\ <<"dvb", "evt">> # <<"dvb", "iov">>
  <2>1. b \in PoolHold[<<"dvb", "iov">>] /\ content[b] = Unfilled
    BY <1>1, <1>5, <1>6, HoldIs DEF Apart
  <2>2. Once(iov') /\ Entries(iov') = Entries(iov) \ {b}
    BY <1>2, <1>5, <1>6
  <2> QED BY <2>1, <2>2, Contents
<1>9. /\ Pool!Next /\ Apart' /\ Unlinked'
      /\ queue' \in [Ports -> Seq(Bufs)] /\ content' \in [Bufs -> Pids \cup {Evt, Unfilled, Free}]
  BY <1>2, <1>7, <1>8, FeedFine
<1>10. /\ iov' \in Seq(Bufs) /\ Len(iov') = Len(iov) - 1 /\ Len(iov') <= NumBuf /\ left' \in 0 .. NumBuf
       /\ left' <= Len(iov') /\ (left < Len(iov) => left' < Len(iov'))
  BY <1>2, <1>3, <1>4, <1>5
<1>11. BlockType' /\ Batch'
  BY <1>1, <1>2, <1>9, <1>10 DEF BlockType, Batch
<1> QED BY <1>9, <1>11 DEF Fine, Handling

-----------------------------------------------------------------------------
(* References are given up: a port is emptied or purged, a client releases *)
(* an element, the transfer thread clears its vector.                      *)

(* Places of b, and ports that have b, restricted to the ports of G.       *)
PlacesIn(P, b, G) == {x \in Places(P, b) : x[1] \in G}

PortsIn(P, b, G) == {p \in P : p \in G /\ b \in Entries(queue[p])}

(* The places of b in queues that have no block twice are as many as the   *)
(* queues it is in.                                                        *)
LEMMA PlacesCount ==
  ASSUME \A p \in Ports : Once(queue[p]), NEW P \in SUBSET Ports, NEW b, NEW G
  PROVE  Cardinality(PlacesIn(P, b, G)) = Cardinality(PortsIn(P, b, G))
<1> DEFINE S == PlacesIn(P, b, G)
           T == PortsIn(P, b, G)
           F == [x \in S |-> x[1]]
<1>1. \A x \in S : \E p \in P : \E i \in DOMAIN queue[p] : x = <<p, i>> /\ queue[p][i] = b /\ p \in G
  BY DEF Places, PlacesIn
<1>2. \A p \in P : \A i \in DOMAIN queue[p] : queue[p][i] = b /\ p \in G => <<p, i>> \in S
  BY DEF Places, PlacesIn
<1> HIDE DEF S
<1>3. F \in [S -> T]
  <2>1. ASSUME NEW x \in S PROVE x[1] \in T
    BY <1>1 DEF Entries, PortsIn
  <2> QED BY <2>1
<1>4. ASSUME NEW x \in S, NEW y \in S, F[x] = F[y] PROVE x = y
  <2>1. PICK p \in P : \E i \in DOMAIN queue[p] : x = <<p, i>> /\ queue[p][i] = b
    BY <1>1
  <2>2. PICK i \in DOMAIN queue[p] : x = <<p, i>> /\ queue[p][i] = b
    BY <2>1
  <2>3. PICK r \in P : \E j \in DOMAIN queue[r] : y = <<r, j>> /\ queue[r][j] = b
    BY <1>1
  <2>4. PICK j \in DOMAIN queue[r] : y = <<r, j>> /\ queue[r][j] = b
    BY <2>3
  <2>5. p = r
    BY <1>4, <2>2, <2>4
  <2> QED BY <2>2, <2>4, <2>5 DEF Once
<1>5. ASSUME NEW t \in T PROVE \E x \in S : F[x] = t
  <2>1. PICK i \in DOMAIN queue[t] : queue[t][i] = b
    BY DEF Entries, PortsIn
  <2>2. <<t, i>> \in S
    BY <1>2, <2>1 DEF PortsIn
  <2> QED BY <2>2
<1>6. F \in Bijection(S, T)
  <2> HIDE DEF F, T
  <2> QED BY <1>3, <1>4, <1>5, Fun_IsBij
<1>7. IsFiniteSet(T)
  BY SelectorAssumption, FS_Subset DEF PortsIn
<1>8. ExistsBijection(T, S)
  <2> HIDE DEF F, T
  <2>1. ExistsBijection(S, T)
    BY <1>6, Fun_ExistsBij
  <2> QED BY <2>1, Fun_ExistsBijSymmetric
<1> HIDE DEF T
<1>9. Cardinality(S) = Cardinality(T)
  BY <1>7, <1>8, FS_Bijection
<1> QED BY <1>9 DEF S, T

(* How often the vector has a block.                                       *)
LEMMA OccursOnce ==
  ASSUME NEW q \in Seq(Bufs), Once(q), NEW b
  PROVE  Occurrences(q, b) = IF b \in Entries(q) THEN 1 ELSE 0
<1> DEFINE S == {i \in DOMAIN q : q[i] = b}
<1>1. CASE b \in Entries(q)
  <2>1. PICK i \in DOMAIN q : q[i] = b
    BY <1>1 DEF Entries
  <2>2. S = {i}
    BY <2>1 DEF Once
  <2> QED BY <1>1, <2>2, FS_Singleton DEF Occurrences
<1>2. CASE b \notin Entries(q)
  <2>1. S = {}
    BY <1>2 DEF Entries
  <2> QED BY <1>2, <2>1, FS_EmptySet DEF Occurrences
<1> QED BY <1>1, <1>2

(* Whoever gives up references, releasing one for each keeps the pool.     *)
LEMMA ReleaseFine ==
  ASSUME SelInv, NEW n, ReleaseRefs(n),
         queue' \in [Ports -> Seq(Bufs)],
         \A p \in Ports : Once(queue'[p]) /\ Entries(queue'[p]) \subseteq Entries(queue[p]),
         hand' \in [Ports -> SUBSET Bufs], \A p \in Ports : hand'[p] \subseteq hand[p],
         Once(iov'), Entries(iov') \subseteq Entries(iov), sending' = sending,
         \A b \in Bufs : n[b] = Cardinality({h \in PoolHolders : b \in PoolHold[h] \ PoolHold'[h]})
  PROVE  Pool!Next /\ Apart' /\ content' \in [Bufs -> Pids \cup {Evt, Unfilled, Free}]
<1>1. /\ BlockType /\ Apart /\ ref \in [Bufs -> Nat] /\ Pool!PoolInv
      /\ Entries(iov) \subseteq Bufs /\ sending \subseteq Bufs
  BY InUse DEF SelInv, Handling, BlockType, Entries
<1> DEFINE freed == {b \in Bufs : n[b] > 0 /\ ref[b] = n[b]}
<1>2. /\ ref' = [b \in Bufs |-> ref[b] - n[b]]
      /\ content' = [b \in Bufs |-> IF b \in freed THEN Free ELSE content[b]]
      /\ num_buffers' = num_buffers - Cardinality(freed)
  BY DEF ReleaseRefs
<1>3. \A b \in Bufs : n[b] \in Nat /\ n[b] = Cardinality(Pool!Dropping(b))
  <2> SUFFICES ASSUME NEW b \in Bufs PROVE n[b] \in Nat /\ n[b] = Cardinality(Pool!Dropping(b))
    OBVIOUS
  <2> DEFINE D == {h \in PoolHolders : b \in PoolHold[h] \ PoolHold'[h]}
  <2>1. IsFiniteSet(D)
    BY PoolAssumptionHolds, FS_Subset
  <2>2. n[b] = Cardinality(D) /\ D = Pool!Dropping(b)
    BY DEF Pool!Dropping
  <2> HIDE DEF D
  <2> QED BY <2>1, <2>2, FS_CardinalityType
<1>4. freed = Pool!Freed
  <2>1. ASSUME NEW b \in Bufs PROVE (n[b] > 0 /\ ref[b] = n[b]) <=> (ref[b] > 0 /\ ref[b] = Pool!Cardinality(Pool!Dropping(b)))
    BY <1>1, <1>3, SameCardinality
  <2> QED BY <2>1 DEF Pool!Freed
<1> HIDE DEF freed
<1>5. Pool!Release
  <2>1. ASSUME NEW h \in PoolHolders PROVE PoolHold'[h] \subseteq PoolHold[h] /\ PoolHold'[h] \subseteq Bufs
    <3>1. PoolHold[h] \subseteq Bufs
      BY <1>1 DEF Pool!PoolInv, Pool!TypeOK
    <3>2. ASSUME NEW p \in Ports, h = <<"queue", p>> PROVE PoolHold'[h] \subseteq PoolHold[h]
      <4>1. PoolHold[h] = Entries(queue[p]) /\ PoolHold'[h] = Entries(queue'[p])
        BY <3>2, HoldIs, HoldIsPrimed
      <4> QED BY <4>1
    <3>3. ASSUME NEW p \in Ports, h = <<"hand", p>> PROVE PoolHold'[h] \subseteq PoolHold[h]
      <4>1. PoolHold[h] = hand[p] /\ PoolHold'[h] = hand'[p]
        BY <3>3, HoldIs, HoldIsPrimed
      <4> QED BY <4>1
    <3>4. CASE h = <<"dvb", "iov">>
      <4>1. PoolHold[h] = Entries(iov) /\ PoolHold'[h] = Entries(iov')
        BY <3>4, HoldIs, HoldIsPrimed
      <4> QED BY <3>1, <4>1
    <3>5. CASE h = <<"dvb", "evt">>
      <4>1. PoolHold[h] = sending /\ PoolHold'[h] = sending'
        BY <3>5, HoldIs, HoldIsPrimed
      <4> QED BY <3>1, <4>1
    <3> HIDE DEF PoolHold
    <3> QED BY <3>1, <3>2, <3>3, <3>4, <3>5, HolderKinds
  <2>2. PoolHold' \in [PoolHolders -> SUBSET Bufs]
    <3> PICK H : H = PoolHold'
      OBVIOUS
    <3>1. H = [h \in PoolHolders |-> H[h]] /\ \A h \in PoolHolders : H[h] \subseteq Bufs
      BY <2>1, HoldIsPrimed
    <3>2. H \in [PoolHolders -> SUBSET Bufs]
      BY <3>1
    <3> QED BY <3>2
  <2>3. ref' = [b \in Bufs |-> ref[b] - Pool!Cardinality(Pool!Dropping(b))]
    BY <1>2, <1>3, SameCardinality
  <2>4. PoolData' = PoolData \ freed
    <3>1. \A x \in Bufs : (x \in PoolData' <=> content'[x] \notin {Evt, Free}) /\ (x \in PoolData <=> content[x] \notin {Evt, Free})
      BY DEF PoolData
    <3>2. PoolData \subseteq Bufs /\ PoolData' \subseteq Bufs
      BY DEF PoolData
    <3> HIDE DEF PoolData
    <3> QED BY <1>2, <3>1, <3>2
  <2>5. num_buffers' = num_buffers - Pool!Cardinality(Pool!Freed)
    BY <1>2, <1>4, SameCardinality
  <2> QED BY <1>4, <2>1, <2>2, <2>3, <2>4, <2>5 DEF Pool!Release
<1>6. Pool!Next
  BY <1>5 DEF Pool!Next
<1>7. Pool!PoolInv'
  BY <1>1, <1>6, PoolKeeps
<1>8. /\ \A b \in Bufs : b \in Entries(iov') \/ b \in sending' => ref'[b] # 0
      /\ ref' \in [Bufs -> Nat]
  BY <1>7, InUsePrimed
<1>9. \A x \in Bufs : x \in freed => ref'[x] = 0
  BY <1>1, <1>2, <1>3 DEF freed
<1>10. ASSUME NEW x \in Bufs PROVE content'[x] = Free <=> ref'[x] = 0
  <2>1. (content[x] = Free <=> ref[x] = 0) /\ n[x] \in Nat /\ ref[x] \in Nat /\ ref'[x] \in Nat /\ ref'[x] = ref[x] - n[x]
    BY <1>1, <1>2, <1>3, <1>8 DEF Apart
  <2>2. CASE x \in freed
    BY <1>2, <1>9, <2>2
  <2>3. CASE x \notin freed
    <3>1. ~(n[x] > 0 /\ ref[x] = n[x]) /\ content'[x] = content[x]
      BY <1>2, <2>3 DEF freed
    <3> QED BY <2>1, <3>1
  <2> QED BY <2>2, <2>3
<1>11. Apart'
  <2>1. \A p \in Ports : Once(queue'[p]) /\ Entries(queue'[p]) \cap hand'[p] = {}
    BY <1>1 DEF Apart
  <2>2. \A x \in Entries(iov') \cup sending' : x \in Bufs /\ content'[x] = content[x]
    BY <1>1, <1>2, <1>8, <1>9
  <2>3. \A x \in Entries(iov') : content'[x] = Unfilled /\ x \notin sending'
    BY <1>1, <2>2 DEF Apart
  <2>4. \A x \in sending' : content'[x] = Evt
    BY <1>1, <2>2 DEF Apart
  <2>5. \A x \in Entries(iov') \cup sending', p \in Ports : x \notin Entries(queue'[p]) /\ x \notin hand'[p]
    BY <1>1 DEF Apart, Alone
  <2> QED BY <1>10, <2>1, <2>3, <2>4, <2>5, ApartBecomes
<1>12. content' \in [Bufs -> Pids \cup {Evt, Unfilled, Free}]
  BY <1>1, <1>2 DEF BlockType
<1> QED BY <1>6, <1>11, <1>12

(* selectorReleaseElement.                                                 *)
LEMMA ReleaseElementFine ==
  ASSUME SelInv, NEW p \in Ports, NEW b \in Bufs, ReleaseElement(p, b)
  PROVE  Fine
<1>1. BlockType /\ Apart /\ Unlinked /\ Batch
  BY DEF SelInv, Handling
<1>2. PICK n : n = [x \in Bufs |-> IF x = b THEN 1 ELSE 0] /\ ReleaseRefs(n)
  BY DEF ReleaseElement, ReleaseRefs
<1>3. /\ b \in hand[p] /\ hand' = [hand EXCEPT ![p] = hand[p] \ {b}]
      /\ queue' = queue /\ linked' = linked /\ sending' = sending
      /\ iov' = iov /\ step' = step /\ left' = left /\ misaligned' = misaligned
  BY DEF ReleaseElement, transfer
<1>4. /\ hand' \in [Ports -> SUBSET Bufs] /\ hand'[p] = hand[p] \ {b}
      /\ \A q \in Ports : q # p => hand'[q] = hand[q]
  BY <1>1, <1>3 DEF BlockType
<1>5. ASSUME NEW x \in Bufs
      PROVE  n[x] = Cardinality({h \in PoolHolders : x \in PoolHold[h] \ PoolHold'[h]})
  <2> DEFINE hh == <<"hand", p>>
             D == {h \in PoolHolders : x \in PoolHold[h] \ PoolHold'[h]}
  <2>1. ASSUME NEW h \in PoolHolders, h # hh PROVE PoolHold'[h] = PoolHold[h]
    <3>1. ASSUME NEW q \in Ports, h = <<"queue", q>> PROVE PoolHold'[h] = PoolHold[h]
      BY <1>3, <3>1, HoldIs, HoldIsPrimed
    <3>2. ASSUME NEW q \in Ports, h = <<"hand", q>> PROVE PoolHold'[h] = PoolHold[h]
      <4>1. q # p
        BY <2>1, <3>2
      <4> QED BY <1>4, <3>2, <4>1, HoldIs, HoldIsPrimed
    <3>3. CASE h = <<"dvb", "iov">>
      BY <1>3, <3>3, HoldIs, HoldIsPrimed
    <3>4. CASE h = <<"dvb", "evt">>
      BY <1>3, <3>4, HoldIs, HoldIsPrimed
    <3> QED BY <3>1, <3>2, <3>3, <3>4, HolderKinds
  <2>2. PoolHold[hh] = hand[p] /\ PoolHold'[hh] = hand[p] \ {b} /\ hh \in PoolHolders
    BY <1>4, HoldIs, HoldIsPrimed, HolderKinds
  <2> HIDE DEF hh
  <2>3. D = IF x = b THEN {hh} ELSE {}
    BY <1>3, <2>1, <2>2
  <2>4. Cardinality({hh}) = 1 /\ Cardinality({}) = 0
    BY FS_Singleton, FS_EmptySet
  <2> QED BY <1>2, <2>3, <2>4
<1>6. \A q \in Ports : Once(queue'[q]) /\ Entries(queue'[q]) \subseteq Entries(queue[q]) /\ hand'[q] \subseteq hand[q]
  BY <1>1, <1>3, <1>4 DEF Apart
<1>7. queue' \in [Ports -> Seq(Bufs)] /\ Once(iov') /\ Entries(iov') \subseteq Entries(iov)
  BY <1>1, <1>3 DEF Apart, BlockType
<1>8. Pool!Next /\ Apart' /\ content' \in [Bufs -> Pids \cup {Evt, Unfilled, Free}]
  BY <1>2, <1>3, <1>4, <1>5, <1>6, <1>7, ReleaseFine
<1>9. Unlinked' /\ Batch' /\ BlockType'
  BY <1>1, <1>3, <1>4, <1>7, <1>8 DEF Unlinked, Batch, BlockType
<1> QED BY <1>8, <1>9 DEF Fine, Handling

(* dvb_proc_iov on a misaligned packet, and dvb_clear_iov.                 *)
LEMMA ClearFine ==
  ASSUME SelInv, NotAligned \/ TransferStop
  PROVE  Fine
<1>1. BlockType /\ Apart /\ Unlinked /\ Batch
  BY DEF SelInv, Handling
<1>2. PICK n : n = [b \in Bufs |-> Occurrences(iov, b)] /\ ReleaseRefs(n)
  BY DEF NotAligned, TransferStop, ReleaseRefs
<1>3. /\ iov' = <<>> /\ queue' = queue /\ hand' = hand /\ linked' = linked /\ sending' = sending
      /\ left' = 0 /\ misaligned' = FALSE /\ step' \in {"work", "stopped"}
  <2>1. CASE NotAligned
    BY <2>1 DEF NotAligned
  <2>2. CASE TransferStop
    <3>1. left = 0 /\ ~misaligned /\ misaligned \in BOOLEAN
      BY <1>1, <2>2 DEF TransferStop, Batch, BlockType
    <3> QED BY <2>2, <3>1 DEF TransferStop
  <2> QED BY <2>1, <2>2
<1>4. Entries(iov') = {} /\ Once(iov') /\ iov' \in Seq(Bufs) /\ Len(iov') = 0
  BY <1>3 DEF Entries, Once
<1>5. ASSUME NEW x \in Bufs
      PROVE  n[x] = Cardinality({h \in PoolHolders : x \in PoolHold[h] \ PoolHold'[h]})
  <2> DEFINE hi == <<"dvb", "iov">>
             D == {h \in PoolHolders : x \in PoolHold[h] \ PoolHold'[h]}
  <2>1. ASSUME NEW h \in PoolHolders, h # hi PROVE PoolHold'[h] = PoolHold[h]
    <3>1. ASSUME NEW q \in Ports, h = <<"queue", q>> PROVE PoolHold'[h] = PoolHold[h]
      BY <1>3, <3>1, HoldIs, HoldIsPrimed
    <3>2. ASSUME NEW q \in Ports, h = <<"hand", q>> PROVE PoolHold'[h] = PoolHold[h]
      BY <1>3, <3>2, HoldIs, HoldIsPrimed
    <3>3. CASE h = <<"dvb", "evt">>
      BY <1>3, <3>3, HoldIs, HoldIsPrimed
    <3> QED BY <2>1, <3>1, <3>2, <3>3, HolderKinds
  <2>2. PoolHold[hi] = Entries(iov) /\ PoolHold'[hi] = {} /\ hi \in PoolHolders
    BY <1>4, HoldIs, HoldIsPrimed, HolderKinds
  <2> HIDE DEF hi
  <2>3. D = IF x \in Entries(iov) THEN {hi} ELSE {}
    BY <2>1, <2>2
  <2>4. Cardinality({hi}) = 1 /\ Cardinality({}) = 0
    BY FS_Singleton, FS_EmptySet
  <2>5. n[x] = IF x \in Entries(iov) THEN 1 ELSE 0
    <3>1. iov \in Seq(Bufs) /\ Once(iov)
      BY <1>1 DEF BlockType, Apart
    <3> QED BY <1>2, <3>1, OccursOnce
  <2> QED BY <2>3, <2>4, <2>5
<1>6. /\ queue' \in [Ports -> Seq(Bufs)] /\ hand' \in [Ports -> SUBSET Bufs]
      /\ \A q \in Ports : Once(queue'[q]) /\ Entries(queue'[q]) \subseteq Entries(queue[q]) /\ hand'[q] \subseteq hand[q]
  BY <1>1, <1>3 DEF Apart, BlockType
<1>7. Pool!Next /\ Apart' /\ content' \in [Bufs -> Pids \cup {Evt, Unfilled, Free}]
  BY <1>2, <1>3, <1>4, <1>5, <1>6, ReleaseFine
<1>8. NumBuf \in Nat /\ 0 \in 0 .. NumBuf /\ 0 <= NumBuf
  BY SelectorAssumption
<1>9. Unlinked' /\ BlockType'
  BY <1>1, <1>3, <1>4, <1>6, <1>7, <1>8 DEF Unlinked, BlockType
<1>10. Batch'
  BY <1>3, <1>4 DEF Batch
<1> QED BY <1>7, <1>9, <1>10 DEF Fine, Handling

(* Purge with the blocks each port keeps as a function: the queues it      *)
(* leaves, and how often it releases each block.                           *)
Purged(P, K) == [p \in Ports |-> IF p \in P THEN Filter(queue[p], K[p]) ELSE queue[p]]

Released(P, K) == [b \in Bufs |-> Cardinality({x \in Places(P, b) : b \notin K[x[1]]})]

(* A purge releases each block once for every queue it leaves.             *)
LEMMA PurgeFine ==
  ASSUME SelInv, NEW P \in SUBSET Ports, NEW K,
         queue' = Purged(P, K),
         NEW n, n = Released(P, K),
         ReleaseRefs(n),
         hand' = hand, sending' = sending, transfer' = transfer,
         \A p \in Ports \ linked' : p \in linked => p \in P /\ K[p] = {}
  PROVE  Fine
<1>1. BlockType /\ Apart /\ Unlinked /\ Batch
  BY DEF SelInv, Handling
<1>2. iov' = iov /\ step' = step /\ left' = left /\ misaligned' = misaligned
  BY DEF transfer
<1>3. ASSUME NEW p \in Ports
      PROVE  /\ queue'[p] \in Seq(Bufs) /\ Once(queue'[p])
             /\ Entries(queue'[p]) = IF p \in P THEN Entries(queue[p]) \cap K[p] ELSE Entries(queue[p])
  <2>1. queue[p] \in Seq(Bufs) /\ Once(queue[p])
    BY <1>1 DEF BlockType, Apart
  <2>2. CASE p \in P
    <3>1. queue'[p] = Filter(queue[p], K[p])
      BY <2>2 DEF Purged
    <3> QED BY <2>1, <2>2, <3>1, FilterEffect
  <2>3. CASE p \notin P
    BY <2>1, <2>3 DEF Purged
  <2> QED BY <2>2, <2>3
<1>4. queue' \in [Ports -> Seq(Bufs)]
  BY <1>3 DEF Purged
<1>5. ASSUME NEW x \in Bufs
      PROVE  n[x] = Cardinality({h \in PoolHolders : x \in PoolHold[h] \ PoolHold'[h]})
  <2> DEFINE G == {p \in P : x \notin K[p]}
             R == {p \in P : p \in G /\ x \in Entries(queue[p])}
             D == {h \in PoolHolders : x \in PoolHold[h] \ PoolHold'[h]}
             S == {y \in Places(P, x) : x \notin K[y[1]]}
  <2>1. S = {y \in Places(P, x) : y[1] \in G}
    <3>1. \A y \in Places(P, x) : y[1] \in P
      BY DEF Places
    <3> QED BY <3>1
  <2>2. Cardinality(S) = Cardinality(R)
    <3>1. \A p \in Ports : Once(queue[p])
      BY <1>1 DEF Apart
    <3>2. R = PortsIn(P, x, G) /\ S = PlacesIn(P, x, G)
      BY <2>1 DEF PortsIn, PlacesIn
    <3> HIDE DEF G, S, R
    <3>3. Cardinality(PlacesIn(P, x, G)) = Cardinality(PortsIn(P, x, G))
      BY <3>1, PlacesCount
    <3> QED BY <3>2, <3>3
  <2>3. D = {"queue"} \X R
    <3>1. ASSUME NEW p \in Ports PROVE <<"queue", p>> \in D <=> p \in R
      <4>1. PoolHold[<<"queue", p>>] = Entries(queue[p]) /\ PoolHold'[<<"queue", p>>] = Entries(queue'[p])
            /\ <<"queue", p>> \in PoolHolders
        BY HoldIs, HoldIsPrimed, HolderKinds
      <4>2. Entries(queue'[p]) = IF p \in P THEN Entries(queue[p]) \cap K[p] ELSE Entries(queue[p])
        BY <1>3
      <4>3. <<"queue", p>> \in D <=> x \in Entries(queue[p]) \ Entries(queue'[p])
        BY <4>1
      <4>4. p \in R <=> p \in P /\ x \notin K[p] /\ x \in Entries(queue[p])
        OBVIOUS
      <4> HIDE DEF D, R
      <4> QED BY <4>2, <4>3, <4>4
    <3>2. ASSUME NEW h \in D PROVE \E p \in Ports : h = <<"queue", p>>
      <4>1. h \in PoolHolders /\ PoolHold'[h] # PoolHold[h]
        OBVIOUS
      <4>2. ASSUME NEW q \in Ports, h = <<"hand", q>> PROVE FALSE
        BY <4>1, <4>2, HoldIs, HoldIsPrimed
      <4>3. CASE h = <<"dvb", "iov">>
        BY <1>2, <4>1, <4>3, HoldIs, HoldIsPrimed
      <4>4. CASE h = <<"dvb", "evt">>
        BY <4>1, <4>4, HoldIs, HoldIsPrimed
      <4> HIDE DEF D
      <4> QED BY <4>1, <4>2, <4>3, <4>4, HolderKinds
    <3>3. R \subseteq Ports
      OBVIOUS
    <3> HIDE DEF D, R
    <3> QED BY <3>1, <3>2, <3>3
  <2>4. IsFiniteSet(R)
    BY SelectorAssumption, FS_Subset
  <2>5. Cardinality(D) = Cardinality(R)
    <3> HIDE DEF D, R
    <3>1. Cardinality({"queue"}) = 1 /\ IsFiniteSet({"queue"})
      BY FS_Singleton
    <3>2. Cardinality({"queue"} \X R) = 1 * Cardinality(R)
      BY <2>4, <3>1, FS_Product
    <3>3. Cardinality(R) \in Nat
      BY <2>4, FS_CardinalityType
    <3> QED BY <2>3, <3>2, <3>3
  <2>6. n[x] = Cardinality(S)
    BY DEF Released
  <2> HIDE DEF S, D, R
  <2>7. n[x] = Cardinality(D)
    BY <2>2, <2>5, <2>6
  <2> QED BY <2>7 DEF D
<1>6. /\ hand' \in [Ports -> SUBSET Bufs] /\ Once(iov') /\ Entries(iov') \subseteq Entries(iov)
      /\ \A q \in Ports : Once(queue'[q]) /\ Entries(queue'[q]) \subseteq Entries(queue[q]) /\ hand'[q] \subseteq hand[q]
  <2>1. \A q \in Ports : Once(queue'[q]) /\ Entries(queue'[q]) \subseteq Entries(queue[q])
    BY <1>3
  <2> QED BY <1>1, <1>2, <2>1 DEF Apart, BlockType
<1>7. Pool!Next /\ Apart' /\ content' \in [Bufs -> Pids \cup {Evt, Unfilled, Free}]
  BY <1>4, <1>5, <1>6, ReleaseFine
<1>8. Unlinked'
  <2> SUFFICES ASSUME NEW p \in Ports \ linked' PROVE queue'[p] = <<>>
    BY DEF Unlinked
  <2>1. Entries(queue'[p]) = {}
    <3>1. CASE p \in linked
      BY <1>3, <3>1
    <3>2. CASE p \notin linked
      <4>1. Entries(queue[p]) = {}
        BY <1>1, <3>2 DEF Unlinked, Entries
      <4> QED BY <1>3, <4>1
    <3> QED BY <3>1, <3>2
  <2>2. PICK q \in Seq(Bufs) : q = queue'[p]
    BY <1>3
  <2>3. Entries(q) = {} /\ DOMAIN q = 1 .. Len(q) /\ Len(q) \in Nat
    BY <2>1, <2>2
  <2>4. \A i \in 1 .. Len(q) : FALSE
    BY <2>3 DEF Entries
  <2>5. Len(q) = 0
    BY <2>3, <2>4
  <2> QED BY <2>2, <2>5, EmptySeq
<1>9. Batch' /\ BlockType'
  BY <1>1, <1>2, <1>4, <1>6, <1>7 DEF Batch, BlockType
<1> QED BY <1>7, <1>8, <1>9 DEF Fine, Handling

(* selectorRemovePort.                                                     *)
LEMMA RemovePortFine ==
  ASSUME SelInv, NEW p \in Ports, RemovePort(p)
  PROVE  Fine
<1> PICK K : K = [q \in Ports |-> {}]
  OBVIOUS
<1>1. /\ linked' = linked \ {p} /\ hand' = hand /\ sending' = sending /\ transfer' = transfer
  BY DEF RemovePort
<1>2. queue' = Purged({p}, K)
  BY DEF RemovePort, Purge, Nothing, Purged
<1>3. PICK n : n = [b \in Bufs |-> Cardinality({x \in Places({p}, b) : b \notin Nothing(x[1])})] /\ ReleaseRefs(n)
  BY DEF RemovePort, Purge, ReleaseRefs
<1>4. n = Released({p}, K)
  <2>1. ASSUME NEW b \in Bufs
        PROVE  {x \in Places({p}, b) : b \notin Nothing(x[1])} = {x \in Places({p}, b) : b \notin K[x[1]]}
    <3>1. \A x \in Places({p}, b) : x[1] \in Ports
      BY DEF Places
    <3> QED BY <3>1 DEF Nothing
  <2> QED BY <1>3, <2>1 DEF Released
<1>5. {p} \in SUBSET Ports /\ \A q \in Ports \ linked' : q \in linked => q \in {p} /\ K[q] = {}
  BY <1>1
<1> QED BY <1>1, <1>2, <1>3, <1>4, <1>5, PurgeFine

(* What Wanted keeps, as a function.                                       *)
LEMMA PurgeWanted ==
  ASSUME SelInv, NEW P \in SUBSET Ports, Purge(P, Wanted),
         linked' = linked, hand' = hand, sending' = sending, transfer' = transfer
  PROVE  Fine
<1> PICK K : K = [q \in Ports |-> Wanted(q)]
  OBVIOUS
<1>2. queue' = Purged(P, K)
  BY DEF Purge, Purged
<1>3. PICK n : n = [b \in Bufs |-> Cardinality({x \in Places(P, b) : b \notin Wanted(x[1])})] /\ ReleaseRefs(n)
  BY DEF Purge, ReleaseRefs
<1>4. n = Released(P, K)
  <2>1. ASSUME NEW b \in Bufs
        PROVE  {x \in Places(P, b) : b \notin Wanted(x[1])} = {x \in Places(P, b) : b \notin K[x[1]]}
    <3>1. \A x \in Places(P, b) : x[1] \in Ports
      BY DEF Places
    <3> QED BY <3>1
  <2> QED BY <1>3, <2>1 DEF Released
<1> QED BY <1>2, <1>3, <1>4, PurgeFine

(* selectorModPort, with and without a purge.                              *)
LEMMA ModPortFine ==
  ASSUME SelInv, NEW p \in Ports, NEW set \in SUBSET Pids, ModPort(p, set)
  PROVE  Fine
<1>1. BlockType /\ Apart /\ Unlinked /\ Batch
  BY DEF SelInv, Handling
<1>2. linked' = linked /\ hand' = hand /\ sending' = sending /\ transfer' = transfer
  BY DEF ModPort
<1>3. CASE AllPids' = AllPids
  <2>1. queue' = queue /\ UNCHANGED blocks
    BY <1>3 DEF ModPort
  <2>2. UNCHANGED PoolVars /\ Apart'
    BY <1>1, <1>2, <2>1, QuietPool DEF transfer
  <2>3. Unlinked' /\ Batch' /\ BlockType'
    BY <1>1, <1>2, <2>1 DEF Unlinked, Batch, BlockType, transfer, blocks
  <2> QED BY <2>2, <2>3 DEF Fine, Handling
<1>4. CASE AllPids' # AllPids
  <2>1. {p} \in SUBSET Ports /\ Purge({p}, Wanted)
    BY <1>4 DEF ModPort
  <2> QED BY <1>2, <2>1, PurgeWanted
<1> QED BY <1>3, <1>4

(* selectorReinit.                                                         *)
LEMMA ReinitFine ==
  ASSUME SelInv, Reinit
  PROVE  Fine
<1>1. PICK P : P = linked
  OBVIOUS
<1>2. P \in SUBSET Ports
  BY <1>1 DEF SelInv, FilterInv, FilterType
<1>3. Purge(P, Wanted)
  BY <1>1 DEF Reinit, Purge, ReleaseRefs, Places
<1>4. linked' = linked /\ hand' = hand /\ sending' = sending /\ transfer' = transfer
  BY DEF Reinit
<1> QED BY <1>2, <1>3, <1>4, PurgeWanted

-----------------------------------------------------------------------------
(* Every step.                                                             *)

(* One step per action of Selector.                                        *)
LEMMA StepFine ==
  ASSUME SelInv, [Next]_vars
  PROVE  Fine
<1>1. ASSUME NEW p \in Ports,
             \/ AddPort(p) \/ RemovePort(p) \/ ReadElement(p)
             \/ \E set \in SUBSET Pids : ModPort(p, set)
             \/ \E b \in Bufs : ReleaseElement(p, b)
      PROVE  Fine
  BY <1>1, AddPortFine, RemovePortFine, ReadElementFine, ModPortFine, ReleaseElementFine
<1>2. ASSUME NEW b \in Bufs, SndEvtAlloc(b) \/ SndEvtFeed(b) \/ AllocElement(b)
      PROVE  Fine
  BY <1>2, SndEvtAllocFine, SndEvtFeedFine, AllocElementFine
<1>3. ASSUME \/ Reinit \/ TransferStart \/ Readv \/ NotAligned \/ BatchDone \/ TransferStop
             \/ \E pid \in Pids : FeedPacket(pid)
      PROVE  Fine
  BY <1>3, ReinitFine, TransferQuietFine, ClearFine, FeedPacketFine
<1>4. CASE UNCHANGED vars
  BY <1>4, StutterFine
<1> QED BY <1>1, <1>2, <1>3, <1>4 DEF Next

(* SelInv holds when the selector is set up.                               *)
LEMMA SelInit == Init => SelInv /\ Pool!Init
<1> SUFFICES ASSUME Init PROVE SelInv /\ Pool!Init
  OBVIOUS
<1>1. FilterInv
  BY DEF Init, FilterInv, FilterType, FiltersFollowPorts, AllPids
<1>2. /\ queue = [p \in Ports |-> <<>>] /\ hand = [p \in Ports |-> {}] /\ sending = {} /\ iov = <<>>
      /\ ref = [b \in Bufs |-> 0] /\ content = [b \in Bufs |-> Free] /\ num_buffers = 0
      /\ left = 0 /\ misaligned = FALSE /\ step = "stopped"
  BY DEF Init
<1>3. <<>> \in Seq(Bufs) /\ Len(<<>>) = 0 /\ Entries(<<>>) = {} /\ Once(<<>>)
  BY DEF Entries, Once
<1>4. BlockType
  <2>1. misaligned \in BOOLEAN
    BY <1>2
  <2>2. queue \in [Ports -> Seq(Bufs)] /\ hand \in [Ports -> SUBSET Bufs] /\ content \in [Bufs -> Pids \cup {Evt, Unfilled, Free}]
    BY <1>2, <1>3
  <2>3. iov \in Seq(Bufs) /\ Len(iov) <= NumBuf /\ left \in 0 .. NumBuf
    BY <1>2, <1>3, SelectorAssumption
  <2> QED BY <1>2, <2>1, <2>2, <2>3 DEF BlockType
<1>5. Handling
  <2>1. Apart
    BY <1>2, <1>3 DEF Apart
  <2>2. Unlinked
    BY <1>2 DEF Unlinked
  <2>3. Batch
    BY <1>2, <1>3 DEF Batch
  <2> QED BY <2>1, <2>2, <2>3 DEF Handling
<1>6. Pool!Init
  <2>1. PoolHold = [h \in PoolHolders |-> {}]
    <3>1. ASSUME NEW h \in PoolHolders PROVE PoolHold[h] = {}
      <4>1. ASSUME NEW p \in Ports, h = <<"queue", p>> \/ h = <<"hand", p>> PROVE PoolHold[h] = {}
        BY <1>2, <1>3, <4>1, HoldIs
      <4>2. CASE h = <<"dvb", "iov">> \/ h = <<"dvb", "evt">>
        BY <1>2, <1>3, <4>2, HoldIs
      <4> QED BY <4>1, <4>2, HolderKinds
    <3> HIDE DEF PoolHold
    <3> QED BY <3>1, HoldIs
  <2>2. PoolData = {}
    BY <1>2 DEF PoolData
  <2> QED BY <1>2, <2>1, <2>2 DEF Pool!Init
<1>7. Pool!PoolInv
  <2>1. PoolProofs!Init
    BY <1>6 DEF Pool!Init, PoolProofs!Init
  <2>2. PoolProofs!PoolInv
    BY <2>1, PoolAssumptionHolds, SameCardinality, PoolProofs!PoolInit
  <2> QED BY <2>2, SameInv
<1> QED BY <1>1, <1>4, <1>5, <1>6, <1>7 DEF SelInv

(* SelInv is inductive, and every step is one of the pool or none.         *)
LEMMA SelStep ==
  ASSUME SelInv, [Next]_vars
  PROVE  SelInv' /\ [Pool!Next]_(Pool!vars)
<1>1. Fine
  BY StepFine
<1>2. FilterInv'
  BY FilterStep DEF SelInv
<1>3. Pool!PoolInv'
  BY <1>1, PoolKeeps DEF SelInv, Fine, PoolVars
<1>4. [Pool!Next]_(Pool!vars)
  BY <1>1 DEF Fine, PoolVars, Pool!vars
<1> QED BY <1>1, <1>2, <1>3, <1>4 DEF SelInv, Fine

(* Whatever the numbers of ports, pids and blocks, every step the selector *)
(* takes is one the reference-counted pool allows, or leaves it alone: the *)
(* theorems of BufferPoolProofs hold of selector.c's queues, hands, vector *)
(* and event senders.                                                      *)
THEOREM SelectorImplementsPool == Spec => ImplementsPool
<1>1. Init => SelInv /\ Pool!Init
  BY SelInit
<1>2. SelInv /\ [Next]_vars => SelInv' /\ [Pool!Next]_(Pool!vars)
  BY SelStep
<1> QED BY <1>1, <1>2, PTL DEF Spec, ImplementsPool, Pool!Spec

(* Counting the union of two sets without a common element.                *)
LEMMA TwoParts ==
  ASSUME NEW S, IsFiniteSet(S), NEW T, IsFiniteSet(T), S \cap T = {}
  PROVE  Cardinality(S \cup T) = Cardinality(S) + Cardinality(T) /\ IsFiniteSet(S \cup T)
<1>1. Cardinality(S \cup T) = Cardinality(S) + Cardinality(T) - Cardinality(S \cap T) /\ IsFiniteSet(S \cup T)
  BY FS_Union
<1>2. Cardinality(S \cap T) = 0
  BY FS_EmptySet
<1>3. Cardinality(S) \in Nat /\ Cardinality(T) \in Nat
  BY FS_CardinalityType
<1> QED BY <1>1, <1>2, <1>3

(* The places, clients, vector slots and senders of b are its holders.     *)
LEMMA HoldersCounted ==
  ASSUME SelInv, NEW b \in Bufs
  PROVE  Cardinality({h \in PoolHolders : b \in PoolHold[h]})
           = InQueues(b) + Cardinality({p \in Ports : b \in hand[p]})
             + Occurrences(iov, b) + (IF b \in sending THEN 1 ELSE 0)
<1>1. BlockType /\ Apart
  BY DEF SelInv, Handling
<1> DEFINE H == {h \in PoolHolders : b \in PoolHold[h]}
           Q == PortsIn(Ports, b, Ports)
           C == {p \in Ports : b \in hand[p]}
           A == {"queue"} \X Q
           B == {"hand"} \X C
           I == IF b \in Entries(iov) THEN {<<"dvb", "iov">>} ELSE {}
           E == IF b \in sending THEN {<<"dvb", "evt">>} ELSE {}
<1>2. InQueues(b) = Cardinality(Q)
  <2>1. Places(Ports, b) = PlacesIn(Ports, b, Ports)
    BY DEF Places, PlacesIn
  <2>2. \A p \in Ports : Once(queue[p])
    BY <1>1 DEF Apart
  <2>3. Cardinality(PlacesIn(Ports, b, Ports)) = Cardinality(PortsIn(Ports, b, Ports))
    BY <2>2, PlacesCount
  <2> QED BY <2>1, <2>3 DEF InQueues
<1>3. IsFiniteSet(Q) /\ IsFiniteSet(C) /\ Q \subseteq Ports
  <2>1. Q \subseteq Ports /\ C \subseteq Ports
    BY DEF PortsIn
  <2> QED BY <2>1, SelectorAssumption, FS_Subset
<1>4. /\ IsFiniteSet(A) /\ IsFiniteSet(B) /\ Cardinality(A) = Cardinality(Q) /\ Cardinality(B) = Cardinality(C)
      /\ Cardinality(A) \in Nat /\ Cardinality(B) \in Nat
  <2> HIDE DEF Q, C
  <2>1. \A x : IsFiniteSet({x}) /\ Cardinality({x}) = 1
    BY FS_Singleton
  <2>2. IsFiniteSet(A) /\ IsFiniteSet(B) /\ Cardinality(A) = 1 * Cardinality(Q) /\ Cardinality(B) = 1 * Cardinality(C)
    <3>1. IsFiniteSet(A) /\ Cardinality(A) = Cardinality({"queue"}) * Cardinality(Q)
      BY <1>3, <2>1, FS_Product
    <3>2. IsFiniteSet(B) /\ Cardinality(B) = Cardinality({"hand"}) * Cardinality(C)
      BY <1>3, <2>1, FS_Product
    <3> QED BY <2>1, <3>1, <3>2
  <2>3. Cardinality(Q) \in Nat /\ Cardinality(C) \in Nat
    BY <1>3, FS_CardinalityType
  <2> QED BY <2>2, <2>3
<1>5. /\ IsFiniteSet(I) /\ Cardinality(I) = Occurrences(iov, b)
      /\ IsFiniteSet(E) /\ Cardinality(E) = (IF b \in sending THEN 1 ELSE 0)
      /\ Cardinality(I) \in Nat /\ Cardinality(E) \in Nat
  <2>1. Occurrences(iov, b) = IF b \in Entries(iov) THEN 1 ELSE 0
    BY <1>1, OccursOnce DEF BlockType, Apart
  <2>2. \A x : IsFiniteSet({x}) /\ Cardinality({x}) = 1
    BY FS_Singleton
  <2>3. IsFiniteSet({}) /\ Cardinality({}) = 0
    BY FS_EmptySet
  <2>4. IsFiniteSet(I) /\ Cardinality(I) = IF b \in Entries(iov) THEN 1 ELSE 0
    <3>1. CASE b \in Entries(iov)
      BY <2>2, <3>1
    <3>2. CASE b \notin Entries(iov)
      BY <2>3, <3>2
    <3> QED BY <3>1, <3>2
  <2>5. IsFiniteSet(E) /\ Cardinality(E) = IF b \in sending THEN 1 ELSE 0
    <3>1. CASE b \in sending
      BY <2>2, <3>1
    <3>2. CASE b \notin sending
      BY <2>3, <3>2
    <3> QED BY <3>1, <3>2
  <2> HIDE DEF I, E
  <2> QED BY <2>1, <2>4, <2>5
<1>6. H = ((A \cup B) \cup I) \cup E
  <2>1. ASSUME NEW h \in H PROVE h \in ((A \cup B) \cup I) \cup E
    <3>1. h \in PoolHolders /\ b \in PoolHold[h]
      OBVIOUS
    <3>2. ASSUME NEW p \in Ports, h = <<"queue", p>> PROVE h \in A
      <4>1. p \in Q
        BY <3>1, <3>2, HoldIs DEF PortsIn
      <4> QED BY <3>2, <4>1
    <3>3. ASSUME NEW p \in Ports, h = <<"hand", p>> PROVE h \in B
      <4>1. p \in C
        BY <3>1, <3>3, HoldIs
      <4> QED BY <3>3, <4>1
    <3>4. CASE h = <<"dvb", "iov">>
      <4>1. h \in I
        BY <3>1, <3>4, HoldIs
      <4> QED BY <4>1
    <3>5. CASE h = <<"dvb", "evt">>
      <4>1. h \in E
        BY <3>1, <3>5, HoldIs
      <4> QED BY <4>1
    <3> HIDE DEF A, B, I, E, H
    <3> QED BY <3>1, <3>2, <3>3, <3>4, <3>5, HolderKinds
  <2>2. ASSUME NEW p \in Q PROVE <<"queue", p>> \in H
    <3>1. p \in Ports /\ b \in Entries(queue[p])
      BY DEF PortsIn
    <3> QED BY <3>1, HoldIs, HolderKinds
  <2>3. ASSUME NEW p \in C PROVE <<"hand", p>> \in H
    BY HoldIs, HolderKinds
  <2>4. I \subseteq H
    BY HoldIs, HolderKinds
  <2>5. E \subseteq H
    BY HoldIs, HolderKinds
  <2>6. A \subseteq H
    <3> HIDE DEF H, Q
    <3> QED BY <2>2
  <2>7. B \subseteq H
    <3> HIDE DEF H, C
    <3> QED BY <2>3
  <2> HIDE DEF A, B, I, E, H
  <2> QED BY <2>1, <2>4, <2>5, <2>6, <2>7
<1>7. A \cap B = {} /\ (A \cup B) \cap I = {} /\ ((A \cup B) \cup I) \cap E = {}
  <2>1. /\ \A x \in A : x[1] = "queue"
        /\ \A x \in B : x[1] = "hand"
    OBVIOUS
  <2>2. \A x \in I : x[1] = "dvb" /\ x[2] = "iov"
    OBVIOUS
  <2>3. \A x \in E : x[1] = "dvb" /\ x[2] = "evt"
    OBVIOUS
  <2> HIDE DEF A, B, I, E
  <2> QED BY <2>1, <2>2, <2>3
<1> HIDE DEF A, B, I, E, H, Q, C
<1>8. /\ Cardinality(A \cup B) = Cardinality(A) + Cardinality(B) /\ IsFiniteSet(A \cup B)
  BY <1>4, <1>7, TwoParts
<1>9. Cardinality((A \cup B) \cup I) = Cardinality(A \cup B) + Cardinality(I) /\ IsFiniteSet((A \cup B) \cup I)
  BY <1>5, <1>7, <1>8, TwoParts
<1>10. Cardinality(((A \cup B) \cup I) \cup E) = Cardinality((A \cup B) \cup I) + Cardinality(E)
  BY <1>5, <1>7, <1>9, TwoParts
<1>11. Cardinality(H) = Cardinality(Q) + Cardinality(C) + Cardinality(I) + Cardinality(E)
  BY <1>4, <1>5, <1>6, <1>8, <1>9, <1>10
<1> QED BY <1>2, <1>5, <1>11 DEF H, C

(* "Element's reference count reflects their number" (selector.h), for any *)
(* number of ports, pids and blocks.                                       *)
THEOREM CountersStayExact == Spec => []RefcountExact
<1>1. SelInv => RefcountExact
  <2> SUFFICES ASSUME SelInv, NEW b \in Bufs
               PROVE  ref[b] = InQueues(b) + Cardinality({p \in Ports : b \in hand[p]})
                             + Occurrences(iov, b) + (IF b \in sending THEN 1 ELSE 0)
    BY DEF RefcountExact
  <2>1. ref[b] = Cardinality({h \in PoolHolders : b \in PoolHold[h]})
    BY SameCardinality DEF SelInv, Pool!PoolInv, Pool!RefcountExact, Pool!HoldersOf
  <2> QED BY <2>1, HoldersCounted
<1>2. Init => SelInv
  BY SelInit
<1>3. SelInv /\ [Next]_vars => SelInv'
  BY SelStep
<1> QED BY <1>1, <1>2, <1>3, PTL DEF Spec

(* num_buffers is the number of blocks in use, packets never exceed the    *)
(* limit, and the types hold, for any number of ports, pids and blocks.    *)
THEOREM BuffersStayCounted == Spec => []BuffersCounted
<1>1. SelInv => BuffersCounted
  <2> SUFFICES ASSUME SelInv PROVE BuffersCounted
    OBVIOUS
  <2>1. TypeOK
    BY InUse DEF SelInv, FilterInv, FilterType, BlockType, TypeOK
  <2>2. num_buffers = Cardinality({b \in Bufs : ref[b] > 0}) /\ Cardinality(PoolData) <= Limit
    BY SameCardinality DEF SelInv, Pool!PoolInv, Pool!NumBuffersExact, Pool!Live, Pool!DataWithinLimit
  <2> QED BY <2>1, <2>2 DEF BuffersCounted, PoolData
<1>2. Init => SelInv
  BY SelInit
<1>3. SelInv /\ [Next]_vars => SelInv'
  BY SelStep
<1> QED BY <1>1, <1>2, <1>3, PTL DEF Spec

-----------------------------------------------------------------------------
(* What a step does to a queue: nothing, a block is added at its tail, its *)
(* head is read, or some blocks are purged, none of them an event unless   *)
(* the port goes.                                                          *)

Added(p) == \E b \in Bufs : queue'[p] = Append(queue[p], b)

HeadRead(p) == queue[p] # <<>> /\ queue'[p] = Tail(queue[p]) /\ Head(queue[p]) \in hand'[p]

Purging(p) ==
  \E S : /\ queue'[p] = Filter(queue[p], S)
         /\ p \in linked' => \A b \in Bufs : content[b] = Evt => b \in S

Changed(p) == queue'[p] = queue[p] \/ Added(p) \/ HeadRead(p) \/ Purging(p)

(* A delivery adds at the tail.                                            *)
LEMMA DeliverChanges ==
  ASSUME NEW b \in Bufs, NEW R, Deliver(b, R), NEW p \in Ports
  PROVE  Changed(p)
<1>1. queue'[p] = IF p \in R THEN Append(queue[p], b) ELSE queue[p]
  BY DEF Deliver
<1> QED BY <1>1 DEF Changed, Added

(* selPortRSU spares events.                                               *)
LEMMA WantedChanges ==
  ASSUME NEW P, Purge(P, Wanted), NEW p \in Ports
  PROVE  Changed(p)
<1>1. queue'[p] = IF p \in P THEN Filter(queue[p], Wanted(p)) ELSE queue[p]
  BY DEF Purge
<1>2. \A b \in Bufs : content[b] = Evt => b \in Wanted(p)
  BY DEF Wanted
<1>3. PICK S : S = Wanted(p)
  OBVIOUS
<1> QED BY <1>1, <1>2, <1>3 DEF Changed, Purging

(* One step per action of Selector.                                        *)
LEMMA QueueChange ==
  ASSUME SelInv, [Next]_vars, NEW p \in Ports
  PROVE  Changed(p)
<1>1. BlockType /\ Apart /\ Unlinked
  BY DEF SelInv, Handling
<1>2. CASE queue' = queue
  BY <1>2 DEF Changed
<1>3. ASSUME NEW q \in Ports, AddPort(q) PROVE queue' = queue
  BY <1>1, <1>3 DEF AddPort, Unlinked, BlockType
<1>4. ASSUME NEW q \in Ports, RemovePort(q) PROVE Changed(p)
  <2>1. queue'[p] = (IF p \in {q} THEN Filter(queue[p], Nothing(p)) ELSE queue[p]) /\ linked' = linked \ {q}
    BY <1>4 DEF RemovePort, Purge
  <2>2. CASE p = q
    BY <2>1, <2>2 DEF Changed, Purging
  <2>3. CASE p # q
    BY <2>1, <2>3 DEF Changed
  <2> QED BY <2>2, <2>3
<1>5. ASSUME NEW q \in Ports, NEW set \in SUBSET Pids, ModPort(q, set) PROVE Changed(p)
  <2>1. queue' = queue \/ Purge({q}, Wanted)
    BY <1>5 DEF ModPort
  <2> QED BY <1>2, <2>1, WantedChanges
<1>6. ASSUME NEW q \in Ports, ReadElement(q) PROVE Changed(p)
  <2>1. /\ queue[q] # <<>> /\ queue' = [queue EXCEPT ![q] = Tail(queue[q])]
        /\ hand' = [hand EXCEPT ![q] = hand[q] \cup {Head(queue[q])}]
        /\ queue \in [Ports -> Seq(Bufs)] /\ hand \in [Ports -> SUBSET Bufs]
    BY <1>1, <1>6 DEF ReadElement, BlockType
  <2>2. CASE p = q
    <3>1. queue'[p] = Tail(queue[p]) /\ Head(queue[p]) \in hand'[p] /\ queue[p] # <<>>
      BY <2>1, <2>2
    <3> QED BY <3>1 DEF Changed, HeadRead
  <2>3. CASE p # q
    BY <2>1, <2>3 DEF Changed
  <2> QED BY <2>2, <2>3
<1>7. ASSUME NEW b \in Bufs, SndEvtFeed(b) PROVE Changed(p)
  <2>1. PICK R : Deliver(b, R)
    BY <1>7 DEF SndEvtFeed, Deliver
  <2> QED BY <2>1, DeliverChanges
<1>8. ASSUME NEW pid \in Pids, FeedPacket(pid) PROVE Changed(p)
  <2>1. Head(iov) \in Bufs
    <3>1. iov \in Seq(Bufs) /\ left \in Nat /\ left > 0 /\ left <= Len(iov)
      BY <1>1, <1>8, SelectorAssumption DEF BlockType, FeedPacket, SelInv, Handling, Batch
    <3>2. iov # <<>>
      BY <3>1
    <3> QED BY <3>1, <3>2
  <2>2. PICK b \in Bufs : b = Head(iov)
    BY <2>1
  <2>3. PICK R : R = {r \in linked : pid \in pids[r]}
    OBVIOUS
  <2>4. Deliver(b, R)
    BY <1>8, <2>2, <2>3 DEF FeedPacket, Deliver
  <2> QED BY <2>4, DeliverChanges
<1>9. CASE Reinit
  <2>1. PICK P : P = linked
    OBVIOUS
  <2>2. Purge(P, Wanted)
    BY <1>9, <2>1 DEF Reinit, Purge, ReleaseRefs, Places
  <2> QED BY <2>2, WantedChanges
<1>10. ASSUME NEW q \in Ports, NEW b \in Bufs, ReleaseElement(q, b) PROVE queue' = queue
  BY <1>10 DEF ReleaseElement
<1>11. ASSUME NEW b \in Bufs, SndEvtAlloc(b) \/ AllocElement(b) PROVE queue' = queue
  BY <1>11 DEF SndEvtAlloc, AllocElement
<1>12. ASSUME TransferStart \/ Readv \/ NotAligned \/ BatchDone \/ TransferStop PROVE queue' = queue
  BY <1>12 DEF TransferStart, Readv, NotAligned, BatchDone, TransferStop
<1>13. CASE UNCHANGED vars
  BY <1>2, <1>13 DEF vars
<1>14. ASSUME NEW q \in Ports,
              \/ AddPort(q) \/ RemovePort(q) \/ ReadElement(q)
              \/ \E set \in SUBSET Pids : ModPort(q, set)
              \/ \E b \in Bufs : ReleaseElement(q, b)
       PROVE  Changed(p)
  BY <1>2, <1>3, <1>4, <1>5, <1>6, <1>10, <1>14
<1>15. ASSUME \/ \E b \in Bufs : SndEvtAlloc(b) \/ SndEvtFeed(b) \/ AllocElement(b)
              \/ Reinit \/ TransferStart \/ Readv \/ NotAligned \/ BatchDone \/ TransferStop
              \/ \E pid \in Pids : FeedPacket(pid)
       PROVE  Changed(p)
  BY <1>2, <1>7, <1>8, <1>9, <1>11, <1>12, <1>15
<1> QED BY <1>13, <1>14, <1>15 DEF Next

(* An event leaves a queue by being read or with its port, for any number  *)
(* of ports, pids and blocks.                                              *)
THEOREM EventsAlwaysSurvive == Spec => EventsSurvive
<1> DEFINE A == \A p \in linked \cap linked' : \A b \in Entries(queue[p]) :
                  content[b] = Evt => \/ b \in Entries(queue'[p])
                                      \/ b = Head(queue[p]) /\ b \in hand'[p]
<1>1. SelInv /\ [Next]_vars => [A]_vars
  <2> SUFFICES ASSUME SelInv, [Next]_vars, NEW p \in linked \cap linked', NEW b \in Entries(queue[p]), content[b] = Evt
               PROVE  b \in Entries(queue'[p]) \/ (b = Head(queue[p]) /\ b \in hand'[p])
    OBVIOUS
  <2>1. p \in Ports /\ queue[p] \in Seq(Bufs) /\ b \in Bufs
    BY DEF SelInv, FilterInv, FilterType, BlockType, Entries
  <2>2. Changed(p)
    BY <2>1, QueueChange
  <2>3. CASE Added(p)
    BY <2>1, <2>3, AppendEffect DEF Added
  <2>4. CASE HeadRead(p)
    <3>1. Entries(queue[p]) = Entries(queue'[p]) \cup {Head(queue[p])}
      BY <2>1, <2>4, TailEffect DEF HeadRead
    <3> QED BY <2>4, <3>1 DEF HeadRead
  <2>5. CASE Purging(p)
    <3>1. PICK S : queue'[p] = Filter(queue[p], S) /\ b \in S
      BY <2>1, <2>5 DEF Purging
    <3>2. Entries(queue'[p]) = Entries(queue[p]) \cap S
      BY <2>1, <3>1, FilterEffect
    <3> QED BY <3>1, <3>2
  <2> QED BY <2>2, <2>3, <2>4, <2>5 DEF Changed
<1>2. Init => SelInv
  BY SelInit
<1>3. SelInv /\ [Next]_vars => SelInv'
  BY SelStep
<1> QED BY <1>1, <1>2, <1>3, PTL DEF Spec, EventsSurvive

(* A queue cut to its own length.                                          *)
LEMMA WholeSeq ==
  ASSUME NEW q \in Seq(Bufs)
  PROVE  SubSeq(q, 1, Len(q)) = q
<1> DEFINE n == Len(q)
           r == SubSeq(q, 1, n)
<1>1. n \in Nat /\ \A i \in 1 .. n : q[i] \in Bufs
  OBVIOUS
<1>2. /\ r \in Seq(Bufs) /\ Len(r) = (IF 1 <= n THEN n - 1 + 1 ELSE 0)
      /\ \A i \in 1 .. n - 1 + 1 : r[i] = q[1 + i - 1]
  BY <1>1, SubSeqProperties
<1> HIDE DEF n, r
<1>3. Len(r) = n /\ \A i \in 1 .. n : r[i] = q[i]
  BY <1>1, <1>2
<1>4. r = q
  BY <1>2, <1>3, SeqEqual DEF n
<1> QED BY <1>4 DEF n, r

(* Nothing is purged from a queue all of whose elements are kept.          *)
LEMMA FilterAll ==
  ASSUME NEW q \in Seq(Bufs), NEW S, Entries(q) \subseteq S
  PROVE  Filter(q, S) = q
<1>1. \A i \in 1 .. Len(q) : q[i] \in S <=> i > 0
  BY DEF Entries
<1>2. Filter(q, S) = SubSeq(q, 0 + 1, Len(q))
  BY <1>1, FilterSuffix
<1> QED BY <1>2, WholeSeq

(* What stays of a queue whose head was read is its tail.                  *)
LEMMA FilterTail ==
  ASSUME NEW q \in Seq(Bufs), q # <<>>, Once(q)
  PROVE  Filter(q, Entries(Tail(q))) = Tail(q)
<1> DEFINE S == Entries(Tail(q))
           n == Len(q)
<1>1. n \in Nat \ {0} /\ DOMAIN q = 1 .. n /\ Head(q) = q[1]
  BY TailEffect
<1>2. Entries(q) = S \cup {Head(q)} /\ Head(q) \notin S
  BY TailEffect
<1>3. \A i \in 1 .. n : q[i] \in Entries(q)
  BY <1>1 DEF Entries
<1>4. ASSUME NEW i \in 1 .. n PROVE q[i] \in S <=> i > 1
  <2> HIDE DEF S
  <2>1. CASE i = 1
    BY <1>1, <1>2, <2>1
  <2>2. CASE i # 1
    <3>1. q[i] # q[1] /\ i > 1
      BY <1>1, <2>2 DEF Once
    <3> QED BY <1>1, <1>2, <1>3, <3>1
  <2> QED BY <2>1, <2>2
<1>5. Filter(q, S) = SubSeq(q, 1 + 1, n)
  <2> HIDE DEF S
  <2> QED BY <1>4, FilterSuffix
<1> DEFINE r == SubSeq(q, 2, n)
           t == Tail(q)
<1>6. t \in Seq(Bufs) /\ Len(t) = n - 1 /\ \A i \in 1 .. n - 1 : t[i] = q[i + 1]
  OBVIOUS
<1>7. /\ r \in Seq(Bufs) /\ Len(r) = (IF 2 <= n THEN n - 2 + 1 ELSE 0)
      /\ \A i \in 1 .. n - 2 + 1 : r[i] = q[2 + i - 1]
  <2>1. \A i \in 2 .. n : q[i] \in Bufs
    BY <1>1
  <2> QED BY <1>1, <2>1, SubSeqProperties
<1> HIDE DEF n, r, t
<1>8. Len(r) = n - 1
  BY <1>1, <1>7
<1>9. \A i \in 1 .. n - 1 : r[i] = q[i + 1]
  <2>1. \A i \in 1 .. n - 1 : i \in 1 .. n - 2 + 1 /\ 2 + i - 1 = i + 1
    BY <1>1
  <2> QED BY <1>7, <2>1
<1>10. r = t
  BY <1>6, <1>7, <1>8, <1>9, SeqEqual
<1>11. 1 + 1 = 2
  OBVIOUS
<1> QED BY <1>5, <1>10, <1>11 DEF r, t, n, S

(* The elements of a port never overtake each other, for any number of     *)
(* ports, pids and blocks.                                                 *)
THEOREM OrderIsFifo == Spec => FifoOrder
<1> DEFINE A == \A p \in Ports :
                  LET kept == Filter(queue[p], Entries(queue'[p]))
                  IN  kept = SubSeq(queue'[p], 1, Len(kept))
<1>1. SelInv /\ [Next]_vars => [A]_vars
  <2> SUFFICES ASSUME SelInv, [Next]_vars, NEW p \in Ports
               PROVE  Filter(queue[p], Entries(queue'[p]))
                        = SubSeq(queue'[p], 1, Len(Filter(queue[p], Entries(queue'[p]))))
    OBVIOUS
  <2>1. queue[p] \in Seq(Bufs) /\ Once(queue[p])
    BY DEF SelInv, BlockType, Handling, Apart
  <2>2. PICK q \in Seq(Bufs) : q = queue[p]
    BY <2>1
  <2>3. PICK r : r = queue'[p]
    OBVIOUS
  <2>4. Changed(p)
    BY QueueChange
  <2>5. CASE r = q
    BY <2>2, <2>3, <2>5, FilterAll, WholeSeq
  <2>6. CASE Added(p)
    <3>1. PICK b \in Bufs : r = Append(q, b)
      BY <2>2, <2>3, <2>6 DEF Added
    <3>2. Entries(r) = Entries(q) \cup {b} /\ SubSeq(r, 1, Len(q)) = q
      BY <3>1, AppendEffect
    <3>3. Filter(q, Entries(r)) = q
      BY <3>2, FilterAll
    <3> QED BY <2>2, <2>3, <3>2, <3>3
  <2>7. CASE HeadRead(p)
    <3>1. r = Tail(q) /\ q # <<>> /\ Once(q)
      BY <2>1, <2>2, <2>3, <2>7 DEF HeadRead
    <3>2. Filter(q, Entries(r)) = r /\ r \in Seq(Bufs)
      BY <3>1, FilterTail, TailEffect
    <3> QED BY <2>2, <2>3, <3>2, WholeSeq
  <2>8. CASE Purging(p)
    <3>1. PICK S : r = Filter(q, S)
      BY <2>2, <2>3, <2>8 DEF Purging
    <3>2. r \in Seq(Bufs) /\ Entries(r) = Entries(q) \cap S
      BY <3>1, FilterEffect
    <3>3. Entries(q) \cap Entries(r) = Entries(q) \cap S
      BY <3>2
    <3>4. Filter(q, Entries(r)) = r
      BY <3>1, <3>3, FilterSame
    <3> QED BY <2>2, <2>3, <3>2, <3>4, WholeSeq
  <2> QED BY <2>2, <2>3, <2>4, <2>5, <2>6, <2>7, <2>8 DEF Changed
<1>2. Init => SelInv
  BY SelInit
<1>3. SelInv /\ [Next]_vars => SelInv'
  BY SelStep
<1> QED BY <1>1, <1>2, <1>3, PTL DEF Spec, FifoOrder

=============================================================================
