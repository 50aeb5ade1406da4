-------------------------- MODULE RecordingProofs --------------------------
(***************************************************************************)
(* Recordings, from the schedule to the file.                              *)
(*                                                                         *)
(* The schedule (RecSched), for any number of entries: the list is by      *)
(* start_time whatever is inserted, repeated, removed or read back, also   *)
(* from a file cut short, so the due entries are in front; and unless a    *)
(* write or an update went wrong, the file has every entry that waits or   *)
(* has been started since it was written.                                  *)
(* SchedInv is inductive; what rsInsertEntry, rsInsertAll and Without do   *)
(* to a list are lemmas, by induction over the set or the list.            *)
(*                                                                         *)
(* One scheduled recording (EitRec): what eit_state says of the recorder   *)
(* is so, and nothing but the broadcaster, an abort or the planned end     *)
(* stops it.                                                               *)
(***************************************************************************)
EXTENDS RecSched, EitRec, FiniteSetTheorems, FunctionTheorems, SequenceTheorems,
        WellFoundedInduction, TLAPS

(* A list as rsInsertEntry keeps it: by start_time, every entry once.      *)
Sorted(l) == \A i, j \in 1 .. Len(l) : i < j => l[i].start <= l[j].start
OneEach(l) == \A i, j \in 1 .. Len(l) : l[i].id = l[j].id => i = j
Kept(l) == l \in Seq(Entry) /\ Sorted(l) /\ OneEach(l)

IdsOf(S) == {x.id : x \in S}
Unique(S) == \A x, y \in S : x.id = y.id => x = y

(* Induction over the natural numbers, for a set.                          *)
LEMMA NatSetInduction ==
  ASSUME NEW S \in SUBSET Nat, 0 \in S, \A n \in S : n + 1 \in S
  PROVE  S = Nat
<1> DEFINE T == Nat \ S
           R == OpToRel(<, Nat)
<1> SUFFICES ASSUME T # {} PROVE FALSE
  OBVIOUS
<1>1. IsWellFoundedOn(R, Nat)
  BY NatLessThanWellFounded
<1>2. \A i, j \in Nat : <<i, j>> \in R <=> i < j
  BY DEF OpToRel
<1> HIDE DEF R
<1>3. PICK x \in T : \A y \in T : ~(<<y, x>> \in R)
  BY <1>1, WFMin
<1>4. x \in Nat /\ x \notin S
  OBVIOUS
<1>5. x # 0 /\ x - 1 \in Nat /\ x = (x - 1) + 1
  BY <1>4
<1>6. x - 1 \in S
  <2>1. <<x - 1, x>> \in R
    BY <1>2, <1>4, <1>5
  <2>2. x - 1 \notin T
    BY <1>3, <2>1
  <2> QED BY <1>5, <2>2
<1> QED BY <1>4, <1>5, <1>6

(* A set of entries with one entry for an identity is finite.              *)
LEMMA UniqueFinite ==
  ASSUME NEW S \in SUBSET Entry, Unique(S)
  PROVE  IsFiniteSet(S)
<1> DEFINE f == [x \in S |-> x.id]
<1>1. f \in [S -> Ids]
  BY DEF Entry
<1>2. f \in Injection(S, Ids)
  BY <1>1 DEF Injection, IsInjective, Unique
<1>3. IsFiniteSet(Ids)
  BY RecSchedAssumption
<1> HIDE DEF f
<1> QED BY <1>2, <1>3, FS_Injection

(* The elements of a sequence.                                             *)
LEMMA RangeSeq ==
  ASSUME NEW l \in Seq(Entry)
  PROVE  /\ Len(l) \in Nat /\ DOMAIN l = 1 .. Len(l)
         /\ Range(l) = {l[i] : i \in 1 .. Len(l)}
         /\ Range(l) \subseteq Entry
         /\ \A i \in 1 .. Len(l) : l[i] \in Entry
  BY DEF Range

(* InsertAt: x at place i, what was there and behind one place on.         *)
LEMMA Inserted ==
  ASSUME NEW l \in Seq(Entry), NEW e \in Entry, NEW i \in 1 .. Len(l) + 1
  PROVE  /\ InsertAt(l, i, e) \in Seq(Entry) /\ Len(InsertAt(l, i, e)) = Len(l) + 1
         /\ \A j \in 1 .. Len(l) + 1 :
              InsertAt(l, i, e)[j] = IF j < i THEN l[j] ELSE IF j = i THEN e ELSE l[j - 1]
<1> DEFINE a == SubSeq(l, 1, i - 1)
           b == SubSeq(l, i, Len(l))
           c == <<e>>
           d == a \o c
<1>0. Len(l) \in Nat /\ \A j \in 1 .. Len(l) : l[j] \in Entry
  BY LenProperties, ElementOfSeq
<1>1. a \in Seq(Entry) /\ Len(a) = i - 1 /\ \A j \in 1 .. i - 1 : a[j] = l[j]
  <2>1. \A j \in 1 .. i - 1 : l[j] \in Entry
    BY <1>0
  <2>2. /\ a \in Seq(Entry) /\ Len(a) = (IF 1 <= i - 1 THEN i - 1 - 1 + 1 ELSE 0)
        /\ \A j \in 1 .. i - 1 - 1 + 1 : a[j] = l[1 + j - 1]
    BY <1>0, <2>1, SubSeqProperties
  <2> HIDE DEF a
  <2> QED BY <1>0, <2>2
<1>2. b \in Seq(Entry) /\ Len(b) = Len(l) - i + 1 /\ \A j \in 1 .. Len(l) - i + 1 : b[j] = l[i + j - 1]
  <2>1. \A j \in i .. Len(l) : l[j] \in Entry
    BY <1>0
  <2>2. /\ b \in Seq(Entry) /\ Len(b) = (IF i <= Len(l) THEN Len(l) - i + 1 ELSE 0)
        /\ \A j \in 1 .. Len(l) - i + 1 : b[j] = l[i + j - 1]
    BY <1>0, <2>1, SubSeqProperties
  <2> HIDE DEF b
  <2> QED BY <1>0, <2>2
<1>3. c \in Seq(Entry) /\ Len(c) = 1 /\ c[1] = e
  OBVIOUS
<1>4. InsertAt(l, i, e) = d \o b
  BY DEF InsertAt
<1> HIDE DEF a, b, c
<1>5. /\ d \in Seq(Entry) /\ Len(d) = Len(a) + Len(c)
      /\ \A j \in 1 .. Len(a) + Len(c) : d[j] = IF j <= Len(a) THEN a[j] ELSE c[j - Len(a)]
  BY <1>1, <1>3, ConcatProperties
<1> HIDE DEF d
<1>6. Len(d) = i /\ \A j \in 1 .. i : d[j] = IF j < i THEN l[j] ELSE e
  BY <1>0, <1>1, <1>3, <1>5
<1>7. /\ d \o b \in Seq(Entry) /\ Len(d \o b) = Len(d) + Len(b)
      /\ \A j \in 1 .. Len(d) + Len(b) : (d \o b)[j] = IF j <= Len(d) THEN d[j] ELSE b[j - Len(d)]
  <2>1. d \in Seq(Entry) /\ b \in Seq(Entry)
    BY <1>2, <1>5
  <2> QED BY <2>1, ConcatProperties
<1>8. ASSUME NEW j \in 1 .. Len(l) + 1
      PROVE  (d \o b)[j] = IF j < i THEN l[j] ELSE IF j = i THEN e ELSE l[j - 1]
  <2>1. (d \o b)[j] = IF j <= i THEN d[j] ELSE b[j - i]
    BY <1>0, <1>2, <1>6, <1>7
  <2>2. CASE j <= i
    BY <1>0, <1>6, <2>1, <2>2
  <2>3. CASE ~(j <= i)
    BY <1>0, <1>2, <2>1, <2>3
  <2> QED BY <2>2, <2>3
<1> QED BY <1>0, <1>2, <1>4, <1>6, <1>7, <1>8

(* A non-empty set of natural numbers has a least one.                     *)
LEMMA LeastNat ==
  ASSUME NEW S \in SUBSET Nat, S # {}
  PROVE  Min(S) \in S /\ \A y \in S : Min(S) <= y
<1> DEFINE R == OpToRel(<, Nat)
<1>1. IsWellFoundedOn(R, Nat)
  BY NatLessThanWellFounded
<1>2. \A i, j \in Nat : <<i, j>> \in R <=> i < j
  BY DEF OpToRel
<1> HIDE DEF R
<1>3. PICK x \in S : \A y \in S : ~(<<y, x>> \in R)
  BY <1>1, WFMin
<1>4. \A y \in S : x <= y
  <2> SUFFICES ASSUME NEW y \in S PROVE x <= y
    OBVIOUS
  <2>1. x \in Nat /\ y \in Nat /\ ~(y < x)
    BY <1>2, <1>3
  <2> QED BY <2>1
<1> QED BY <1>4 DEF Min

(* Where rsInsertEntry puts x: behind all that start earlier.              *)
LEMMA Place ==
  ASSUME NEW l, Kept(l), NEW x \in Entry
  PROVE  LET r == rsInsertEntry(l, x)
         IN  /\ r \in Seq(Entry) /\ Len(r) = Len(l) + 1
             /\ \E k \in 1 .. Len(l) + 1 :
                  /\ \A j \in 1 .. Len(l) : j < k => l[j].start <= x.start
                  /\ \A j \in 1 .. Len(l) : j >= k => x.start <= l[j].start
                  /\ \A j \in 1 .. Len(l) + 1 :
                       r[j] = IF j < k THEN l[j] ELSE IF j = k THEN x ELSE l[j - 1]
<1> DEFINE I == {i \in 1 .. Len(l) : x.start <= l[i].start}
           r == rsInsertEntry(l, x)
           n == Len(l)
<1>0. /\ l \in Seq(Entry) /\ n \in Nat /\ \A j \in 1 .. n : l[j] \in Entry
      /\ x.start \in Nat /\ \A j \in 1 .. n : l[j].start \in Nat
  <2>1. l \in Seq(Entry)
    BY DEF Kept
  <2>2. n \in Nat /\ \A j \in 1 .. n : l[j] \in Entry
    BY <2>1, RangeSeq
  <2> QED BY <2>1, <2>2 DEF Entry
<1>1. r = IF I = {} THEN Append(l, x) ELSE InsertAt(l, Min(I), x)
  <2>1. CASE I = {}
    BY <2>1 DEF rsInsertEntry, SelectInSeq
  <2>2. CASE I # {}
    <3>0. I \in SUBSET Nat
      BY <1>0
    <3>1. Min(I) \in 1 .. n
      <4> HIDE DEF I
      <4>1. Min(I) \in I
        BY <2>2, <3>0, LeastNat
      <4> QED BY <4>1 DEF I
    <3>2. SelectInSeq(l, LAMBDA y : x.start <= y.start) = Min(I)
      BY <2>2, Zenon DEF SelectInSeq
    <3>3. Min(I) # 0
      BY <1>0, <3>1
    <3> QED BY <2>2, <3>2, <3>3, Zenon DEF rsInsertEntry
  <2> QED BY <2>1, <2>2
<1>2. CASE I = {}
  <2>1. r = Append(l, x)
    BY <1>1, <1>2
  <2>2. /\ r \in Seq(Entry) /\ Len(r) = n + 1
        /\ \A j \in 1 .. n : r[j] = l[j]
        /\ r[n + 1] = x
    BY <1>0, <2>1
  <2>3. \A j \in 1 .. n : l[j].start <= x.start
    BY <1>0, <1>2
  <2> HIDE DEF I, r, n
  <2> DEFINE k == n + 1
  <2>4. /\ k \in 1 .. n + 1
        /\ \A j \in 1 .. n : j < k /\ ~(j >= k)
        /\ \A j \in 1 .. n + 1 : r[j] = IF j < k THEN l[j] ELSE IF j = k THEN x ELSE l[j - 1]
    BY <1>0, <2>2
  <2> QED BY <2>2, <2>3, <2>4 DEF r, n
<1>3. CASE I # {}
  <2> DEFINE k == Min(I)
  <2>1. k \in I /\ \A y \in I : k <= y
    <3>1. I \in SUBSET Nat
      BY <1>0
    <3> HIDE DEF I
    <3> QED BY <1>3, <3>1, LeastNat
  <2>2. r = InsertAt(l, k, x)
    BY <1>1, <1>3
  <2> HIDE DEF k
  <2>3. k \in 1 .. n /\ x.start <= l[k].start
    BY <2>1
  <2>4. \A j \in 1 .. n : j < k => l[j].start <= x.start
    <3> SUFFICES ASSUME NEW j \in 1 .. n, j < k PROVE l[j].start <= x.start
      OBVIOUS
    <3>1. j \notin I
      BY <1>0, <2>1, <2>3
    <3> QED BY <1>0, <3>1
  <2>5. \A j \in 1 .. n : j >= k => x.start <= l[j].start
    <3> SUFFICES ASSUME NEW j \in 1 .. n, j >= k PROVE x.start <= l[j].start
      OBVIOUS
    <3>1. CASE j = k
      BY <2>3, <3>1
    <3>2. CASE j # k
      <4>1. k < j
        BY <1>0, <2>3, <3>2
      <4>2. l[k].start <= l[j].start
        BY <2>3, <4>1 DEF Kept, Sorted
      <4> QED BY <1>0, <2>3, <4>2
    <3> QED BY <3>1, <3>2
  <2>6. k \in 1 .. n + 1
    BY <1>0, <2>3
  <2>7. /\ r \in Seq(Entry) /\ Len(r) = n + 1
        /\ \A j \in 1 .. n + 1 : r[j] = IF j < k THEN l[j] ELSE IF j = k THEN x ELSE l[j - 1]
    <3>1. l \in Seq(Entry) /\ x \in Entry /\ k \in 1 .. Len(l) + 1
      BY <1>0, <2>6
    <3>2. /\ InsertAt(l, k, x) \in Seq(Entry) /\ Len(InsertAt(l, k, x)) = Len(l) + 1
          /\ \A j \in 1 .. Len(l) + 1 :
               InsertAt(l, k, x)[j] = IF j < k THEN l[j] ELSE IF j = k THEN x ELSE l[j - 1]
      BY <3>1, Inserted
    <3> HIDE DEF r
    <3> QED BY <2>2, <3>2
  <2> HIDE DEF I, r, n
  <2> QED BY <2>4, <2>5, <2>6, <2>7 DEF r, n
<1> QED BY <1>2, <1>3

(* rsInsertEntry keeps the list in order and adds x and nothing else.      *)
LEMMA InsertEntry ==
  ASSUME NEW l, Kept(l), NEW x \in Entry, x.id \notin IdsOf(Range(l))
  PROVE  /\ Kept(rsInsertEntry(l, x))
         /\ Range(rsInsertEntry(l, x)) = Range(l) \cup {x}
<1> DEFINE r == rsInsertEntry(l, x)
           n == Len(l)
<1>1. PICK k \in 1 .. n + 1 :
        /\ r \in Seq(Entry) /\ Len(r) = n + 1
        /\ \A j \in 1 .. n : j < k => l[j].start <= x.start
        /\ \A j \in 1 .. n : j >= k => x.start <= l[j].start
        /\ \A j \in 1 .. n + 1 : r[j] = IF j < k THEN l[j] ELSE IF j = k THEN x ELSE l[j - 1]
  BY Place
<1>2. l \in Seq(Entry)
  BY DEF Kept
<1>3. /\ n \in Nat /\ \A j \in 1 .. n : l[j] \in Entry /\ l[j].start \in Nat /\ l[j].id # x.id
      /\ x.start \in Nat
      /\ Range(l) = {l[i] : i \in 1 .. n} /\ Range(r) = {r[i] : i \in 1 .. Len(r)}
  <2>1. Range(l) = {l[i] : i \in 1 .. n} /\ Range(r) = {r[i] : i \in 1 .. Len(r)}
        /\ n \in Nat /\ \A i \in 1 .. n : l[i] \in Entry
    BY <1>1, <1>2, RangeSeq
  <2> HIDE DEF r, n
  <2> QED BY <2>1 DEF IdsOf, Entry
<1>s. Sorted(l) /\ OneEach(l)
  BY DEF Kept
<1> HIDE DEF r
<1>c. \A j \in 1 .. n + 1 : (j < k /\ j \in 1 .. n /\ r[j] = l[j]) \/ (j = k /\ r[j] = x)
                           \/ (j > k /\ j - 1 \in 1 .. n /\ j - 1 >= k /\ r[j] = l[j - 1])
  BY <1>1, <1>3
<1>4. Sorted(r)
  <2> SUFFICES ASSUME NEW i \in 1 .. n + 1, NEW j \in 1 .. n + 1, i < j
               PROVE  r[i].start <= r[j].start
    BY <1>1 DEF Sorted
  <2>1. CASE j < k
    BY <1>c, <1>s, <1>3, <2>1 DEF Sorted
  <2>2. CASE j = k
    BY <1>c, <1>1, <1>3, <2>2
  <2>3. CASE j > k /\ i > k
    <3>1. i - 1 \in 1 .. n /\ j - 1 \in 1 .. n /\ i - 1 < j - 1
      BY <1>c, <1>3, <2>3
    <3>2. r[i] = l[i - 1] /\ r[j] = l[j - 1]
      BY <1>c, <1>3, <2>3
    <3> QED BY <1>s, <3>1, <3>2 DEF Sorted
  <2>4. CASE j > k /\ i = k
    <3>1. j - 1 \in 1 .. n /\ j - 1 >= k /\ r[j] = l[j - 1] /\ r[i] = x
      BY <1>c, <1>3, <2>4
    <3> QED BY <1>1, <3>1
  <2>5. CASE j > k /\ i < k
    <3>2. r[i] = l[i] /\ r[j] = l[j - 1] /\ i \in 1 .. n /\ j - 1 \in 1 .. n /\ j - 1 >= k
      BY <1>c, <1>3, <2>5
    <3>3. l[i].start <= x.start /\ x.start <= l[j - 1].start
      BY <1>1, <2>5, <3>2
    <3> QED BY <1>3, <3>2, <3>3
  <2> QED BY <1>3, <2>1, <2>2, <2>3, <2>4, <2>5
<1>5. OneEach(r)
  <2> SUFFICES ASSUME NEW i \in 1 .. n + 1, NEW j \in 1 .. n + 1, r[i].id = r[j].id
               PROVE  i = j
    BY <1>1 DEF OneEach
  <2>1. \A a, b \in 1 .. n : l[a].id = l[b].id => a = b
    BY <1>s DEF OneEach
  <2>a. \A a \in 1 .. n + 1 : a # k => r[a].id # x.id
    BY <1>c, <1>3
  <2>b. r[k] = x
    BY <1>1, <1>3
  <2>2. CASE i = k
    BY <2>a, <2>b, <2>2
  <2>3. CASE j = k
    BY <2>a, <2>b, <2>3
  <2>4. CASE i # k /\ j # k
    <3> DEFINE a == IF i < k THEN i ELSE i - 1
               b == IF j < k THEN j ELSE j - 1
    <3>1. a \in 1 .. n /\ b \in 1 .. n /\ r[i] = l[a] /\ r[j] = l[b]
      BY <1>c, <1>3, <2>4
    <3>2. a = b
      BY <2>1, <3>1
    <3> QED BY <1>3, <1>c, <2>4, <3>2
  <2> QED BY <2>2, <2>3, <2>4
<1>6. Range(r) = Range(l) \cup {x}
  <2>1. ASSUME NEW y \in Range(r) PROVE y \in Range(l) \cup {x}
    BY <1>1, <1>3, <1>c
  <2>2. x \in Range(r)
    BY <1>1, <1>3
  <2>3. ASSUME NEW i \in 1 .. n PROVE l[i] \in Range(r)
    <3>1. CASE i < k
      BY <1>1, <1>3, <3>1
    <3>2. CASE ~(i < k)
      <4>1. i + 1 \in 1 .. n + 1 /\ ~(i + 1 < k) /\ i + 1 # k /\ (i + 1) - 1 = i
        BY <1>3, <3>2
      <4>2. r[i + 1] = l[(i + 1) - 1]
        BY <1>1, <4>1
      <4> QED BY <1>1, <1>3, <4>1, <4>2
    <3> QED BY <3>1, <3>2
  <2> QED BY <1>3, <2>1, <2>2, <2>3
<1> QED BY <1>1, <1>4, <1>5, <1>6 DEF Kept, r

(* The element the fold takes next.                                        *)
Pick(s) == CHOOSE y \in s : TRUE

(* F inserts the subsets of S of up to n entries into l.                   *)
Folds(F, l, S, n) ==
  \A s \in SUBSET S : Cardinality(s) <= n =>
    F[s] = IF s = {} THEN l ELSE rsInsertEntry(F[s \ {Pick(s)}], Pick(s))

(* One entry less.                                                         *)
LEMMA Smaller ==
  ASSUME NEW S, IsFiniteSet(S), NEW s \in SUBSET S
  PROVE  /\ Cardinality(s) \in Nat /\ (s = {} <=> Cardinality(s) = 0)
         /\ s # {} => /\ Pick(s) \in s /\ s \ {Pick(s)} \in SUBSET S
                      /\ Cardinality(s \ {Pick(s)}) = Cardinality(s) - 1
<1>1. IsFiniteSet(s)
  BY FS_Subset
<1>2. Cardinality(s) \in Nat /\ (s = {} <=> Cardinality(s) = 0)
  BY <1>1, FS_CardinalityType, FS_EmptySet
<1>3. s # {} => Pick(s) \in s
  BY DEF Pick
<1>4. s # {} => Cardinality(s \ {Pick(s)}) = Cardinality(s) - 1
  BY <1>1, <1>3, FS_RemoveElement
<1> QED BY <1>2, <1>3, <1>4

(* rsInsertAll is the last of the lists its recursive function computes.   *)
LEMMA InsertAllRec ==
  ASSUME NEW l, NEW S, IsFiniteSet(S)
  PROVE  \E F : Folds(F, l, S, Cardinality(S)) /\ rsInsertAll(l, S) = F[S]
<1> DEFINE Body(F) == [s \in SUBSET S |->
                         IF s = {} THEN l ELSE rsInsertEntry(F[s \ {Pick(s)}], Pick(s))]
           K == CHOOSE F : F = Body(F)
           N == {n \in Nat : \E F : Folds(F, l, S, n)}
<1>2. N = Nat
  <2>1. 0 \in N
    <3> DEFINE F == [s \in {{}} |-> l]
    <3>1. Folds(F, l, S, 0)
      BY Smaller DEF Folds
    <3> QED BY <3>1
  <2>2. ASSUME NEW n \in N PROVE n + 1 \in N
    <3>1. PICK F : Folds(F, l, S, n)
      OBVIOUS
    <3>2. n \in Nat
      OBVIOUS
    <3> HIDE DEF N
    <3> DEFINE G == [s \in SUBSET S |->
                       IF Cardinality(s) <= n THEN F[s]
                       ELSE rsInsertEntry(F[s \ {Pick(s)}], Pick(s))]
    <3>3. \A s \in SUBSET S :
             G[s] = IF Cardinality(s) <= n THEN F[s]
                    ELSE rsInsertEntry(F[s \ {Pick(s)}], Pick(s))
      OBVIOUS
    <3> HIDE DEF G
    <3>4. ASSUME NEW s \in SUBSET S, Cardinality(s) <= n + 1
          PROVE  G[s] = IF s = {} THEN l ELSE rsInsertEntry(G[s \ {Pick(s)}], Pick(s))
      <4> DEFINE t == s \ {Pick(s)}
      <4>1. /\ Cardinality(s) \in Nat /\ (s = {} <=> Cardinality(s) = 0)
            /\ s # {} => t \in SUBSET S /\ Cardinality(t) = Cardinality(s) - 1
        BY Smaller
      <4>2. CASE s = {}
        BY <3>1, <3>2, <3>3, <4>1, <4>2 DEF Folds
      <4>3. CASE s # {}
        <5>1. t \in SUBSET S /\ Cardinality(t) <= n
          BY <3>2, <3>4, <4>1, <4>3
        <5>2. G[t] = F[t]
          BY <3>3, <5>1
        <5>3. G[s] = rsInsertEntry(F[t], Pick(s))
          BY <3>1, <3>3, <4>3 DEF Folds
        <5> QED BY <4>3, <5>2, <5>3
      <4> QED BY <4>2, <4>3
    <3>5. Folds(G, l, S, n + 1)
      BY <3>4 DEF Folds
    <3> QED BY <3>2, <3>5 DEF N
  <2> HIDE DEF N
  <2>3. N \in SUBSET Nat
    BY DEF N
  <2> QED BY <2>1, <2>2, <2>3, NatSetInduction
<1>3. Cardinality(S) \in Nat
  BY FS_CardinalityType
<1>4. PICK F0 : Folds(F0, l, S, Cardinality(S))
  BY <1>2, <1>3
<1>5. \A s \in SUBSET S : Cardinality(s) <= Cardinality(S)
  BY FS_Subset
<1>6. \E F : F = Body(F)
  <2> DEFINE F == [s \in SUBSET S |-> F0[s]]
  <2>1. ASSUME NEW s \in SUBSET S PROVE F[s] = Body(F)[s]
    BY <1>4, <1>5, Smaller DEF Folds
  <2>2. F = Body(F)
    BY <2>1
  <2> QED BY <2>2
<1>7. K = Body(K)
  BY <1>6
<1>8. rsInsertAll(l, S) = K[S]
  BY Zenon DEF rsInsertAll, FoldSet, MapThenFoldSet, Pick
<1> HIDE DEF K
<1>9. Folds(K, l, S, Cardinality(S))
  <2> SUFFICES ASSUME NEW s \in SUBSET S
               PROVE  K[s] = IF s = {} THEN l ELSE rsInsertEntry(K[s \ {Pick(s)}], Pick(s))
    BY DEF Folds
  <2>1. Body(K)[s] = IF s = {} THEN l ELSE rsInsertEntry(K[s \ {Pick(s)}], Pick(s))
    OBVIOUS
  <2> HIDE DEF Body
  <2> QED BY <1>7, <2>1
<1> QED BY <1>8, <1>9

(* rsInsertAll keeps the list in order and adds the entries of S, in       *)
(* whatever order they come.                                               *)
LEMMA InsertAll ==
  ASSUME NEW l, Kept(l), NEW S \in SUBSET Entry, Unique(S),
         IdsOf(S) \cap IdsOf(Range(l)) = {}
  PROVE  Kept(rsInsertAll(l, S)) /\ Range(rsInsertAll(l, S)) = Range(l) \cup S
<1>1. IsFiniteSet(S)
  BY UniqueFinite
<1>2. PICK F : Folds(F, l, S, Cardinality(S)) /\ rsInsertAll(l, S) = F[S]
  BY <1>1, InsertAllRec
<1>3. /\ Cardinality(S) \in Nat
      /\ \A s \in SUBSET S : Cardinality(s) <= Cardinality(S)
  BY <1>1, FS_CardinalityType, FS_Subset
<1> DEFINE Fine(s) == Kept(F[s]) /\ Range(F[s]) = Range(l) \cup s
           N == {n \in Nat : \A s \in SUBSET S : Cardinality(s) = n => Fine(s)}
<1>4. \A s \in SUBSET S : F[s] = IF s = {} THEN l ELSE rsInsertEntry(F[s \ {Pick(s)}], Pick(s))
  BY <1>2, <1>3 DEF Folds
<1>5. 0 \in N
  BY <1>1, <1>4, Smaller
<1>6. ASSUME NEW n \in N PROVE n + 1 \in N
  <2>0. n \in Nat
    OBVIOUS
  <2> SUFFICES ASSUME NEW s \in SUBSET S, Cardinality(s) = n + 1 PROVE Fine(s)
    BY <2>0
  <2> DEFINE x == Pick(s)
             t == s \ {x}
  <2>1. s # {} /\ x \in s /\ t \in SUBSET S /\ Cardinality(t) = n
    BY <1>1, <2>0, Smaller
  <2>2. Fine(t)
    BY <2>1
  <2>3. F[s] = rsInsertEntry(F[t], x)
    BY <1>4, <2>1
  <2>4. x.id \notin IdsOf(Range(F[t]))
    <3>1. \A y \in t : y.id # x.id
      BY <2>1 DEF Unique
    <3>2. \A y \in Range(l) : y.id # x.id
      BY <2>1 DEF IdsOf
    <3> QED BY <2>2, <3>1, <3>2 DEF IdsOf
  <2>5. x \in Entry
    BY <2>1
  <2>6. Kept(F[s]) /\ Range(F[s]) = Range(F[t]) \cup {x}
    <3> HIDE DEF x, t
    <3>1. PICK f : f = F[t]
      OBVIOUS
    <3>2. Kept(f) /\ x.id \notin IdsOf(Range(f))
      BY <2>2, <2>4, <3>1
    <3>3. Kept(rsInsertEntry(f, x)) /\ Range(rsInsertEntry(f, x)) = Range(f) \cup {x}
      BY <2>5, <3>2, InsertEntry
    <3> QED BY <2>3, <3>1, <3>3, Zenon
  <2> QED BY <2>1, <2>2, <2>6
<1>7. N = Nat
  <2>1. N \in SUBSET Nat
    OBVIOUS
  <2> HIDE DEF N
  <2> QED BY <1>5, <1>6, <2>1, NatSetInduction
<1> QED BY <1>2, <1>3, <1>7

(* F is the function Without is computed with, up to n.                    *)
Keeps(F, q, S, n) ==
  /\ F[0] = <<>>
  /\ \A i \in 1 .. n : F[i] = IF q[i] \in S THEN F[i - 1] ELSE Append(F[i - 1], q[i])

(* Without is the last of the sequences its recursive function computes.   *)
LEMMA WithoutRec ==
  ASSUME NEW q \in Seq(Entry), NEW S
  PROVE  \E F : Keeps(F, q, S, Len(q)) /\ Without(q, S) = F[Len(q)]
<1> DEFINE m == Len(q)
           Body(F) == [i \in 0 .. m |->
                         IF i = 0 THEN <<>>
                         ELSE IF q[i] \in S THEN F[i - 1] ELSE Append(F[i - 1], q[i])]
           K == CHOOSE F : F = Body(F)
           N == {n \in Nat : \E F : Keeps(F, q, S, n)}
<1>1. m \in Nat
  OBVIOUS
<1>2. N = Nat
  <2>1. 0 \in N
    <3> DEFINE F == [i \in {0} |-> <<>>]
    <3>1. Keeps(F, q, S, 0)
      BY DEF Keeps
    <3> QED BY <3>1
  <2>2. ASSUME NEW n \in N PROVE n + 1 \in N
    <3>1. PICK F : Keeps(F, q, S, n)
      OBVIOUS
    <3> DEFINE G == [i \in 0 .. n + 1 |->
                       IF i <= n THEN F[i]
                       ELSE IF q[n + 1] \in S THEN F[n] ELSE Append(F[n], q[n + 1])]
    <3>2. n \in Nat
      OBVIOUS
    <3> HIDE DEF N
    <3>3. /\ \A i \in 0 .. n : G[i] = F[i]
          /\ G[n + 1] = IF q[n + 1] \in S THEN F[n] ELSE Append(F[n], q[n + 1])
      BY <3>2
    <3> HIDE DEF G
    <3>4. ASSUME NEW i \in 1 .. n + 1
          PROVE  G[i] = IF q[i] \in S THEN G[i - 1] ELSE Append(G[i - 1], q[i])
      <4>1. CASE i <= n
        <5>1. i \in 1 .. n /\ i - 1 \in 0 .. n /\ i \in 0 .. n
          BY <3>2, <4>1
        <5> QED BY <3>1, <3>3, <5>1 DEF Keeps
      <4>2. CASE ~(i <= n)
        <5>1. i = n + 1 /\ i - 1 = n /\ n \in 0 .. n
          BY <3>2, <4>2
        <5> QED BY <3>3, <5>1
      <4> QED BY <4>1, <4>2
    <3>5. G[0] = <<>>
      BY <3>1, <3>2, <3>3 DEF Keeps
    <3>6. Keeps(G, q, S, n + 1)
      BY <3>4, <3>5 DEF Keeps
    <3> QED BY <3>2, <3>6 DEF N
  <2> HIDE DEF N
  <2>3. N \in SUBSET Nat
    BY DEF N
  <2> QED BY <2>1, <2>2, <2>3, NatSetInduction
<1>3. PICK F0 : Keeps(F0, q, S, m)
  BY <1>1, <1>2
<1>4. \E F : F = Body(F)
  <2> DEFINE F == [i \in 0 .. m |-> F0[i]]
  <2>1. ASSUME NEW i \in 0 .. m PROVE F[i] = Body(F)[i]
    <3>1. CASE i = 0
      BY <1>1, <1>3, <3>1 DEF Keeps
    <3>2. CASE i # 0
      <4>1. i \in 1 .. m /\ i - 1 \in 0 .. m
        BY <1>1, <3>2
      <4> QED BY <1>3, <3>2, <4>1 DEF Keeps
    <3> QED BY <3>1, <3>2
  <2>2. F = Body(F)
    BY <2>1
  <2> QED BY <2>2
<1>5. K = Body(K)
  BY <1>4
<1>6. Without(q, S) = K[m]
  BY DEF Without
<1> HIDE DEF K
<1>7. Keeps(K, q, S, m)
  <2>1. K[0] = <<>>
    BY <1>1, <1>5
  <2>2. ASSUME NEW i \in 1 .. m
        PROVE  K[i] = IF q[i] \in S THEN K[i - 1] ELSE Append(K[i - 1], q[i])
    <3>1. i \in 0 .. m /\ i # 0
      BY <1>1
    <3>2. Body(K)[i] = IF q[i] \in S THEN K[i - 1] ELSE Append(K[i - 1], q[i])
      BY <3>1
    <3> HIDE DEF Body
    <3> QED BY <1>5, <3>2
  <2> QED BY <2>1, <2>2 DEF Keeps
<1> QED BY <1>6, <1>7

(* An entry at the end that starts no earlier than the others.             *)
LEMMA AppendEntry ==
  ASSUME NEW l, Kept(l), NEW x \in Entry, x.id \notin IdsOf(Range(l)),
         \A y \in Range(l) : y.start <= x.start
  PROVE  Kept(Append(l, x)) /\ Range(Append(l, x)) = Range(l) \cup {x}
<1> DEFINE r == Append(l, x)
           n == Len(l)
<1>1. l \in Seq(Entry) /\ Sorted(l) /\ OneEach(l)
  BY DEF Kept
<1>2. /\ r \in Seq(Entry) /\ Len(r) = n + 1 /\ n \in Nat
      /\ \A i \in 1 .. n : r[i] = l[i]
      /\ r[n + 1] = x
  BY <1>1
<1> HIDE DEF r
<1>3. Range(l) = {l[i] : i \in 1 .. n} /\ Range(r) = {r[i] : i \in 1 .. n + 1}
  BY <1>1, <1>2, RangeSeq
<1> HIDE DEF n
<1>4. \A i \in 1 .. n + 1 : i \in 1 .. n \/ i = n + 1
  BY <1>2
<1>5. n + 1 \in 1 .. n + 1 /\ \A i \in 1 .. n : i \in 1 .. n + 1 /\ i < n + 1
  BY <1>2
<1>6. \A i \in 1 .. n : l[i].start <= x.start /\ l[i].id # x.id
  BY <1>3 DEF IdsOf
<1>7. Sorted(r)
  <2> SUFFICES ASSUME NEW i \in 1 .. n + 1, NEW j \in 1 .. n + 1, i < j
               PROVE  r[i].start <= r[j].start
    BY <1>2 DEF Sorted
  <2>1. i \in 1 .. n
    BY <1>2
  <2>2. CASE j = n + 1
    BY <1>2, <1>6, <2>1, <2>2
  <2>3. CASE j \in 1 .. n
    BY <1>1, <1>2, <2>1, <2>3 DEF Sorted, n
  <2> QED BY <1>4, <2>2, <2>3
<1>8. OneEach(r)
  <2> SUFFICES ASSUME NEW i \in 1 .. n + 1, NEW j \in 1 .. n + 1, r[i].id = r[j].id
               PROVE  i = j
    BY <1>2 DEF OneEach
  <2> QED BY <1>1, <1>2, <1>4, <1>6 DEF OneEach, n
<1>9. Range(r) = Range(l) \cup {x}
  BY <1>2, <1>3, <1>4, <1>5
<1> QED BY <1>2, <1>7, <1>8, <1>9 DEF Kept, r

(* What is left of a list is in order, and is all but what is gone.        *)
LEMMA WithoutEffect ==
  ASSUME NEW q, Kept(q), NEW S
  PROVE  Kept(Without(q, S)) /\ Range(Without(q, S)) = Range(q) \ S
<1> DEFINE m == Len(q)
           Upto(i) == {q[j] : j \in 1 .. i}
<1>0. q \in Seq(Entry) /\ Sorted(q) /\ OneEach(q)
  BY DEF Kept
<1>1. m \in Nat /\ (\A i \in 1 .. m : q[i] \in Entry) /\ Range(q) = {q[j] : j \in 1 .. m}
  BY <1>0, RangeSeq
<1>2. PICK F : Keeps(F, q, S, m) /\ Without(q, S) = F[m]
  BY <1>0, WithoutRec
<1> DEFINE Fine(i) == Kept(F[i]) /\ Range(F[i]) = Upto(i) \ S
           N == {i \in Nat : i <= m => Fine(i)}
<1>3. 0 \in N
  <2>1. F[0] = <<>>
    BY <1>2 DEF Keeps
  <2>2. Kept(<<>>) /\ Range(<<>>) = {}
    BY DEF Kept, Sorted, OneEach, Range
  <2>3. Upto(0) = {}
    OBVIOUS
  <2> QED BY <2>1, <2>2, <2>3
<1>4. ASSUME NEW n \in N PROVE n + 1 \in N
  <2>1. n \in Nat /\ n + 1 \in Nat
    OBVIOUS
  <2> SUFFICES ASSUME n + 1 <= m PROVE Fine(n + 1)
    OBVIOUS
  <2>2. /\ n + 1 \in 1 .. m /\ (n + 1) - 1 = n
        /\ \A j \in 1 .. n : j \in 1 .. m /\ j < n + 1 /\ j # n + 1
        /\ \A j \in 1 .. n + 1 : j \in 1 .. n \/ j = n + 1
        /\ \A j \in 1 .. n : j \in 1 .. n + 1
        /\ n + 1 \in 1 .. n + 1
    BY <1>1, <2>1
  <2>3. Fine(n)
    BY <1>1, <2>1
  <2> DEFINE b == q[n + 1]
             f == F[n]
             g == F[n + 1]
  <2>4. b \in Entry /\ g = IF b \in S THEN f ELSE Append(f, b)
    BY <1>1, <1>2, <2>2 DEF Keeps
  <2>5. Upto(n + 1) = Upto(n) \cup {b}
    BY <2>2
  <2>6. \A y \in Upto(n) : y.id # b.id /\ y.start <= b.start
    BY <1>0, <2>2 DEF Sorted, OneEach
  <2>7. Kept(f) /\ Range(f) = Upto(n) \ S
    BY <2>3
  <2> HIDE DEF b, f, g, Upto
  <2>8. CASE b \in S
    BY <2>4, <2>5, <2>7, <2>8 DEF g
  <2>9. CASE b \notin S
    <3>1. g = Append(f, b)
      BY <2>4, <2>9
    <3>2. b.id \notin IdsOf(Range(f)) /\ \A y \in Range(f) : y.start <= b.start
      BY <2>6, <2>7 DEF IdsOf
    <3>3. Kept(g) /\ Range(g) = Range(f) \cup {b}
      <4>1. Kept(f) /\ b \in Entry
        BY <2>4, <2>7
      <4>2. Kept(Append(f, b)) /\ Range(Append(f, b)) = Range(f) \cup {b}
        BY <3>2, <4>1, AppendEntry
      <4> QED BY <3>1, <4>2
    <3> QED BY <2>5, <2>7, <2>9, <3>3 DEF g
  <2> QED BY <2>8, <2>9
<1>5. N = Nat
  <2>1. N \in SUBSET Nat
    OBVIOUS
  <2> HIDE DEF N
  <2> QED BY <1>3, <1>4, <2>1, NatSetInduction
<1>6. Fine(m)
  <2>1. m \in N /\ m <= m
    <3> HIDE DEF N
    <3> QED BY <1>1, <1>5
  <2> QED BY <2>1
<1> QED BY <1>1, <1>2, <1>6

(* What an unfinished file holds.                                          *)
LEMMA PrefixEffect ==
  ASSUME NEW l, Kept(l), NEW r \in Prefixes(l)
  PROVE  Kept(r)
<1>1. l \in Seq(Entry) /\ Sorted(l) /\ OneEach(l)
  BY DEF Kept
<1>2. Len(l) \in Nat /\ \A i \in 1 .. Len(l) : l[i] \in Entry
  BY <1>1, RangeSeq
<1>3. PICK n \in 0 .. Len(l) : r = SubSeq(l, 1, n)
  BY DEF Prefixes
<1>4. \A j \in 1 .. n : j \in 1 .. Len(l) /\ l[j] \in Entry
  BY <1>2
<1>5. /\ r \in Seq(Entry) /\ Len(r) = (IF 1 <= n THEN n - 1 + 1 ELSE 0)
      /\ \A j \in 1 .. n - 1 + 1 : r[j] = l[1 + j - 1]
  BY <1>1, <1>2, <1>3, <1>4, SubSeqProperties
<1>6. r \in Seq(Entry) /\ Len(r) = n /\ \A j \in 1 .. n : r[j] = l[j]
  BY <1>2, <1>5
<1> QED BY <1>1, <1>4, <1>6 DEF Kept, Sorted, OneEach

(* What DueFirst rests on: list, file and disk are in order with one entry for   *)
(* an identity, which is not at once on the list and being recorded.       *)
SchedInv ==
  /\ now \in 0 .. MaxTime
  /\ writing \in BOOLEAN /\ stale \in BOOLEAN /\ missed \in SUBSET Entry
  /\ Kept(sched) /\ Kept(schfile) /\ Kept(disk)
  /\ recorded \in SUBSET Entry /\ Unique(recorded)
  /\ IdsOf(Range(sched)) \cap IdsOf(recorded) = {}
  /\ EntriesInFile

(* The empty list.                                                         *)
LEMMA EmptyList == Kept(<<>>) /\ Range(<<>>) = {}
BY DEF Kept, Sorted, OneEach, Range

(* A client's entries.                                                     *)
LEMMA Sends ==
  ASSUME NEW id \in Ids, NEW s \in ClientStates
  PROVE  Sent(id, s) \in Entry /\ Sent(id, s).id = id
BY RecSchedAssumption DEF Sent, Entry

(* A repeating entry keeps its identity.                                   *)
LEMMA Repeated ==
  ASSUME NEW x \in Entry
  PROVE  rsDone(x) \in Entry /\ rsDone(x).id = x.id
<1>1. x.start + Period \in Nat
  BY RecSchedAssumption DEF Entry
<1> QED BY <1>1 DEF rsDone, Entry

(* A new list from a client.                                               *)
LEMMA Received ==
  ASSUME SchedInv, NEW new \in Offers
  PROVE  Kept(rsInsertAll(<<>>, new)) /\ IdsOf(Range(rsInsertAll(<<>>, new))) \cap IdsOf(recorded) = {}
<1>1. \A x \in new : x \in Entry /\ x.id \notin IdsOf(recorded)
  <2> SUFFICES ASSUME NEW x \in new PROVE x \in Entry /\ x.id \notin IdsOf(recorded)
    OBVIOUS
  <2>1. PICK id \in Ids \ Recording, s \in ClientStates : x = Sent(id, s)
    BY DEF Offers
  <2> QED BY <2>1, Sends DEF Recording, IdsOf
<1>2. Unique(new)
  BY DEF Offers, Unique
<1>3. /\ Kept(rsInsertAll(<<>>, new))
      /\ Range(rsInsertAll(<<>>, new)) = Range(<<>>) \cup new
  <2>1. new \in SUBSET Entry /\ IdsOf(new) \cap IdsOf(Range(<<>>)) = {}
    BY <1>1, EmptyList DEF IdsOf
  <2> QED BY <1>2, <2>1, EmptyList, InsertAll
<1> QED BY <1>1, <1>3, EmptyList DEF IdsOf

(* rsWrite, up to fclose.                                                  *)
LEMMA WriteEffect ==
  ASSUME SchedInv, rsWrite
  PROVE  /\ writing' \in BOOLEAN /\ stale' \in BOOLEAN
         /\ Kept(schfile') /\ Kept(disk')
         /\ writing' \/ stale'
BY EmptyList DEF SchedInv, rsWrite

(* rsInit in a new process, of a list in order.                            *)
LEMMA RestartEffect ==
  ASSUME SchedInv, NEW list, Kept(list), rsInit(list), Kept(disk')
  PROVE  SchedInv'
<1>1. /\ schfile' = list /\ recorded' = {} /\ now' = now
      /\ writing' = FALSE /\ stale' = FALSE /\ missed' = {}
      /\ sched' = list \/ sched' = <<>>
  BY DEF rsInit
<1>2. Kept(sched') /\ Range(sched') \subseteq Range(schfile')
  BY <1>1, EmptyList
<1>3. Unique({}) /\ IdsOf({}) = {}
  BY DEF Unique, IdsOf
<1> QED BY <1>1, <1>2, <1>3 DEF SchedInv, EntriesInFile

(* Every step keeps the schedule in order.                                 *)
LEMMA SchedStep ==
  ASSUME SchedInv, [SchedNext]_schedVars
  PROVE  SchedInv'
<1> USE DEF SchedInv, EntriesInFile
<1>1. CASE Written \/ WriteBack
  <2>1. ASSUME NEW r \in Prefixes(sched) PROVE Kept(r)
    BY <2>1, PrefixEffect
  <2>2. ASSUME NEW r \in Prefixes(schfile) PROVE Kept(r)
    BY <2>2, PrefixEffect
  <2>3. CASE Written
    <3>1. /\ writing' = FALSE /\ schfile' \in Prefixes(sched) /\ stale' = (schfile' # sched)
          /\ missed' = recorded /\ UNCHANGED <<now, sched, recorded, disk>>
      BY <2>3 DEF Written
    <3>2. ~stale' => Range(sched') \subseteq Range(schfile') /\ recorded' \ missed' = {}
      BY <3>1
    <3>3. stale' \in BOOLEAN
      BY <3>1
    <3> QED BY <2>1, <3>1, <3>2, <3>3
  <2>4. CASE WriteBack
    <3>1. /\ disk' \in Prefixes(sched) \/ disk' \in Prefixes(schfile)
          /\ UNCHANGED <<now, sched, recorded, schfile, writing, stale, missed>>
      BY <2>4 DEF WriteBack
    <3> QED BY <2>1, <2>2, <3>1
  <2> QED BY <1>1, <2>3, <2>4
<1>2. ASSUME NEW new \in Offers, RcvSched(new) \/ RcvSchedCut(new) PROVE SchedInv'
  <2>1. sched' = rsInsertAll(<<>>, new) /\ UNCHANGED <<now, recorded, missed>>
    BY <1>2 DEF RcvSched, RcvSchedCut
  <2>2. Kept(sched') /\ IdsOf(Range(sched')) \cap IdsOf(recorded') = {}
    BY <2>1, Received
  <2>3. CASE RcvSched(new)
    BY <2>1, <2>2, <2>3, WriteEffect DEF RcvSched
  <2>4. CASE RcvSchedCut(new)
    BY <2>1, <2>2, <2>4 DEF RcvSchedCut
  <2> QED BY <1>2, <2>3, <2>4
<1>3. ASSUME NEW id \in Ids, NEW s \in ClientStates, RcvEntry(id, s) PROVE SchedInv'
  <2>1. Sent(id, s) \in Entry /\ Sent(id, s).id = id
    BY Sends
  <2>2. id \notin IdsOf(Range(sched)) /\ id \notin IdsOf(recorded)
    BY <1>3 DEF RcvEntry, Listed, Recording, IdsOf
  <2>3. sched' = rsInsertEntry(sched, Sent(id, s)) /\ UNCHANGED <<now, recorded, missed>> /\ rsWrite
    BY <1>3 DEF RcvEntry
  <2>4. Kept(sched') /\ Range(sched') = Range(sched) \cup {Sent(id, s)}
    <3>1. PICK l, x : l = sched /\ x = Sent(id, s)
      OBVIOUS
    <3>2. Kept(rsInsertEntry(l, x)) /\ Range(rsInsertEntry(l, x)) = Range(l) \cup {x}
      BY <2>1, <2>2, <3>1, InsertEntry
    <3> QED BY <2>3, <3>1, <3>2
  <2>5. IdsOf(Range(sched')) \cap IdsOf(recorded) = {}
    BY <2>1, <2>2, <2>4 DEF IdsOf
  <2> QED BY <2>3, <2>4, <2>5, WriteEffect
<1>4. ASSUME NEW started \in SUBSET Due, Walk(started) PROVE SchedInv'
  <2>1. /\ sched' = Without(sched, started) /\ recorded' = recorded \cup started
        /\ UNCHANGED <<now, schfile, disk, writing, stale, missed>>
    BY <1>4 DEF Walk, storage
  <2>2. Kept(sched') /\ Range(sched') = Range(sched) \ started
    <3>1. PICK l : l = sched
      OBVIOUS
    <3>2. Kept(Without(l, started)) /\ Range(Without(l, started)) = Range(l) \ started
      BY <3>1, WithoutEffect
    <3> QED BY <2>1, <3>1, <3>2
  <2>a. sched \in Seq(Entry) /\ OneEach(sched)
    BY DEF Kept
  <2>b. /\ DOMAIN sched = 1 .. Len(sched) /\ Range(sched) = {sched[i] : i \in 1 .. Len(sched)}
        /\ Range(sched) \subseteq Entry
    BY <2>a, RangeSeq
  <2>3. started \subseteq Range(sched)
    BY <2>b DEF Due
  <2>4. Unique(Range(sched))
    BY <2>a, <2>b DEF OneEach, Unique
  <2>5. recorded' \in SUBSET Entry
    BY <2>1, <2>3, <2>b
  <2>6. Unique(recorded')
    BY <2>1, <2>3, <2>4 DEF Unique, IdsOf
  <2>7. IdsOf(Range(sched')) \cap IdsOf(recorded') = {}
    BY <2>1, <2>2, <2>3, <2>4 DEF Unique, IdsOf
  <2>8. EntriesInFile'
    BY <2>1, <2>2, <2>3
  <2> HIDE DEF EntriesInFile
  <2> QED BY <2>1, <2>2, <2>5, <2>6, <2>7, <2>8
<1>5. ASSUME NEW x \in recorded, rt_done(x) PROVE SchedInv'
  <2>0. x \in Entry /\ recorded' = recorded \ {x} /\ missed' = missed \ {x} /\ now' = now
    BY <1>5 DEF rt_done
  <2>1. recorded' \in SUBSET Entry /\ Unique(recorded') /\ x.id \notin IdsOf(recorded')
        /\ IdsOf(Range(sched)) \cap IdsOf(recorded') = {}
    BY <2>0 DEF Unique, IdsOf
  <2>2. CASE x.id \in Repeats
    <3>1. sched' = rsInsertEntry(sched, rsDone(x)) /\ rsWrite
      BY <1>5, <2>2 DEF rt_done
    <3>2. rsDone(x) \in Entry /\ rsDone(x).id = x.id
      BY <2>0, Repeated
    <3>3. x.id \notin IdsOf(Range(sched))
      BY DEF IdsOf
    <3>4. Kept(sched') /\ Range(sched') = Range(sched) \cup {rsDone(x)}
      <4>1. PICK l, y : l = sched /\ y = rsDone(x)
        OBVIOUS
      <4>2. Kept(rsInsertEntry(l, y)) /\ Range(rsInsertEntry(l, y)) = Range(l) \cup {y}
        BY <3>2, <3>3, <4>1, InsertEntry
      <4> QED BY <3>1, <4>1, <4>2
    <3>5. IdsOf(Range(sched')) \cap IdsOf(recorded') = {}
      BY <2>1, <3>2, <3>4 DEF IdsOf
    <3> QED BY <2>0, <2>1, <3>1, <3>4, <3>5, WriteEffect
  <2>3. CASE x.id \notin Repeats
    <3>1. UNCHANGED <<sched, schfile, disk, writing, stale>>
      BY <1>5, <2>3 DEF rt_done, storage
    <3> QED BY <2>0, <2>1, <3>1
  <2> QED BY <2>2, <2>3
<1>6. CASE Shutdown \/ Crash \/ PowerCut
  <2>1. PICK list \in {schfile, disk} \cup Prefixes(sched) : rsInit(list) /\ disk' = disk
    BY <1>6 DEF Shutdown, Crash, PowerCut
  <2>2. Kept(list)
    <3>1. CASE list \in Prefixes(sched)
      BY <3>1, PrefixEffect
    <3> QED BY <2>1, <3>1
  <2> QED BY <2>1, <2>2, RestartEffect
<1>7. CASE TimePasses
  <2>1. now' \in 0 .. MaxTime /\ UNCHANGED <<sched, recorded, schfile, disk, writing, stale, missed>>
    BY <1>7, RecSchedAssumption DEF TimePasses, storage
  <2> QED BY <2>1
<1>8. CASE UNCHANGED schedVars
  BY <1>8 DEF schedVars, storage
<1> QED BY <1>1, <1>2, <1>3, <1>4, <1>5, <1>6, <1>7, <1>8 DEF SchedNext

(* The invariant holds in every reachable state.                           *)
LEMMA SchedInvariant == SchedSpec => []SchedInv
<1>1. SchedInit => SchedInv
  <2> SUFFICES ASSUME SchedInit PROVE SchedInv
    OBVIOUS
  <2>1. writing \in BOOLEAN /\ stale \in BOOLEAN
    BY Zenon DEF SchedInit
  <2>2. now \in 0 .. MaxTime
    BY RecSchedAssumption DEF SchedInit
  <2>3. Kept(sched) /\ Kept(schfile) /\ Kept(disk) /\ Range(sched) = {}
        /\ recorded = {} /\ missed = {}
    BY EmptyList DEF SchedInit
  <2> QED BY <2>1, <2>2, <2>3 DEF SchedInv, EntriesInFile, Unique, IdsOf
<1>2. SchedInv /\ [SchedNext]_schedVars => SchedInv'
  BY SchedStep
<1> QED BY <1>1, <1>2, PTL DEF SchedSpec

(* For any number of entries, however they are inserted, repeated, removed *)
(* and read back: none that is due lies behind a waiting one that is not,  *)
(* so rec_task may stop at the first one that is not pending; no identity  *)
(* is on the list twice, or on it while it is being recorded.              *)
THEOREM DueAlwaysFirst == SchedSpec => []DueFirst
<1>1. SchedInv => DueFirst
  <2> SUFFICES ASSUME SchedInv PROVE DueFirst
    OBVIOUS
  <2>1. sched \in Seq(Entry) /\ schfile \in Seq(Entry) /\ disk \in Seq(Entry) /\ Sorted(sched) /\ OneEach(sched)
    BY DEF SchedInv, Kept
  <2>2. /\ Len(sched) \in Nat /\ DOMAIN sched = 1 .. Len(sched)
        /\ \A i \in 1 .. Len(sched) : sched[i] \in Entry
    BY <2>1, RangeSeq
  <2>3. IsInjective([i \in DOMAIN sched |-> sched[i].id])
    BY <2>1, <2>2 DEF IsInjective, OneEach
  <2>4. Listed \cap Recording = {}
    BY DEF SchedInv, Listed, Recording, IdsOf
  <2>5. SchedTypeOK
    BY <2>1, <2>3, <2>4 DEF SchedInv, SchedTypeOK
  <2>6. ASSUME NEW i \in DOMAIN sched, NEW j \in DOMAIN sched, i < j,
               sched[i].state = "RS_WAITING", rsPending(sched[j])
        PROVE  rsPending(sched[i])
    <3>1. sched[i].start <= sched[j].start /\ now >= sched[j].start
      BY <2>1, <2>2, <2>6 DEF Sorted, rsPending
    <3>2. sched[i].start \in Nat /\ sched[j].start \in Nat /\ now \in Nat
      BY <2>2, <2>6 DEF Entry, SchedInv
    <3>3. now >= sched[i].start
      BY <3>1, <3>2
    <3> QED BY <2>6, <3>3 DEF rsPending
  <2> QED BY <2>5, <2>6 DEF DueFirst
<1> QED BY <1>1, SchedInvariant, PTL

(* For any number of entries, through failing writes, crashes, power cuts  *)
(* and restarts: outside a write, and unless the last update or write went *)
(* wrong, the end of the process loses no entry on the list, and none that *)
(* is being recorded but those rsWrite has missed.                         *)
THEOREM EntriesAlwaysInFile == SchedSpec => []EntriesInFile
<1>1. SchedInv => EntriesInFile
  BY DEF SchedInv
<1> QED BY <1>1, SchedInvariant, PTL

-----------------------------------------------------------------------------
(* One scheduled recording.                                                *)

(* What the properties rest on, before the frontend is retuned: no port    *)
(* has an event to read, the recorder runs in three states of the          *)
(* recording, which has none before its thread starts.                     *)
Undisturbed ==
  /\ unread = {}
  /\ rec \in {"on", "off"}
  /\ thread = "new" => eit_state = "EIT_DONE"
  /\ thread = "freed" => eit_state = "EIT_DONE"
  /\ thread \in {"ended", "freed"} => rec = "off"
  /\ thread \notin {"ended", "freed"} =>
       (rec = "on" <=> eit_state \in {"EIT_RUNNING", "EIT_PAUSE", "EIT_TC"})
  /\ rec = "on" => (paused <=> eit_state = "EIT_PAUSE")

(* Behind the loop with a recorder still to be stopped: an abort, or the   *)
(* clock in plain_rec_loop, has brought the thread there.                  *)
LeftForCause ==
  thread = "exit" /\ eit_state \in {"EIT_TC", "EIT_RUNNING", "EIT_PAUSE"} =>
    ~running \/ late >= 1

EitInv == TypeOK /\ (~retuned => Undisturbed) /\ LeftForCause

(* What recorderStart leaves behind, with r its outcome.                   *)
LEMMA StartEffect ==
  ASSUME NEW r \in BOOLEAN, recorderStart(r), paused \in BOOLEAN
  PROVE  /\ paused' \in BOOLEAN
         /\ r => rec' = "on" /\ ~paused' /\ unread' = unread \ {"rec"}
         /\ ~r => rec' = rec /\ (paused' <=> paused) /\ unread' = unread
<1>1. CASE r = TRUE
  <2>1. rec' = "on" /\ unread' = unread \ {"rec"} BY <1>1 DEF recorderStart
  <2>2. paused' = FALSE BY <1>1, Zenon DEF recorderStart
  <2> QED BY <1>1, <2>1, <2>2, Zenon
<1>2. CASE r = FALSE
  <2>1. rec' = rec /\ unread' = unread BY <1>2 DEF recorderStart
  <2>2. paused' = paused BY <1>2, Zenon DEF recorderStart
  <2> QED BY <1>2, <2>1, <2>2, Zenon
<1> QED BY <1>1, <1>2

(* What a section with the event does to the recording and its recorder,   *)
(* one disjunct per case of the switch in eit_rec_process.                 *)
LEMMA ProcessEffect ==
  ASSUME NEW rst \in Rst, ReadSection(rst), TypeOK
  PROVE  /\ eit_old' \in BOOLEAN /\ ~eit_old' /\ id_old' = 0 /\ thread = "loop" /\ eit
         /\ UNCHANGED <<eit, thread, running, retuned, late, gone>>
         /\ paused' \in BOOLEAN
         /\ \/ /\ eit_state = "EIT_SCAN" /\ eit_state' = "EIT_RUNNING"
               /\ rec' = "on" /\ ~paused' /\ unread' = unread \ {"rec"}
            \/ /\ eit_state \in {"EIT_RUNNING", "EIT_TC"} /\ eit_state' = "EIT_PAUSE"
               /\ rec' = rec /\ paused' /\ unread' = unread
            \/ /\ eit_state \in {"EIT_RUNNING", "EIT_TC", "EIT_PAUSE"}
               /\ eit_state' = "EIT_DONE" /\ rst = "EIT_RST_NOT"
               /\ rec' = "off" /\ unread' = unread \ {"rec"}
            \/ /\ eit_state = "EIT_PAUSE" /\ eit_state' = "EIT_RUNNING"
               /\ rec' = rec /\ ~paused' /\ unread' = unread
            \/ /\ eit_state = "EIT_TC" /\ eit_state' = "EIT_RUNNING"
               /\ rec' = rec /\ (paused' <=> paused) /\ unread' = unread
            \/ /\ eit_state' = eit_state
               /\ rec' = rec /\ (paused' <=> paused) /\ unread' = unread
<1>1. PICK started \in BOOLEAN : eit_rec_process(rst, started)
  BY DEF ReadSection
<1>2. /\ eit_old' \in BOOLEAN /\ ~eit_old' /\ id_old' = 0 /\ thread = "loop" /\ eit
      /\ UNCHANGED <<eit, thread, running, retuned, late, gone>>
  BY DEF ReadSection
<1>3. paused \in BOOLEAN
  BY DEF TypeOK
<1> DEFINE A == eit_state = "EIT_SCAN" /\ rst \in {"EIT_RST_SOON", "EIT_RST_RUNNING"}
           B == eit_state \in {"EIT_RUNNING", "EIT_TC"} /\ rst \in {"EIT_RST_PAUSED", "EIT_RST_OFF"}
           C == eit_state \in {"EIT_RUNNING", "EIT_TC", "EIT_PAUSE"} /\ rst = "EIT_RST_NOT"
           D == eit_state = "EIT_PAUSE" /\ rst = "EIT_RST_RUNNING"
           E == eit_state = "EIT_TC" /\ rst = "EIT_RST_RUNNING"
<1>4. CASE A
  <2>1. /\ recorderStart(started)
        /\ eit_state' = IF started THEN "EIT_RUNNING" ELSE eit_state
    BY <1>1, <1>4 DEF eit_rec_process
  <2> QED BY <1>2, <1>3, <1>4, <2>1, StartEffect
<1>5. CASE B
  <2>1. eit_state' = "EIT_PAUSE" /\ paused' = TRUE /\ UNCHANGED <<rec, unread>>
    BY <1>1, <1>5 DEF eit_rec_process
  <2> QED BY <1>2, <1>5, <2>1
<1>6. CASE C
  <2>1. eit_state' = "EIT_DONE" /\ recorderStop
    BY <1>1, <1>6 DEF eit_rec_process
  <2> QED BY <1>2, <1>3, <1>6, <2>1 DEF recorderStop
<1>7. CASE D
  <2>1. eit_state' = "EIT_RUNNING" /\ paused' = FALSE /\ UNCHANGED <<rec, unread>>
    BY <1>1, <1>7 DEF eit_rec_process
  <2> QED BY <1>2, <1>7, <2>1
<1>8. CASE E
  <2>1. eit_state' = "EIT_RUNNING" /\ KeepFile
    BY <1>1, <1>8 DEF eit_rec_process
  <2> QED BY <1>2, <1>3, <1>8, <2>1 DEF KeepFile, file
<1>9. CASE ~A /\ ~B /\ ~C /\ ~D /\ ~E
  <2>1. UNCHANGED eit_state /\ KeepFile
    BY <1>1, <1>9 DEF eit_rec_process
  <2> QED BY <1>2, <1>3, <1>9, <2>1 DEF KeepFile, file
<1> QED BY <1>4, <1>5, <1>6, <1>7, <1>8, <1>9

(* Every step keeps the types.                                             *)
LEMMA TypeStep ==
  ASSUME TypeOK, [Next]_vars
  PROVE  TypeOK'
<1> USE DEF TypeOK, Threads, recorderStop, KeepFile, threads, file, clock
<1>1. CASE eitRecScan BY <1>1 DEF eitRecScan
<1>2. CASE LoopHead BY <1>2 DEF LoopHead
<1>3. CASE EitTimers
  <2> USE <1>3 DEF EitTimers
  <2>1. CASE NoEit /\ late < 2 /\ eit_state' = "EIT_TC" /\ recorderStart(TRUE)
    BY <2>1, StartEffect DEF NoEit
  <2>2. CASE NoEit /\ late = 2 /\ eit_state' = "EIT_DONE" /\ KeepFile
    BY <2>2 DEF NoEit
  <2>3. CASE GivenUp /\ eit_state' = "EIT_DONE" /\ KeepFile
    BY <2>3 DEF GivenUp
  <2>4. CASE (EvtOver \/ TimeOver) /\ eit_state' = "EIT_DONE" /\ recorderStop
    BY <2>4 DEF EvtOver, TimeOver
  <2>5. CASE UNCHANGED eit_state /\ KeepFile
    BY <2>5
  <2> QED BY <2>1, <2>2, <2>3, <2>4, <2>5
<1>4. CASE PlainTimer
  <2> USE <1>4 DEF PlainTimer
  <2>1. CASE eit_state = "EIT_SCAN" /\ eit_state' = "EIT_TC" /\ recorderStart(TRUE)
    BY <2>1, StartEffect
  <2>2. CASE UNCHANGED eit_state /\ KeepFile
    BY <2>2
  <2> QED BY <2>1, <2>2
<1>5. CASE Exit BY <1>5 DEF Exit
<1>6. ASSUME NEW rst \in Rst, ReadSection(rst) PROVE TypeOK'
  <2>1. /\ eit_old' \in BOOLEAN /\ ~eit_old' /\ id_old' = 0 /\ paused' \in BOOLEAN
        /\ UNCHANGED <<eit, thread, running, retuned, late, gone>>
    BY <1>6, ProcessEffect
  <2>2. /\ unread' \in {unread, unread \ {"rec"}}
        /\ rec' \in {rec, "on", "off"}
        /\ eit_state' \in {eit_state, "EIT_RUNNING", "EIT_PAUSE", "EIT_DONE"}
    BY <1>6, ProcessEffect
  <2> QED BY <2>1, <2>2
<1>7. CASE ReadOtherSection BY <1>7 DEF ReadOtherSection
<1>8. CASE eit_rec_proc_evt BY <1>8 DEF eit_rec_proc_evt
<1>9. CASE RecorderLeaves BY <1>9 DEF RecorderLeaves
<1>10. CASE eitRecAbort BY <1>10 DEF eitRecAbort
<1>11. CASE Reap BY <1>11 DEF Reap
<1>12. CASE Retune BY <1>12 DEF Retune
<1>13. CASE EitGetsOld BY <1>13 DEF EitGetsOld
<1>14. CASE IdGetsOld BY <1>14 DEF IdGetsOld
<1>15. CASE GetsLate BY <1>15 DEF GetsLate
<1>16. CASE EventGoes BY <1>16 DEF EventGoes
<1>17. CASE UNCHANGED vars BY <1>17 DEF vars
<1> QED BY <1>1, <1>2, <1>3, <1>4, <1>5, <1>6, <1>7, <1>8, <1>9, <1>10, <1>11,
           <1>12, <1>13, <1>14, <1>15, <1>16, <1>17 DEF Next, Thread

(* As long as the frontend stays, every step keeps Undisturbed.            *)
LEMMA UndisturbedStep ==
  ASSUME TypeOK, ~retuned, Undisturbed, ~retuned', [Next]_vars
  PROVE  Undisturbed'
<1> USE DEF Undisturbed, TypeOK, Threads, recorderStop, KeepFile,
            threads, file, clock
<1>1. CASE eitRecScan BY <1>1 DEF eitRecScan
<1>2. CASE LoopHead BY <1>2 DEF LoopHead
<1>3. CASE EitTimers
  <2> USE <1>3 DEF EitTimers
  <2>1. CASE NoEit /\ late < 2 /\ eit_state' = "EIT_TC" /\ recorderStart(TRUE)
    BY <2>1, StartEffect DEF NoEit
  <2>2. CASE NoEit /\ late = 2 /\ eit_state' = "EIT_DONE" /\ KeepFile
    BY <2>2 DEF NoEit
  <2>3. CASE GivenUp /\ eit_state' = "EIT_DONE" /\ KeepFile
    BY <2>3 DEF GivenUp
  <2>4. CASE (EvtOver \/ TimeOver) /\ eit_state' = "EIT_DONE" /\ recorderStop
    BY <2>4 DEF EvtOver, TimeOver
  <2>5. CASE UNCHANGED eit_state /\ KeepFile
    BY <2>5
  <2> QED BY <2>1, <2>2, <2>3, <2>4, <2>5
<1>4. CASE PlainTimer
  <2> USE <1>4 DEF PlainTimer
  <2>1. CASE eit_state = "EIT_SCAN" /\ eit_state' = "EIT_TC" /\ recorderStart(TRUE)
    BY <2>1, StartEffect
  <2>2. CASE UNCHANGED eit_state /\ KeepFile
    BY <2>2
  <2> QED BY <2>1, <2>2
<1>5. CASE Exit BY <1>5 DEF Exit
<1>6. ASSUME NEW rst \in Rst, ReadSection(rst) PROVE Undisturbed'
  BY <1>6, ProcessEffect
<1>7. CASE ReadOtherSection BY <1>7 DEF ReadOtherSection
<1>8. CASE eit_rec_proc_evt BY <1>8 DEF eit_rec_proc_evt
<1>9. CASE RecorderLeaves BY <1>9 DEF RecorderLeaves
<1>10. CASE eitRecAbort BY <1>10 DEF eitRecAbort
<1>11. CASE Reap BY <1>11 DEF Reap
<1>12. CASE Retune BY <1>12 DEF Retune
<1>13. CASE EitGetsOld BY <1>13 DEF EitGetsOld
<1>14. CASE IdGetsOld BY <1>14 DEF IdGetsOld
<1>15. CASE GetsLate BY <1>15 DEF GetsLate
<1>16. CASE EventGoes BY <1>16 DEF EventGoes
<1>17. CASE UNCHANGED vars BY <1>17 DEF vars
<1> QED BY <1>1, <1>2, <1>3, <1>4, <1>5, <1>6, <1>7, <1>8, <1>9, <1>10, <1>11,
           <1>12, <1>13, <1>14, <1>15, <1>16, <1>17 DEF Next, Thread

(* Every step keeps LeftForCause: late and ~running stay.                  *)
LEMMA CauseStep ==
  ASSUME TypeOK, LeftForCause, [Next]_vars
  PROVE  LeftForCause'
<1> USE DEF LeftForCause, TypeOK, Threads, recorderStop, KeepFile, threads, file, clock
<1>1. CASE eitRecScan BY <1>1 DEF eitRecScan
<1>2. CASE LoopHead BY <1>2 DEF LoopHead
<1>3. CASE EitTimers
  <2> USE <1>3 DEF EitTimers
  <2>1. CASE NoEit /\ late < 2 /\ eit_state' = "EIT_TC" /\ recorderStart(TRUE)
    BY <2>1, StartEffect DEF NoEit
  <2>2. CASE NoEit /\ late = 2 /\ eit_state' = "EIT_DONE" /\ KeepFile
    BY <2>2 DEF NoEit
  <2>3. CASE GivenUp /\ eit_state' = "EIT_DONE" /\ KeepFile
    BY <2>3 DEF GivenUp
  <2>4. CASE (EvtOver \/ TimeOver) /\ eit_state' = "EIT_DONE" /\ recorderStop
    BY <2>4 DEF EvtOver, TimeOver
  <2>5. CASE UNCHANGED eit_state /\ KeepFile
    BY <2>5
  <2> QED BY <2>1, <2>2, <2>3, <2>4, <2>5
<1>4. CASE PlainTimer
  <2> USE <1>4 DEF PlainTimer
  <2>1. CASE eit_state = "EIT_SCAN" /\ eit_state' = "EIT_TC" /\ recorderStart(TRUE)
    BY <2>1, StartEffect
  <2>2. CASE UNCHANGED eit_state /\ KeepFile
    BY <2>2
  <2> QED BY <2>1, <2>2
<1>5. CASE Exit BY <1>5 DEF Exit
<1>6. ASSUME NEW rst \in Rst, ReadSection(rst) PROVE LeftForCause'
  BY <1>6, ProcessEffect
<1>7. CASE ReadOtherSection BY <1>7 DEF ReadOtherSection
<1>8. CASE eit_rec_proc_evt BY <1>8 DEF eit_rec_proc_evt
<1>9. CASE RecorderLeaves BY <1>9 DEF RecorderLeaves
<1>10. CASE eitRecAbort BY <1>10 DEF eitRecAbort
<1>11. CASE Reap BY <1>11 DEF Reap
<1>12. CASE Retune BY <1>12 DEF Retune
<1>13. CASE EitGetsOld BY <1>13 DEF EitGetsOld
<1>14. CASE IdGetsOld BY <1>14 DEF IdGetsOld
<1>15. CASE GetsLate BY <1>15 DEF GetsLate
<1>16. CASE EventGoes BY <1>16 DEF EventGoes
<1>17. CASE UNCHANGED vars BY <1>17 DEF vars
<1> QED BY <1>1, <1>2, <1>3, <1>4, <1>5, <1>6, <1>7, <1>8, <1>9, <1>10, <1>11,
           <1>12, <1>13, <1>14, <1>15, <1>16, <1>17 DEF Next, Thread

(* The invariant holds in every reachable state.                           *)
LEMMA EitInvariant == Spec => []EitInv
<1>1. Init => EitInv
  <2> SUFFICES ASSUME Init PROVE EitInv
    OBVIOUS
  <2>3. running \in BOOLEAN /\ paused \in BOOLEAN /\ retuned \in BOOLEAN
        /\ eit_old \in BOOLEAN /\ ~eit_old
    BY Zenon DEF Init
  <2>1. TypeOK
    BY <2>3 DEF Init, TypeOK, Threads
  <2>2. Undisturbed /\ LeftForCause
    BY DEF Init, Undisturbed, LeftForCause
  <2> QED BY <2>1, <2>2 DEF EitInv
<1>2. EitInv /\ [Next]_vars => EitInv'
  <2> SUFFICES ASSUME EitInv, [Next]_vars PROVE EitInv'
    OBVIOUS
  <2>1. TypeOK' /\ LeftForCause'
    BY TypeStep, CauseStep DEF EitInv
  <2>2. ASSUME ~retuned' PROVE ~retuned
    BY <2>2 DEF Next, Thread, vars, eitRecScan, LoopHead, EitTimers, PlainTimer, Exit,
                ReadSection, ReadOtherSection, eit_rec_proc_evt, RecorderLeaves,
                eitRecAbort, Reap, Retune, EitGetsOld, IdGetsOld, GetsLate, EventGoes
  <2>3. ~retuned' => Undisturbed'
    BY <2>2, UndisturbedStep DEF EitInv
  <2> QED BY <2>1, <2>3 DEF EitInv
<1> QED BY <1>1, <1>2, PTL DEF Spec

(* As long as the frontend is not retuned, the recorder of a recording     *)
(* runs, is paused and is stopped exactly as eit_state says, in every      *)
(* interleaving of the thread, aborts, timers and sections.                *)
THEOREM RecorderAlwaysFollows == Spec => []RecorderFollows
<1>1. EitInv => RecorderFollows
  BY DEF EitInv, RecorderFollows, Undisturbed, TypeOK, Threads
<1> QED BY <1>1, EitInvariant, PTL

(* No step stops a recorder before a minute after the planned end, unless  *)
(* the recording was aborted or the broadcaster says "not running":        *)
(* neither the timers of the tables nor the way out of the loops do.       *)
THEOREM NeverStoppedEarly == Spec => NoEarlyStop
<1> DEFINE Stop == rec = "on" /\ rec' = "off"
           Cause == late >= 1 \/ ~running \/ ReadSection("EIT_RST_NOT")
<1>1. EitInv /\ [Next]_vars => [Stop => Cause]_vars
  <2> SUFFICES ASSUME EitInv, Next, Stop PROVE Cause
    BY DEF vars
  <2> USE DEF EitInv, TypeOK
  <2>1. CASE EitTimers
    <3>1. CASE recorderStart(TRUE)
      BY <3>1, StartEffect
    <3>2. CASE KeepFile
      BY <3>2 DEF KeepFile, file
    <3>3. CASE EvtOver \/ TimeOver
      BY <3>3 DEF EvtOver, TimeOver
    <3> QED BY <2>1, <3>1, <3>2, <3>3 DEF EitTimers
  <2>2. CASE PlainTimer
    BY <2>2, StartEffect DEF PlainTimer, KeepFile, file
  <2>3. CASE Exit
    BY <2>3 DEF Exit, LeftForCause
  <2>4. ASSUME NEW rst \in Rst, ReadSection(rst) PROVE Cause
    <3>1. rst = "EIT_RST_NOT"
      BY <2>4, ProcessEffect
    <3> QED BY <2>4, <3>1
  <2>5. CASE RecorderLeaves
    BY <2>5 DEF RecorderLeaves
  <2>6. CASE \/ eitRecScan \/ LoopHead \/ ReadOtherSection \/ eit_rec_proc_evt
             \/ eitRecAbort \/ Reap \/ Retune \/ EitGetsOld \/ IdGetsOld
             \/ GetsLate \/ EventGoes
    BY <2>6 DEF eitRecScan, LoopHead, ReadOtherSection, eit_rec_proc_evt, eitRecAbort,
                Reap, Retune, EitGetsOld, IdGetsOld, GetsLate, EventGoes, file
  <2> QED BY <2>1, <2>2, <2>3, <2>4, <2>5, <2>6 DEF Next, Thread
<1> QED BY <1>1, EitInvariant, PTL DEF Spec, NoEarlyStop
=============================================================================
