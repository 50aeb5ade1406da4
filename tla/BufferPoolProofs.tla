-------------------------- MODULE BufferPoolProofs --------------------------
(***************************************************************************)
(* The counters of the payload pool are right for any number of holders,   *)
(* blocks and any limit.  PoolInv is inductive: RefcountExact gives the    *)
(* counter of a block in terms of its holders, which tells when a release  *)
(* frees it; NumBuffersExact turns that into the count of blocks in use;   *)
(* DataLive and the test in AllocElement give DataWithinLimit.             *)
(***************************************************************************)
EXTENDS BufferPool, FiniteSetTheorems, TLAPS

(* Sets of holders and sets of blocks are finite, so they can be counted.  *)
LEMMA FiniteParts ==
  /\ \A S \in SUBSET Holders : IsFiniteSet(S) /\ Cardinality(S) \in Nat
  /\ \A S \in SUBSET Bufs : IsFiniteSet(S) /\ Cardinality(S) \in Nat
  BY PoolAssumption, FS_Subset, FS_CardinalityType

(* Counting the union of two sets without a common element.                *)
LEMMA DisjointUnion ==
  ASSUME NEW S, IsFiniteSet(S), NEW T, IsFiniteSet(T), S \cap T = {}
  PROVE  Cardinality(S \cup T) = Cardinality(S) + Cardinality(T)
<1>1. Cardinality(S \cup T) = Cardinality(S) + Cardinality(T) - Cardinality(S \cap T)
  BY FS_Union
<1>2. Cardinality(S \cap T) = 0
  BY FS_EmptySet
<1>3. Cardinality(S) \in Nat /\ Cardinality(T) \in Nat
  BY FS_CardinalityType
<1> QED BY <1>1, <1>2, <1>3

(* Counting a set in which one element is replaced by a new one.           *)
LEMMA Replace ==
  ASSUME NEW S, IsFiniteSet(S), NEW x \in S, NEW y, y \notin S
  PROVE  Cardinality((S \ {x}) \cup {y}) = Cardinality(S)
<1>1. IsFiniteSet(S \ {x}) /\ Cardinality(S \ {x}) = Cardinality(S) - 1
  BY FS_RemoveElement
<1>2. y \notin S \ {x}
  OBVIOUS
<1>3. Cardinality((S \ {x}) \cup {y}) = Cardinality(S \ {x}) + 1
  BY <1>1, <1>2, FS_AddElement
<1>4. Cardinality(S) \in Nat
  BY FS_CardinalityType
<1> QED BY <1>1, <1>3, <1>4

(* A block that is not allocated is held by nobody.                        *)
LEMMA FreeIsUnheld ==
  ASSUME TypeOK, RefcountExact, NEW b \in Bufs, ref[b] = 0
  PROVE  HoldersOf(b) = {}
<1>1. HoldersOf(b) \in SUBSET Holders
  BY DEF HoldersOf
<1>2. Cardinality(HoldersOf(b)) = 0
  BY DEF RefcountExact
<1> QED BY <1>1, <1>2, FiniteParts, FS_EmptySet

(* A block somebody holds is allocated.                                    *)
LEMMA HeldIsLive ==
  ASSUME TypeOK, RefcountExact, NEW h \in Holders, NEW b \in hold[h]
  PROVE  b \in Bufs /\ ref[b] > 0
<1>1. b \in Bufs
  BY DEF TypeOK
<1>2. HoldersOf(b) \in SUBSET Holders /\ h \in HoldersOf(b)
  BY DEF HoldersOf
<1>3. Cardinality(HoldersOf(b)) # 0
  BY <1>2, FiniteParts, FS_EmptySet
<1> QED BY <1>1, <1>2, <1>3, FiniteParts DEF RefcountExact

(* rcptrMallocIl keeps the counters right.                                 *)
LEMMA MallocCounts ==
  ASSUME TypeOK, RefcountExact, NumBuffersExact,
         NEW h \in Holders, NEW b \in Bufs, Malloc(h, b)
  PROVE  /\ hold' \in [Holders -> SUBSET Bufs] /\ ref' \in [Bufs -> Nat]
         /\ num_buffers' \in Nat
         /\ RefcountExact' /\ NumBuffersExact'
         /\ Live' = Live \cup {b}
<1>1. /\ hold' \in [Holders -> SUBSET Bufs]
      /\ ref' \in [Bufs -> Nat]
      /\ num_buffers' \in Nat
  BY DEF TypeOK, Malloc
<1>2. RefcountExact'
  <2>1. SUFFICES ASSUME NEW c \in Bufs
                 PROVE  ref'[c] = Cardinality(HoldersOf(c)')
    BY DEF RefcountExact
  <2>2. CASE c = b
    <3>1. HoldersOf(b)' = {h}
      BY FreeIsUnheld DEF Malloc, HoldersOf, TypeOK
    <3> QED BY <2>2, <3>1, FS_Singleton DEF Malloc, TypeOK
  <2>3. CASE c # b
    <3>1. HoldersOf(c)' = HoldersOf(c)
      BY <2>3 DEF Malloc, HoldersOf, TypeOK
    <3> QED BY <2>3, <3>1 DEF Malloc, TypeOK, RefcountExact
  <2> QED BY <2>2, <2>3
<1>3. Live' = Live \cup {b} /\ b \notin Live
  BY DEF Malloc, TypeOK, Live
<1>4. NumBuffersExact'
  BY <1>3, FiniteParts, FS_AddElement DEF Malloc, NumBuffersExact, Live, TypeOK
<1> QED BY <1>1, <1>2, <1>3, <1>4

(* The step that hands out packets.                                        *)
LEMMA AllocElementStep ==
  ASSUME PoolInv, NEW h \in Holders, NEW b \in Bufs, AllocElement(h, b)
  PROVE  PoolInv'
<1> USE DEF PoolInv
<1>1. /\ hold' \in [Holders -> SUBSET Bufs] /\ ref' \in [Bufs -> Nat]
      /\ num_buffers' \in Nat
      /\ RefcountExact' /\ NumBuffersExact'
      /\ Live' = Live \cup {b}
  BY MallocCounts DEF AllocElement
<1>2. TypeOK' /\ DataLive'
  BY <1>1 DEF AllocElement, TypeOK, DataLive
<1>3. Cardinality(data) <= num_buffers
  <2>1. Live \in SUBSET Bufs
    BY DEF Live
  <2> QED BY <2>1, FiniteParts, FS_Subset DEF DataLive, NumBuffersExact
<1>4. Cardinality(data \cup {b}) <= Cardinality(data) + 1
  BY FiniteParts, FS_AddElement DEF TypeOK
<1>5. DataWithinLimit'
  <2>1. Cardinality(data) \in Nat /\ Cardinality(data \cup {b}) \in Nat
    BY FiniteParts DEF TypeOK
  <2> QED BY <2>1, <1>3, <1>4, PoolAssumption DEF AllocElement, DataWithinLimit, TypeOK
<1> QED BY <1>1, <1>2, <1>5

(* The step that hands out events, which the limit does not concern.       *)
LEMMA AllocEventStep ==
  ASSUME PoolInv, NEW h \in Holders, NEW b \in Bufs, AllocEvent(h, b)
  PROVE  PoolInv'
<1> USE DEF PoolInv
<1>1. /\ hold' \in [Holders -> SUBSET Bufs] /\ ref' \in [Bufs -> Nat]
      /\ num_buffers' \in Nat
      /\ RefcountExact' /\ NumBuffersExact'
      /\ Live' = Live \cup {b}
  BY MallocCounts DEF AllocEvent
<1> QED BY <1>1 DEF AllocEvent, TypeOK, DataLive, DataWithinLimit

(* Feeding a block to its receivers: each gets a reference, the feeder     *)
(* loses its own, and a block nobody wanted is freed.                      *)
LEMMA FeedStep ==
  ASSUME PoolInv, NEW h \in Holders, NEW b \in hold[h],
         NEW receivers \in SUBSET (Holders \ HoldersOf(b)), Feed(h, b, receivers)
  PROVE  PoolInv'
<1> USE DEF PoolInv
<1>1. b \in Bufs /\ ref[b] > 0 /\ ref[b] \in Nat
  BY HeldIsLive DEF TypeOK
<1>2. /\ HoldersOf(b) \in SUBSET Holders
      /\ receivers \in SUBSET Holders
      /\ h \in HoldersOf(b)
      /\ receivers \cap HoldersOf(b) = {}
  BY DEF HoldersOf
<1>3. Cardinality(receivers) \in Nat
  BY <1>2, FiniteParts
<1>4. hold' \in [Holders -> SUBSET Bufs] /\ ref' \in [Bufs -> Nat]
  BY <1>1, <1>3 DEF TypeOK, Feed
<1>5. HoldersOf(b)' = (HoldersOf(b) \cup receivers) \ {h}
  BY <1>2 DEF Feed, HoldersOf
<1>6. Cardinality(HoldersOf(b)') = (Cardinality(HoldersOf(b)) + Cardinality(receivers)) - 1
  <2>1. Cardinality(HoldersOf(b) \cup receivers)
          = Cardinality(HoldersOf(b)) + Cardinality(receivers)
    <3>1. IsFiniteSet(HoldersOf(b)) /\ IsFiniteSet(receivers)
      BY <1>2, FiniteParts
    <3>2. HoldersOf(b) \cap receivers = {}
      BY <1>2
    <3> QED BY <3>1, <3>2, DisjointUnion
  <2>2. IsFiniteSet(HoldersOf(b) \cup receivers)
    BY <1>2, FiniteParts
  <2> QED BY <2>1, <2>2, <1>2, <1>5, FS_RemoveElement
<1>7. RefcountExact'
  <2>1. SUFFICES ASSUME NEW c \in Bufs
                 PROVE  ref'[c] = Cardinality(HoldersOf(c)')
    BY DEF RefcountExact
  <2>2. CASE c = b
    BY <2>2, <1>1, <1>6 DEF Feed, TypeOK, RefcountExact
  <2>3. CASE c # b
    <3>1. HoldersOf(c)' = HoldersOf(c)
      BY <2>3 DEF Feed, HoldersOf
    <3> QED BY <2>3, <3>1 DEF Feed, TypeOK, RefcountExact
  <2> QED BY <2>2, <2>3
<1>8. Live \in SUBSET Bufs /\ b \in Live
  BY <1>1 DEF Live
<1>9. CASE ref'[b] = 0
  <2>1. Live' = Live \ {b}
    BY <1>1, <1>9 DEF Feed, TypeOK, Live
  <2>2. num_buffers' = Cardinality(Live \ {b}) /\ data' = data \ {b}
    BY <1>8, <1>9, FiniteParts, FS_RemoveElement DEF Feed, NumBuffersExact
  <2>3. num_buffers' \in Nat
    BY <2>2, <1>8, FiniteParts
  <2>4. data' \in SUBSET Bufs /\ DataLive'
    BY <2>1, <2>2 DEF TypeOK, DataLive
  <2>5. DataWithinLimit'
    <3>1. /\ IsFiniteSet(data) /\ data' \in SUBSET data
          /\ Cardinality(data) \in Nat /\ Cardinality(data') \in Nat
      BY <2>2, FiniteParts DEF TypeOK
    <3>2. Cardinality(data') <= Cardinality(data)
      BY <3>1, FS_Subset
    <3> QED BY <3>1, <3>2, PoolAssumption DEF DataWithinLimit
  <2> QED BY <1>4, <1>7, <2>1, <2>2, <2>3, <2>4, <2>5 DEF TypeOK, NumBuffersExact
<1>10. CASE ref'[b] # 0
  <2>1. ref'[b] > 0
    BY <1>1, <1>4, <1>10
  <2>2. Live' = Live
    BY <1>1, <2>1 DEF Feed, TypeOK, Live
  <2> QED BY <1>4, <1>7, <1>10, <2>2
          DEF Feed, TypeOK, NumBuffersExact, DataLive, DataWithinLimit
<1> QED BY <1>9, <1>10

(* A read moves one reference and changes no counter.                      *)
LEMMA ReadStep ==
  ASSUME PoolInv, NEW h \in Holders, NEW g \in Holders, NEW b \in hold[h],
         Read(h, g, b)
  PROVE  PoolInv'
<1> USE DEF PoolInv
<1>1. TypeOK' /\ Live' = Live
  BY DEF TypeOK, Read, Live
<1>2. ASSUME NEW c \in Bufs
      PROVE  Cardinality(HoldersOf(c)') = Cardinality(HoldersOf(c))
  <2>1. CASE c = b
    <3>1. HoldersOf(c)' = (HoldersOf(c) \ {h}) \cup {g}
      BY <2>1 DEF Read, HoldersOf, TypeOK
    <3>2. h \in HoldersOf(c) /\ g \notin HoldersOf(c)
      BY <2>1 DEF Read, HoldersOf
    <3>3. IsFiniteSet(HoldersOf(c))
      BY FiniteParts DEF HoldersOf
    <3> QED BY <3>1, <3>2, <3>3, Replace
  <2>2. CASE c # b
    <3>1. HoldersOf(c)' = HoldersOf(c)
      BY <2>2 DEF Read, HoldersOf, TypeOK
    <3> QED BY <3>1
  <2> QED BY <2>1, <2>2
<1>3. RefcountExact'
  BY <1>2 DEF RefcountExact, Read
<1> QED BY <1>1, <1>3 DEF Read, NumBuffersExact, DataLive, DataWithinLimit

(* Any number of references dropped at once, by any holders: exactly the   *)
(* blocks left without a holder are freed and uncounted.                   *)
LEMMA ReleaseStep ==
  ASSUME PoolInv, Release
  PROVE  PoolInv'
<1> USE DEF PoolInv
<1>1. ASSUME NEW b \in Bufs
      PROVE  /\ Cardinality(Dropping(b)) \in Nat
             /\ Cardinality(Dropping(b)) <= ref[b]
             /\ Cardinality(HoldersOf(b)') = ref[b] - Cardinality(Dropping(b))
  <2>1. /\ Dropping(b) \in SUBSET Holders
        /\ HoldersOf(b) \in SUBSET Holders
        /\ Dropping(b) \in SUBSET HoldersOf(b)
        /\ HoldersOf(b) \cap Dropping(b) = Dropping(b)
        /\ HoldersOf(b)' = HoldersOf(b) \ Dropping(b)
    BY DEF Release, Dropping, HoldersOf
  <2>2. IsFiniteSet(HoldersOf(b)) /\ ref[b] = Cardinality(HoldersOf(b))
    BY <2>1, FiniteParts DEF RefcountExact
  <2>3. Cardinality(Dropping(b)) \in Nat /\ Cardinality(Dropping(b)) <= ref[b]
    BY <2>1, <2>2, FiniteParts, FS_Subset
  <2>4. Cardinality(HoldersOf(b)') = ref[b] - Cardinality(Dropping(b))
    BY <2>1, <2>2, FS_Difference
  <2> QED BY <2>3, <2>4
<1>2. \A b \in Bufs : ref'[b] = ref[b] - Cardinality(Dropping(b))
  BY DEF Release
<1>3. RefcountExact'
  BY <1>1, <1>2 DEF RefcountExact
<1>4. ref' \in [Bufs -> Nat]
  <2>1. \A b \in Bufs : ref[b] - Cardinality(Dropping(b)) \in Nat
    BY <1>1 DEF TypeOK
  <2> QED BY <2>1 DEF Release
<1>5. Freed \in SUBSET Live /\ Live \in SUBSET Bufs
  BY DEF Freed, Live
<1>6. Live' = Live \ Freed
  <2>1. ASSUME NEW b \in Bufs
        PROVE  ref'[b] > 0 <=> ref[b] > 0 /\ ref[b] # Cardinality(Dropping(b))
    BY <1>1, <1>2 DEF TypeOK
  <2> QED BY <2>1 DEF Live, Freed
<1>7. num_buffers' = Cardinality(Live') /\ num_buffers' \in Nat
  <2>1. Live \cap Freed = Freed
    BY <1>5
  <2>2. Cardinality(Live \ Freed) = num_buffers - Cardinality(Freed)
    BY <1>5, <2>1, FiniteParts, FS_Difference DEF NumBuffersExact
  <2>3. Cardinality(Live \ Freed) \in Nat
    BY <1>5, FiniteParts
  <2> QED BY <1>6, <2>2, <2>3 DEF Release
<1>8. DataLive' /\ data' \in SUBSET Bufs
  BY <1>5, <1>6 DEF DataLive, Release, TypeOK
<1>9. DataWithinLimit'
  <2>1. /\ IsFiniteSet(data) /\ data' \in SUBSET data
        /\ Cardinality(data) \in Nat /\ Cardinality(data') \in Nat
    BY FiniteParts DEF TypeOK, Release
  <2>2. Cardinality(data') <= Cardinality(data)
    BY <2>1, FS_Subset
  <2> QED BY <2>1, <2>2, PoolAssumption DEF DataWithinLimit
<1>10. hold' \in [Holders -> SUBSET Bufs]
  BY DEF Release
<1> QED BY <1>3, <1>4, <1>7, <1>8, <1>9, <1>10 DEF TypeOK, NumBuffersExact

(* No block is in use when the pool is set up.                             *)
LEMMA PoolInit ==
  ASSUME Init
  PROVE  PoolInv
<1>1. TypeOK
  BY DEF Init, TypeOK
<1>2. \A b \in Bufs : HoldersOf(b) = {}
  BY DEF Init, HoldersOf
<1>3. RefcountExact
  BY <1>2, FS_EmptySet DEF Init, RefcountExact
<1>4. Live = {}
  BY DEF Init, Live
<1>5. NumBuffersExact /\ DataLive /\ DataWithinLimit
  BY <1>4, FS_EmptySet, PoolAssumption
  DEF Init, NumBuffersExact, DataLive, DataWithinLimit
<1> QED BY <1>1, <1>3, <1>5 DEF PoolInv

(* One step per action of the pool.                                        *)
LEMMA PoolStep ==
  ASSUME PoolInv, [Next]_vars
  PROVE  PoolInv'
<1>1. CASE \E h \in Holders, b \in Bufs : AllocElement(h, b)
  BY <1>1, AllocElementStep
<1>2. CASE \E h \in Holders, b \in Bufs : AllocEvent(h, b)
  BY <1>2, AllocEventStep
<1>3. CASE \E h \in Holders : \E b \in hold[h] :
             \E receivers \in SUBSET (Holders \ HoldersOf(b)) : Feed(h, b, receivers)
  BY <1>3, FeedStep
<1>4. CASE \E h, g \in Holders : \E b \in hold[h] : Read(h, g, b)
  BY <1>4, ReadStep
<1>5. CASE Release
  BY <1>5, ReleaseStep
<1>6. CASE UNCHANGED vars
  BY <1>6 DEF vars, PoolInv, TypeOK, RefcountExact, HoldersOf, NumBuffersExact,
              Live, DataLive, DataWithinLimit
<1> QED BY <1>1, <1>2, <1>3, <1>4, <1>5, <1>6 DEF Next

(* PoolInv is inductive.                                                   *)
THEOREM PoolInvariant == Spec => []PoolInv
<1>1. Init => PoolInv
  BY PoolInit
<1>2. PoolInv /\ [Next]_vars => PoolInv'
  BY PoolStep
<1> QED BY <1>1, <1>2, PTL DEF Spec

(* For every pool: a block is counted up and down exactly as often as it   *)
(* gains and loses holders, so it is freed by its last holder only.        *)
THEOREM CountersAreExact == Spec => []RefcountExact
<1>1. PoolInv => RefcountExact
  BY DEF PoolInv
<1> QED BY <1>1, PoolInvariant, PTL

(* For every pool: num_buffers, kept by hand on every path that allocates  *)
(* or frees a block, is the number of blocks in use.                       *)
THEOREM BuffersAreCounted == Spec => []NumBuffersExact
<1>1. PoolInv => NumBuffersExact
  BY DEF PoolInv
<1> QED BY <1>1, PoolInvariant, PTL

(* For every pool: the limit holds for packets, however many events there  *)
(* are beside them.                                                        *)
THEOREM PacketsWithinLimit == Spec => []DataWithinLimit
<1>1. PoolInv => DataWithinLimit
  BY DEF PoolInv
<1> QED BY <1>1, PoolInvariant, PTL
=============================================================================
