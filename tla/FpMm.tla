-------------------------------- MODULE FpMm --------------------------------
(***************************************************************************)
(* The allocator inside the files of vtdb and epgdb (common/fp_mm.c).      *)
(*                                                                         *)
(* The file is a chain of links, each a header followed by its data.  Free *)
(* links also hang in a search tree ordered by size whose root is the      *)
(* dummy link of size 0 at the start; max is the largest size in a node's  *)
(* subtree.  A heap value is what the file holds, and each static function *)
(* is an operator from heap values to heap values; the calls of the        *)
(* interface are the actions (a heap belongs to one database thread at a   *)
(* time).  Everything is written to the file, so a restart keeps the heap  *)
(* and only forgets fragment_size.                                         *)
(*                                                                         *)
(* Sizes and pointers are counted in headers: a link_header is HDR units.  *)
(***************************************************************************)
EXTENDS Naturals, FiniteSets

CONSTANTS
  HDR,        (* sizeof (link_header)                                      *)
  ReqSizes,   (* sizes asked for                                           *)
  FragSizes,  (* configured fragment sizes (0: none configured)            *)
  DefFrag,    (* 10 * MIBYTES: fragment size after fphInit and fphAttach   *)
  MaxLinks,   (* bound: links in the file                                  *)
  MaxEnd      (* bound: end of the last link                               *)

ASSUME FpMmAssumption ==
  /\ HDR \in Nat \ {0} /\ DefFrag \in Nat \ {0}
  /\ ReqSizes \subseteq Nat \ {0} /\ FragSizes \subseteq Nat
  /\ MaxLinks \in Nat /\ MaxEnd \in Nat

NULL == 0
Root == 1     (* h->base + sizeof (heap_header) *)

VARIABLES
  heap,           (* [last, links]: the contents of the file               *)
  fragment_size   (* FpHeap.fragment_size, in memory                       *)

fpVars == <<heap, fragment_size>>

Header == [prev : Nat, next : Nat, used : BOOLEAN, size : Nat, max : Nat,
           smaller : Nat, bigger : Nat, parent : Nat]

FpTypeOK ==
  /\ DOMAIN heap.links \subseteq Nat \ {NULL}
  /\ Root \in DOMAIN heap.links
  /\ \A p \in DOMAIN heap.links : heap.links[p] \in Header
  /\ heap.last \in DOMAIN heap.links
  /\ fragment_size \in Nat \ {0}

(* A header outside the tree. *)
Loose(prev, next, size) ==
  [prev |-> prev, next |-> next, used |-> FALSE, size |-> size, max |-> size,
   smaller |-> NULL, bigger |-> NULL, parent |-> NULL]

Put(H, p, l) ==
  [H EXCEPT !.links = [q \in DOMAIN H.links \cup {p} |-> IF q = p THEN l ELSE H.links[q]]]

Drop(H, p) ==
  [H EXCEPT !.links = [q \in DOMAIN H.links \ {p} |-> H.links[q]]]

(* The prev field of a link, or the heap's last field behind the last one. *)
SetPrev(H, p, v) ==
  IF p = NULL THEN [H EXCEPT !.last = v] ELSE [H EXCEPT !.links[p].prev = v]

SetParent(H, p, v) == IF p = NULL THEN H ELSE [H EXCEPT !.links[p].parent = v]

-----------------------------------------------------------------------------
(* The tree of free links.                                                 *)

(* Mutant: the smaller side is only taken if it has something too large. *)
fph_findTooLarge(H, sz) ==
  LET find[p \in DOMAIN H.links] ==
        LET l == H.links[p]
        IN IF l.size > sz
           THEN IF l.smaller # NULL /\ H.links[l.smaller].max > sz
                THEN find[l.smaller] ELSE p
           ELSE IF l.size = sz THEN p
           ELSE IF l.bigger # NULL /\ l.max >= sz THEN find[l.bigger] ELSE NULL
  IN find[Root]

(* fph_get without the removal: the node its descent ends at. *)
fph_find(H, sz) ==
  LET find[p \in DOMAIN H.links] ==
        LET l == H.links[p]
        IN IF l.size > sz
           THEN IF l.smaller # NULL /\ H.links[l.smaller].max >= sz
                THEN find[l.smaller] ELSE p
           ELSE IF l.size = sz THEN p
           ELSE IF l.bigger # NULL /\ l.max >= sz THEN find[l.bigger] ELSE NULL
  IN find[Root]

(* fph_remax: the max of e goes to the ancestors of e, up to the first one *)
(* e is not the bigger side of.                                            *)
fph_remax(H, e) ==
  LET up[q \in DOMAIN H.links] ==
        LET p == H.links[q].parent
        IN {q} \cup IF p = NULL \/ H.links[p].smaller = q THEN {} ELSE up[p]
      above == up[e]
  IN [H EXCEPT !.links = [p \in DOMAIN H.links |->
        IF p \in above THEN [H.links[p] EXCEPT !.max = H.links[e].max] ELSE H.links[p]]]

(* Mutant: max stays when the bigger side becomes empty. *)
OwnMaxStale(H, p) == H

(* The bigger side of p became empty. *)
OwnMax(H, p) == fph_remax([H EXCEPT !.links[p].max = H.links[p].size], p)

(* fph_relink *)
fph_relink(H, parent, old, new) ==
  LET A == SetParent(H, new, parent)
      B == IF old = A.links[parent].smaller
           THEN [A EXCEPT !.links[parent].smaller = new]
           ELSE LET C == [A EXCEPT !.links[parent].bigger = new]
                IN IF new # NULL THEN fph_remax(C, new) ELSE OwnMax(C, parent)
      l == B.links[old]
  IN [B EXCEPT !.links[old] = [l EXCEPT !.smaller = NULL, !.bigger = NULL,
                                        !.parent = NULL, !.max = l.size]]

(* fph_remove_single *)
fph_remove_single(H, e) ==
  LET l == H.links[e]
      parent == l.parent
      child == IF l.bigger # NULL THEN l.bigger ELSE l.smaller
      onBigger == H.links[parent].bigger = e
      A == SetParent(IF onBigger THEN [H EXCEPT !.links[parent].bigger = child]
                                 ELSE [H EXCEPT !.links[parent].smaller = child],
                     child, parent)
  IN IF ~onBigger \/ l.bigger # NULL THEN A
     ELSE IF child # NULL THEN fph_remax(A, child)
     ELSE OwnMax(A, parent)

(* fph_pre, fph_post: the node next below or next above e in its subtrees. *)
fph_pre(H, e) ==
  LET down[p \in DOMAIN H.links] ==
        IF H.links[p].bigger = NULL THEN p ELSE down[H.links[p].bigger]
  IN down[H.links[e].smaller]

fph_post(H, e) ==
  LET down[p \in DOMAIN H.links] ==
        IF H.links[p].smaller = NULL THEN p ELSE down[H.links[p].smaller]
  IN down[H.links[e].bigger]

(* fph_remove; post is the outcome of rand_r. *)
fph_remove(H, e, post) ==
  LET l == H.links[e]
      work == IF post THEN fph_post(H, e) ELSE fph_pre(H, e)
      A == fph_remove_single(H, work)
      s == A.links[e].smaller
      b == A.links[e].bigger
      B == [A EXCEPT !.links[work] =
              [@ EXCEPT !.parent = NULL, !.smaller = s, !.bigger = b,
                        !.max = IF b # NULL THEN A.links[b].max ELSE A.links[work].size]]
  IN IF l.smaller = NULL THEN fph_relink(H, l.parent, e, l.bigger)
     ELSE IF l.bigger = NULL THEN fph_relink(H, l.parent, e, l.smaller)
     ELSE fph_relink(SetParent(SetParent(B, b, work), s, work), l.parent, e, work)

(* fph_insert *)
fph_insert(H, e) ==
  LET sz == H.links[e].size
      down[p \in DOMAIN H.links] ==
        LET next == IF sz <= H.links[p].size THEN H.links[p].smaller ELSE H.links[p].bigger
        IN IF next = NULL THEN p ELSE down[next]
      parent == down[Root]
      A == [H EXCEPT !.links[e] = [@ EXCEPT !.smaller = NULL, !.bigger = NULL,
                                            !.max = sz, !.parent = parent]]
  IN fph_remax(IF sz <= H.links[parent].size
               THEN [A EXCEPT !.links[parent].smaller = e]
               ELSE [A EXCEPT !.links[parent].bigger = e], e)

-----------------------------------------------------------------------------
(* The chain of links.                                                     *)

(* fph_split, and the insertion of the rest. *)
fph_split(H, link, sz) ==
  LET l == H.links[link]
      ep == link + HDR + sz
      A == Put(H, ep, Loose(link, l.next, l.size - sz - HDR))
      B == [A EXCEPT !.links[link].next = ep, !.links[link].size = sz]
  IN IF l.size <= sz + HDR THEN H
     ELSE fph_insert(SetPrev(B, l.next, ep), ep)

(* Mutant: the link behind still points back at the merged one. *)
fph_mergeOneWay(H, a, b) ==
  LET next == H.links[b].next
      A == [H EXCEPT !.links[a].next = next, !.links[a].size = @ + H.links[b].size + HDR]
  IN Drop(IF next = NULL THEN SetPrev(A, next, a) ELSE A, b)

(* fph_merge *)
fph_merge(H, a, b) ==
  LET next == H.links[b].next
      A == [H EXCEPT !.links[a].next = next, !.links[a].size = @ + H.links[b].size + HDR]
  IN Drop(SetPrev(A, next, a), b)

(* fph_coalesce1: the heap and the link that e became a part of. *)
fph_coalesce1(H, e, post) ==
  LET next == H.links[e].next
      A == IF next # NULL /\ ~H.links[next].used
           THEN fph_merge(fph_remove(H, next, post.next), e, next) ELSE H
      prev == H.links[e].prev
      joins == H.links[prev].prev # NULL /\ ~H.links[prev].used
  IN IF joins THEN [at |-> prev, h |-> fph_merge(fph_remove(A, prev, post.prev), prev, e)]
     ELSE [at |-> e, h |-> A]

(* fph_grow *)
fph_grow(H, sz) ==
  LET ap == H.last
      bp == ap + H.links[ap].size + HDR
      size == IF sz < fragment_size THEN fragment_size ELSE sz
      A == Put([H EXCEPT !.links[ap].next = bp, !.last = bp], bp, Loose(ap, NULL, size))
  IN fph_insert(A, bp)

(* Mutant: the last link is cut off, in use or not. *)
fph_shrinkUsed(H, post) ==
  LET Cut(G) == LET prev == G.links[G.last].prev
                    A == IF G.links[G.last].used THEN G ELSE fph_remove(G, G.last, post)
                IN Drop([A EXCEPT !.links[prev].next = NULL, !.last = prev], G.last)
      l == H.links[H.last]
  IN IF l.prev # NULL /\ l.size >= 2 * fragment_size THEN Cut(H) ELSE H

(* fph_shrink: its loop ends after at most one round for every link.  All  *)
(* rounds get the same random choice; neighbours are never both free, so   *)
(* there is no second round.                                               *)
fph_shrink(H, post) ==
  LET Cut(G) == LET prev == G.links[G.last].prev
                    A == fph_remove(G, G.last, post)
                IN Drop([A EXCEPT !.links[prev].next = NULL, !.last = prev], G.last)
      Large(l) == ~l.used /\ l.prev # NULL /\ l.size >= 2 * fragment_size
      round[n \in 0 .. Cardinality(DOMAIN H.links)] ==
        IF n = 0 THEN H
        ELSE LET G == round[n - 1] IN IF Large(G.links[G.last]) THEN Cut(G) ELSE G
  IN round[Cardinality(DOMAIN H.links)]

-----------------------------------------------------------------------------
(* The interface.                                                          *)

EmptyHeap == [last |-> Root, links |-> [p \in {Root} |-> Loose(NULL, NULL, 0)]]

InBounds(H) ==
  /\ Cardinality(DOMAIN H.links) <= MaxLinks
  /\ H.last + HDR + H.links[H.last].size <= MaxEnd

(* The heap fphMalloc takes its link from: grown if nothing fits. *)
Grown(sz) == IF fph_find(heap, sz) = NULL THEN fph_grow(heap, sz) ELSE heap

(* fphInit *)
fphInit == heap = EmptyHeap /\ fragment_size = DefFrag

(* fphMalloc; fphCalloc also zeroes the block.  Nothing found even in the  *)
(* grown heap would be abort ().                                           *)
fphMalloc(sz, post) ==
  LET fitting == fph_find(Grown(sz), sz)
      A == fph_remove(Grown(sz), fitting, post)
      B == IF A.links[fitting].size > sz + (sz \div 2) + 2 * HDR
           THEN fph_split(A, fitting, sz) ELSE A
  IN /\ fitting # NULL
     /\ heap' = [B EXCEPT !.links[fitting].used = TRUE]
     /\ InBounds(heap')
     /\ UNCHANGED fragment_size

(* fphFree of an allocated block; anything else is left alone. *)
fphFree(p, post) ==
  LET c == fph_coalesce1([heap EXCEPT !.links[p].used = FALSE], p, post)
  IN /\ heap.links[p].used
     /\ heap' = fph_shrink(fph_insert(c.h, c.at), post.last)
     /\ UNCHANGED fragment_size

(* fphZero *)
fphZero ==
  /\ heap' = EmptyHeap
  /\ fragment_size' = DefFrag

(* fphAttach *)
fphAttach ==
  /\ fragment_size' = DefFrag
  /\ UNCHANGED heap

(* fphSetFragmentSize: the databases call it if a size is configured. *)
fphSetFragmentSize(sz) ==
  /\ sz # 0
  /\ fragment_size' = IF sz < 2 * HDR THEN 2 * HDR ELSE sz
  /\ UNCHANGED heap

(* Outcomes of rand_r in the removals of a neighbour and of the last link. *)
RandChoices(p) ==
  LET Free(q) == q # NULL /\ (q = p \/ ~heap.links[q].used)
      Rand(q) == IF Free(q) THEN BOOLEAN ELSE {FALSE}
  IN [next : Rand(heap.links[p].next), prev : Rand(heap.links[p].prev), last : Rand(heap.last)]

FpNext ==
  \/ \E sz \in ReqSizes, post \in BOOLEAN : fphMalloc(sz, post)
  \/ \E p \in DOMAIN heap.links : \E post \in RandChoices(p) : fphFree(p, post)
  \/ fphZero
  \/ fphAttach
  \/ \E sz \in FragSizes : fphSetFragmentSize(sz)

FpSpec == fphInit /\ [][FpNext]_fpVars

-----------------------------------------------------------------------------
(* Properties.                                                             *)

Links == DOMAIN heap.links
FreeLinks == {p \in Links \ {Root} : ~heap.links[p].used}

(* The links tile the file from the dummy to the last one without a gap,   *)
(* chained both ways, and no two free links are neighbours, whatever order *)
(* blocks of whatever sizes are allocated, split, freed, merged and cut    *)
(* off in (fph_split, fph_merge, fph_grow, fph_shrink).                    *)
ChainSound ==
  /\ FpTypeOK
  /\ \A p \in Links : LET l == heap.links[p] IN
       /\ (l.next = NULL) <=> (p = heap.last)
       /\ l.next # NULL => /\ l.next = p + HDR + l.size
                           /\ l.next \in Links /\ heap.links[l.next].prev = p
       /\ (l.prev = NULL) <=> (p = Root)
       /\ l.prev # NULL => l.prev \in Links /\ heap.links[l.prev].next = p
  /\ \A p \in FreeLinks : heap.links[p].next \notin FreeLinks

(* The nodes of the subtree of p. *)
Subtree(p) ==
  LET sub[q \in Links \cup {NULL}] ==
        IF q = NULL THEN {}
        ELSE {q} \cup sub[heap.links[q].smaller] \cup sub[heap.links[q].bigger]
  IN sub[p]

(* The tree holds the dummy and exactly the free links, ordered by size,   *)
(* with the right parents, and max is the largest size of every subtree,   *)
(* although fph_relink, fph_remove_single and fph_insert only adjust it    *)
(* along the bigger sides above the change, and not in all their branches. *)
TreeSound ==
  /\ Subtree(Root) = FreeLinks \cup {Root}
  /\ \A p \in Subtree(Root) : LET l == heap.links[p] IN
       /\ \A q \in Subtree(l.smaller) : heap.links[q].size <= l.size
       /\ \A q \in Subtree(l.bigger) : heap.links[q].size >= l.size
       /\ \A q \in {l.smaller, l.bigger} \ {NULL} : heap.links[q].parent = p
       /\ \A q \in Subtree(p) : heap.links[q].size <= l.max
       /\ \E q \in Subtree(p) : heap.links[q].size = l.max

(* fph_get finds the smallest free link that is large enough, and nothing  *)
(* only if there is none; after fph_grow it always finds one: the abort () *)
(* in fphMalloc, "why does this happen? naah, it doesn't ... yes, it       *)
(* does...", is not reached on a heap this code wrote.                     *)
BestFit ==
  \A sz \in ReqSizes :
    LET fits == {p \in FreeLinks : heap.links[p].size >= sz}
        found == fph_find(heap, sz)
    IN /\ fits = {} <=> found = NULL
       /\ found # NULL => /\ found \in fits
                          /\ \A p \in fits : heap.links[found].size <= heap.links[p].size
       /\ fph_find(Grown(sz), sz) # NULL

(* The allocated blocks, with their headers, behave like those of Heap:    *)
(* disjoint, unmoved and unchanged from fphMalloc to fphFree, over         *)
(* restarts (fphAttach).                                                   *)
Blocks == {[p |-> p, size |-> HDR + heap.links[p].size] : p \in {q \in Links : heap.links[q].used}}

AbstractHeap == INSTANCE Heap WITH live <- Blocks

ImplementsHeap == AbstractHeap!HeapSpec
=============================================================================
