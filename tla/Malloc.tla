------------------------------- MODULE Malloc -------------------------------
(***************************************************************************)
(* The allocator user programs are linked with (user/umalloc.c), over a    *)
(* heap that the program also grows itself.  Addresses and sizes count     *)
(* headers; 0 is the address of base, which lies below the heap.           *)
(***************************************************************************)
EXTENDS Integers, FiniteSets, FiniteSetsExt

CONSTANTS
  Limit,    \* the address at which sbrk fails
  Chunk,    \* the least morecore asks for (4096 in the code)
  Units     \* sizes asked of malloc, with the header

VARIABLES
  ptr, size,  \* the fields of the headers, by address, and 0 where none is
  freep,      \* start of the search, 0 also before the first malloc
  brk,        \* end of the heap
  live,       \* the blocks that the program has, by address of the header
  own         \* what the program got from sbrk for itself

vars == <<ptr, size, freep, brk, live, own>>

Addr == 0..Limit

Init ==
  /\ ptr = [a \in Addr |-> 0] /\ size = [a \in Addr |-> 0]
  /\ freep = 0 /\ brk = 1 /\ live = {} /\ own = {}

Heap == [ptr |-> ptr, size |-> size, freep |-> freep, brk |-> brk]

(***************************************************************************)
(* free, on a heap h                                                       *)
(***************************************************************************)
\* Mutation of Between: the search stops at the last block whatever bp is.
Between_last(h, p, bp) == (bp > p /\ bp < h.ptr[p]) \/ p >= h.ptr[p]

\* Where the search stops: bp lies between p and its successor, or p is the
\* last block of the list and bp lies outside.
Between(h, p, bp) ==
  \/ bp > p /\ bp < h.ptr[p]
  \/ p >= h.ptr[p] /\ (bp > p \/ bp < h.ptr[p])

RECURSIVE Place(_, _, _)
Place(h, p, bp) == IF Between(h, p, bp) THEN p ELSE Place(h, h.ptr[p], bp)

\* Mutation of JoinUp: the block above is not merged.
JoinUp_not(h, p, bp) == [h EXCEPT !.ptr[bp] = h.ptr[p]]

JoinUp(h, p, bp) ==
  LET q == h.ptr[p] IN
  IF bp + h.size[bp] = q THEN [h EXCEPT !.size[bp] = @ + h.size[q], !.ptr[bp] = h.ptr[q],
                                             !.size[q] = 0, !.ptr[q] = 0]
  ELSE [h EXCEPT !.ptr[bp] = q]

JoinDown(h, p, bp) ==
  IF p + h.size[p] = bp THEN [h EXCEPT !.size[p] = @ + h.size[bp], !.ptr[p] = h.ptr[bp],
                                           !.size[bp] = 0, !.ptr[bp] = 0]
  ELSE [h EXCEPT !.ptr[p] = bp]

Free(h, bp) ==
  LET p == Place(h, h.freep, bp) IN [JoinDown(JoinUp(h, p, bp), p, bp) EXCEPT !.freep = p]

(***************************************************************************)
(* malloc, with morecore; the block is at, or at is 0.                     *)
(***************************************************************************)
morecore(h, nu) ==
  LET n == Max({nu, Chunk}) IN
  Free([h EXCEPT !.size[h.brk] = n, !.brk = @ + n], h.brk)

\* Mutation of Take: the header that stays is not made smaller.
Take_whole(h, prevp, p, n) ==
  IF h.size[p] = n THEN [heap |-> [h EXCEPT !.ptr[prevp] = h.ptr[p], !.ptr[p] = 0, !.freep = prevp], at |-> p]
  ELSE LET q == p + h.size[p] - n IN
       [heap |-> [h EXCEPT !.size[q] = n, !.freep = prevp], at |-> q]

\* A block is used whole, or its end is.
Take(h, prevp, p, n) ==
  IF h.size[p] = n THEN [heap |-> [h EXCEPT !.ptr[prevp] = h.ptr[p], !.ptr[p] = 0, !.freep = prevp], at |-> p]
  ELSE LET q == p + h.size[p] - n IN
       [heap |-> [h EXCEPT !.size[p] = @ - n, !.size[q] = n, !.freep = prevp], at |-> q]

RECURSIVE Search(_, _, _, _)
Search(h, prevp, p, n) ==
  IF h.size[p] >= n THEN Take(h, prevp, p, n)
  ELSE IF p # h.freep THEN Search(h, p, h.ptr[p], n)
  ELSE IF h.brk + Max({n, Chunk}) > Limit THEN [heap |-> h, at |-> 0]
  ELSE LET g == morecore(h, n) IN Search(g, g.freep, g.ptr[g.freep], n)

malloc(n) ==
  LET r == Search(Heap, freep, ptr[freep], n) IN
  /\ ptr' = r.heap.ptr /\ size' = r.heap.size /\ freep' = r.heap.freep /\ brk' = r.heap.brk
  /\ live' = live \cup ({r.at} \ {0})
  /\ UNCHANGED own

free(bp) ==
  LET h == Free(Heap, bp) IN
  /\ bp \in live
  /\ ptr' = h.ptr /\ size' = h.size /\ freep' = h.freep
  /\ live' = live \ {bp}
  /\ UNCHANGED <<brk, own>>

\* The program calls sbrk itself: what malloc gets next does not follow on.
sbrk ==
  /\ brk < Limit /\ own = {}
  /\ own' = own \cup {brk} /\ brk' = brk + 1
  /\ UNCHANGED <<ptr, size, freep, live>>

Next == (\E n \in Units : malloc(n)) \/ (\E bp \in Addr : free(bp)) \/ sbrk

(***************************************************************************)
(* Properties.                                                             *)
(***************************************************************************)
RECURSIVE Listed(_, _)
Listed(p, seen) == IF p \in seen THEN seen ELSE Listed(ptr[p], seen \cup {p})

\* The blocks of the free list.
FreeBlocks == Listed(0, {}) \ {0}
Extent(b) == b..(b + size[b] - 1)

\* Free blocks, the program's blocks and what it got from sbrk itself are the
\* heap, and no two of them overlap: nothing is handed out twice or lost.
HeapExact ==
  LET all == FreeBlocks \cup live IN
  /\ UNION {Extent(b) : b \in all} \cup own = 1..(brk - 1)
  /\ FoldSet(LAMBDA b, n : n + size[b], 0, all) + Cardinality(own) = brk - 1
  /\ FreeBlocks \cap live = {}

\* The free list runs through base and the free blocks in the order of their
\* addresses, back to base, so that free finds the place of every block.
ListInOrder ==
  LET all == FreeBlocks \cup {0} IN
  /\ freep \in all
  /\ \A p \in all : ptr[p] = IF \E q \in all : q > p THEN Min({q \in all : q > p}) ELSE 0

\* free merges neighbours: no two free blocks touch.
Coalesced == \A b \in FreeBlocks : b + size[b] \notin FreeBlocks
====
