------------------------------ MODULE PageRef ------------------------------
(***************************************************************************)
(* The ownership of physical pages: what the allocator of kernel/kalloc.c  *)
(* does with a page and its reference count, and the order in which vm.c   *)
(* and CowHandler use it.  A slot is a place for a PTE (a table and a      *)
(* virtual page).  The guards say what the callers must respect: nobody    *)
(* works on a slot that another process is in the middle of changing.      *)
(* CowVm, where page tables, system calls and traps are spelt out, is      *)
(* checked to implement this module.                                       *)
(***************************************************************************)
EXTENDS Integers, FiniteSets

CONSTANTS
  Procs, Pages, Slots,
  NoPage, NoSlot

ASSUME PageRefAssumption ==
  /\ IsFiniteSet(Procs) /\ IsFiniteSet(Pages) /\ IsFiniteSet(Slots)
  /\ NoPage \notin Pages /\ NoSlot \notin Slots

VARIABLES
  pgref,     \* pgref[]
  freelist,  \* kmem.freelist: how many times each page is linked in it
  map,       \* the page the PTE of each slot names
  writable,  \* the slots whose PTE has PTE_W
  op         \* what each process is in the middle of

vars == <<pgref, freelist, map, writable, op>>

(***************************************************************************)
(* mem: the page in a local variable after kalloc.  old: the page kfree    *)
(* has counted down to 0 and not pushed yet.  slot: the slot whose mapping *)
(* the count leaves out, because kfree has released it and the PTE is      *)
(* still there, or because uvmcopy has written it and incref is to come;   *)
(* in that case src is the parent's slot.                                  *)
(***************************************************************************)
Op == [mem : Pages \cup {NoPage}, old : Pages \cup {NoPage},
       slot : Slots \cup {NoSlot}, src : Slots \cup {NoSlot}]
Idle == [mem |-> NoPage, old |-> NoPage, slot |-> NoSlot, src |-> NoSlot]

\* Nobody is in the middle of changing the PTE of s, or of sharing it.
Settled(s) == \A q \in Procs : op[q].slot # s /\ op[q].src # s

\* After userinit: one page is mapped, the others are free.
Init ==
  \E pg \in Pages, s \in Slots :
    /\ pgref = [q \in Pages |-> IF q = pg THEN 1 ELSE 0]
    /\ freelist = [q \in Pages |-> IF q = pg THEN 0 ELSE 1]
    /\ map = [r \in Slots |-> IF r = s THEN pg ELSE NoPage]
    /\ writable = {s}
    /\ op = [p \in Procs |-> Idle]

\* Mutation of kalloc: the count is not set.
kalloc_keep(pg) ==
  /\ freelist[pg] > 0
  /\ freelist' = [freelist EXCEPT ![pg] = @ - 1]
  /\ pgref' = pgref

kalloc(pg) ==
  /\ freelist[pg] > 0
  /\ freelist' = [freelist EXCEPT ![pg] = @ - 1]
  /\ pgref' = [pgref EXCEPT ![pg] = 1]

\* kalloc, and the page stays in a local variable (CowHandler, uvmalloc).
Alloc(p, pg) ==
  /\ op[p] = Idle
  /\ kalloc(pg)
  /\ op' = [op EXCEPT ![p].mem = pg]
  /\ UNCHANGED <<map, writable>>

\* kalloc and mappages in uvmalloc.
AllocMap(p, pg, s, w) ==
  /\ op[p] = Idle
  /\ kalloc(pg)
  /\ map[s] = NoPage /\ Settled(s)
  /\ map' = [map EXCEPT ![s] = pg]
  /\ writable' = IF w THEN writable \cup {s} ELSE writable
  /\ UNCHANGED op

\* Mutation of kfree: the page whose last reference goes is not pushed.
kfree_lost(p, pg, o) ==
  /\ pgref' = [pgref EXCEPT ![pg] = @ - 1]
  /\ op' = [op EXCEPT ![p] = o]

\* kfree(pg) up to the release of reflock; p goes on as o says.
kfree(p, pg, o) ==
  IF pgref[pg] > 1
    THEN /\ pgref' = [pgref EXCEPT ![pg] = @ - 1]
         /\ op' = [op EXCEPT ![p] = o]
    ELSE /\ pgref' = [pgref EXCEPT ![pg] = 0]
         /\ op' = [op EXCEPT ![p] = [o EXCEPT !.old = pg]]

\* kfree of a mapped page, by uvmunmap or by CowHandler for the page it has copied.
Release(p, s) ==
  /\ map[s] # NoPage /\ Settled(s)
  /\ op[p].slot = NoSlot /\ op[p].old = NoPage
  /\ kfree(p, map[s], [op[p] EXCEPT !.slot = s])
  /\ UNCHANGED <<freelist, map, writable>>

\* kfree of the page uvmalloc could not map.
Discard(p) ==
  /\ op[p].mem # NoPage /\ op[p].slot = NoSlot /\ op[p].old = NoPage
  /\ kfree(p, op[p].mem, [op[p] EXCEPT !.mem = NoPage])
  /\ UNCHANGED <<freelist, map, writable>>

\* The rest of kfree, under kmem.lock.
Push(p) ==
  /\ op[p].old # NoPage
  /\ freelist' = [freelist EXCEPT ![op[p].old] = @ + 1]
  /\ op' = [op EXCEPT ![p].old = NoPage]
  /\ UNCHANGED <<pgref, map, writable>>

\* uvmunmap zeroes the PTE.
Clear(p) ==
  /\ op[p].slot # NoSlot /\ op[p].src = NoSlot
  /\ op[p].old = NoPage /\ op[p].mem = NoPage
  /\ map' = [map EXCEPT ![op[p].slot] = NoPage]
  /\ writable' = writable \ {op[p].slot}
  /\ op' = [op EXCEPT ![p] = Idle]
  /\ UNCHANGED <<pgref, freelist>>

\* CowHandler installs the copy, writable.
Remap(p) ==
  /\ op[p].slot # NoSlot /\ op[p].old = NoPage /\ op[p].mem # NoPage
  /\ map' = [map EXCEPT ![op[p].slot] = op[p].mem]
  /\ writable' = writable \cup {op[p].slot}
  /\ op' = [op EXCEPT ![p] = Idle]
  /\ UNCHANGED <<pgref, freelist>>

\* uvmcopy takes PTE_W from the parent's PTE and then fails.
Protect(p, s) ==
  /\ op[p] = Idle
  /\ map[s] # NoPage /\ Settled(s)
  /\ writable' = writable \ {s}
  /\ UNCHANGED <<pgref, freelist, map, op>>

\* Mutation of Share: the parent keeps PTE_W.
Share_keepw(p, s, t) ==
  /\ op[p] = Idle
  /\ map[s] # NoPage /\ map[t] = NoPage
  /\ map' = [map EXCEPT ![t] = map[s]]
  /\ Settled(s) /\ Settled(t)
  /\ op' = [op EXCEPT ![p].slot = t, ![p].src = s]
  /\ UNCHANGED <<pgref, freelist, writable>>

\* uvmcopy takes PTE_W from the parent's PTE s and maps the page in the child's, t.
Share(p, s, t) ==
  /\ op[p] = Idle
  /\ map[s] # NoPage /\ map[t] = NoPage
  /\ map' = [map EXCEPT ![t] = map[s]]
  /\ Settled(s) /\ Settled(t)
  /\ writable' = writable \ {s}
  /\ op' = [op EXCEPT ![p].slot = t, ![p].src = s]
  /\ UNCHANGED <<pgref, freelist>>

incref(p) ==
  /\ op[p].src # NoSlot
  /\ pgref' = [pgref EXCEPT ![map[op[p].src]] = @ + 1]
  /\ op' = [op EXCEPT ![p] = Idle]
  /\ UNCHANGED <<freelist, map, writable>>

Next ==
  \E p \in Procs :
    \/ Discard(p)
    \/ Push(p)
    \/ Clear(p)
    \/ Remap(p)
    \/ incref(p)
    \/ \E pg \in Pages : Alloc(p, pg)
    \/ \E pg \in Pages, s \in Slots, w \in BOOLEAN : AllocMap(p, pg, s, w)
    \/ \E s \in Slots : Release(p, s) \/ Protect(p, s)
    \/ \E s, t \in Slots : Share(p, s, t)

Spec == Init /\ [][Next]_vars

(***************************************************************************)
(* Properties.                                                             *)
(***************************************************************************)

\* Every variable has its type.
TypeOK ==
  /\ pgref \in [Pages -> Nat]
  /\ freelist \in [Pages -> Nat]
  /\ map \in [Slots -> Pages \cup {NoPage}]
  /\ writable \in SUBSET Slots
  /\ op \in [Procs -> Op]

\* The mapped slots that count as references to pg.
Mappings(pg) == {s \in Slots : map[s] = pg /\ \A p \in Procs : op[p].slot # s}
Holders(pg) == {p \in Procs : op[p].mem = pg}
Pushers(pg) == {p \in Procs : op[p].old = pg}

\* pgref[] is the number of references: the PTEs that map the page and the kernel
\* code that holds it, at every instant of every interleaving (kalloc, incref, kfree).
RefCountExact ==
  \A pg \in Pages : pgref[pg] = Cardinality(Mappings(pg)) + Cardinality(Holders(pg))

\* A page is in exactly one place: referenced, or on the free list exactly once, or
\* on its way there in kfree.  No page leaks and none is freed twice.
PageConserved ==
  \A pg \in Pages :
    freelist[pg] + Cardinality(Pushers(pg)) = IF pgref[pg] = 0 THEN 1 ELSE 0

\* A page that some PTE lets its process write is mapped nowhere else, so no store
\* is seen by another process (uvmcopy clears PTE_W on both sides, CowHandler sets
\* it on a private copy only).
WritableIsPrivate ==
  \A pg \in Pages : \A s \in Mappings(pg) :
    s \in writable => Mappings(pg) = {s} /\ Holders(pg) = {}

(***************************************************************************)
(* The strengthening that makes the properties inductive.                  *)
(***************************************************************************)

\* No two processes are in the middle of changing one slot.
OneAtATime ==
  \A p, q \in Procs : p # q /\ op[p].slot # NoSlot => op[p].slot # op[q].slot

\* Between mappages of the child's PTE and incref, both PTEs name the page, neither is
\* writable, and the parent's reference stays.
SharingOK ==
  \A p \in Procs : op[p].src # NoSlot =>
    /\ op[p].mem = NoPage /\ op[p].old = NoPage /\ op[p].slot # NoSlot
    /\ map[op[p].src] # NoPage /\ map[op[p].slot] = map[op[p].src]
    /\ op[p].src \notin writable /\ op[p].slot \notin writable
    /\ \A q \in Procs : op[q].slot # op[p].src

\* A page that kalloc has just returned is nowhere else, until it is mapped.
HeldIsPrivate ==
  \A pg \in Pages : \A p \in Holders(pg) : Mappings(pg) = {} /\ Holders(pg) = {p}

\* While a process is between two steps of kfree, uvmcopy or CowHandler, the slot and
\* the page it works on are its own.
Discipline ==
  /\ OneAtATime /\ SharingOK /\ HeldIsPrivate
  /\ \A s \in writable : map[s] # NoPage

IInv == TypeOK /\ RefCountExact /\ PageConserved /\ WritableIsPrivate /\ Discipline
====
