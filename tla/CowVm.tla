------------------------------- MODULE CowVm -------------------------------
(***************************************************************************)
(* User memory with copy-on-write fork: the page allocator and its         *)
(* reference counts (kernel/kalloc.c), the user page tables (kernel/vm.c), *)
(* the store-fault handler (kernel/trap.c) and the system calls that       *)
(* build, share and tear down address spaces (fork, exit, wait, sbrk in    *)
(* proc.c, exec in exec.c, copyout for every call that returns data).      *)
(*                                                                         *)
(* Grain.  A step is at most one critical section of reflock or kmem.lock  *)
(* together with work on data no other process can reach.  kalloc() is one *)
(* step, because the page it pops is unknown to everybody else until the   *)
(* call returns; kfree() is two (count, then push), because other          *)
(* processes run between them; the PTE is changed in a step of its own.    *)
(*                                                                         *)
(* Abstractions.  Addresses and sizes are counted in pages.  A page table  *)
(* is the map it denotes; the pages the table itself occupies, the         *)
(* trapframes and the other kernel users of kalloc() are not drawn from    *)
(* Pages, so mappages() may fail at any time (walk() found no page).  The  *)
(* contents of a page are one value.  Of the PTE bits, R and X are left    *)
(* out.  Physical pages are opaque; only their pgref[] index is arithmetic *)
(* and it comes in through PteIndex.                                       *)
(***************************************************************************)
EXTENDS Integers, FiniteSets

CONSTANTS
  Procs,        \* slots of proc[]
  InitProc,     \* initproc
  Pages,        \* pages between end and PHYSTOP
  LowSlots,     \* entries of pgref[] below the first such page
  PteIndex,     \* PteIndex[pg]: PGINDEX of a PTE (not of an address) for pg
  MaxVa,        \* MAXVA, in pages; also the largest process size
  StoreVas,     \* virtual pages user code stores to
  Syscalls,     \* those of "sbrk", "copyout", "exec" that user code calls
  InitCalls,    \* those that the first process calls
  SegSizes,     \* sizes exec's one loadable segment can have, in pages
  Values,       \* contents user code and files can have
  Zero, Junk,   \* contents after memset(0), and after memset(1) or memset(5)
  NoPage, NoProc

ASSUME ConstAssumption ==
  /\ IsFiniteSet(Procs) /\ InitProc \in Procs /\ NoProc \notin Procs
  /\ IsFiniteSet(Pages) /\ NoPage \notin Pages
  /\ LowSlots \cap Pages = {}
  /\ PteIndex \in [Pages -> LowSlots]
  /\ MaxVa \in Nat \ {0} /\ StoreVas \subseteq Nat
  /\ SegSizes \subseteq Nat

Calls(p) == IF p = InitProc THEN InitCalls ELSE Syscalls

VPages == 0..(MaxVa - 1)
Tables == Procs \X {0, 1}          \* a process's image, and exec's new one
Flags == {"V", "U", "W", "COW"}
Pte == [pa : Pages \cup {NoPage}, flags : SUBSET Flags]
NoPte == [pa |-> NoPage, flags |-> {}]
Contents == Values \cup {Zero, Junk}
ProcStates == {"UNUSED", "USED", "ALIVE", "ZOMBIE"}

(***************************************************************************)
(* The kernel stack of a process: where it is (pc), where kfree (kret),    *)
(* CowHandler (cret) and copyout, uvmalloc or uvmunmap (ret) return to,    *)
(* and the locals of those functions.                                      *)
(***************************************************************************)
Halted == {"panic", "panic_walk", "panic_init"}
Returns == {"user", "fork_fail", "reaped", "sbrk_done", "sbrk_fail", "wait_free",
            "exec_load", "exec_stack", "exec_commit", "exec_bad", "exec_freed"}
PCs == Halted \cup
       {"user", "none", "exit", "cow_alloc", "cow_copy", "cow_kfree", "cow_map",
        "kfree_push", "uvmunmap", "uvmunmap_clear", "uvmalloc", "uvmalloc_nomap",
        "uvmalloc_fail", "uvmcopy", "incref", "copyout_move", "wait_free", "wait_fail",
        "exec_args", "exec_commit", "exec_bad"}

Frame == [pc : PCs, kret : {"none", "cow_map", "uvmunmap_clear", "uvmalloc_fail"},
          cret : {"trap", "copyout"}, ret : Returns \cup {"none"},
          va : Nat, hi : Nat, nsz : Nat, perm : SUBSET {"W"},
          tgt : Tables, peer : Procs,
          mem : Pages \cup {NoPage}, old : Pages \cup {NoPage}]

VARIABLES
  pgref,      \* pgref[]: reference counts, under reflock
  freelist,   \* kmem.freelist: how many times each page is linked in it
  data,       \* contents of the physical pages
  pt,         \* the user page tables
  sz,         \* size of each image
  image,      \* p->pagetable: which of its two tables a process runs on
  state,      \* p->state
  parent,     \* p->parent
  wait_lock,  \* holder of wait_lock while wait() frees a zombie
  k           \* kernel stacks

vars == <<pgref, freelist, data, pt, sz, image, state, parent, wait_lock, k>>

Cur(p) == <<p, image[p]>>
New(p) == <<p, 1 - image[p]>>
Leaf(t) == \E u \in VPages : "V" \in pt[t][u].flags

IdleFrame(p) == [pc |-> "none", kret |-> "none", cret |-> "trap", ret |-> "none",
                 va |-> 0, hi |-> 0, nsz |-> 0, perm |-> {},
                 tgt |-> <<p, 0>>, peer |-> p, mem |-> NoPage, old |-> NoPage]

(***************************************************************************)
(* After userinit(): one process with one writable page, the rest of       *)
(* memory on the free list.                                                *)
(***************************************************************************)
Init ==
  \E pg \in Pages :
    /\ pgref = [s \in Pages \cup LowSlots |-> IF s = pg THEN 1 ELSE 0]
    /\ freelist = [q \in Pages |-> IF q = pg THEN 0 ELSE 1]
    /\ data = [q \in Pages |-> IF q = pg THEN Zero ELSE Junk]
    /\ pt = [t \in Tables |-> [u \in VPages |->
               IF t = <<InitProc, 0>> /\ u = 0
                 THEN [pa |-> pg, flags |-> {"V", "U", "W"}] ELSE NoPte]]
    /\ sz = [t \in Tables |-> IF t = <<InitProc, 0>> THEN 1 ELSE 0]
    /\ image = [p \in Procs |-> 0]
    /\ state = [p \in Procs |-> IF p = InitProc THEN "ALIVE" ELSE "UNUSED"]
    /\ parent = [p \in Procs |-> NoProc]
    /\ wait_lock = NoProc
    /\ k = [p \in Procs |->
              IF p = InitProc THEN [IdleFrame(p) EXCEPT !.pc = "user"] ELSE IdleFrame(p)]

(***************************************************************************)
(* p, with frame f, goes on at label l.  Its locals die when it leaves the *)
(* kernel or halts.                                                        *)
(***************************************************************************)
Enter(p, f, l) ==
  k' = [k EXCEPT ![p] = IF l \in {"user", "none"} \cup Halted
                          THEN [IdleFrame(p) EXCEPT !.pc = l] ELSE [f EXCEPT !.pc = l]]
Goto(p, l) == Enter(p, k[p], l)

\* p's loop in uvmalloc or uvmunmap, called for label r, has ended.
Returned(p, r) ==
  /\ k[p].ret = r
  /\ \/ k[p].pc = "uvmalloc" /\ k[p].va >= k[p].nsz
     \/ k[p].pc = "uvmunmap" /\ k[p].va >= k[p].hi

(***************************************************************************)
(* kalloc.c                                                                *)
(***************************************************************************)
kalloc(pg) ==
  /\ freelist[pg] > 0
  /\ freelist' = [freelist EXCEPT ![pg] = @ - 1]
  /\ pgref' = [pgref EXCEPT ![pg] = 1]

kalloc_fails == \A pg \in Pages : freelist[pg] = 0

\* kfree(pg), first half: the count, under reflock.
kfree(p, pg, r) ==
  IF pgref[pg] > 1
    THEN /\ pgref' = [pgref EXCEPT ![pg] = @ - 1]
         /\ Goto(p, r)
    ELSE /\ pgref' = [pgref EXCEPT ![pg] = 0]
         /\ Enter(p, [k[p] EXCEPT !.old = pg, !.kret = r], "kfree_push")

\* kfree, second half: junk the page and push it, under kmem.lock.
kfree_push(p) ==
  /\ k[p].pc = "kfree_push"
  /\ data' = [data EXCEPT ![k[p].old] = Junk]
  /\ freelist' = [freelist EXCEPT ![k[p].old] = @ + 1]
  /\ Enter(p, [k[p] EXCEPT !.kret = "none", !.old = NoPage], k[p].kret)
  /\ UNCHANGED <<pgref, pt, sz, image, state, parent, wait_lock>>

\* incref(pa) at the end of an iteration of uvmcopy.
incref(p) ==
  /\ k[p].pc = "incref"
  /\ pgref' = [pgref EXCEPT ![pt[Cur(p)][k[p].va].pa] = @ + 1]
  /\ Enter(p, [k[p] EXCEPT !.va = @ + 1], "uvmcopy")
  /\ UNCHANGED <<freelist, data, pt, sz, image, state, parent, wait_lock>>

(***************************************************************************)
(* CowHandler(f.va), for p with frame f, up to the release of reflock:     *)
(* walk() panics at or above MAXVA; a PTE that is not a valid user COW     *)
(* page is refused; then the count at the PTE's PGINDEX decides between    *)
(* reusing the page and copying it.  Failure kills the process, or fails   *)
(* the copyout that called it.                                             *)
(***************************************************************************)
CopyoutError(f) ==
  CASE f.ret = "wait_free" -> "wait_fail"
    [] f.ret = "exec_commit" -> "exec_bad"
    [] OTHER -> "user"
CowError(f) == IF f.cret = "trap" THEN "exit" ELSE CopyoutError(f)
CowOk(f) == IF f.cret = "trap" THEN "user" ELSE "copyout_move"

\* Mutation of CowHandler: PTE_COW is not checked.
CowHandler_any(p, f) ==
  LET e == pt[Cur(p)][f.va] IN
  IF f.va >= MaxVa THEN Enter(p, f, "panic_walk") /\ UNCHANGED pt
  ELSE IF ~({"V", "U"} \subseteq e.flags)
    THEN Enter(p, f, CowError(f)) /\ UNCHANGED pt
  ELSE Enter(p, f, "cow_alloc") /\ UNCHANGED pt

CowHandler(p, f) ==
  LET e == pt[Cur(p)][f.va] IN
  IF f.va >= MaxVa THEN Enter(p, f, "panic_walk") /\ UNCHANGED pt
  ELSE IF ~({"V", "U", "COW"} \subseteq e.flags)
    THEN Enter(p, f, CowError(f)) /\ UNCHANGED pt
  ELSE IF pgref[PteIndex[e.pa]] = 1
    THEN /\ pt' = [pt EXCEPT ![Cur(p)][f.va].flags = (@ \ {"COW"}) \cup {"W"}]
         /\ Enter(p, f, CowOk(f))
  ELSE Enter(p, f, "cow_alloc") /\ UNCHANGED pt

cow_alloc(p) ==
  /\ k[p].pc = "cow_alloc"
  /\ \/ /\ kalloc_fails
        /\ Goto(p, CowError(k[p]))
        /\ UNCHANGED <<pgref, freelist, data>>
     \/ \E pg \in Pages :
          /\ kalloc(pg)
          /\ data' = [data EXCEPT ![pg] = Junk]
          /\ Enter(p, [k[p] EXCEPT !.mem = pg], "cow_copy")
  /\ UNCHANGED <<pt, sz, image, state, parent, wait_lock>>

\* Mutation of cow_copy: the contents of the new page are left as kalloc junked them.
cow_copy_none(p) ==
  /\ k[p].pc = "cow_copy"
  /\ Goto(p, "cow_kfree")
  /\ UNCHANGED <<pgref, freelist, data, pt, sz, image, state, parent, wait_lock>>

cow_copy(p) ==
  /\ k[p].pc = "cow_copy"
  /\ data' = [data EXCEPT ![k[p].mem] = data[pt[Cur(p)][k[p].va].pa]]
  /\ Goto(p, "cow_kfree")
  /\ UNCHANGED <<pgref, freelist, pt, sz, image, state, parent, wait_lock>>

\* Mutation of cow_kfree: decref instead of kfree.
cow_kfree_decref(p) ==
  /\ k[p].pc = "cow_kfree"
  /\ pgref' = [pgref EXCEPT ![pt[Cur(p)][k[p].va].pa] = @ - 1]
  /\ Goto(p, "cow_map")
  /\ UNCHANGED <<freelist, data, pt, sz, image, state, parent, wait_lock>>

cow_kfree(p) ==
  /\ k[p].pc = "cow_kfree"
  /\ kfree(p, pt[Cur(p)][k[p].va].pa, "cow_map")
  /\ UNCHANGED <<freelist, data, pt, sz, image, state, parent, wait_lock>>

cow_map(p) ==
  /\ k[p].pc = "cow_map"
  /\ pt' = [pt EXCEPT ![Cur(p)][k[p].va] =
              [pa |-> k[p].mem, flags |-> (@.flags \ {"COW"}) \cup {"W"}]]
  /\ Enter(p, [k[p] EXCEPT !.mem = NoPage], CowOk(k[p]))
  /\ UNCHANGED <<pgref, freelist, data, sz, image, state, parent, wait_lock>>

(***************************************************************************)
(* User mode: a store, and a store page fault (scause 15).                 *)
(***************************************************************************)
Writable(p, u) == u < MaxVa /\ {"V", "U", "W"} \subseteq pt[Cur(p)][u].flags

UserStore(p, u, v) ==
  /\ k[p].pc = "user"
  /\ Writable(p, u)
  /\ data' = [data EXCEPT ![pt[Cur(p)][u].pa] = v]
  /\ UNCHANGED <<pgref, freelist, pt, sz, image, state, parent, wait_lock, k>>

usertrap(p, u) ==
  /\ k[p].pc = "user"
  /\ ~Writable(p, u)
  /\ CowHandler(p, [k[p] EXCEPT !.va = u, !.cret = "trap"])
  /\ UNCHANGED <<pgref, freelist, data, sz, image, state, parent, wait_lock>>

(***************************************************************************)
(* copyout to the page f.va of the table f.tgt, up to the memmove.  A      *)
(* read-only page goes through CowHandler, which works on the caller's own *)
(* table whatever table copyout was given.                                 *)
(***************************************************************************)
\* Mutation of copyout: a read-only page is written all the same.
copyout_nocow(p, f) ==
  IF f.va >= MaxVa THEN Enter(p, f, CopyoutError(f)) /\ UNCHANGED pt
  ELSE IF {"V", "U"} \subseteq pt[f.tgt][f.va].flags
    THEN Enter(p, f, "copyout_move") /\ UNCHANGED pt
  ELSE Enter(p, f, CopyoutError(f)) /\ UNCHANGED pt

copyout(p, f) ==
  LET fl == pt[f.tgt][f.va].flags IN
  IF f.va >= MaxVa THEN Enter(p, f, CopyoutError(f)) /\ UNCHANGED pt
  ELSE IF ~({"V", "U"} \subseteq fl) THEN Enter(p, f, CopyoutError(f)) /\ UNCHANGED pt
  ELSE IF "W" \in fl THEN Enter(p, f, "copyout_move") /\ UNCHANGED pt
  ELSE CowHandler(p, [f EXCEPT !.cret = "copyout"])

copyout_move(p, v) ==
  /\ k[p].pc = "copyout_move"
  /\ data' = [data EXCEPT ![pt[k[p].tgt][k[p].va].pa] = v]
  /\ Goto(p, k[p].ret)
  /\ UNCHANGED <<pgref, freelist, pt, sz, image, state, parent, wait_lock>>

\* A system call that returns data to the user page u (read, fstat, pipe).
SysCopyout(p, u) ==
  /\ k[p].pc = "user" /\ "copyout" \in Calls(p)
  /\ copyout(p, [k[p] EXCEPT !.va = u, !.tgt = Cur(p), !.ret = "user"])
  /\ UNCHANGED <<pgref, freelist, data, sz, image, state, parent, wait_lock>>

(***************************************************************************)
(* vm.c: uvmunmap with do_free, one page per iteration: kfree(pa), then    *)
(* the PTE is zeroed.                                                      *)
(***************************************************************************)
CallUvmunmap(p, t, lo, hi, r) ==
  Enter(p, [k[p] EXCEPT !.tgt = t, !.va = lo, !.hi = hi, !.ret = r], "uvmunmap")

uvmunmap(p) ==
  /\ k[p].pc = "uvmunmap"
  /\ k[p].va < k[p].hi
  /\ LET e == pt[k[p].tgt][k[p].va] IN
     IF "V" \in e.flags THEN kfree(p, e.pa, "uvmunmap_clear")
     ELSE Goto(p, "panic") /\ UNCHANGED pgref
  /\ UNCHANGED <<freelist, data, pt, sz, image, state, parent, wait_lock>>

uvmunmap_clear(p) ==
  /\ k[p].pc = "uvmunmap_clear"
  /\ pt' = [pt EXCEPT ![k[p].tgt][k[p].va] = NoPte]
  /\ Enter(p, [k[p] EXCEPT !.va = @ + 1], "uvmunmap")
  /\ UNCHANGED <<pgref, freelist, data, sz, image, state, parent, wait_lock>>

(***************************************************************************)
(* uvmalloc: one page per iteration.  When kalloc or mappages fails, the   *)
(* pages mapped so far are deallocated and the caller sees 0.              *)
(***************************************************************************)
CallUvmalloc(p, t, lo, n, xperm, r) ==
  Enter(p, [k[p] EXCEPT !.tgt = t, !.va = lo, !.nsz = n, !.perm = xperm, !.ret = r],
        "uvmalloc")

uvmalloc(p) ==
  /\ k[p].pc = "uvmalloc"
  /\ k[p].va < k[p].nsz
  /\ \/ /\ kalloc_fails
        /\ Goto(p, "uvmalloc_fail")
        /\ UNCHANGED <<pgref, freelist, data, pt>>
     \/ \E pg \in Pages :
          /\ kalloc(pg)
          /\ data' = [data EXCEPT ![pg] = Zero]
          /\ \/ /\ Enter(p, [k[p] EXCEPT !.mem = pg], "uvmalloc_nomap")
                /\ UNCHANGED pt
             \/ IF "V" \in pt[k[p].tgt][k[p].va].flags
                  THEN Goto(p, "panic") /\ UNCHANGED pt
                  ELSE /\ pt' = [pt EXCEPT ![k[p].tgt][k[p].va] =
                                   [pa |-> pg, flags |-> {"V", "U"} \cup k[p].perm]]
                       /\ Enter(p, [k[p] EXCEPT !.va = @ + 1], "uvmalloc")
  /\ UNCHANGED <<sz, image, state, parent, wait_lock>>

\* mappages failed: kfree(mem).
uvmalloc_nomap(p) ==
  /\ k[p].pc = "uvmalloc_nomap"
  /\ kfree(p, k[p].mem, "uvmalloc_fail")
  /\ UNCHANGED <<freelist, data, pt, sz, image, state, parent, wait_lock>>

\* uvmdealloc(pagetable, a, oldsz), then growproc or exec gives up.
uvmalloc_fail(p) ==
  /\ k[p].pc = "uvmalloc_fail"
  /\ CallUvmunmap(p, k[p].tgt, sz[k[p].tgt], k[p].va,
                  IF k[p].ret = "sbrk_done" THEN "sbrk_fail" ELSE "exec_bad")
  /\ UNCHANGED <<pgref, freelist, data, pt, sz, image, state, parent, wait_lock>>

(***************************************************************************)
(* sbrk: growproc to n pages.                                              *)
(***************************************************************************)
sbrk(p, n) ==
  /\ k[p].pc = "user" /\ "sbrk" \in Calls(p)
  /\ \/ n > sz[Cur(p)] /\ CallUvmalloc(p, Cur(p), sz[Cur(p)], n, {"W"}, "sbrk_done")
     \/ /\ n < sz[Cur(p)]
        /\ Enter(p, [k[p] EXCEPT !.tgt = Cur(p), !.va = n, !.hi = sz[Cur(p)], !.nsz = n,
                                 !.ret = "sbrk_done"], "uvmunmap")
  /\ UNCHANGED <<pgref, freelist, data, pt, sz, image, state, parent, wait_lock>>

sbrk_done(p) ==
  /\ Returned(p, "sbrk_done")
  /\ sz' = [sz EXCEPT ![Cur(p)] = k[p].nsz]
  /\ Goto(p, "user")
  /\ UNCHANGED <<pgref, freelist, data, pt, image, state, parent, wait_lock>>

sbrk_fail(p) ==
  /\ Returned(p, "sbrk_fail")
  /\ Goto(p, "user")
  /\ UNCHANGED <<pgref, freelist, data, pt, sz, image, state, parent, wait_lock>>

(***************************************************************************)
(* fork: allocproc, then uvmcopy page by page.                             *)
(***************************************************************************)
fork(p, np) ==
  /\ k[p].pc = "user"
  /\ state[np] = "UNUSED"
  /\ state' = [state EXCEPT ![np] = "USED"]
  /\ Enter(p, [k[p] EXCEPT !.va = 0, !.tgt = Cur(np), !.peer = np], "uvmcopy")
  /\ UNCHANGED <<pgref, freelist, data, pt, sz, image, parent, wait_lock>>

\* Mutation of Share: PTE_W survives in both page tables.
Share_keepw(f) == IF f \cap {"W", "COW"} # {} THEN f \cup {"COW"} ELSE f

\* The flags uvmcopy leaves in the parent and gives the child.
Share(f) == IF f \cap {"W", "COW"} # {} THEN (f \ {"W"}) \cup {"COW"} ELSE f

uvmcopy(p) ==
  /\ k[p].pc = "uvmcopy"
  /\ k[p].va < sz[Cur(p)]
  /\ LET u == k[p].va
         e == pt[Cur(p)][u]
         shared == [pt EXCEPT ![Cur(p)][u].flags = Share(@)]
     IN IF "V" \notin e.flags THEN Goto(p, "panic") /\ UNCHANGED pt
        ELSE \/ /\ pt' = shared
                /\ CallUvmunmap(p, k[p].tgt, 0, u, "fork_fail")
             \/ IF "V" \in pt[k[p].tgt][u].flags THEN Goto(p, "panic") /\ pt' = shared
                ELSE /\ pt' = [shared EXCEPT ![k[p].tgt][u] =
                                 [pa |-> e.pa, flags |-> Share(e.flags)]]
                     /\ Goto(p, "incref")
  /\ UNCHANGED <<pgref, freelist, data, sz, image, state, parent, wait_lock>>

fork_done(p) ==
  /\ k[p].pc = "uvmcopy"
  /\ k[p].va >= sz[Cur(p)]
  /\ LET np == k[p].peer IN
     /\ sz' = [sz EXCEPT ![Cur(np)] = sz[Cur(p)]]
     /\ parent' = [parent EXCEPT ![np] = p]
     /\ state' = [state EXCEPT ![np] = "ALIVE"]
     /\ k' = [k EXCEPT ![p] = [IdleFrame(p) EXCEPT !.pc = "user"],
                       ![np] = [IdleFrame(np) EXCEPT !.pc = "user"]]
  /\ UNCHANGED <<pgref, freelist, data, pt, image, wait_lock>>

\* freeproc(np); freewalk panics if a leaf is left.
fork_fail(p) ==
  /\ Returned(p, "fork_fail")
  /\ IF Leaf(k[p].tgt) THEN Goto(p, "panic") /\ UNCHANGED state
     ELSE /\ state' = [state EXCEPT ![k[p].peer] = "UNUSED"]
          /\ Goto(p, "user")
  /\ UNCHANGED <<pgref, freelist, data, pt, sz, image, parent, wait_lock>>

(***************************************************************************)
(* exit and wait.  initproc never calls exit(), but can be killed.         *)
(***************************************************************************)
exit(p) ==
  /\ k[p].pc = "exit" \/ (k[p].pc = "user" /\ p # InitProc)
  /\ IF p = InitProc THEN Goto(p, "panic_init") /\ UNCHANGED <<state, parent>>
     ELSE /\ wait_lock = NoProc
          /\ state' = [state EXCEPT ![p] = "ZOMBIE"]
          /\ parent' = [q \in Procs |-> IF parent[q] = p THEN InitProc ELSE parent[q]]
          /\ Goto(p, "none")
  /\ UNCHANGED <<pgref, freelist, data, pt, sz, image, wait_lock>>

\* wait(addr) finds the zombie z; addr is 0 or in the virtual page u.
wait(p, z, u) ==
  /\ k[p].pc = "user"
  /\ wait_lock = NoProc
  /\ parent[z] = p /\ state[z] = "ZOMBIE"
  /\ wait_lock' = p
  /\ \/ Enter(p, [k[p] EXCEPT !.peer = z], "wait_free") /\ UNCHANGED pt
     \/ copyout(p, [k[p] EXCEPT !.peer = z, !.va = u, !.tgt = Cur(p), !.ret = "wait_free"])
  /\ UNCHANGED <<pgref, freelist, data, sz, image, state, parent>>

wait_free(p) ==
  /\ k[p].pc = "wait_free"
  /\ LET z == k[p].peer IN CallUvmunmap(p, Cur(z), 0, sz[Cur(z)], "reaped")
  /\ UNCHANGED <<pgref, freelist, data, pt, sz, image, state, parent, wait_lock>>

wait_fail(p) ==
  /\ k[p].pc = "wait_fail"
  /\ wait_lock' = NoProc
  /\ Goto(p, "user")
  /\ UNCHANGED <<pgref, freelist, data, pt, sz, image, state, parent>>

\* The end of freeproc(z).
reaped(p) ==
  /\ Returned(p, "reaped")
  /\ IF Leaf(k[p].tgt)
       THEN Goto(p, "panic") /\ UNCHANGED <<sz, state, parent, wait_lock>>
       ELSE /\ sz' = [sz EXCEPT ![k[p].tgt] = 0]
            /\ state' = [state EXCEPT ![k[p].peer] = "UNUSED"]
            /\ parent' = [parent EXCEPT ![k[p].peer] = NoProc]
            /\ wait_lock' = NoProc
            /\ Goto(p, "user")
  /\ UNCHANGED <<pgref, freelist, data, pt, image>>

(***************************************************************************)
(* exec: a segment of n pages (n = 0: no segment), then a guard page and a *)
(* stack page, then the arguments, then the switch of images.              *)
(***************************************************************************)
exec(p, n, xperm) ==
  /\ k[p].pc = "user" /\ "exec" \in Calls(p)
  /\ n + 2 <= MaxVa
  /\ CallUvmalloc(p, New(p), 0, n, xperm, "exec_load")
  /\ UNCHANGED <<pgref, freelist, data, pt, sz, image, state, parent, wait_lock>>

\* loadseg, then uvmalloc of the guard and the stack.
exec_load(p, v) ==
  /\ Returned(p, "exec_load")
  /\ sz' = [sz EXCEPT ![New(p)] = k[p].nsz]
  /\ \/ CallUvmunmap(p, New(p), 0, k[p].nsz, "exec_freed") /\ UNCHANGED data
     \/ /\ data' = [pg \in Pages |->
                      IF \E u \in VPages : u < k[p].nsz /\ pt[New(p)][u].pa = pg
                        THEN v ELSE data[pg]]
        /\ CallUvmalloc(p, New(p), k[p].nsz, k[p].nsz + 2, {"W"}, "exec_stack")
  /\ UNCHANGED <<pgref, freelist, pt, image, state, parent, wait_lock>>

\* uvmclear of the guard page.
exec_stack(p) ==
  /\ Returned(p, "exec_stack")
  /\ sz' = [sz EXCEPT ![New(p)] = k[p].nsz]
  /\ pt' = [pt EXCEPT ![New(p)][k[p].nsz - 2].flags = @ \ {"U"}]
  /\ Goto(p, "exec_args")
  /\ UNCHANGED <<pgref, freelist, data, image, state, parent, wait_lock>>

\* The arguments do not fit in the stack page, or are copied out to it.
exec_args(p) ==
  /\ k[p].pc = "exec_args"
  /\ \/ Goto(p, "exec_bad") /\ UNCHANGED pt
     \/ copyout(p, [k[p] EXCEPT !.va = k[p].nsz - 1, !.ret = "exec_commit"])
  /\ UNCHANGED <<pgref, freelist, data, sz, image, state, parent, wait_lock>>

\* Mutation of exec_commit: the last page of the old image is left mapped.
exec_commit_short(p) ==
  /\ k[p].pc = "exec_commit"
  /\ image' = [image EXCEPT ![p] = 1 - @]
  /\ CallUvmunmap(p, Cur(p), 0, sz[Cur(p)] - 1, "exec_freed")
  /\ UNCHANGED <<pgref, freelist, data, pt, sz, state, parent, wait_lock>>

exec_commit(p) ==
  /\ k[p].pc = "exec_commit"
  /\ image' = [image EXCEPT ![p] = 1 - @]
  /\ CallUvmunmap(p, Cur(p), 0, sz[Cur(p)], "exec_freed")
  /\ UNCHANGED <<pgref, freelist, data, pt, sz, state, parent, wait_lock>>

exec_bad(p) ==
  /\ k[p].pc = "exec_bad" \/ Returned(p, "exec_bad")
  /\ CallUvmunmap(p, New(p), 0, sz[New(p)], "exec_freed")
  /\ UNCHANGED <<pgref, freelist, data, pt, sz, image, state, parent, wait_lock>>

\* The end of proc_freepagetable of the old or of the abandoned image.
exec_freed(p) ==
  /\ Returned(p, "exec_freed")
  /\ IF Leaf(New(p)) THEN Goto(p, "panic") /\ UNCHANGED sz
     ELSE sz' = [sz EXCEPT ![New(p)] = 0] /\ Goto(p, "user")
  /\ UNCHANGED <<pgref, freelist, data, pt, image, state, parent, wait_lock>>

(***************************************************************************)
(* The specification.                                                      *)
(***************************************************************************)
Next ==
  \E p \in Procs :
    \/ \E u \in StoreVas, v \in Values : UserStore(p, u, v)
    \/ \E u \in StoreVas : usertrap(p, u)
    \/ cow_alloc(p)
    \/ cow_copy(p)
    \/ cow_kfree(p)
    \/ cow_map(p)
    \/ kfree_push(p)
    \/ incref(p)
    \/ \E u \in StoreVas : SysCopyout(p, u)
    \/ \E v \in Values : copyout_move(p, v)
    \/ uvmunmap(p)
    \/ uvmunmap_clear(p)
    \/ uvmalloc(p)
    \/ uvmalloc_nomap(p)
    \/ uvmalloc_fail(p)
    \/ \E n \in 0..MaxVa : sbrk(p, n)
    \/ sbrk_done(p)
    \/ sbrk_fail(p)
    \/ \E np \in Procs : fork(p, np)
    \/ uvmcopy(p)
    \/ fork_done(p)
    \/ fork_fail(p)
    \/ exit(p)
    \/ \E z \in Procs, u \in StoreVas : wait(p, z, u)
    \/ wait_free(p)
    \/ wait_fail(p)
    \/ reaped(p)
    \/ \E n \in SegSizes, xperm \in SUBSET {"W"} : exec(p, n, xperm)
    \/ \E v \in Values : exec_load(p, v)
    \/ exec_stack(p)
    \/ exec_args(p)
    \/ exec_commit(p)
    \/ exec_bad(p)
    \/ exec_freed(p)

Spec == Init /\ [][Next]_vars

(***************************************************************************)
(* Properties.                                                             *)
(***************************************************************************)

\* Every variable has its type.
TypeOK ==
  /\ pgref \in [Pages \cup LowSlots -> Nat]
  /\ freelist \in [Pages -> Nat]
  /\ data \in [Pages -> Contents]
  /\ pt \in [Tables -> [VPages -> Pte]]
  /\ sz \in [Tables -> 0..MaxVa]
  /\ image \in [Procs -> {0, 1}]
  /\ state \in [Procs -> ProcStates]
  /\ parent \in [Procs -> Procs \cup {NoProc}]
  /\ wait_lock \in Procs \cup {NoProc}
  /\ k \in [Procs -> Frame]

(***************************************************************************)
(* The ownership of pages.  A slot is a virtual page of a table; a process *)
(* is in the middle of changing the slot it works on from the count in     *)
(* kfree to the change of the PTE, and from uvmcopy's mappages to incref;  *)
(* it owns the page in its local variable mem from kalloc on.              *)
(***************************************************************************)
Freeing(p, l) == k[p].pc = l \/ (k[p].pc = "kfree_push" /\ k[p].kret = l)

PageOp(p) ==
  [mem  |-> IF Freeing(p, "cow_map") \/ k[p].pc \in {"cow_copy", "cow_kfree", "uvmalloc_nomap"}
              THEN k[p].mem ELSE NoPage,
   old  |-> IF k[p].pc = "kfree_push" THEN k[p].old ELSE NoPage,
   slot |-> IF Freeing(p, "cow_map") THEN <<Cur(p), k[p].va>>
            ELSE IF Freeing(p, "uvmunmap_clear") \/ k[p].pc = "incref" THEN <<k[p].tgt, k[p].va>>
            ELSE NoPage,
   src  |-> IF k[p].pc = "incref" THEN <<Cur(p), k[p].va>> ELSE NoPage]

Slots == Tables \X VPages
Mapped(s) == "V" \in pt[s[1]][s[2]].flags

PR == INSTANCE PageRef WITH
        NoSlot <- NoPage,
        pgref <- [pg \in Pages |-> pgref[pg]],
        map <- [s \in Slots |-> IF Mapped(s) THEN pt[s[1]][s[2]].pa ELSE NoPage],
        writable <- {s \in Slots : Mapped(s) /\ "W" \in pt[s[1]][s[2]].flags},
        op <- [p \in Procs |-> PageOp(p)]

\* Every interleaving of the system calls, faults and failures follows the ownership
\* discipline of PageRef: no two processes are in the middle of changing one PTE, and
\* kalloc, kfree and incref are called only in the order PageRef allows.  What is
\* proved of PageRef (exact counts, no leak, no double free, no writable page that is
\* shared) therefore holds here.
PagesAreOwned == PR!Spec

\* copyout writes only through a PTE that its process may write, into a page nobody
\* else references, also when CowHandler ran in between on the caller's own table.
CopyoutIsPrivate ==
  \A p \in Procs :
    k[p].pc = "copyout_move" =>
      LET s == <<k[p].tgt, k[p].va>>
          e == pt[k[p].tgt][k[p].va]
      IN {"V", "U", "W"} \subseteq e.flags /\ PR!Mappings(e.pa) = {s}

\* None of the panics of kalloc.c and vm.c is reachable: "uvmunmap: not mapped",
\* "uvmcopy: page not present", "mappages: remap", "freewalk: leaf".
NoVmPanic == \A p \in Procs : k[p].pc # "panic"

\* While exec builds a second image of a process that shares its first one, or gives
\* it up halfway, the counts stay exact, every page is referenced, being freed or free
\* once, a writable page is private, and nothing panics.
PagesCounted ==
  /\ TypeOK
  /\ NoVmPanic
  /\ PR!RefCountExact /\ PR!PageConserved /\ PR!WritableIsPrivate

\* The child that stores above MAXVA is killed; the kernel does not panic in walk.
NoWalkPanic == \A p \in Procs : k[p].pc # "panic_walk"

\* CowHandler allocates a copy only of a page it finds shared: pgref[] is the
\* reference count the handler decides by.
CopyOnlyWhenShared ==
  [][\A p \in Procs :
       k'[p].pc = "cow_alloc" /\ k[p].pc # "cow_alloc"
         => pgref[pt[Cur(p)][k'[p].va].pa] > 1]_vars

(***************************************************************************)
(* The memory a program sees.  A live process that is shrinking has its    *)
(* new size from the start; one that is between kfree of the shared page   *)
(* and the change of its PTE has the contents of its copy.                 *)
(***************************************************************************)
Shrinking(p) ==
  /\ k[p].ret = "sbrk_done"
  /\ \/ k[p].pc \in {"uvmunmap", "uvmunmap_clear"}
     \/ k[p].pc = "kfree_push" /\ k[p].kret = "uvmunmap_clear"

UserSize(p) == IF Shrinking(p) THEN k[p].nsz ELSE sz[Cur(p)]

UserPage(p, u) ==
  IF PageOp(p).slot = <<Cur(p), u>> /\ Freeing(p, "cow_map") THEN k[p].mem ELSE pt[Cur(p)][u].pa

UserPerm(f) ==
  IF "U" \notin f THEN "guard" ELSE IF f \cap {"W", "COW"} # {} THEN "rw" ELSE "ro"

UserMem == [p \in Procs |->
  IF state[p] # "ALIVE" THEN NoProc
  ELSE [u \in 0..(UserSize(p) - 1) |->
          [val |-> data[UserPage(p, u)], perm |-> UserPerm(pt[Cur(p)][u].flags)]]]

PM == INSTANCE PrivateMem WITH mem <- UserMem, prog <- image, NoMem <- NoProc

\* Copy-on-write is invisible: the memory the processes see behaves as if fork had
\* copied it all and every process had its own (uvmcopy, CowHandler, copyout, sbrk,
\* exec and their failures).
MemoryIsPrivate == PM!Spec
====
