----------------------------- MODULE PageTable -----------------------------
(***************************************************************************)
(* User page tables as trees of pages of PTEs (kernel/vm.c), built and     *)
(* torn down by fork, sbrk, exec and exit (kernel/proc.c, exec.c) in the   *)
(* face of an allocator that may run out at any call.  CowVm takes a table *)
(* for the map it denotes, and looks at which page is whose.               *)
(*                                                                         *)
(* A page table belongs to one process, so the calls run one at a time, a  *)
(* step up to each call of kalloc.  Pages have no names here: a PTE of an  *)
(* upper level holds the table it points to, and pages in use are counted, *)
(* by reference.  The contents of user pages and the flags W, X and COW    *)
(* are left out.                                                           *)
(***************************************************************************)
EXTENDS Integers, Sequences, FiniteSets, FiniteSetsExt

CONSTANTS
  Slots,        \* processes; the first is 1
  PGSIZE,       \* bytes in a page
  Grow,         \* arguments of sbrk
  Images        \* programs: for each, the ends of its segments

(***************************************************************************)
(* Two PTEs in a page of them, three levels.  A PTE that is not valid is   *)
(* <<>> in the upper levels; in the lowest a PTE is its set of flags.      *)
(***************************************************************************)
VPages == 0..7
PX(level, va) == (va \div 2^level) % 2
TRAMPOLINE == 7
TRAPFRAME == 6
MaxSize == TRAPFRAME * PGSIZE   \* memory is used up long before a process is larger

PGROUNDUP(n) == ((n + PGSIZE - 1) \div PGSIZE) * PGSIZE
Pages(lo, hi) == (PGROUNDUP(lo) \div PGSIZE)..((PGROUNDUP(hi) \div PGSIZE) - 1)

Upper == [i \in {0, 1} |-> <<>>]
Lowest == [i \in {0, 1} |-> {}]

\* The PTE that walk without alloc finds, or no flags.
PteOf(t, va) ==
  IF t[PX(2, va)] = <<>> THEN {}
  ELSE IF t[PX(2, va)][PX(1, va)] = <<>> THEN {}
  ELSE t[PX(2, va)][PX(1, va)][PX(0, va)]
SetPte(t, va, flags) == [t EXCEPT ![PX(2, va)][PX(1, va)][PX(0, va)] = flags]

\* Whether walkaddr finds a page.
walkaddr(t, va) == {"V", "U"} \subseteq PteOf(t, va)

\* The tables walk has to add on the way to va, and t with the first n of them.
Missing(t, va) ==
  IF t[PX(2, va)] = <<>> THEN 2 ELSE IF t[PX(2, va)][PX(1, va)] = <<>> THEN 1 ELSE 0
walk(t, va, n) ==
  LET a == IF t[PX(2, va)] = <<>> /\ n > 0 THEN [t EXCEPT ![PX(2, va)] = Upper] ELSE t IN
  IF n > 0 /\ n = Missing(t, va) THEN [a EXCEPT ![PX(2, va)][PX(1, va)] = Lowest] ELSE a

\* The pages that a table occupies.
Tables(t) == 1 + Cardinality({i \in {0, 1} : t[i] # <<>>})
               + Cardinality({x \in {0, 1} \X {0, 1} : t[x[1]] # <<>> /\ t[x[1]][x[2]] # <<>>})

Leaves(t) == {va \in VPages : PteOf(t, va) # {}}

\* uvmunmap of the pages vs, which must be mapped.
Unmapped(t, vs) ==
  [i \in {0, 1} |-> IF t[i] = <<>> THEN <<>> ELSE
     [j \in {0, 1} |-> IF t[i][j] = <<>> THEN <<>> ELSE
        [l \in {0, 1} |-> IF 4 * i + 2 * j + l \in vs THEN {} ELSE t[i][j][l]]]]

(***************************************************************************)
(* State.                                                                  *)
(***************************************************************************)
VARIABLES
  used,   \* references to pages: those allocated, and incref's
  proc,   \* of each process its table, <<>> if there is none, and its size
  k       \* the call that is made

vars == <<used, proc, k>>

NoProc == [table |-> <<>>, sz |-> 0]
Kernel == SetPte(SetPte(walk(Upper, TRAMPOLINE, 2), TRAMPOLINE, {"V", "R", "X"}), TRAPFRAME, {"V", "R", "W"})
Boot == SetPte(walk(Kernel, 0, 2), 0, {"V", "R", "U"})

\* The call: where it is, who makes it and for which slot; the table it works on
\* and the size that has; what uvmalloc has got to (a), from and to; the
\* segments that exec still has to load, and whether it is at the stack.
NoCall == [pc |-> "idle", op |-> "none", me |-> 1, slot |-> 1, t |-> <<>>, sz |-> 0,
           a |-> 0, oldsz |-> 0, newsz |-> 0, ends |-> <<>>, stack |-> FALSE]

\* After userinit: a process with the page of initcode.
Init ==
  /\ used = 1 + Tables(Boot) + 1
  /\ proc = [s \in Slots |-> IF s = 1 THEN [table |-> Boot, sz |-> PGSIZE] ELSE NoProc]
  /\ k = NoCall

Panic == k' = [k EXCEPT !.pc = "panic"] /\ UNCHANGED <<used, proc>>

\* The call returns, having given back the pages gone.
Fail(gone) == used' = used - gone /\ k' = NoCall /\ UNCHANGED proc

\* proc_freepagetable unmaps the kernel's two pages and the user's, which have to
\* be there, and freewalk finds no other; then the table and the pages are free.
Whole(t, sz) == Leaves(t) = Pages(0, sz) \cup {TRAMPOLINE, TRAPFRAME}
Freed(t, sz) == Tables(t) + Cardinality(Pages(0, sz))

(***************************************************************************)
(* fork: allocproc and uvmcopy                                             *)
(***************************************************************************)
\* allocproc has a trapframe.
fork(me, slot) ==
  /\ k.pc = "idle" /\ proc[me].table # <<>> /\ proc[slot].table = <<>>
  /\ used' = used + 1
  /\ k' = [NoCall EXCEPT !.pc = "create", !.op = "fork", !.me = me, !.slot = slot]
  /\ UNCHANGED proc

Trapframe == IF k.op = "fork" THEN 1 ELSE 0

\* proc_pagetable, with the first n of the tables it needs.  The trapframe's PTE
\* lies in a table that the trampoline's mapping made.
proc_pagetable(n) ==
  /\ k.pc = "create"
  /\ IF n = Tables(Kernel)
       THEN /\ used' = used + n
            /\ k' = [k EXCEPT !.t = Kernel, !.pc = IF k.op = "fork" THEN "copy" ELSE "seg"]
            /\ UNCHANGED proc
       ELSE Fail(Trapframe + IF n = 0 THEN 0 ELSE Tables(walk(Upper, TRAMPOLINE, n - 1)) - n)

\* Mutation of Copied: the page that could not be mapped counts too.
Copied_more(i) == 0..i

\* The pages that uvmcopy unmaps when it fails at page i.
Copied(i) == 0..(i - 1)

\* A turn of uvmcopy's loop, at page a; walk finds n pages for tables.  If
\* mappages fails, the pages copied are unmapped and freeproc frees np, whose
\* size is still 0.
uvmcopy(n) ==
  LET old == proc[k.me].table
      t == walk(k.t, k.a, n) IN
  /\ k.pc = "copy" /\ k.a \in Pages(0, proc[k.me].sz) /\ n <= Missing(k.t, k.a)
  /\ IF PteOf(old, k.a) = {} THEN Panic
     ELSE IF n = Missing(k.t, k.a)
       THEN IF PteOf(t, k.a) # {} THEN Panic
            ELSE /\ k' = [k EXCEPT !.t = SetPte(t, k.a, PteOf(old, k.a)), !.a = @ + 1]
                 /\ used' = used + n + 1 /\ UNCHANGED proc
     ELSE IF Copied(k.a) \subseteq Leaves(t) /\ Whole(Unmapped(t, Copied(k.a)), 0)
       THEN Fail(Cardinality(Copied(k.a)) + 1 + Freed(t, 0) - n)
     ELSE Panic

forked ==
  /\ k.pc = "copy" /\ k.a \notin Pages(0, proc[k.me].sz)
  /\ proc' = [proc EXCEPT ![k.slot] = [table |-> k.t, sz |-> proc[k.me].sz]]
  /\ k' = NoCall /\ UNCHANGED used

(***************************************************************************)
(* uvmalloc, uvmdealloc and sbrk                                           *)
(***************************************************************************)
\* Mutation of NoMap: the page that could not be mapped is not freed.
NoMap_leak(n) == n

\* What is left of n pages, one of them for the user, when the next failed.
NoMap(n) == IF n = 0 THEN 0 ELSE n - 1

\* A turn of uvmalloc's loop, with n pages from kalloc: one for the user, then
\* the tables on the way to it.
uvmalloc(n) ==
  LET va == k.a \div PGSIZE
      t == walk(k.t, va, n - 1)
      undo == Pages(k.oldsz, k.a) IN
  /\ k.pc = "alloc" /\ k.a < k.newsz /\ n <= Missing(k.t, va) + 1
  /\ IF n = Missing(k.t, va) + 1
       THEN IF PteOf(t, va) # {} THEN Panic
            ELSE /\ k' = [k EXCEPT !.t = SetPte(t, va, {"V", "R", "U"}), !.a = @ + PGSIZE]
                 /\ used' = used + n /\ UNCHANGED proc
     ELSE IF undo \subseteq Leaves(k.t)
       THEN /\ k' = [k EXCEPT !.t = Unmapped(t, undo), !.pc = "nomem"]
            /\ used' = used + NoMap(n) - Cardinality(undo)
            /\ UNCHANGED proc
     ELSE Panic

\* The call c calls uvmalloc, for a table t of size sz.
Alloc(c, t, sz, newsz) ==
  [c EXCEPT !.pc = "alloc", !.t = t, !.sz = sz, !.a = PGROUNDUP(sz), !.oldsz = PGROUNDUP(sz),
            !.newsz = IF newsz < sz THEN sz ELSE newsz]

\* Mutation of Dealloc: the new size is rounded down.
Dealloc_down(oldsz, newsz) ==
  IF newsz < 0 \/ newsz >= oldsz THEN {} ELSE (newsz \div PGSIZE)..((PGROUNDUP(oldsz) \div PGSIZE) - 1)

\* The pages uvmdealloc unmaps.  Sizes are unsigned: one below 0 is above every
\* other, and changes nothing.
Dealloc(oldsz, newsz) == IF newsz < 0 \/ newsz >= oldsz THEN {} ELSE Pages(newsz, oldsz)

\* growproc.
sbrk(me, by) ==
  LET p == proc[me]
      vs == Dealloc(p.sz, p.sz + by) IN
  /\ k.pc = "idle" /\ p.table # <<>> /\ p.sz + by <= MaxSize
  /\ IF by > 0 THEN k' = Alloc([NoCall EXCEPT !.op = "sbrk", !.me = me], p.table, p.sz, p.sz + by) /\ UNCHANGED <<used, proc>>
     ELSE IF vs \subseteq Leaves(p.table)
       THEN /\ proc' = [proc EXCEPT ![me] = [table |-> Unmapped(p.table, vs), sz |-> IF p.sz + by < 0 THEN p.sz ELSE p.sz + by]]
            /\ used' = used - Cardinality(vs) /\ UNCHANGED k
     ELSE Panic

\* The size is changed if uvmalloc succeeded; the tables it added stay.
grown ==
  LET done == k.pc = "alloc" /\ k.a >= k.newsz IN
  /\ k.op = "sbrk" /\ (done \/ k.pc = "nomem")
  /\ proc' = [proc EXCEPT ![k.me] = [table |-> k.t, sz |-> IF done THEN k.newsz ELSE k.sz]]
  /\ k' = NoCall /\ UNCHANGED used

(***************************************************************************)
(* exec                                                                    *)
(***************************************************************************)
exec(me, ends) ==
  /\ k.pc = "idle" /\ proc[me].table # <<>>
  /\ k' = [NoCall EXCEPT !.pc = "create", !.op = "exec", !.me = me, !.ends = ends]
  /\ UNCHANGED <<used, proc>>

\* A segment, or after the last of them the stack and its guard, are allocated.
segment ==
  /\ k.pc = "seg"
  /\ k' = IF k.ends = <<>> THEN Alloc([k EXCEPT !.stack = TRUE], k.t, PGROUNDUP(k.sz), PGROUNDUP(k.sz) + 2 * PGSIZE)
          ELSE Alloc([k EXCEPT !.ends = Tail(@)], k.t, k.sz, Head(k.ends))
  /\ UNCHANGED <<used, proc>>

\* uvmalloc is done.  loadseg finds all pages of the segment; of the stack's two
\* uvmclear takes the first from the user.
loaded ==
  LET guard == (k.newsz \div PGSIZE) - 2 IN
  /\ k.op = "exec" /\ k.pc = "alloc" /\ k.a >= k.newsz
  /\ IF \E va \in Pages(k.oldsz, k.newsz) : ~walkaddr(k.t, va) THEN Panic
     ELSE /\ k' = [k EXCEPT !.pc = IF k.stack THEN "args" ELSE "seg", !.sz = k.newsz,
                            !.t = IF k.stack THEN SetPte(@, guard, PteOf(@, guard) \ {"U"}) ELSE @]
          /\ UNCHANGED <<used, proc>>

\* bad: no memory, no such segment in the file, or too many arguments.
bad ==
  /\ k.op = "exec" /\ k.pc \in {"nomem", "seg", "args"}
  /\ IF Whole(k.t, k.sz) THEN Fail(Freed(k.t, k.sz)) ELSE Panic

\* The arguments fit, and the old image is freed.
commit ==
  LET old == proc[k.me] IN
  /\ k.pc = "args"
  /\ IF Whole(old.table, old.sz)
       THEN /\ proc' = [proc EXCEPT ![k.me] = [table |-> k.t, sz |-> k.sz]]
            /\ used' = used - Freed(old.table, old.sz) /\ k' = NoCall
       ELSE Panic

\* exit, and wait in the parent; the last process does not exit.
freeproc(slot) ==
  /\ k.pc = "idle" /\ proc[slot].table # <<>> /\ \E s \in Slots \ {slot} : proc[s].table # <<>>
  /\ IF Whole(proc[slot].table, proc[slot].sz)
       THEN /\ used' = used - 1 - Freed(proc[slot].table, proc[slot].sz)
            /\ proc' = [proc EXCEPT ![slot] = NoProc] /\ UNCHANGED k
       ELSE Panic

Next ==
  \/ \E me, slot \in Slots : fork(me, slot)
  \/ \E n \in 0..3 : proc_pagetable(n) \/ uvmcopy(n) \/ uvmalloc(n)
  \/ forked \/ grown \/ segment \/ loaded \/ bad \/ commit
  \/ \E me \in Slots : \/ \E by \in Grow : sbrk(me, by)
                       \/ \E ends \in Images : exec(me, ends)
                       \/ freeproc(me)

(***************************************************************************)
(* Properties.                                                             *)
(***************************************************************************)
Live == {s \in Slots : proc[s].table # <<>>}

\* No check in vm.c panics: nothing is mapped twice, unmapped twice, or left in
\* a table that is freed.
NoVmPanic == k.pc # "panic"

\* A process has exactly the pages below its size, also at a size that is no
\* multiple of a page, and those the kernel enters it by, which it cannot use.
ImageMapped ==
  \A s \in Live : Whole(proc[s].table, proc[s].sz)
                  /\ ~walkaddr(proc[s].table, TRAPFRAME) /\ ~walkaddr(proc[s].table, TRAMPOLINE)

\* Whatever failed on the way, the references to pages are those that processes
\* hold: for the trapframe, the tables and the user pages.  Nothing is lost in an
\* error path, and nothing is given back twice.
FramesExact ==
  k.pc = "idle" => used = FoldSet(LAMBDA s, n : n + 1 + Freed(proc[s].table, proc[s].sz), 0, Live)
====
