----------------------------- MODULE ProcInvariant -----------------------------
(***************************************************************************)
(* The inductive invariant of processes and sleep locks, for every size of *)
(* proc[], every number of CPUs and every set of system calls, and the     *)
(* proof that the steps in the kernel that take, hold and release a lock   *)
(* preserve it.  ProcProofs has the other steps and the theorems.          *)
(***************************************************************************)
EXTENDS Proc, TLAPS

\* The prover of a leaf that names none.
USE ZenonT(20)

-----------------------------------------------------------------------------
(* The inductive invariant.                                                *)

\* Where a process is, or goes on when it runs again.
Pos(p) == IF k[p].pc = "swtch" THEN k[p].ipc ELSE k[p].pc

\* A process is on one CPU, runs there or is on its way to or from the
\* scheduler, and only there does it move.
OnCpu ==
  /\ \A c, d \in Cpus : cproc[c] # NoProc /\ cproc[c] = cproc[d] => c = d
  /\ \A c \in Cpus, p \in Procs : cproc[c] = p =>
       \/ state[p] = "RUNNING"
       \/ state[p] \in {"RUNNABLE", "SLEEPING", "ZOMBIE"} /\ k[p].pc = "swtch"
  /\ \A p \in Procs : state[p] = "RUNNING" \/ k[p].pc # "swtch" => \E c \in Cpus : cproc[c] = p

\* Who holds p->lock: the CPU that p is leaving or entering, or about to make
\* sleep or a zombie, or one that fills the slot in fork.
OwnPCs == {"swtch", "sleep_set", "exit_zombie"}
ProcLocks ==
  /\ \A c \in Cpus, p \in Procs : plock[p] = c =>
       \/ cproc[c] = p /\ k[p].pc \in OwnPCs
       \/ \E q \in Procs : cproc[c] = q /\ k[q].pc = "fork_copy" /\ k[q].i = p
  /\ \A c \in Cpus, p \in Procs : cproc[c] = p =>
       /\ k[p].pc \in OwnPCs => plock[p] = c
       /\ k[p].pc = "fork_copy" => plock[k[p].i] = c

\* Who holds wait_lock and the spin lock of the sleep lock.
HoldsWait(p) ==
  \/ k[p].pc \in {"reparent", "exit_wakeup", "exit_lock", "exit_zombie", "wait_scan"}
  \/ k[p].pc \in {"sleep", "sleep_set"} /\ k[p].ret = "wait_scan"
  \/ k[p].pc = "wakeup" /\ k[p].ret # "rs_done"
HoldsLk(p) ==
  \/ k[p].pc \in {"as_check", "rs_done"}
  \/ k[p].pc \in {"sleep", "sleep_set"} /\ k[p].ret # "wait_scan"
  \/ k[p].pc = "wakeup" /\ k[p].ret = "rs_done"
Locks ==
  /\ \A c \in Cpus, p \in Procs : cproc[c] = p =>
       /\ HoldsWait(p) <=> lock["wait_lock"] = c
       /\ HoldsLk(p) <=> lock["lk"] = c
  /\ \A c \in Cpus : c \in {lock["wait_lock"], lock["lk"]} => cproc[c] # NoProc

\* exit() after the hand-over of the children.
Leaving(p) ==
  \/ k[p].pc \in {"exit_wakeup", "exit_lock", "exit_zombie"}
  \/ k[p].pc = "wakeup" /\ k[p].ret # "rs_done"
NotAlive == {"UNUSED", "USED", "ZOMBIE"}

\* What the kernel stack says of the calls the process is in.
Stack(p) ==
  /\ k[p].pc = "wakeup" =>
       \/ k[p].ret = "exit_wakeup" /\ k[p].arg = initproc
       \/ k[p].ret = "exit_lock" /\ k[p].arg = parent[p]
       \/ k[p].ret = "rs_done" /\ k[p].arg = LockChan
  /\ Pos(p) \in {"sleep", "sleep_set", "reacquire"} =>
       \/ k[p].ret = "wait_scan" /\ k[p].arg = p /\ k[p].i = 0
       \/ k[p].ret = "as_check" /\ k[p].arg = LockChan
  /\ Pos(p) = "kill" => k[p].arg \in KillPids
  /\ k[p].pc = "swtch" => k[p].ipc \in Preemptible
  /\ Leaving(p) \/ k[p].pc \in {"exit", "reparent"} \/ state[p] \in NotAlive =>
       k[p].ipc \in {"user", "exit"}
Sleeping(p) ==
  /\ state[p] = "SLEEPING" => chan[p] # NoChan
  /\ chan[p] # NoChan => k[p].pc = "swtch" /\ k[p].ipc = "reacquire" /\ chan[p] = k[p].arg
Stacks == \A p \in Procs : Stack(p) /\ Sleeping(p)

\* The slot that fork fills is its own until it makes it runnable.
ForkPCs == {"fork_copy", "fork_parent", "fork_run"}
Children ==
  /\ \A p \in Procs : Pos(p) \in ForkPCs =>
       /\ k[p].i \in Procs /\ state[k[p].i] = "USED"
       /\ Pos(p) = "fork_run" => parent[k[p].i] = p
  /\ \A p, q \in Procs : Pos(p) \in ForkPCs /\ Pos(q) \in ForkPCs /\ k[p].i = k[q].i => p = q

\* Nobody is the child of a process that has handed over its children, and
\* init does not exit.
Family ==
  /\ state[initproc] \notin NotAlive /\ ~Leaving(initproc) /\ k[initproc].pc # "reparent"
  /\ \A p, q \in Procs : state[p] \in NotAlive \/ Leaving(p) => parent[q] # p
  /\ \A q \in Procs \ {initproc} : state[q] \notin {"UNUSED", "USED"} => parent[q] # NoProc

\* A process asleep in wait has no zombie child, except init while somebody
\* hands zombies over to it, and is still to be woken by a child that exits; one
\* that looks for zombies has not missed any.
Waiting ==
  /\ \A p, q \in Procs : state[p] = "SLEEPING" /\ chan[p] = p /\ parent[q] = p =>
       /\ state[q] = "ZOMBIE" => p = initproc /\ \E r \in Procs :
            k[r].pc = "wakeup" /\ k[r].ret = "exit_wakeup" /\ k[r].i = 0
       /\ k[q].pc \notin {"exit_lock", "exit_zombie"}
       /\ k[q].pc = "wakeup" /\ k[q].ret = "exit_lock" => k[q].i <= p
  /\ \A p, q \in Procs : parent[q] = p /\ state[q] = "ZOMBIE" =>
       /\ k[p].pc = "wait_scan" => k[p].i <= q
       /\ k[p].pc \in {"sleep", "sleep_set"} => k[p].ret # "wait_scan"

\* The holder of the sleep lock knows it, and who sleeps on it while it is
\* free is still to be woken.
Exclusive ==
  /\ \A p \in Procs : Pos(p) = "held" => locked = p
  /\ locked = NoProc => \A p \in Procs :
       /\ state[p] = "SLEEPING" /\ chan[p] = LockChan => \E r \in Procs :
            k[r].pc = "wakeup" /\ k[r].ret = "rs_done" /\ k[r].i <= p
       /\ k[p].pc \in {"sleep", "sleep_set"} => k[p].ret # "as_check"

\* A mark of kill is that of a process with the pid.
Marks == 0 \notin KillPids =>
  \A p \in Procs : killed[p] => state[p] # "UNUSED" /\ pid[p] \in KillPids

IInv == /\ TypeOK /\ OnCpu /\ ProcLocks /\ Locks /\ Stacks /\ Children /\ Family
        /\ Waiting /\ Exclusive /\ Marks

-----------------------------------------------------------------------------
(* How a step changes the kernel stacks.                                   *)

\* p goes on at l with the given frame, and no other process moves.
Moved(p, l, m, r, j, a) ==
  /\ k'[p].pc = l /\ k'[p].ipc = m /\ k'[p].ret = r /\ k'[p].i = j /\ k'[p].arg = a
  /\ \A q \in Procs : q # p => k'[q] = k[q]
  /\ k' \in [Procs -> Frame]

\* A frame is replaced.
LEMMA FrameMoved ==
  ASSUME k \in [Procs -> Frame], NEW p \in Procs, NEW f \in Frame, k' = [k EXCEPT ![p] = f]
  PROVE  Moved(p, f.pc, f.ipc, f.ret, f.i, f.arg)
BY DEF Moved

\* A process returns to user space.
LEMMA UserMoved ==
  ASSUME k \in [Procs -> Frame], NPROC \in Nat, NEW p \in Procs, NEW l \in PCs, NEW n \in Int,
         k' = [k EXCEPT ![p] = [UserFrame EXCEPT !.pc = l, !.arg = n]]
  PROVE  Moved(p, l, "user", "user", 0, n)
<1> DEFINE f == [UserFrame EXCEPT !.pc = l, !.arg = n]
<1>1. "user" \in PCs /\ 0 \in 0..NPROC
  BY SMT DEF PCs
<1>2. f \in Frame /\ f.pc = l /\ f.ipc = "user" /\ f.ret = "user" /\ f.i = 0 /\ f.arg = n
  BY <1>1 DEF Frame, UserFrame
<1>3. k' = [k EXCEPT ![p] = f]
  OBVIOUS
<1> HIDE DEF f
<1>4. Moved(p, f.pc, f.ipc, f.ret, f.i, f.arg)
  BY <1>2, <1>3, FrameMoved
<1> QED
  BY <1>2, <1>4 DEF Moved

\* Only the program counter changes.
LEMMA GotoMoved ==
  ASSUME k \in [Procs -> Frame], NEW p \in Procs, NEW l \in PCs, Goto(p, l)
  PROVE  Moved(p, l, k[p].ipc, k[p].ret, k[p].i, k[p].arg)
BY DEF Moved, Goto, Frame

\* wakeup() or sleep() is called.
LEMMA CallMoved ==
  ASSUME k \in [Procs -> Frame], NPROC \in Nat, NEW p \in Procs, NEW l \in PCs, NEW ch \in Int,
         NEW r \in PCs, Call(p, l, ch, r)
  PROVE  Moved(p, l, k[p].ipc, r, 0, ch)
<1> DEFINE f == [k[p] EXCEPT !.pc = l, !.i = 0, !.arg = ch, !.ret = r]
<1>1. k[p] \in Frame /\ 0 \in 0..NPROC
  BY SMT
<1>2. f \in Frame /\ f.pc = l /\ f.ipc = k[p].ipc /\ f.ret = r /\ f.i = 0 /\ f.arg = ch
  BY <1>1 DEF Frame
<1>3. k' = [k EXCEPT ![p] = f]
  BY DEF Call
<1> QED
  BY <1>2, <1>3, FrameMoved

\* A scan of the table starts.
LEMMA LoopMoved ==
  ASSUME k \in [Procs -> Frame], NPROC \in Nat, NEW p \in Procs, NEW l \in PCs, NEW r \in PCs,
         NEW a \in Int,
         \/ k' = [k EXCEPT ![p].pc = l, ![p].i = 0, ![p].kids = FALSE] /\ r = k[p].ret /\ a = k[p].arg
         \/ k' = [k EXCEPT ![p].pc = l, ![p].arg = a, ![p].ret = r, ![p].i = 0, ![p].kids = FALSE]
  PROVE  Moved(p, l, k[p].ipc, r, 0, a)
<1> DEFINE f == [k[p] EXCEPT !.pc = l, !.i = 0, !.kids = FALSE]
           g == [k[p] EXCEPT !.pc = l, !.arg = a, !.ret = r, !.i = 0, !.kids = FALSE]
<1>1. k[p] \in Frame /\ 0 \in 0..NPROC
  BY SMT
<1>2. f \in Frame /\ f.pc = l /\ f.ipc = k[p].ipc /\ f.ret = k[p].ret /\ f.i = 0 /\ f.arg = k[p].arg
  BY <1>1 DEF Frame
<1>3. g \in Frame /\ g.pc = l /\ g.ipc = k[p].ipc /\ g.ret = r /\ g.i = 0 /\ g.arg = a
  BY <1>1 DEF Frame
<1>4. \/ k' = [k EXCEPT ![p] = f] /\ r = k[p].ret /\ a = k[p].arg
      \/ k' = [k EXCEPT ![p] = g]
  OBVIOUS
<1> HIDE DEF f, g
<1>5. CASE k' = [k EXCEPT ![p] = f] /\ r = k[p].ret /\ a = k[p].arg
  BY <1>2, <1>5 DEF Moved
<1>6. CASE k' = [k EXCEPT ![p] = g]
  BY <1>3, <1>6 DEF Moved
<1> QED
  BY <1>4, <1>5, <1>6

\* The place to go on at is set, as for swtch().
LEMMA SwtchMoved ==
  ASSUME k \in [Procs -> Frame], NEW p \in Procs, NEW l \in PCs, NEW m \in PCs,
         k' = [k EXCEPT ![p].pc = l, ![p].ipc = m]
  PROVE  Moved(p, l, m, k[p].ret, k[p].i, k[p].arg)
BY DEF Moved, Frame

\* A loop goes on to the next slot.
LEMMA NextMoved ==
  ASSUME k \in [Procs -> Frame], NPROC \in Nat, NEW p \in Procs, k[p].i < NPROC,
         \/ k' = [k EXCEPT ![p].i = @ + 1]
         \/ k' = [k EXCEPT ![p].i = @ + 1, ![p].kids = TRUE]
  PROVE  Moved(p, k[p].pc, k[p].ipc, k[p].ret, k[p].i + 1, k[p].arg)
<1>1. k[p] \in Frame /\ k[p].i \in 0..NPROC /\ k[p].i + 1 \in 0..NPROC
  BY SMT DEF Frame
<1>2. CASE k' = [k EXCEPT ![p].i = @ + 1]
  BY <1>1, <1>2 DEF Moved, Frame
<1>3. CASE k' = [k EXCEPT ![p].i = @ + 1, ![p].kids = TRUE]
  BY <1>1, <1>3 DEF Moved, Frame
<1> QED
  BY <1>2, <1>3

\* A loop goes on to the next slot in a turn of its own.
LEMMA TurnMoved ==
  ASSUME k \in [Procs -> Frame], NPROC \in Nat, NEW p \in Procs, k[p].i < NPROC,
         k' = [k EXCEPT ![p].i = @ + 1, ![p].ipc = "user"]
  PROVE  Moved(p, k[p].pc, "user", k[p].ret, k[p].i + 1, k[p].arg)
<1>1. k[p] \in Frame /\ k[p].i \in 0..NPROC /\ k[p].i + 1 \in 0..NPROC /\ "user" \in PCs
  BY SMT DEF Frame, PCs
<1> QED
  BY <1>1 DEF Moved, Frame

\* What is used of the constants.
LEMMA Constants ==
  /\ NPROC \in Nat /\ NPROC >= 1 /\ initproc \in Procs /\ Procs \subseteq Nat
  /\ NoProc \notin Procs /\ NoChan \notin Procs /\ LockChan \notin Procs /\ NoCpu \notin Cpus
  /\ LockChan \in Int /\ LockChan # NoChan /\ Procs \subseteq Int /\ NoProc \in Int
BY ProcAssumption, SMT DEF ProcAssumption, Procs, initproc, NoProc, NoChan, LockChan

\* A process that is not at swtch runs, on the one CPU it has.
LEMMA RunsThere ==
  ASSUME IInv, NEW p \in Procs, k[p].pc # "swtch"
  PROVE  /\ state[p] = "RUNNING" /\ chan[p] = NoChan
         /\ \E c \in Cpus : cproc[c] = p
         /\ \A c, d \in Cpus : cproc[c] = p /\ cproc[d] = p => c = d
<1>1. PICK c \in Cpus : cproc[c] = p
  BY DEF IInv, OnCpu
<1>2. state[p] = "RUNNING"
  BY <1>1 DEF IInv, OnCpu
<1>3. chan[p] = NoChan
  BY DEF IInv, Stacks, Sleeping
<1>4. \A d, e \in Cpus : cproc[d] = p /\ cproc[e] = p => d = e
  BY Constants, SMT DEF IInv, OnCpu
<1> QED
  BY <1>1, <1>2, <1>3, <1>4

\* wait_lock has one holder, and so has the spin lock of the sleep lock.
LEMMA OneHolder ==
  ASSUME IInv, NEW p \in Procs, NEW q \in Procs
  PROVE  /\ HoldsWait(p) => lock["wait_lock"] \in Cpus
         /\ HoldsWait(p) /\ HoldsWait(q) => p = q
         /\ HoldsLk(p) => lock["lk"] \in Cpus
         /\ HoldsLk(p) /\ HoldsLk(q) => p = q
<1>1. \A x \in Procs : HoldsWait(x) \/ HoldsLk(x) => \E c \in Cpus : cproc[c] = x
  BY DEF IInv, OnCpu, HoldsWait, HoldsLk
<1>2. \A x \in Procs : HoldsWait(x) => lock["wait_lock"] \in Cpus /\ cproc[lock["wait_lock"]] = x
  BY <1>1 DEF IInv, Locks
<1>3. \A x \in Procs : HoldsLk(x) => lock["lk"] \in Cpus /\ cproc[lock["lk"]] = x
  BY <1>1 DEF IInv, Locks
<1> QED
  BY <1>2, <1>3, SMT

\* While wait_lock is free nobody holds it.
LEMMA NoHolder ==
  ASSUME IInv
  PROVE  /\ lock["wait_lock"] = NoCpu => \A q \in Procs : ~HoldsWait(q)
         /\ lock["lk"] = NoCpu => \A q \in Procs : ~HoldsLk(q)
BY OneHolder, Constants

-----------------------------------------------------------------------------
(* What a process leaves alone that moves on in the kernel.                *)

\* wakeup and kill make sleepers runnable.
Roused == \A q \in Procs : \/ state'[q] = state[q]
                           \/ state[q] = "SLEEPING" /\ state'[q] = "RUNNABLE"

\* No CPU changes its process; sleepers may be woken.
LEMMA KeepOnCpu ==
  ASSUME IInv, NEW p \in Procs, NEW l, NEW m, NEW r, NEW j, NEW a, Moved(p, l, m, r, j, a),
         k[p].pc # "swtch", l # "swtch", Roused, UNCHANGED cproc
  PROVE  OnCpu'
BY SMT DEF IInv, Roused, OnCpu, Moved

\* No p->lock changes hands.
LEMMA KeepProcLocks ==
  ASSUME IInv, NEW p \in Procs, NEW l, NEW m, NEW r, NEW j, NEW a, Moved(p, l, m, r, j, a),
         k[p].pc \notin OwnPCs \cup {"fork_copy"}, l \notin OwnPCs \cup {"fork_copy"},
         UNCHANGED <<cproc, plock>>
  PROVE  ProcLocks'
BY SMT DEF IInv, ProcLocks, OwnPCs, Moved

\* wait_lock and lk do not change hands.
LEMMA KeepLocks ==
  ASSUME IInv, NEW p \in Procs, NEW l, NEW m, NEW r, NEW j, NEW a, Moved(p, l, m, r, j, a),
         HoldsWait(p)' <=> HoldsWait(p), HoldsLk(p)' <=> HoldsLk(p), UNCHANGED <<cproc, lock>>
  PROVE  Locks'
<1>1. \A q \in Procs : (HoldsWait(q)' <=> HoldsWait(q)) /\ (HoldsLk(q)' <=> HoldsLk(q))
  BY SMT DEF Moved, HoldsWait, HoldsLk
<1> QED
  BY <1>1 DEF IInv, Locks

\* The stack of a process that does not move, and does not fall asleep or die.
LEMMA OtherStack ==
  ASSUME IInv, NEW x \in Procs, k'[x] = k[x], chan'[x] = chan[x],
         parent'[x] = parent[x] \/ ~(k[x].pc = "wakeup" /\ k[x].ret = "exit_lock"),
         state'[x] = state[x] \/ state'[x] \in {"RUNNABLE", "RUNNING"}
  PROVE  Stack(x)' /\ Sleeping(x)'
<1>1. Stack(x) /\ Sleeping(x)
  BY DEF IInv, Stacks
<1>2. Pos(x)' = Pos(x) /\ (Leaving(x)' <=> Leaving(x)) /\ (state'[x] \in NotAlive => state[x] \in NotAlive)
  BY DEF Pos, Leaving, NotAlive
<1> QED
  BY <1>1, <1>2 DEF Stack, Sleeping

\* The process that moves has a sound frame.
LEMMA KeepStacks ==
  ASSUME IInv, NEW p \in Procs, NEW l, NEW m, NEW r, NEW j, NEW a, Moved(p, l, m, r, j, a),
         k[p].pc # "swtch", Stack(p)', Roused, UNCHANGED <<chan, parent>>
  PROVE  Stacks'
<1>1. ASSUME NEW q \in Procs, q # p PROVE Stack(q)' /\ Sleeping(q)'
  BY <1>1, OtherStack DEF Moved, Roused
<1>2. Sleeping(p)'
  BY RunsThere DEF Sleeping, Roused
<1> QED
  BY <1>1, <1>2 DEF Stacks

\* The process that moves is not in fork.
LEMMA KeepChildren ==
  ASSUME IInv, NEW p \in Procs, NEW l, NEW m, NEW r, NEW j, NEW a, Moved(p, l, m, r, j, a),
         k[p].pc \notin ForkPCs, k[p].pc # "swtch", l \notin ForkPCs, l # "swtch",
         Roused, UNCHANGED parent
  PROVE  Children'
BY SMT DEF IInv, Roused, Children, ForkPCs, Pos, Moved

\* The process that moves does not leave.
LEMMA KeepFamily ==
  ASSUME IInv, NEW p \in Procs, NEW l, NEW m, NEW r, NEW j, NEW a, Moved(p, l, m, r, j, a),
         Leaving(p)' => Leaving(p), l = "reparent" => p # initproc, Roused, UNCHANGED parent
  PROVE  Family'
<1>1. \A q \in Procs : Leaving(q)' => Leaving(q)
  BY DEF Moved, Leaving
<1>2. k'[initproc].pc # "reparent"
  BY Constants DEF IInv, Family, Moved
<1> QED
  BY <1>1, <1>2, Constants DEF IInv, Family, Roused, NotAlive

\* The process that moves is neither in wait nor in exit.
LEMMA KeepWaiting ==
  ASSUME IInv, NEW p \in Procs, NEW l, NEW m, NEW r, NEW j, NEW a, Moved(p, l, m, r, j, a),
         k[p].pc # "wakeup", Roused, UNCHANGED <<chan, parent>>,
         l \notin {"wakeup", "exit_lock", "exit_zombie", "wait_scan", "sleep", "sleep_set"}
  PROVE  Waiting'
BY SMT DEF IInv, Waiting, Moved, Roused

\* The process that moves does not use the sleep lock.
LEMMA KeepExclusive ==
  ASSUME IInv, NEW p \in Procs, NEW l, NEW m, NEW r, NEW j, NEW a, Moved(p, l, m, r, j, a),
         k[p].pc # "wakeup", l \notin {"held", "swtch", "sleep", "sleep_set"},
         Roused, UNCHANGED <<chan, locked>>
  PROVE  Exclusive'
BY SMT DEF IInv, Roused, Exclusive, Pos, Moved

\* No mark and no pid changes.
LEMMA KeepMarks ==
  ASSUME IInv, UNCHANGED <<state, killed, pid>>
  PROVE  Marks'
BY DEF IInv, Marks

\* Only the frame of one process changes.
LEMMA KeepType ==
  ASSUME IInv, k' \in [Procs -> Frame], UNCHANGED <<table, plock, lock, locked, cproc>>
  PROVE  TypeOK'
BY DEF IInv, TypeOK, table

-----------------------------------------------------------------------------
(* The steps that hold no lock preserve the invariant.                     *)

\* The places where a process holds no spin lock and has no slot to fill.
WalkPCs == {"user", "trapret", "allocproc", "exit", "wait", "kill", "acquiresleep", "panic"}

\* A step between two places that hold no lock.
LEMMA WalkInv ==
  ASSUME IInv, NEW p \in Procs, NEW l, NEW m, NEW r, NEW j, NEW a, Moved(p, l, m, r, j, a),
         k[p].pc \in WalkPCs, l \in WalkPCs, TypeOK', Marks',
         l = "kill" => a \in KillPids, l = "exit" => m \in {"user", "exit"},
         Roused, UNCHANGED <<chan, parent, plock, lock, locked, cproc>>
  PROVE  IInv'
<1>1. OnCpu' /\ ProcLocks'
  BY KeepOnCpu, KeepProcLocks DEF WalkPCs, OwnPCs
<1>2. Locks'
  <2>1. /\ ~HoldsWait(p) /\ ~HoldsLk(p)
        /\ ~HoldsWait(p)' /\ ~HoldsLk(p)'
    BY DEF WalkPCs, HoldsWait, HoldsLk, Moved
  <2> QED
    BY <2>1, KeepLocks
<1>3. Stacks'
  <2>1. state'[p] = "RUNNING"
    BY RunsThere, SMT DEF WalkPCs, Roused
  <2>2. Stack(p)'
    BY <2>1 DEF Stack, Pos, Leaving, WalkPCs, NotAlive, Moved
  <2> QED
    BY <2>2, KeepStacks DEF WalkPCs
<1>4. Children'
  BY KeepChildren DEF WalkPCs, ForkPCs
<1>5. Family'
  <2>1. ~Leaving(p)' /\ l # "reparent"
    BY DEF WalkPCs, Leaving, Moved
  <2> QED
    BY <2>1, KeepFamily
<1>6. Waiting' /\ Exclusive'
  BY KeepWaiting, KeepExclusive DEF WalkPCs
<1> QED
  BY <1>1, <1>2, <1>3, <1>4, <1>5, <1>6 DEF IInv

\* Such a step that leaves the table alone.
LEMMA QuietInv ==
  ASSUME IInv, NEW p \in Procs, NEW l, NEW m, NEW r, NEW j, NEW a, Moved(p, l, m, r, j, a),
         k[p].pc \in WalkPCs, l \in WalkPCs,
         l = "kill" => a \in KillPids, l = "exit" => m \in {"user", "exit"},
         UNCHANGED <<table, plock, lock, locked, cproc>>
  PROVE  IInv'
<1>1. TypeOK' /\ Marks'
  BY KeepType, KeepMarks DEF Moved, table
<1>2. Roused /\ UNCHANGED <<chan, parent, plock, lock, locked, cproc>>
  BY DEF Roused, table
<1> QED
  BY <1>1, <1>2, WalkInv

\* A system call is entered.
LEMMA SyscallInv ==
  ASSUME IInv, NEW c \in Cpus, NEW p \in Procs, NEW op, NEW l \in WalkPCs, NEW n \in Int,
         l = "kill" => n \in KillPids, Syscall(c, p, op, l, n)
  PROVE  IInv'
<1>1. l \in PCs
  BY DEF PCs, WalkPCs
<1>2. Moved(p, l, "user", "user", 0, n)
  BY <1>1, UserMoved, Constants DEF Syscall, IInv, TypeOK
<1>3. UNCHANGED <<table, plock, lock, locked, cproc>> /\ k[p].pc \in WalkPCs
  BY DEF Syscall, At, WalkPCs
<1> QED
  BY <1>2, <1>3, QuietInv

\* usertrap(): the entry into every system call.
LEMMA EnterInv ==
  ASSUME IInv, NEW c \in Cpus, NEW p \in Procs, Enter(c, p)
  PROVE  IInv'
<1>1. {"allocproc", "exit", "wait", "kill", "acquiresleep"} \subseteq WalkPCs /\ -1 \in Int
  BY SMT DEF WalkPCs
<1>2. KillPids \subseteq Int
  BY ProcAssumption DEF ProcAssumption
<1> QED
  BY <1>1, <1>2, SyscallInv DEF Enter

\* usertrap() after the call: the check of p->killed, or back to user space.
LEMMA TrapretInv ==
  ASSUME IInv, NEW c \in Cpus, NEW p \in Procs, trapret(c, p)
  PROVE  IInv'
<1>1. PICK l \in {"exit", "user"} : Moved(p, l, "user", "user", 0, -1)
  <2> DEFINE f == IF killed[p] THEN [UserFrame EXCEPT !.pc = "exit"] ELSE UserFrame
  <2>1. "exit" \in PCs /\ "user" \in PCs /\ -1 \in Int /\ 0 \in 0..NPROC
    BY Constants, SMT DEF PCs
  <2>2. /\ f \in Frame /\ f.pc \in {"exit", "user"} /\ f.ipc = "user" /\ f.ret = "user"
        /\ f.i = 0 /\ f.arg = -1
    <3>1. CASE killed[p]
      BY <2>1, <3>1 DEF Frame, UserFrame
    <3>2. CASE ~killed[p]
      BY <2>1, <3>2 DEF Frame, UserFrame
    <3> QED
      BY <3>1, <3>2
  <2>3. k' = [k EXCEPT ![p] = f]
    BY DEF trapret
  <2> HIDE DEF f
  <2>4. Moved(p, f.pc, f.ipc, f.ret, f.i, f.arg)
    BY <2>2, <2>3, FrameMoved DEF IInv, TypeOK
  <2> QED
    BY <2>2, <2>4
<1>2. UNCHANGED <<table, plock, lock, locked, cproc>> /\ k[p].pc \in WalkPCs /\ l \in WalkPCs
  BY DEF trapret, At, WalkPCs
<1> QED
  BY <1>1, <1>2, QuietInv

\* kill(): one slot of its loop.
LEMMA KillInv ==
  ASSUME IInv, NEW c \in Cpus, NEW p \in Procs, kill(c, p)
  PROVE  IInv'
<1> DEFINE q == k[p].i
<1>1. /\ k[p].pc = "kill" /\ k[p].pc \in WalkPCs /\ "trapret" \in WalkPCs /\ "trapret" \in PCs
      /\ "user" \in PCs /\ k \in [Procs -> Frame] /\ NPROC \in Nat /\ k[p].arg \in KillPids
      /\ UNCHANGED <<chan, parent, pid, nextpid, plock, lock, locked, cproc>>
  BY Constants DEF kill, At, WalkPCs, PCs, IInv, TypeOK, Stacks, Stack, Pos
<1>2. CASE Goto(p, "trapret") /\ UNCHANGED <<state, killed>>
  <2>1. Moved(p, "trapret", k[p].ipc, k[p].ret, k[p].i, k[p].arg)
    BY <1>1, <1>2, GotoMoved
  <2> QED
    BY <1>1, <1>2, <2>1, QuietInv, SMT DEF table
<1>3. CASE q < NPROC /\ k' = [k EXCEPT ![p].i = @ + 1, ![p].ipc = "user"] /\ UNCHANGED <<state, killed>>
  <2>1. Moved(p, "kill", "user", k[p].ret, k[p].i + 1, k[p].arg)
    BY <1>1, <1>3, TurnMoved
  <2> QED
    BY <1>1, <1>3, <2>1, QuietInv DEF table
<1>4. CASE /\ q < NPROC /\ pid[q] = k[p].arg /\ killed' = [killed EXCEPT ![q] = TRUE]
           /\ state' = IF state[q] = "SLEEPING" THEN [state EXCEPT ![q] = "RUNNABLE"] ELSE state
           /\ Goto(p, "trapret")
  <2>1. Moved(p, "trapret", k[p].ipc, k[p].ret, k[p].i, k[p].arg)
    BY <1>1, <1>4, GotoMoved
  <2>3. q \in Procs
    BY <1>1, <1>4, SMT DEF Frame, Procs
  <2>4. state \in [Procs -> States] /\ killed \in [Procs -> BOOLEAN]
    BY DEF IInv, TypeOK
  <2>5. Roused
    BY <1>4, <2>3, <2>4 DEF Roused
  <2>6. /\ state' \in [Procs -> States] /\ killed' \in [Procs -> BOOLEAN]
        /\ \A x \in Procs : state'[x] = "UNUSED" <=> state[x] = "UNUSED"
        /\ \A x \in Procs : killed'[x] => x = q \/ killed[x]
    BY <1>4, <2>3, <2>4 DEF States
  <2>7. TypeOK'
    BY <1>1, <2>1, <2>6 DEF IInv, TypeOK, Moved
  <2>8. Marks'
    BY <1>1, <1>4, <2>3, <2>6, SMT DEF IInv, TypeOK, Marks
  <2> QED
    BY <1>1, <2>1, <2>5, <2>7, <2>8, WalkInv, SMT
<1> QED
  BY <1>2, <1>3, <1>4 DEF kill

-----------------------------------------------------------------------------
(* The steps that take or release a spin lock and leave the table alone.   *)

\* The one process that moves takes or releases its own spin lock.
LEMMA LockStep ==
  ASSUME IInv, NEW c \in Cpus, NEW p \in Procs, cproc[c] = p,
         NEW l, NEW m, NEW r, NEW j, NEW a, Moved(p, l, m, r, j, a), UNCHANGED cproc,
         \/ lock'["wait_lock"] = lock["wait_lock"] /\ (HoldsWait(p)' <=> HoldsWait(p))
         \/ lock["wait_lock"] = NoCpu /\ lock'["wait_lock"] = c /\ HoldsWait(p)'
         \/ HoldsWait(p) /\ lock'["wait_lock"] = NoCpu /\ ~HoldsWait(p)',
         \/ lock'["lk"] = lock["lk"] /\ (HoldsLk(p)' <=> HoldsLk(p))
         \/ lock["lk"] = NoCpu /\ lock'["lk"] = c /\ HoldsLk(p)'
         \/ HoldsLk(p) /\ lock'["lk"] = NoCpu /\ ~HoldsLk(p)'
  PROVE  Locks'
<1>1. \A q \in Procs : q # p => (HoldsWait(q)' <=> HoldsWait(q)) /\ (HoldsLk(q)' <=> HoldsLk(q))
  BY DEF Moved, HoldsWait, HoldsLk
<1>2. \A d \in Cpus : cproc[d] = p => d = c
  BY Constants DEF IInv, OnCpu
<1>3. /\ HoldsWait(p) => lock["wait_lock"] = c
      /\ HoldsLk(p) => lock["lk"] = c
  BY DEF IInv, Locks
<1>4. NoCpu \notin Cpus /\ NoProc # p
  BY Constants
<1>5. ASSUME NEW d \in Cpus, NEW q \in Procs, cproc[d] = q
      PROVE  HoldsWait(q)' <=> lock'["wait_lock"] = d
  BY <1>1, <1>2, <1>3, <1>4, <1>5 DEF IInv, Locks
<1>6. ASSUME NEW d \in Cpus, NEW q \in Procs, cproc[d] = q
      PROVE  HoldsLk(q)' <=> lock'["lk"] = d
  BY <1>1, <1>2, <1>3, <1>4, <1>6 DEF IInv, Locks
<1>7. \A d \in Cpus : d \in {lock'["wait_lock"], lock'["lk"]} => cproc[d] # NoProc
  BY <1>4 DEF IInv, Locks
<1> QED
  BY <1>5, <1>6, <1>7 DEF Locks

\* A step that moves one process on and may wake sleepers.
LEMMA RouseInv ==
  ASSUME IInv, NEW p \in Procs, NEW l, NEW r, NEW j, NEW a, Moved(p, l, k[p].ipc, r, j, a),
         Roused, UNCHANGED <<chan, parent, cproc>>, k[p].pc \notin ForkPCs \cup {"swtch"},
         l \notin ForkPCs \cup {"swtch", "allocproc"},
         Leaving(p)' => Leaving(p), l = "reparent" => p # initproc,
         TypeOK', ProcLocks', Locks', Stack(p)', Waiting', Exclusive', Marks'
  PROVE  IInv'
<1>1. OnCpu'
  BY KeepOnCpu
<1>2. Stacks'
  BY KeepStacks
<1>3. Children' /\ Family'
  BY KeepChildren, KeepFamily
<1> QED
  BY <1>1, <1>2, <1>3 DEF IInv

\* A step that changes one frame and spin locks, not the table.
LEMMA MoveInv ==
  ASSUME IInv, NEW p \in Procs, NEW l, NEW r, NEW j, NEW a, Moved(p, l, k[p].ipc, r, j, a),
         UNCHANGED <<table, cproc>>, k[p].pc \notin ForkPCs \cup {"swtch"},
         l \notin ForkPCs \cup {"swtch", "allocproc"},
         Leaving(p)' => Leaving(p), l = "reparent" => p # initproc,
         TypeOK', ProcLocks', Locks', Stack(p)', Waiting', Exclusive'
  PROVE  IInv'
<1>1. Roused /\ UNCHANGED <<state, chan, killed, parent, pid, nextpid, cproc>>
  BY DEF Roused, table
<1>2. Marks'
  BY <1>1, KeepMarks
<1> QED
  BY <1>1, <1>2, RouseInv

\* The types after such a step.
LEMMA MoveType ==
  ASSUME IInv, k' \in [Procs -> Frame], UNCHANGED <<table, cproc>>,
         plock' \in [Procs -> Cpus \cup {NoCpu}], locked' \in Procs \cup {NoProc},
         lock' \in [{"wait_lock", "lk"} -> Cpus \cup {NoCpu}]
  PROVE  TypeOK'
BY DEF IInv, TypeOK, table

\* acquire().
LEMMA AcquireType ==
  ASSUME IInv, NEW c \in Cpus, NEW x \in {"wait_lock", "lk"}, Acquire(x, c)
  PROVE  /\ lock' \in [{"wait_lock", "lk"} -> Cpus \cup {NoCpu}]
         /\ lock[x] = NoCpu /\ lock'[x] = c
         /\ \A y \in {"wait_lock", "lk"} : y # x => lock'[y] = lock[y]
BY DEF IInv, TypeOK, Acquire

\* release().
LEMMA ReleaseType ==
  ASSUME IInv, NEW x \in {"wait_lock", "lk"}, Release(x)
  PROVE  /\ lock' \in [{"wait_lock", "lk"} -> Cpus \cup {NoCpu}]
         /\ lock'[x] = NoCpu
         /\ \A y \in {"wait_lock", "lk"} : y # x => lock'[y] = lock[y]
BY DEF IInv, TypeOK, Release

\* exit() takes wait_lock.
LEMMA ExitInv ==
  ASSUME IInv, NEW c \in Cpus, NEW p \in Procs, exit(c, p)
  PROVE  IInv'
<1>1. /\ k[p].pc = "exit" /\ cproc[c] = p /\ k \in [Procs -> Frame] /\ UNCHANGED <<table, plock, locked, cproc>>
      /\ "panic" \in PCs /\ "reparent" \in PCs
  BY DEF exit, At, IInv, TypeOK, PCs
<1>2. CASE p = initproc
  <2>1. Moved(p, "panic", k[p].ipc, k[p].ret, k[p].i, k[p].arg)
    BY <1>1, <1>2, GotoMoved DEF exit
  <2>3. UNCHANGED lock
    BY <1>2 DEF exit
  <2> QED
    BY <1>1, <2>1, <2>3, QuietInv DEF WalkPCs
<1>3. CASE p # initproc
  <2>1. Moved(p, "reparent", k[p].ipc, k[p].ret, k[p].i, k[p].arg) /\ Acquire("wait_lock", c)
    BY <1>1, <1>3, GotoMoved DEF exit
  <2>2. /\ lock' \in [{"wait_lock", "lk"} -> Cpus \cup {NoCpu}]
        /\ lock["wait_lock"] = NoCpu /\ lock'["wait_lock"] = c /\ lock'["lk"] = lock["lk"]
    BY <2>1, AcquireType
  <2>3. TypeOK'
    BY <1>1, <2>1, <2>2, MoveType DEF IInv, TypeOK, Moved
  <2>4. ProcLocks'
    BY <1>1, <2>1, KeepProcLocks, SMT DEF OwnPCs
  <2>5. Locks'
    <3>1. HoldsWait(p)' /\ (HoldsLk(p)' <=> HoldsLk(p))
      BY <1>1, <2>1 DEF HoldsWait, HoldsLk, Moved
    <3> QED
      BY <1>1, <2>1, <2>2, <3>1, LockStep
  <2>6. Stack(p)'
    BY <1>1, <2>1 DEF IInv, Stacks, Stack, Pos, Leaving, Moved
  <2>7. Waiting' /\ Exclusive'
    BY <1>1, <2>1, KeepWaiting, KeepExclusive, SMT DEF Roused, table
  <2>8. ~Leaving(p)'
    BY <2>1 DEF Leaving, Moved
  <2> QED
    BY <1>1, <1>3, <2>1, <2>3, <2>4, <2>5, <2>6, <2>7, <2>8, MoveInv, SMT DEF ForkPCs
<1> QED
  BY <1>2, <1>3

\* wait() takes wait_lock.
LEMMA WaitInv ==
  ASSUME IInv, NEW c \in Cpus, NEW p \in Procs, wait(c, p)
  PROVE  IInv'
<1>1. /\ k[p].pc = "wait" /\ cproc[c] = p /\ k \in [Procs -> Frame] /\ Acquire("wait_lock", c)
      /\ UNCHANGED <<table, plock, locked, cproc>>
  BY DEF wait, At, IInv, TypeOK
<1>2. Moved(p, "wait_scan", k[p].ipc, k[p].ret, 0, k[p].arg)
  <2>1. "wait_scan" \in PCs /\ k[p].ret \in PCs /\ k[p].arg \in Int
    BY <1>1 DEF PCs, Frame
  <2>2. k' = [k EXCEPT ![p].pc = "wait_scan", ![p].i = 0, ![p].kids = FALSE]
    BY DEF wait
  <2> QED
    BY <1>1, <2>1, <2>2, LoopMoved, Constants
<1>3. /\ lock' \in [{"wait_lock", "lk"} -> Cpus \cup {NoCpu}]
      /\ lock["wait_lock"] = NoCpu /\ lock'["wait_lock"] = c /\ lock'["lk"] = lock["lk"]
  BY <1>1, AcquireType
<1>4. TypeOK'
  BY <1>1, <1>2, <1>3, MoveType DEF IInv, TypeOK, Moved
<1>5. ProcLocks'
  BY <1>1, <1>2, KeepProcLocks, SMT DEF OwnPCs
<1>6. Locks'
  <2>1. HoldsWait(p)' /\ (HoldsLk(p)' <=> HoldsLk(p))
    BY <1>1, <1>2 DEF HoldsWait, HoldsLk, Moved
  <2> QED
    BY <1>1, <1>2, <1>3, <2>1, LockStep
<1>7. Stack(p)' /\ ~Leaving(p)'
  <2>1. state'[p] = "RUNNING"
    BY <1>1, RunsThere DEF table
  <2> QED
    BY <1>2, <2>1 DEF Stack, Pos, Leaving, NotAlive, Moved
<1>8. Waiting'
  <2>1. \A q \in Procs : 0 <= q
    BY SMT DEF Procs
  <2> QED
    BY <1>1, <1>2, <2>1, SMT DEF IInv, Waiting, Moved, table
<1>9. Exclusive'
  BY <1>1, <1>2, KeepExclusive, SMT DEF Roused, table
<1>10. /\ k[p].pc \notin ForkPCs \cup {"swtch"} /\ "wait_scan" # "reparent"
       /\ "wait_scan" \notin ForkPCs \cup {"swtch", "allocproc"}
  BY <1>1 DEF ForkPCs
<1> QED
  BY <1>1, <1>2, <1>4, <1>5, <1>6, <1>7, <1>8, <1>9, <1>10, MoveInv

\* acquiresleep() takes lk.
LEMMA AcquiresleepInv ==
  ASSUME IInv, NEW c \in Cpus, NEW p \in Procs, acquiresleep(c, p)
  PROVE  IInv'
<1>1. /\ k[p].pc = "acquiresleep" /\ cproc[c] = p /\ k \in [Procs -> Frame] /\ Acquire("lk", c)
      /\ UNCHANGED <<table, plock, locked, cproc>> /\ "as_check" \in PCs
  BY DEF acquiresleep, At, IInv, TypeOK, PCs
<1>2. Moved(p, "as_check", k[p].ipc, k[p].ret, k[p].i, k[p].arg)
  BY <1>1, GotoMoved DEF acquiresleep
<1>3. /\ lock' \in [{"wait_lock", "lk"} -> Cpus \cup {NoCpu}]
      /\ lock["lk"] = NoCpu /\ lock'["lk"] = c /\ lock'["wait_lock"] = lock["wait_lock"]
  BY <1>1, AcquireType
<1>4. TypeOK'
  BY <1>1, <1>2, <1>3, MoveType DEF IInv, TypeOK, Moved
<1>5. ProcLocks'
  BY <1>1, <1>2, KeepProcLocks, SMT DEF OwnPCs
<1>6. Locks'
  <2>1. HoldsLk(p)' /\ (HoldsWait(p)' <=> HoldsWait(p))
    BY <1>1, <1>2 DEF HoldsWait, HoldsLk, Moved
  <2> QED
    BY <1>1, <1>2, <1>3, <2>1, LockStep
<1>7. Stack(p)' /\ ~Leaving(p)'
  <2>1. state'[p] = "RUNNING"
    BY <1>1, RunsThere DEF table
  <2> QED
    BY <1>2, <2>1 DEF Stack, Pos, Leaving, NotAlive, Moved
<1>8. Waiting' /\ Exclusive'
  BY <1>1, <1>2, KeepWaiting, KeepExclusive, SMT DEF Roused, table
<1>9. /\ k[p].pc \notin ForkPCs \cup {"swtch"} /\ "as_check" # "reparent"
      /\ "as_check" \notin ForkPCs \cup {"swtch", "allocproc"}
  BY <1>1 DEF ForkPCs
<1> QED
  BY <1>1, <1>2, <1>4, <1>5, <1>6, <1>7, <1>8, <1>9, MoveInv

\* releasesleep() releases lk.
LEMMA RsDoneInv ==
  ASSUME IInv, NEW c \in Cpus, NEW p \in Procs, rs_done(c, p)
  PROVE  IInv'
<1>1. /\ k[p].pc = "rs_done" /\ cproc[c] = p /\ k \in [Procs -> Frame] /\ Release("lk")
      /\ UNCHANGED <<table, plock, locked, cproc>> /\ "trapret" \in PCs
  BY DEF rs_done, At, IInv, TypeOK, PCs
<1>2. Moved(p, "trapret", k[p].ipc, k[p].ret, k[p].i, k[p].arg)
  BY <1>1, GotoMoved DEF rs_done
<1>3. /\ lock' \in [{"wait_lock", "lk"} -> Cpus \cup {NoCpu}]
      /\ lock'["lk"] = NoCpu /\ lock'["wait_lock"] = lock["wait_lock"]
  BY <1>1, ReleaseType
<1>4. TypeOK'
  BY <1>1, <1>2, <1>3, MoveType DEF IInv, TypeOK, Moved
<1>5. ProcLocks'
  BY <1>1, <1>2, KeepProcLocks, SMT DEF OwnPCs
<1>6. Locks'
  <2>1. HoldsLk(p) /\ ~HoldsLk(p)' /\ (HoldsWait(p)' <=> HoldsWait(p))
    BY <1>1, <1>2 DEF HoldsWait, HoldsLk, Moved
  <2> QED
    BY <1>1, <1>2, <1>3, <2>1, LockStep
<1>7. Stack(p)' /\ ~Leaving(p)'
  <2>1. state'[p] = "RUNNING"
    BY <1>1, RunsThere DEF table
  <2> QED
    BY <1>2, <2>1 DEF Stack, Pos, Leaving, NotAlive, Moved
<1>8. Waiting' /\ Exclusive'
  BY <1>1, <1>2, KeepWaiting, KeepExclusive, SMT DEF Roused, table
<1>9. /\ k[p].pc \notin ForkPCs \cup {"swtch"} /\ "trapret" # "reparent"
      /\ "trapret" \notin ForkPCs \cup {"swtch", "allocproc"}
  BY <1>1 DEF ForkPCs
<1> QED
  BY <1>1, <1>2, <1>4, <1>5, <1>6, <1>7, <1>8, <1>9, MoveInv

\* exit(): wakeup(p->parent) after reparent().
LEMMA ExitWakeupInv ==
  ASSUME IInv, NEW c \in Cpus, NEW p \in Procs, exit_wakeup(c, p)
  PROVE  IInv'
<1>1. /\ k[p].pc = "exit_wakeup" /\ cproc[c] = p /\ k \in [Procs -> Frame]
      /\ UNCHANGED <<table, plock, lock, locked, cproc>> /\ "wakeup" \in PCs /\ "exit_lock" \in PCs
      /\ parent[p] \in Int
  BY Constants DEF exit_wakeup, At, IInv, TypeOK, PCs
<1>2. Moved(p, "wakeup", k[p].ipc, "exit_lock", 0, parent[p])
  BY <1>1, CallMoved, Constants DEF exit_wakeup
<1>3. TypeOK'
  BY <1>1, <1>2, MoveType DEF IInv, TypeOK, Moved
<1>4. ProcLocks'
  BY <1>1, <1>2, KeepProcLocks DEF OwnPCs
<1>5. Locks'
  <2>1. (HoldsWait(p)' <=> HoldsWait(p)) /\ (HoldsLk(p)' <=> HoldsLk(p))
    BY <1>1, <1>2 DEF HoldsWait, HoldsLk, Moved
  <2> QED
    BY <1>1, <1>2, <2>1, KeepLocks
<1>6. Stack(p)' /\ Leaving(p)
  BY <1>1, <1>2 DEF IInv, Stacks, Stack, Pos, Leaving, Moved, table
<1>7. Waiting'
  <2>1. \A q \in Procs : 0 <= q
    BY SMT DEF Procs
  <2> QED
    BY <1>1, <1>2, <2>1, SMT DEF IInv, Waiting, Moved, table
<1>8. Exclusive'
  BY <1>1, <1>2, KeepExclusive DEF Roused, table
<1>9. /\ k[p].pc \notin ForkPCs \cup {"swtch"} /\ "wakeup" # "reparent"
      /\ "wakeup" \notin ForkPCs \cup {"swtch", "allocproc"}
  BY <1>1 DEF ForkPCs
<1> QED
  BY <1>1, <1>2, <1>3, <1>4, <1>5, <1>6, <1>7, <1>8, <1>9, MoveInv

\* A process takes its own p->lock, to sleep or to become a zombie.
LEMMA OwnLock ==
  ASSUME IInv, NEW c \in Cpus, NEW p \in Procs, cproc[c] = p, Free(p),
         NEW l \in OwnPCs, NEW m, NEW r, NEW j, NEW a, Moved(p, l, m, r, j, a),
         k[p].pc # "fork_copy", plock' = [plock EXCEPT ![p] = c], UNCHANGED cproc
  PROVE  /\ ProcLocks'
         /\ plock' \in [Procs -> Cpus \cup {NoCpu}]
<1>1. plock \in [Procs -> Cpus \cup {NoCpu}] /\ p # NoProc
  BY Constants DEF IInv, TypeOK
<1>2. plock'[p] = c /\ \A q \in Procs : q # p => plock'[q] = plock[q]
  BY <1>1
<1>3. \A d \in Cpus : cproc[d] = p => d = c
  BY <1>1 DEF IInv, OnCpu
<1>4. NoCpu \notin Cpus /\ k[p].pc \notin OwnPCs
  BY Constants, SMT DEF IInv, ProcLocks, Free
<1>5. ASSUME NEW d \in Cpus, NEW q \in Procs, plock'[q] = d
      PROVE  \/ cproc'[d] = q /\ k'[q].pc \in OwnPCs
             \/ \E x \in Procs : cproc'[d] = x /\ k'[x].pc = "fork_copy" /\ k'[x].i = q
  BY <1>2, <1>3, <1>4, <1>5, SMT DEF IInv, ProcLocks, Moved
<1>6. ASSUME NEW d \in Cpus, NEW q \in Procs, cproc[d] = q
      PROVE  /\ k'[q].pc \in OwnPCs => plock'[q] = d
             /\ k'[q].pc = "fork_copy" => plock'[k'[q].i] = d
  <2>1. CASE q = p
    BY <1>2, <1>3, <1>6, <2>1 DEF Moved, OwnPCs
  <2>2. CASE q # p
    <3>1. k'[q] = k[q]
      BY <2>2 DEF Moved
    <3>2. k[q].pc = "fork_copy" => k[q].i \in Procs /\ k[q].i # p
      BY <1>4, <1>6, SMT DEF IInv, ProcLocks, Free, Children, ForkPCs, Pos
    <3> QED
      BY <1>2, <1>6, <2>2, <3>1, <3>2, SMT DEF IInv, ProcLocks
  <2> QED
    BY <2>1, <2>2
<1>7. plock' \in [Procs -> Cpus \cup {NoCpu}]
  BY <1>1
<1> QED
  BY <1>5, <1>6, <1>7 DEF ProcLocks

\* exit() takes p->lock.
LEMMA ExitLockInv ==
  ASSUME IInv, NEW c \in Cpus, NEW p \in Procs, exit_lock(c, p)
  PROVE  IInv'
<1>1. /\ k[p].pc = "exit_lock" /\ cproc[c] = p /\ k \in [Procs -> Frame] /\ Free(p)
      /\ plock' = [plock EXCEPT ![p] = c]
      /\ UNCHANGED <<table, lock, locked, cproc>> /\ "exit_zombie" \in PCs
  BY DEF exit_lock, At, IInv, TypeOK, PCs
<1>2. Moved(p, "exit_zombie", k[p].ipc, k[p].ret, k[p].i, k[p].arg)
  BY <1>1, GotoMoved DEF exit_lock
<1>3. ProcLocks' /\ plock' \in [Procs -> Cpus \cup {NoCpu}]
  <2>1. "exit_zombie" \in OwnPCs
    BY DEF OwnPCs
  <2> QED
    BY <1>1, <1>2, <2>1, OwnLock
<1>4. TypeOK'
  BY <1>1, <1>2, <1>3, MoveType DEF IInv, TypeOK, Moved
<1>5. Locks'
  <2>1. (HoldsWait(p)' <=> HoldsWait(p)) /\ (HoldsLk(p)' <=> HoldsLk(p))
    BY <1>1, <1>2 DEF HoldsWait, HoldsLk, Moved
  <2> QED
    BY <1>1, <1>2, <2>1, KeepLocks
<1>6. Stack(p)' /\ Leaving(p)
  BY <1>1, <1>2 DEF IInv, Stacks, Stack, Pos, Leaving, Moved
<1>7. Waiting'
  BY <1>1, <1>2, SMTT(30) DEF IInv, Waiting, Moved, table
<1>8. Exclusive'
  BY <1>1, <1>2, KeepExclusive, SMT DEF Roused, table
<1>9. /\ k[p].pc \notin ForkPCs \cup {"swtch"} /\ "exit_zombie" # "reparent"
      /\ "exit_zombie" \notin ForkPCs \cup {"swtch", "allocproc"}
  BY <1>1 DEF ForkPCs
<1> QED
  BY <1>1, <1>2, <1>3, <1>4, <1>5, <1>6, <1>7, <1>8, <1>9, MoveInv

\* sleep() takes p->lock.
LEMMA SleepInv ==
  ASSUME IInv, NEW c \in Cpus, NEW p \in Procs, sleep(c, p)
  PROVE  IInv'
<1>1. /\ k[p].pc = "sleep" /\ cproc[c] = p /\ k \in [Procs -> Frame] /\ Free(p)
      /\ plock' = [plock EXCEPT ![p] = c]
      /\ UNCHANGED <<table, lock, locked, cproc>> /\ "sleep_set" \in PCs
  BY DEF sleep, At, IInv, TypeOK, PCs
<1>2. Moved(p, "sleep_set", k[p].ipc, k[p].ret, k[p].i, k[p].arg)
  BY <1>1, GotoMoved DEF sleep
<1>3. ProcLocks' /\ plock' \in [Procs -> Cpus \cup {NoCpu}]
  <2>1. "sleep_set" \in OwnPCs
    BY DEF OwnPCs
  <2> QED
    BY <1>1, <1>2, <2>1, OwnLock
<1>4. TypeOK'
  BY <1>1, <1>2, <1>3, MoveType DEF IInv, TypeOK, Moved
<1>5. Locks'
  <2>1. (HoldsWait(p)' <=> HoldsWait(p)) /\ (HoldsLk(p)' <=> HoldsLk(p))
    BY <1>1, <1>2 DEF HoldsWait, HoldsLk, Moved
  <2> QED
    BY <1>1, <1>2, <2>1, KeepLocks
<1>6. Stack(p)' /\ ~Leaving(p)'
  <2>1. state'[p] = "RUNNING"
    BY <1>1, RunsThere DEF table
  <2> QED
    BY <1>1, <1>2, <2>1 DEF IInv, Stacks, Stack, Pos, Leaving, NotAlive, Moved
<1>7. Waiting'
  BY <1>1, <1>2, SMTT(30) DEF IInv, Waiting, Moved, table
<1>8. Exclusive'
  BY <1>1, <1>2, SMT DEF IInv, Exclusive, Pos, Moved, table
<1>9. /\ k[p].pc \notin ForkPCs \cup {"swtch"} /\ "sleep_set" # "reparent"
      /\ "sleep_set" \notin ForkPCs \cup {"swtch", "allocproc"}
  BY <1>1 DEF ForkPCs
<1> QED
  BY <1>1, <1>2, <1>3, <1>4, <1>5, <1>6, <1>7, <1>8, <1>9, MoveInv

\* sleep() returns with its lock.
LEMMA ReacquireInv ==
  ASSUME IInv, NEW c \in Cpus, NEW p \in Procs, reacquire(c, p)
  PROVE  IInv'
<1>1. /\ k[p].pc = "reacquire" /\ cproc[c] = p /\ k \in [Procs -> Frame] /\ Acquire(SleepLock(p), c)
      /\ UNCHANGED <<table, plock, locked, cproc>> /\ Goto(p, k[p].ret)
  BY DEF reacquire, At, IInv, TypeOK
<1>2. \/ k[p].ret = "wait_scan" /\ SleepLock(p) = "wait_lock" /\ k[p].i = 0
      \/ k[p].ret = "as_check" /\ SleepLock(p) = "lk"
  BY <1>1, Constants DEF IInv, Stacks, Stack, Pos, SleepLock
<1>3. Moved(p, k[p].ret, k[p].ipc, k[p].ret, k[p].i, k[p].arg)
  <2>1. k[p].ret \in PCs
    BY <1>1 DEF Frame
  <2> QED
    BY <1>1, <2>1, GotoMoved
<1>4. /\ lock' \in [{"wait_lock", "lk"} -> Cpus \cup {NoCpu}]
      /\ \/ /\ k[p].ret = "wait_scan" /\ k[p].i = 0
            /\ lock["wait_lock"] = NoCpu /\ lock'["wait_lock"] = c /\ lock'["lk"] = lock["lk"]
         \/ /\ k[p].ret = "as_check"
            /\ lock["lk"] = NoCpu /\ lock'["lk"] = c /\ lock'["wait_lock"] = lock["wait_lock"]
  BY <1>1, <1>2, AcquireType
<1>5. TypeOK'
  BY <1>1, <1>3, <1>4, MoveType DEF IInv, TypeOK, Moved
<1>6. ProcLocks'
  BY <1>1, <1>2, <1>3, KeepProcLocks DEF OwnPCs
<1>7. Locks'
  <2>1. /\ ~HoldsWait(p) /\ ~HoldsLk(p)
        /\ HoldsWait(p)' <=> k[p].ret = "wait_scan"
        /\ HoldsLk(p)' <=> k[p].ret = "as_check"
    BY <1>1, <1>2, <1>3 DEF HoldsWait, HoldsLk, Moved
  <2> QED
    BY <1>1, <1>3, <1>4, <2>1, LockStep
<1>8. Stack(p)' /\ ~Leaving(p)'
  <2>1. state'[p] = "RUNNING"
    BY <1>1, RunsThere DEF table
  <2> QED
    BY <1>2, <1>3, <2>1 DEF Stack, Pos, Leaving, NotAlive, Moved
<1>9. Waiting'
  <2>1. \A q \in Procs : 0 <= q
    BY SMT DEF Procs
  <2> QED
    BY <1>1, <1>2, <1>3, <2>1, SMTT(30) DEF IInv, Waiting, Moved, table
<1>10. Exclusive'
  BY <1>1, <1>2, <1>3, KeepExclusive DEF Roused, table
<1>11. /\ k[p].pc \notin ForkPCs \cup {"swtch"} /\ k[p].ret # "reparent"
       /\ k[p].ret \notin ForkPCs \cup {"swtch", "allocproc"}
  BY <1>1, <1>2 DEF ForkPCs
<1> QED
  BY <1>1, <1>3, <1>5, <1>6, <1>7, <1>8, <1>9, <1>10, <1>11, MoveInv

\* acquiresleep(): the lock is taken, or the process goes to sleep.
LEMMA AsCheckInv ==
  ASSUME IInv, NEW c \in Cpus, NEW p \in Procs, as_check(c, p)
  PROVE  IInv'
<1>1. /\ k[p].pc = "as_check" /\ cproc[c] = p /\ k \in [Procs -> Frame]
      /\ UNCHANGED <<table, plock, cproc>> /\ {"sleep", "as_check", "held"} \subseteq PCs
  BY DEF as_check, At, IInv, TypeOK, PCs
<1>2. state'[p] = "RUNNING"
  BY <1>1, RunsThere DEF table
<1>3. CASE locked # NoProc
  <2>1. Call(p, "sleep", LockChan, "as_check") /\ UNCHANGED <<lock, locked>>
    BY <1>3 DEF as_check
  <2>2. Moved(p, "sleep", k[p].ipc, "as_check", 0, LockChan)
    BY <1>1, <2>1, CallMoved, Constants
  <2>3. TypeOK'
    BY <1>1, <2>1, <2>2, MoveType DEF IInv, TypeOK, Moved
  <2>4. ProcLocks'
    BY <1>1, <2>2, KeepProcLocks DEF OwnPCs
  <2>5. Locks'
    <3>1. (HoldsWait(p)' <=> HoldsWait(p)) /\ (HoldsLk(p)' <=> HoldsLk(p))
      BY <1>1, <2>2 DEF HoldsWait, HoldsLk, Moved
    <3> QED
      BY <1>1, <2>1, <2>2, <3>1, KeepLocks
  <2>6. Stack(p)' /\ ~Leaving(p)'
    BY <1>2, <2>2 DEF Stack, Pos, Leaving, NotAlive, Moved
  <2>7. Waiting'
    BY <1>1, <2>2, SMT DEF IInv, Waiting, Moved, table
  <2>8. Exclusive'
    BY <1>1, <1>3, <2>1, <2>2 DEF IInv, Exclusive, Pos, Moved, table
  <2>9. /\ k[p].pc \notin ForkPCs \cup {"swtch"} /\ "sleep" # "reparent"
        /\ "sleep" \notin ForkPCs \cup {"swtch", "allocproc"}
    BY <1>1 DEF ForkPCs
  <2> QED
    BY <1>1, <2>2, <2>3, <2>4, <2>5, <2>6, <2>7, <2>8, <2>9, MoveInv
<1>4. CASE locked = NoProc
  <2>1. locked' = p /\ Release("lk") /\ Goto(p, "held")
    BY <1>4 DEF as_check
  <2>2. Moved(p, "held", k[p].ipc, k[p].ret, k[p].i, k[p].arg)
    BY <1>1, <2>1, GotoMoved
  <2>3. /\ lock' \in [{"wait_lock", "lk"} -> Cpus \cup {NoCpu}]
        /\ lock'["lk"] = NoCpu /\ lock'["wait_lock"] = lock["wait_lock"]
    BY <2>1, ReleaseType
  <2>4. TypeOK'
    BY <1>1, <2>1, <2>2, <2>3, MoveType DEF IInv, TypeOK, Moved
  <2>5. ProcLocks'
    BY <1>1, <2>2, KeepProcLocks, SMT DEF OwnPCs
  <2>6. Locks'
    <3>1. HoldsLk(p) /\ ~HoldsLk(p)' /\ (HoldsWait(p)' <=> HoldsWait(p))
      BY <1>1, <2>2 DEF HoldsWait, HoldsLk, Moved
    <3> QED
      BY <1>1, <2>2, <2>3, <3>1, LockStep
  <2>7. Stack(p)' /\ ~Leaving(p)'
    BY <1>2, <2>2 DEF Stack, Pos, Leaving, NotAlive, Moved
  <2>8. Waiting'
    BY <1>1, <2>2, KeepWaiting DEF Roused, table
  <2>9. Exclusive'
    BY <1>1, <1>4, <2>1, <2>2, Constants, SMTT(30) DEF IInv, Exclusive, Pos, Moved
  <2>10. /\ k[p].pc \notin ForkPCs \cup {"swtch"} /\ "held" # "reparent"
         /\ "held" \notin ForkPCs \cup {"swtch", "allocproc"}
    BY <1>1 DEF ForkPCs
  <2> QED
    BY <1>1, <2>2, <2>4, <2>5, <2>6, <2>7, <2>8, <2>9, <2>10, MoveInv
<1> QED
  BY <1>3, <1>4

\* releasesleep() frees the lock and calls wakeup().
LEMMA ReleasesleepInv ==
  ASSUME IInv, NEW c \in Cpus, NEW p \in Procs, releasesleep(c, p)
  PROVE  IInv'
<1>1. /\ k[p].pc = "held" /\ cproc[c] = p /\ k \in [Procs -> Frame] /\ Acquire("lk", c)
      /\ locked' = NoProc /\ Call(p, "wakeup", LockChan, "rs_done")
      /\ UNCHANGED <<table, plock, cproc>> /\ {"wakeup", "rs_done"} \subseteq PCs
  BY DEF releasesleep, At, IInv, TypeOK, PCs
<1>2. Moved(p, "wakeup", k[p].ipc, "rs_done", 0, LockChan)
  BY <1>1, CallMoved, Constants
<1>3. /\ lock' \in [{"wait_lock", "lk"} -> Cpus \cup {NoCpu}]
      /\ lock["lk"] = NoCpu /\ lock'["lk"] = c /\ lock'["wait_lock"] = lock["wait_lock"]
  BY <1>1, AcquireType
<1>4. TypeOK'
  BY <1>1, <1>2, <1>3, MoveType DEF IInv, TypeOK, Moved
<1>5. ProcLocks'
  BY <1>1, <1>2, KeepProcLocks DEF OwnPCs
<1>6. Locks'
  <2>1. HoldsLk(p)' /\ (HoldsWait(p)' <=> HoldsWait(p))
    BY <1>1, <1>2 DEF HoldsWait, HoldsLk, Moved
  <2> QED
    BY <1>1, <1>2, <1>3, <2>1, LockStep
<1>7. Stack(p)' /\ ~Leaving(p)'
  <2>1. state'[p] = "RUNNING"
    BY <1>1, RunsThere DEF table
  <2> QED
    BY <1>2, <2>1 DEF Stack, Pos, Leaving, NotAlive, Moved
<1>8. Waiting'
  BY <1>1, <1>2, SMT DEF IInv, Waiting, Moved, table
<1>9. Exclusive'
  <2>1. \A q \in Procs : Pos(q)' # "held"
    BY <1>1, <1>2, SMT DEF IInv, Exclusive, Pos, Moved
  <2>2. \A q \in Procs : k'[q].pc \in {"sleep", "sleep_set"} => k'[q].ret # "as_check"
    BY <1>2, <1>3, NoHolder DEF HoldsLk, Moved
  <2>3. \A q \in Procs : 0 <= q
    BY SMT DEF Procs
  <2> QED
    BY <1>2, <2>1, <2>2, <2>3 DEF Exclusive, Moved
<1>10. /\ k[p].pc \notin ForkPCs \cup {"swtch"} /\ "wakeup" # "reparent"
       /\ "wakeup" \notin ForkPCs \cup {"swtch", "allocproc"}
  BY <1>1 DEF ForkPCs
<1> QED
  BY <1>1, <1>2, <1>4, <1>5, <1>6, <1>7, <1>8, <1>9, <1>10, MoveInv

\* wait(): the end of the scan.
LEMMA WaitSleepInv ==
  ASSUME IInv, NEW c \in Cpus, NEW p \in Procs, wait_sleep(c, p)
  PROVE  IInv'
<1>1. /\ k[p].pc = "wait_scan" /\ k[p].i = NPROC /\ cproc[c] = p /\ k \in [Procs -> Frame]
      /\ UNCHANGED <<table, plock, locked, cproc>> /\ {"sleep", "wait_scan", "trapret"} \subseteq PCs
  BY DEF wait_sleep, At, IInv, TypeOK, PCs
<1>2. state'[p] = "RUNNING"
  BY <1>1, RunsThere DEF table
<1>3. CASE Release("wait_lock") /\ Goto(p, "trapret")
  <2>1. Moved(p, "trapret", k[p].ipc, k[p].ret, k[p].i, k[p].arg)
    BY <1>1, <1>3, GotoMoved
  <2>2. /\ lock' \in [{"wait_lock", "lk"} -> Cpus \cup {NoCpu}]
        /\ lock'["wait_lock"] = NoCpu /\ lock'["lk"] = lock["lk"]
    BY <1>3, ReleaseType
  <2>3. TypeOK'
    BY <1>1, <2>1, <2>2, MoveType DEF IInv, TypeOK, Moved
  <2>4. ProcLocks'
    BY <1>1, <2>1, KeepProcLocks, SMT DEF OwnPCs
  <2>5. Locks'
    <3>1. HoldsWait(p) /\ ~HoldsWait(p)' /\ (HoldsLk(p)' <=> HoldsLk(p))
      BY <1>1, <2>1 DEF HoldsWait, HoldsLk, Moved
    <3> QED
      BY <1>1, <2>1, <2>2, <3>1, LockStep
  <2>6. Stack(p)' /\ ~Leaving(p)'
    BY <1>2, <2>1 DEF Stack, Pos, Leaving, NotAlive, Moved
  <2>7. Waiting' /\ Exclusive'
    BY <1>1, <2>1, KeepWaiting, KeepExclusive, SMT DEF Roused, table
  <2>8. /\ k[p].pc \notin ForkPCs \cup {"swtch"} /\ "trapret" # "reparent"
        /\ "trapret" \notin ForkPCs \cup {"swtch", "allocproc"}
    BY <1>1 DEF ForkPCs
  <2> QED
    BY <1>1, <2>1, <2>3, <2>4, <2>5, <2>6, <2>7, <2>8, MoveInv
<1>4. CASE /\ k' = [k EXCEPT ![p].pc = "sleep", ![p].arg = p, ![p].ret = "wait_scan",
                             ![p].i = 0, ![p].kids = FALSE]
           /\ UNCHANGED lock
  <2>1. Moved(p, "sleep", k[p].ipc, "wait_scan", 0, p)
    BY <1>1, <1>4, LoopMoved, Constants
  <2>2. TypeOK'
    BY <1>1, <1>4, <2>1, MoveType DEF IInv, TypeOK, Moved
  <2>3. ProcLocks'
    BY <1>1, <2>1, KeepProcLocks DEF OwnPCs
  <2>4. Locks'
    <3>1. (HoldsWait(p)' <=> HoldsWait(p)) /\ (HoldsLk(p)' <=> HoldsLk(p))
      BY <1>1, <2>1 DEF HoldsWait, HoldsLk, Moved
    <3> QED
      BY <1>1, <1>4, <2>1, <3>1, KeepLocks
  <2>5. Stack(p)' /\ ~Leaving(p)'
    BY <1>2, <2>1 DEF Stack, Pos, Leaving, NotAlive, Moved
  <2>6. Waiting'
    <3>1. \A q \in Procs : q < NPROC /\ q \in Int
      BY Constants, SMT DEF Procs
    <3>2. \A q \in Procs : parent[q] = p => state[q] # "ZOMBIE"
      BY <1>1, <3>1, Constants, SMTT(30) DEF IInv, Waiting
    <3> QED
      BY <1>1, <2>1, <3>2, SMTT(30) DEF IInv, Waiting, Moved, table
  <2>7. Exclusive'
    BY <1>1, <2>1, SMT DEF IInv, Exclusive, Pos, Moved, table
  <2>8. /\ k[p].pc \notin ForkPCs \cup {"swtch"} /\ "sleep" # "reparent"
        /\ "sleep" \notin ForkPCs \cup {"swtch", "allocproc"}
    BY <1>1 DEF ForkPCs
  <2> QED
    BY <1>1, <2>1, <2>2, <2>3, <2>4, <2>5, <2>6, <2>7, <2>8, MoveInv
<1> QED
  BY <1>3, <1>4 DEF wait_sleep

\* freeproc(): nobody is on the stack of the slot, nobody fills it, and it has
\* no children.
LEMMA FreeInv ==
  ASSUME IInv, NEW p \in Procs, NEW q \in Procs, freed(q), state[q] \in {"ZOMBIE", "USED"},
         \A c \in Cpus : cproc[c] # q,
         \A x \in Procs : x # p /\ Pos(x) \in ForkPCs => k[x].i # q,
         k[p].pc \notin {"swtch", "wakeup"},
         NEW r, NEW j, NEW a, Moved(p, "trapret", k[p].ipc, r, j, a),
         plock' \in [Procs -> Cpus \cup {NoCpu}],
         lock' \in [{"wait_lock", "lk"} -> Cpus \cup {NoCpu}],
         ProcLocks', Locks', UNCHANGED <<nextpid, locked, cproc>>
  PROVE  IInv'
<1>1. /\ state'[q] = "UNUSED" /\ chan'[q] = NoChan /\ parent'[q] = NoProc /\ pid'[q] = 0 /\ ~killed'[q]
      /\ \A x \in Procs : x # q => /\ state'[x] = state[x] /\ chan'[x] = chan[x]
                                   /\ killed'[x] = killed[x] /\ parent'[x] = parent[x]
                                   /\ pid'[x] = pid[x]
  BY DEF IInv, TypeOK, freed
<1>2. TypeOK'
  <2>1. /\ state' \in [Procs -> States] /\ chan' \in [Procs -> -1..NPROC]
        /\ killed' \in [Procs -> BOOLEAN] /\ parent' \in [Procs -> Procs \cup {NoProc}]
    BY Constants, SMT DEF IInv, TypeOK, freed, States, NoChan
  <2>2. pid' \in [Procs -> Nat]
    BY DEF IInv, TypeOK, freed
  <2>3. \A x \in Procs : (pid'[x] = 0 <=> state'[x] = "UNUSED") /\ pid'[x] < nextpid'
    BY <1>1, SMT DEF IInv, TypeOK
  <2> QED
    BY <2>1, <2>2, <2>3 DEF IInv, TypeOK, Moved
<1>3. p # q /\ k[q].pc = "swtch" /\ k'[q] = k[q] /\ state[p] = "RUNNING" /\ q # initproc
  BY RunsThere, Constants DEF Moved, IInv, Family, NotAlive
<1>4. OnCpu'
  BY <1>1, <1>3, SMT DEF IInv, OnCpu, Moved
<1>5. Stacks'
  <2>1. ASSUME NEW x \in Procs, x # q, x # p PROVE Stack(x)' /\ Sleeping(x)'
    BY <1>1, <2>1, OtherStack DEF Moved
  <2>2. Stack(q)' /\ Sleeping(q)'
    BY <1>1, <1>3 DEF IInv, Stacks, Stack, Sleeping, Pos, Leaving, NotAlive
  <2>3. Stack(p)' /\ Sleeping(p)'
    <3>1. chan[p] = NoChan
      BY RunsThere
    <3>2. chan'[p] = NoChan /\ state'[p] = "RUNNING"
      BY <1>1, <1>3, <3>1
    <3> QED
      BY <3>2 DEF Stack, Sleeping, Pos, Leaving, NotAlive, Moved
  <2> QED
    BY <2>1, <2>2, <2>3 DEF Stacks
<1>6. Children'
  <2>1. Pos(p)' \notin ForkPCs /\ \A x \in Procs : x # p => Pos(x)' = Pos(x) /\ k'[x] = k[x]
    BY DEF Pos, ForkPCs, Moved
  <2> QED
    BY <1>1, <2>1, SMT DEF IInv, Children
<1>7. Family'
  <2>1. \A x \in Procs : Leaving(x)' => Leaving(x)
    BY DEF Leaving, Moved
  <2>2. k'[initproc].pc # "reparent"
    BY Constants DEF IInv, Family, Moved
  <2>3. \A x \in Procs : parent[x] # q
    BY DEF IInv, Family, NotAlive
  <2>4. ASSUME NEW x \in Procs, NEW y \in Procs, state'[x] \in NotAlive \/ Leaving(x)'
        PROVE  parent'[y] # x
    <3>1. CASE y = q
      BY <1>1, <3>1, Constants
    <3>2. CASE y # q /\ x = q
      BY <1>1, <2>3, <3>2
    <3>3. CASE y # q /\ x # q
      <4>1. state[x] \in NotAlive \/ Leaving(x)
        BY <1>1, <2>1, <2>4, <3>3
      <4>2. parent[y] # x
        BY <4>1 DEF IInv, Family
      <4> QED
        BY <1>1, <3>3, <4>2
    <3> QED
      BY <3>1, <3>2, <3>3
  <2> QED
    BY <1>1, <1>3, <2>1, <2>2, <2>4, Constants, SMTT(30) DEF IInv, Family
<1>8. Waiting'
  BY <1>1, <1>3, Constants, SMTT(30) DEF IInv, Waiting, Moved
<1>9. Exclusive'
  BY <1>1, <1>3, SMT DEF IInv, Exclusive, Pos, Moved
<1>10. Marks'
  <2>1. Marks
    BY DEF IInv
  <2>2. ASSUME NEW x \in Procs, killed'[x], 0 \notin KillPids
        PROVE  state'[x] # "UNUSED" /\ pid'[x] \in KillPids
    <3>1. x # q
      BY <1>1, <2>2
    <3> QED
      BY <1>1, <2>1, <2>2, <3>1, SMT DEF Marks
  <2> QED
    BY <2>2 DEF Marks
<1> QED
  BY <1>2, <1>4, <1>5, <1>6, <1>7, <1>8, <1>9, <1>10 DEF IInv

\* wait(): one slot of the scan.
LEMMA WaitScanInv ==
  ASSUME IInv, NEW c \in Cpus, NEW p \in Procs, wait_scan(c, p)
  PROVE  IInv'
<1> DEFINE q == k[p].i
<1>1. /\ k[p].pc = "wait_scan" /\ q < NPROC /\ cproc[c] = p /\ k \in [Procs -> Frame]
      /\ UNCHANGED <<nextpid, plock, locked, cproc>> /\ {"wait_scan", "trapret"} \subseteq PCs
  BY DEF wait_scan, At, IInv, TypeOK, PCs
<1>2. q \in Procs /\ q \in Int /\ k[p].ipc \in PCs
  BY <1>1, Constants, SMTT(30) DEF Frame, Procs
<1>3. /\ k[p].pc \notin ForkPCs \cup {"swtch"} /\ "trapret" # "reparent" /\ "wait_scan" # "reparent"
      /\ "trapret" \notin ForkPCs \cup {"swtch", "allocproc"}
      /\ "wait_scan" \notin ForkPCs \cup {"swtch", "allocproc"}
  BY <1>1 DEF ForkPCs
<1>4. state[p] = "RUNNING"
  BY <1>1, RunsThere
<1>5. CASE /\ parent[q] = p => state[q] # "ZOMBIE"
           /\ \/ k' = [k EXCEPT ![p].i = @ + 1]
              \/ k' = [k EXCEPT ![p].i = @ + 1, ![p].kids = TRUE]
           /\ UNCHANGED <<state, chan, killed, parent, pid, lock>>
  <2>1. Moved(p, "wait_scan", k[p].ipc, k[p].ret, q + 1, k[p].arg)
    <3>1. Moved(p, k[p].pc, k[p].ipc, k[p].ret, k[p].i + 1, k[p].arg)
      BY <1>1, <1>5, NextMoved, Constants
    <3> QED
      BY <1>1, <3>1
  <2>2. UNCHANGED table
    BY <1>1, <1>5 DEF table
  <2>3. TypeOK'
    BY <1>1, <1>5, <2>1, <2>2, MoveType DEF IInv, TypeOK, Moved
  <2>4. ProcLocks'
    BY <1>1, <2>1, KeepProcLocks DEF OwnPCs
  <2>5. Locks'
    <3>1. (HoldsWait(p)' <=> HoldsWait(p)) /\ (HoldsLk(p)' <=> HoldsLk(p))
      BY <1>1, <2>1 DEF HoldsWait, HoldsLk, Moved
    <3> QED
      BY <1>1, <1>5, <2>1, <3>1, KeepLocks, SMT
  <2>6. Stack(p)' /\ ~Leaving(p)'
    BY <1>4, <1>5, <2>1 DEF Stack, Pos, Leaving, NotAlive, Moved
  <2>7. Waiting'
    <3>1. \A x \in Procs : parent[x] = p /\ state[x] = "ZOMBIE" => q + 1 <= x
      <4>1. ASSUME NEW x \in Procs, parent[x] = p, state[x] = "ZOMBIE" PROVE q + 1 <= x
        <5>1. q <= x /\ q # x
          BY <1>1, <1>5, <4>1 DEF IInv, Waiting
        <5> QED
          BY <1>2, <5>1, Constants, SMT
      <4> QED
        BY <4>1
    <3> QED
      BY <1>1, <1>5, <2>1, <3>1, SMTT(30) DEF IInv, Waiting, Moved
  <2>8. Exclusive'
    BY <1>1, <1>5, <2>1, KeepExclusive, SMT DEF Roused
  <2> QED
    BY <1>1, <1>3, <2>1, <2>2, <2>3, <2>4, <2>5, <2>6, <2>7, <2>8, MoveInv
<1>6. CASE Release("wait_lock") /\ Goto(p, "trapret")
  <2>1. Moved(p, "trapret", k[p].ipc, k[p].ret, k[p].i, k[p].arg)
    BY <1>1, <1>6, GotoMoved
  <2>2. /\ lock' \in [{"wait_lock", "lk"} -> Cpus \cup {NoCpu}]
        /\ lock'["wait_lock"] = NoCpu /\ lock'["lk"] = lock["lk"]
    BY <1>6, ReleaseType
  <2>3. ProcLocks'
    BY <1>1, <2>1, KeepProcLocks, SMT DEF OwnPCs
  <2>4. Locks'
    <3>1. HoldsWait(p) /\ ~HoldsWait(p)' /\ (HoldsLk(p)' <=> HoldsLk(p))
      BY <1>1, <2>1 DEF HoldsWait, HoldsLk, Moved
    <3> QED
      BY <1>1, <2>1, <2>2, <3>1, LockStep
  <2>5. CASE UNCHANGED <<state, chan, killed, parent, pid>>
    <3>1. UNCHANGED table
      BY <1>1, <2>5 DEF table
    <3>2. TypeOK'
      BY <1>1, <2>1, <2>2, <3>1, MoveType DEF IInv, TypeOK, Moved
    <3>3. Stack(p)' /\ ~Leaving(p)'
      BY <1>4, <2>1, <2>5 DEF Stack, Pos, Leaving, NotAlive, Moved
    <3>4. Waiting' /\ Exclusive'
      BY <1>1, <2>1, <2>5, KeepWaiting, KeepExclusive, SMT DEF Roused
    <3> QED
      BY <1>1, <1>3, <2>1, <2>3, <2>4, <3>1, <3>2, <3>3, <3>4, MoveInv
  <2>6. CASE freed(q) /\ Free(q) /\ state[q] = "ZOMBIE"
    <3>1. \A d \in Cpus : cproc[d] # q
      BY <1>2, <2>6, Constants, SMTT(30) DEF IInv, OnCpu, ProcLocks, OwnPCs, Free
    <3>2. \A x \in Procs : Pos(x) \in ForkPCs => k[x].i # q
      BY <2>6 DEF IInv, Children
    <3>3. plock' \in [Procs -> Cpus \cup {NoCpu}]
      BY <1>1 DEF IInv, TypeOK
    <3> QED
      BY <1>1, <1>2, <2>1, <2>2, <2>3, <2>4, <2>6, <3>1, <3>2, <3>3, FreeInv
  <2> QED
    BY <1>6, <2>5, <2>6 DEF wait_scan
<1> QED
  BY <1>5, <1>6 DEF wait_scan

\* wakeup(): one slot of its loop.
LEMMA WakeupInv ==
  ASSUME IInv, NEW c \in Cpus, NEW p \in Procs, wakeup(c, p)
  PROVE  IInv'
<1> DEFINE q == k[p].i
<1>1. /\ k[p].pc = "wakeup" /\ cproc[c] = p /\ k \in [Procs -> Frame] /\ k[p].ret \in PCs
      /\ UNCHANGED <<chan, killed, parent, pid, nextpid, plock, lock, locked, cproc>>
  BY DEF wakeup, At, IInv, TypeOK, Frame
<1>2. q \in Int /\ q \in 0..NPROC
  BY <1>1, SMT DEF Frame
<1>3. \/ k[p].ret = "exit_wakeup" /\ k[p].arg = initproc
      \/ k[p].ret = "exit_lock" /\ k[p].arg = parent[p]
      \/ k[p].ret = "rs_done" /\ k[p].arg = LockChan
  BY <1>1 DEF IInv, Stacks, Stack
<1>4. /\ k[p].pc \notin ForkPCs \cup {"swtch"} /\ "wakeup" # "reparent" /\ k[p].ret # "reparent"
      /\ k[p].ret \notin ForkPCs \cup {"swtch", "allocproc"}
      /\ "wakeup" \notin ForkPCs \cup {"swtch", "allocproc"}
  BY <1>1, <1>3 DEF ForkPCs
<1>5. state[p] = "RUNNING"
  BY <1>1, RunsThere
<1>6. CASE q = NPROC /\ Goto(p, k[p].ret) /\ UNCHANGED state
  <2>1. Moved(p, k[p].ret, k[p].ipc, k[p].ret, k[p].i, k[p].arg)
    BY <1>1, <1>6, GotoMoved
  <2>2. UNCHANGED table
    BY <1>1, <1>6 DEF table
  <2>3. TypeOK'
    BY <1>1, <2>1, <2>2, MoveType DEF IInv, TypeOK, Moved
  <2>4. ProcLocks'
    BY <1>1, <1>3, <2>1, KeepProcLocks DEF OwnPCs
  <2>5. Locks'
    <3>1. (HoldsWait(p)' <=> HoldsWait(p)) /\ (HoldsLk(p)' <=> HoldsLk(p))
      BY <1>1, <1>3, <2>1 DEF HoldsWait, HoldsLk, Moved
    <3> QED
      BY <1>1, <2>1, <3>1, KeepLocks
  <2>6. Stack(p)' /\ (Leaving(p)' => Leaving(p))
    BY <1>1, <1>3, <1>5, <1>6, <2>1 DEF IInv, Stacks, Stack, Pos, Leaving, NotAlive, Moved
  <2>7. \A x \in Procs : ~(NPROC <= x)
    BY Constants, SMTT(30) DEF Procs
  <2>8. Waiting'
    <3>1. NPROC # 0
      BY Constants, SMTT(30)
    <3> QED
      BY <1>1, <1>3, <1>6, <2>1, <2>7, <3>1, SMTT(30) DEF IInv, Waiting, Moved
  <2>9. Exclusive'
    BY <1>1, <1>3, <1>6, <2>1, <2>7, SMTT(30) DEF IInv, Exclusive, Pos, Moved
  <2> QED
    BY <1>1, <1>4, <2>1, <2>2, <2>3, <2>4, <2>5, <2>6, <2>8, <2>9, MoveInv
<1>7. CASE /\ q < NPROC
           /\ state' = IF q # p /\ state[q] = "SLEEPING" /\ chan[q] = k[p].arg
                         THEN [state EXCEPT ![q] = "RUNNABLE"] ELSE state
           /\ k' = [k EXCEPT ![p].i = @ + 1]
  <2>1. Moved(p, "wakeup", k[p].ipc, k[p].ret, q + 1, k[p].arg)
    <3>1. Moved(p, k[p].pc, k[p].ipc, k[p].ret, k[p].i + 1, k[p].arg)
      BY <1>1, <1>7, NextMoved, Constants
    <3> QED
      BY <1>1, <3>1
  <2>2. q \in Procs
    BY <1>2, <1>7, Constants, SMT DEF Procs
  <2>3. /\ state' \in [Procs -> States] /\ Roused
        /\ \A x \in Procs : state'[x] = "UNUSED" <=> state[x] = "UNUSED"
        /\ q # p => ~(state'[q] = "SLEEPING" /\ chan[q] = k[p].arg)
    BY <1>7, <2>2 DEF IInv, TypeOK, States, Roused
  <2>4. TypeOK'
    BY <1>1, <2>1, <2>3 DEF IInv, TypeOK, Moved
  <2>5. Marks'
    BY <1>1, <2>3 DEF IInv, Marks
  <2>6. ProcLocks'
    BY <1>1, <2>1, KeepProcLocks DEF OwnPCs
  <2>7. Locks'
    <3>1. (HoldsWait(p)' <=> HoldsWait(p)) /\ (HoldsLk(p)' <=> HoldsLk(p))
      BY <1>1, <2>1 DEF HoldsWait, HoldsLk, Moved
    <3> QED
      BY <1>1, <2>1, <3>1, KeepLocks
  <2>8. Stack(p)' /\ (Leaving(p)' => Leaving(p))
    <3>1. state'[p] = "RUNNING"
      BY <1>5, <2>3 DEF Roused
    <3> QED
      BY <1>1, <1>3, <2>1, <3>1 DEF IInv, Stacks, Stack, Pos, Leaving, NotAlive, Moved
  <2>9. \A x \in Procs : q <= x => q = x \/ q + 1 <= x
    BY <1>2, Constants, SMT
  <2>10. \A x \in Procs : state'[x] = "SLEEPING" => state[x] = "SLEEPING" /\ x # p
    BY <1>5, <2>3 DEF Roused
  <2>11. Waiting'
    <3>1. ASSUME NEW x \in Procs, NEW y \in Procs, state'[x] = "SLEEPING", chan[x] = x, parent[y] = x
          PROVE  /\ state'[y] = "ZOMBIE" => x = initproc /\ \E r \in Procs :
                      k'[r].pc = "wakeup" /\ k'[r].ret = "exit_wakeup" /\ k'[r].i = 0
                 /\ k'[y].pc \notin {"exit_lock", "exit_zombie"}
                 /\ k'[y].pc = "wakeup" /\ k'[y].ret = "exit_lock" => k'[y].i <= x
      <4>1. state[x] = "SLEEPING" /\ x # p
        BY <2>10, <3>1
      <4>2. ASSUME state'[y] = "ZOMBIE"
            PROVE  x = initproc /\ \E r \in Procs :
                      k'[r].pc = "wakeup" /\ k'[r].ret = "exit_wakeup" /\ k'[r].i = 0
        <5>1. state[y] = "ZOMBIE"
          BY <2>3, <4>2 DEF Roused
        <5>2. x = initproc
          BY <3>1, <4>1, <5>1 DEF IInv, Waiting
        <5>3. PICK r \in Procs : k[r].pc = "wakeup" /\ k[r].ret = "exit_wakeup" /\ k[r].i = 0
          BY <3>1, <4>1, <5>1 DEF IInv, Waiting
        <5>4. r # p
          <6>1. ASSUME r = p PROVE FALSE
            <7>1. q = initproc /\ k[p].arg = initproc /\ q # p
              BY <1>3, <4>1, <5>2, <5>3, <6>1 DEF initproc
            <7> QED
              BY <2>3, <3>1, <5>2, <7>1
          <6> QED
            BY <6>1
        <5> QED
          BY <2>1, <5>2, <5>3, <5>4 DEF Moved
      <4>3. k'[y].pc \notin {"exit_lock", "exit_zombie"}
        BY <2>1, <3>1, <4>1 DEF IInv, Waiting, Moved
      <4>4. ASSUME k'[y].pc = "wakeup", k'[y].ret = "exit_lock" PROVE k'[y].i <= x
        <5>1. k[y].pc = "wakeup" /\ k[y].ret = "exit_lock"
          BY <1>1, <2>1, <4>4 DEF Moved
        <5>2. k[y].i <= x
          BY <3>1, <4>1, <5>1 DEF IInv, Waiting
        <5>3. CASE y # p
          BY <2>1, <5>2, <5>3 DEF Moved
        <5>4. CASE y = p
          <6>1. k[p].arg = x
            BY <1>3, <3>1, <5>1, <5>4
          <6>2. q # x
            BY <2>3, <3>1, <4>1, <6>1
          <6> QED
            BY <2>1, <2>9, <5>2, <5>4, <6>2 DEF Moved
        <5> QED
          BY <5>3, <5>4
      <4> QED
        BY <4>2, <4>3, <4>4
    <3>2. ASSUME NEW x \in Procs, NEW y \in Procs, parent[y] = x, state'[y] = "ZOMBIE"
          PROVE  /\ k'[x].pc = "wait_scan" => k'[x].i <= y
                 /\ k'[x].pc \in {"sleep", "sleep_set"} => k'[x].ret # "wait_scan"
      BY <1>1, <2>1, <2>3, <3>2, SMTT(30) DEF IInv, Waiting, Moved, Roused
    <3> QED
      BY <1>1, <3>1, <3>2 DEF Waiting
  <2>12. Exclusive'
    <3>1. \A x \in Procs : Pos(x)' = "held" => locked = x
      BY <1>1, <2>1, SMT DEF IInv, Exclusive, Pos, Moved
    <3>2. ASSUME locked = NoProc, NEW x \in Procs, state'[x] = "SLEEPING", chan[x] = LockChan
          PROVE  \E r \in Procs : k'[r].pc = "wakeup" /\ k'[r].ret = "rs_done" /\ k'[r].i <= x
      <4>1. state[x] = "SLEEPING" /\ x # p
        BY <2>10, <3>2
      <4>2. PICK r \in Procs : k[r].pc = "wakeup" /\ k[r].ret = "rs_done" /\ k[r].i <= x
        BY <3>2, <4>1 DEF IInv, Exclusive
      <4>3. CASE r # p
        BY <2>1, <4>2, <4>3 DEF Moved
      <4>4. CASE r = p
        <5>1. k[p].arg = LockChan /\ q # x
          BY <1>3, <2>3, <3>2, <4>1, <4>2, <4>4
        <5> QED
          BY <2>1, <2>9, <4>2, <4>4, <5>1 DEF Moved
      <4> QED
        BY <4>3, <4>4
    <3>3. locked = NoProc => \A x \in Procs :
             k'[x].pc \in {"sleep", "sleep_set"} => k'[x].ret # "as_check"
      BY <1>1, <2>1, SMT DEF IInv, Exclusive, Moved
    <3> QED
      BY <1>1, <3>1, <3>2, <3>3 DEF Exclusive
  <2> QED
    BY <1>1, <1>4, <2>1, <2>3, <2>4, <2>5, <2>6, <2>7, <2>8, <2>11, <2>12, RouseInv
<1> QED
  BY <1>6, <1>7 DEF wakeup

=============================================================================
