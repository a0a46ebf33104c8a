-------------------------------- MODULE Proc --------------------------------
(***************************************************************************)
(* Processes (kernel/proc.c) and sleep locks (kernel/sleeplock.c) on       *)
(* several CPUs: fork, exit, wait, kill, sleep, wakeup and the scheduler,  *)
(* with the locks they take, in the order they take them.                  *)
(*                                                                         *)
(* A CPU runs the scheduler or one process.  A spin lock belongs to a CPU: *)
(* p->lock is taken by a process, handed over by swtch() and released by   *)
(* the scheduler, and the other way round.  A step is the work between two *)
(* changes of locks; every turn of a loop that takes a lock is a step.     *)
(* What a process does to memory and files is left out; setkilled after a  *)
(* fault, which usertrap follows by exit, is the call of exit.             *)
(***************************************************************************)
EXTENDS Integers, FiniteSets

CONSTANTS
  NPROC,     \* size of proc[]; slot 0 is initproc
  Cpus,      \* the CPUs
  Ops,       \* those of "fork", "exit", "wait", "kill", "sleeplock" that programs call
  InitOps,   \* those that the first program, user/init.c, calls
  KillPids,  \* arguments of kill
  MaxPid,    \* bound on nextpid
  NoCpu

ASSUME ProcAssumption ==
  /\ NPROC \in Nat \ {0} /\ IsFiniteSet(Cpus) /\ NoCpu \notin Cpus
  /\ MaxPid \in Nat /\ KillPids \subseteq Int

Procs == 0..(NPROC - 1)
initproc == 0
NoProc == -1
NoChan == -1
LockChan == NPROC                  \* the address of the sleep lock
States == {"UNUSED", "USED", "SLEEPING", "RUNNABLE", "RUNNING", "ZOMBIE"}

VARIABLES
  state, chan, killed, parent, pid,   \* struct proc
  nextpid,
  plock,     \* plock[p]: the CPU that holds p->lock
  lock,      \* the CPUs that hold wait_lock, and the spin lock of the sleep lock
  locked,    \* the process that holds the sleep lock
  cproc,     \* c->proc
  k          \* the kernel stack of each process

vars == <<state, chan, killed, parent, pid, nextpid, plock, lock, locked, cproc, k>>
table == <<state, chan, killed, parent, pid, nextpid>>

(***************************************************************************)
(* A kernel stack: where the process is (pc), where it goes on after       *)
(* swtch() (ipc) and after sleep or wakeup (ret), the loop index, the      *)
(* channel or pid it was called with, and wait's havekids.                 *)
(***************************************************************************)
PCs == {"user", "trapret", "swtch", "allocproc", "fork_copy", "fork_parent", "fork_run",
        "exit", "reparent", "exit_wakeup", "exit_lock", "exit_zombie", "wakeup",
        "wait", "wait_scan", "sleep", "sleep_set", "reacquire", "kill",
        "acquiresleep", "as_check", "held", "rs_done", "panic"}
Frame == [pc : PCs, ipc : PCs, ret : PCs, i : 0..NPROC, arg : Int, kids : BOOLEAN]
UserFrame == [pc |-> "user", ipc |-> "user", ret |-> "user", i |-> 0, arg |-> -1, kids |-> FALSE]
ForkretFrame == [UserFrame EXCEPT !.pc = "swtch"]

Init ==
  /\ state = [p \in Procs |-> IF p = initproc THEN "RUNNABLE" ELSE "UNUSED"]
  /\ chan = [p \in Procs |-> NoChan]
  /\ killed = [p \in Procs |-> FALSE]
  /\ parent = [p \in Procs |-> NoProc]
  /\ pid = [p \in Procs |-> IF p = initproc THEN 1 ELSE 0]
  /\ nextpid = 2
  /\ plock = [p \in Procs |-> NoCpu]
  /\ lock = [l \in {"wait_lock", "lk"} |-> NoCpu]
  /\ locked = NoProc
  /\ cproc = [c \in Cpus |-> NoProc]
  /\ k = [p \in Procs |-> ForkretFrame]

At(c, p, l) == cproc[c] = p /\ k[p].pc = l
Goto(p, l) == k' = [k EXCEPT ![p].pc = l]
Free(p) == plock[p] = NoCpu
Acquire(l, c) == lock[l] = NoCpu /\ lock' = [lock EXCEPT ![l] = c]
Release(l) == lock' = [lock EXCEPT ![l] = NoCpu]
SleepLock(p) == IF k[p].arg = LockChan THEN "lk" ELSE "wait_lock"

(***************************************************************************)
(* scheduler(), swtch() and the code on its other side.                    *)
(***************************************************************************)
Schedule(c, p) ==
  /\ cproc[c] = NoProc
  /\ Free(p) /\ state[p] = "RUNNABLE"
  /\ state' = [state EXCEPT ![p] = "RUNNING"]
  /\ plock' = [plock EXCEPT ![p] = c]
  /\ cproc' = [cproc EXCEPT ![c] = p]
  /\ UNCHANGED <<chan, killed, parent, pid, nextpid, lock, locked, k>>

\* sched() in a process that is to stop running; the scheduler releases its lock.
Switch(c, p) ==
  /\ At(c, p, "swtch") /\ state[p] # "RUNNING"
  /\ cproc' = [cproc EXCEPT ![c] = NoProc]
  /\ plock' = [plock EXCEPT ![p] = NoCpu]
  /\ UNCHANGED <<table, lock, locked, k>>

\* sched() returns, or forkret() starts.
Resume(c, p) ==
  /\ At(c, p, "swtch") /\ state[p] = "RUNNING"
  /\ chan' = [chan EXCEPT ![p] = NoChan]
  /\ plock' = [plock EXCEPT ![p] = NoCpu]
  /\ k' = [k EXCEPT ![p].pc = k[p].ipc, ![p].ipc = IF chan[p] = NoChan THEN @ ELSE "user"]
  /\ UNCHANGED <<state, killed, parent, pid, nextpid, lock, locked, cproc>>

\* The points where interrupts are on.  They are off while acquire() spins, so a process
\* in the kernel that was interrupted at a point gets past it before it is interrupted again.
Preemptible == {"user", "trapret", "allocproc", "fork_parent", "fork_run", "exit", "wait",
                "reacquire", "kill", "acquiresleep", "held", "panic"}

\* yield() on a timer interrupt; usertrap() first looks whether the process was killed.
yield(c, p) ==
  /\ cproc[c] = p /\ k[p].pc \in Preemptible
  /\ k[p].pc \in {"user", "panic"} \/ k[p].ipc # k[p].pc
  /\ ~(k[p].pc = "user" /\ killed[p])
  /\ Free(p)
  /\ plock' = [plock EXCEPT ![p] = c]
  /\ state' = [state EXCEPT ![p] = "RUNNABLE"]
  /\ k' = [k EXCEPT ![p].pc = "swtch", ![p].ipc = k[p].pc]
  /\ UNCHANGED <<chan, killed, parent, pid, nextpid, lock, locked, cproc>>

(***************************************************************************)
(* sleep(chan, lk) and wakeup(chan).                                       *)
(***************************************************************************)
sleep(c, p) ==
  /\ At(c, p, "sleep")
  /\ Free(p)
  /\ plock' = [plock EXCEPT ![p] = c]
  /\ Goto(p, "sleep_set")
  /\ UNCHANGED <<table, lock, locked, cproc>>

sleep_set(c, p) ==
  /\ At(c, p, "sleep_set")
  /\ Release(SleepLock(p))
  /\ chan' = [chan EXCEPT ![p] = k[p].arg]
  /\ state' = [state EXCEPT ![p] = "SLEEPING"]
  /\ k' = [k EXCEPT ![p].pc = "swtch", ![p].ipc = "reacquire"]
  /\ UNCHANGED <<killed, parent, pid, nextpid, plock, locked, cproc>>

reacquire(c, p) ==
  /\ At(c, p, "reacquire")
  /\ Acquire(SleepLock(p), c)
  /\ Goto(p, k[p].ret)
  /\ UNCHANGED <<table, plock, locked, cproc>>

\* One process of wakeup's loop, or its end.
wakeup(c, p) ==
  /\ At(c, p, "wakeup")
  /\ LET q == k[p].i IN
     \/ /\ q = NPROC
        /\ Goto(p, k[p].ret)
        /\ UNCHANGED state
     \/ /\ q < NPROC
        /\ q # p => Free(q)
        /\ state' = IF q # p /\ state[q] = "SLEEPING" /\ chan[q] = k[p].arg
                      THEN [state EXCEPT ![q] = "RUNNABLE"] ELSE state
        /\ k' = [k EXCEPT ![p].i = @ + 1]
  /\ UNCHANGED <<chan, killed, parent, pid, nextpid, plock, lock, locked, cproc>>

Call(p, l, ch, r) == k' = [k EXCEPT ![p].pc = l, ![p].i = 0, ![p].arg = ch, ![p].ret = r]

(***************************************************************************)
(* usertrap(): a system call starts if the process has not been killed;    *)
(* on the way back to user mode, and on interrupts, a killed process       *)
(* exits.                                                                  *)
(***************************************************************************)
Syscall(c, p, op, l, n) ==
  /\ At(c, p, "user") /\ op \in (IF p = initproc THEN InitOps ELSE Ops)
  /\ Free(p) /\ ~killed[p]
  /\ k' = [k EXCEPT ![p] = [UserFrame EXCEPT !.pc = l, !.arg = n]]
  /\ UNCHANGED <<table, plock, lock, locked, cproc>>

\* Mutation of trapret: killed is not looked at.
trapret_blind(c, p) ==
  /\ At(c, p, "trapret") \/ (At(c, p, "user") /\ killed[p])
  /\ Free(p)
  /\ k' = [k EXCEPT ![p] = UserFrame]
  /\ UNCHANGED <<table, plock, lock, locked, cproc>>

trapret(c, p) ==
  /\ At(c, p, "trapret") \/ (At(c, p, "user") /\ killed[p])
  /\ Free(p)
  /\ k' = [k EXCEPT ![p] = IF killed[p] THEN [UserFrame EXCEPT !.pc = "exit"] ELSE UserFrame]
  /\ UNCHANGED <<table, plock, lock, locked, cproc>>

(***************************************************************************)
(* fork().                                                                 *)
(***************************************************************************)
\* Mutation of freed: killed is not reset.
freed_marked(q) ==
  /\ state' = [state EXCEPT ![q] = "UNUSED"]
  /\ chan' = [chan EXCEPT ![q] = NoChan]
  /\ parent' = [parent EXCEPT ![q] = NoProc]
  /\ pid' = [pid EXCEPT ![q] = 0]
  /\ UNCHANGED killed

\* freeproc().
freed(q) ==
  /\ state' = [state EXCEPT ![q] = "UNUSED"]
  /\ chan' = [chan EXCEPT ![q] = NoChan]
  /\ killed' = [killed EXCEPT ![q] = FALSE]
  /\ parent' = [parent EXCEPT ![q] = NoProc]
  /\ pid' = [pid EXCEPT ![q] = 0]

\* One slot of allocproc's loop, or its end.  A slot that is found stays locked.
allocproc(c, p) ==
  /\ At(c, p, "allocproc")
  /\ LET q == k[p].i IN
     \/ /\ q = NPROC
        /\ Goto(p, "trapret")
        /\ UNCHANGED <<state, pid, nextpid, plock>>
     \/ /\ q < NPROC /\ Free(q) /\ state[q] # "UNUSED"
        /\ k' = [k EXCEPT ![p].i = @ + 1, ![p].ipc = "user"]
        /\ UNCHANGED <<state, pid, nextpid, plock>>
     \/ /\ q < NPROC /\ Free(q) /\ state[q] = "UNUSED"
        /\ state' = [state EXCEPT ![q] = "USED"]
        /\ pid' = [pid EXCEPT ![q] = nextpid]
        /\ nextpid' = nextpid + 1
        /\ plock' = [plock EXCEPT ![q] = c]
        /\ k' = [k EXCEPT ![p].pc = "fork_copy", ![p].ipc = "user", ![q] = ForkretFrame]
  /\ UNCHANGED <<chan, killed, parent, lock, locked, cproc>>

\* Memory and files are copied, or some allocation fails and freeproc undoes it.
fork_copy(c, p) ==
  /\ At(c, p, "fork_copy")
  /\ LET np == k[p].i IN
     /\ \/ Goto(p, "fork_parent") /\ UNCHANGED <<state, chan, killed, parent, pid>>
        \/ Goto(p, "trapret") /\ freed(np)
     /\ plock' = [plock EXCEPT ![np] = NoCpu]
  /\ UNCHANGED <<nextpid, lock, locked, cproc>>

fork_parent(c, p) ==
  /\ At(c, p, "fork_parent")
  /\ lock["wait_lock"] = NoCpu
  /\ parent' = [parent EXCEPT ![k[p].i] = p]
  /\ Goto(p, "fork_run")
  /\ UNCHANGED <<state, chan, killed, pid, nextpid, plock, lock, locked, cproc>>

fork_run(c, p) ==
  /\ At(c, p, "fork_run")
  /\ Free(k[p].i)
  /\ state' = [state EXCEPT ![k[p].i] = "RUNNABLE"]
  /\ Goto(p, "trapret")
  /\ UNCHANGED <<chan, killed, parent, pid, nextpid, plock, lock, locked, cproc>>

(***************************************************************************)
(* exit().  All children are handed to init and init is woken, under       *)
(* wait_lock: the wakeups after the first find nothing to do.              *)
(***************************************************************************)
exit(c, p) ==
  /\ At(c, p, "exit")
  /\ IF p = initproc THEN Goto(p, "panic") /\ UNCHANGED lock
     ELSE Acquire("wait_lock", c) /\ Goto(p, "reparent")
  /\ UNCHANGED <<table, plock, locked, cproc>>

\* Mutation of reparent: zombies are left behind.
reparent_live(c, p) ==
  /\ At(c, p, "reparent")
  /\ parent' = [q \in Procs |-> IF parent[q] = p /\ state[q] # "ZOMBIE" THEN initproc ELSE parent[q]]
  /\ Call(p, "wakeup", initproc, "exit_wakeup")
  /\ UNCHANGED <<state, chan, killed, pid, nextpid, plock, lock, locked, cproc>>

reparent(c, p) ==
  /\ At(c, p, "reparent")
  /\ parent' = [q \in Procs |-> IF parent[q] = p THEN initproc ELSE parent[q]]
  /\ IF \E q \in Procs : parent[q] = p THEN Call(p, "wakeup", initproc, "exit_wakeup")
     ELSE Goto(p, "exit_wakeup")
  /\ UNCHANGED <<state, chan, killed, pid, nextpid, plock, lock, locked, cproc>>

\* Mutation of exit_wakeup: the wrong channel.
exit_wakeup_self(c, p) ==
  /\ At(c, p, "exit_wakeup")
  /\ Call(p, "wakeup", p, "exit_lock")
  /\ UNCHANGED <<table, plock, lock, locked, cproc>>

exit_wakeup(c, p) ==
  /\ At(c, p, "exit_wakeup")
  /\ Call(p, "wakeup", parent[p], "exit_lock")
  /\ UNCHANGED <<table, plock, lock, locked, cproc>>

exit_lock(c, p) ==
  /\ At(c, p, "exit_lock")
  /\ Free(p)
  /\ plock' = [plock EXCEPT ![p] = c]
  /\ Goto(p, "exit_zombie")
  /\ UNCHANGED <<table, lock, locked, cproc>>

\* Mutation of exit_zombie: wait_lock is kept.
exit_zombie_keep(c, p) ==
  /\ At(c, p, "exit_zombie")
  /\ state' = [state EXCEPT ![p] = "ZOMBIE"]
  /\ Goto(p, "swtch")
  /\ UNCHANGED <<chan, killed, parent, pid, nextpid, plock, lock, locked, cproc>>

exit_zombie(c, p) ==
  /\ At(c, p, "exit_zombie")
  /\ state' = [state EXCEPT ![p] = "ZOMBIE"]
  /\ Release("wait_lock")
  /\ Goto(p, "swtch")
  /\ UNCHANGED <<chan, killed, parent, pid, nextpid, plock, locked, cproc>>

(***************************************************************************)
(* wait().                                                                 *)
(***************************************************************************)
wait(c, p) ==
  /\ At(c, p, "wait")
  /\ Acquire("wait_lock", c)
  /\ k' = [k EXCEPT ![p].pc = "wait_scan", ![p].i = 0, ![p].kids = FALSE]
  /\ UNCHANGED <<table, plock, locked, cproc>>

\* Mutation of wait_scan: the child's lock is not taken.
wait_scan_unlocked(c, p) ==
  /\ At(c, p, "wait_scan") /\ k[p].i < NPROC
  /\ LET q == k[p].i IN
     \/ /\ parent[q] # p
        /\ k' = [k EXCEPT ![p].i = @ + 1]
        /\ UNCHANGED <<state, chan, killed, parent, pid, lock>>
     \/ /\ parent[q] = p /\ state[q] # "ZOMBIE"
        /\ k' = [k EXCEPT ![p].i = @ + 1, ![p].kids = TRUE]
        /\ UNCHANGED <<state, chan, killed, parent, pid, lock>>
     \/ /\ parent[q] = p /\ state[q] = "ZOMBIE"
        /\ freed(q) \/ UNCHANGED <<state, chan, killed, parent, pid>>
        /\ Release("wait_lock")
        /\ Goto(p, "trapret")
  /\ UNCHANGED <<nextpid, plock, locked, cproc>>

\* One slot of the loop.  A zombie is freed, unless its status cannot be copied out.
wait_scan(c, p) ==
  /\ At(c, p, "wait_scan") /\ k[p].i < NPROC
  /\ LET q == k[p].i IN
     \/ /\ parent[q] # p
        /\ k' = [k EXCEPT ![p].i = @ + 1]
        /\ UNCHANGED <<state, chan, killed, parent, pid, lock>>
     \/ /\ parent[q] = p /\ Free(q) /\ state[q] # "ZOMBIE"
        /\ k' = [k EXCEPT ![p].i = @ + 1, ![p].kids = TRUE]
        /\ UNCHANGED <<state, chan, killed, parent, pid, lock>>
     \/ /\ parent[q] = p /\ Free(q) /\ state[q] = "ZOMBIE"
        /\ freed(q) \/ UNCHANGED <<state, chan, killed, parent, pid>>
        /\ Release("wait_lock")
        /\ Goto(p, "trapret")
  /\ UNCHANGED <<nextpid, plock, locked, cproc>>

\* No zombie was found: give up, or sleep on the process itself.
wait_sleep(c, p) ==
  /\ At(c, p, "wait_scan") /\ k[p].i = NPROC
  /\ k[p].kids => Free(p)
  /\ IF ~k[p].kids \/ killed[p] THEN Release("wait_lock") /\ Goto(p, "trapret")
     ELSE /\ k' = [k EXCEPT ![p].pc = "sleep", ![p].arg = p, ![p].ret = "wait_scan",
                            ![p].i = 0, ![p].kids = FALSE]
          /\ UNCHANGED lock
  /\ UNCHANGED <<table, plock, locked, cproc>>

(***************************************************************************)
(* kill(pid): one slot of the loop, or its end.                            *)
(***************************************************************************)
kill(c, p) ==
  /\ At(c, p, "kill")
  /\ LET q == k[p].i IN
     \/ /\ q = NPROC
        /\ Goto(p, "trapret")
        /\ UNCHANGED <<state, killed>>
     \/ /\ q < NPROC /\ Free(q) /\ pid[q] # k[p].arg
        /\ k' = [k EXCEPT ![p].i = @ + 1, ![p].ipc = "user"]
        /\ UNCHANGED <<state, killed>>
     \/ /\ q < NPROC /\ Free(q) /\ pid[q] = k[p].arg
        /\ killed' = [killed EXCEPT ![q] = TRUE]
        /\ state' = IF state[q] = "SLEEPING" THEN [state EXCEPT ![q] = "RUNNABLE"] ELSE state
        /\ Goto(p, "trapret")
  /\ UNCHANGED <<chan, parent, pid, nextpid, plock, lock, locked, cproc>>

(***************************************************************************)
(* acquiresleep(), the work under the lock, and releasesleep().            *)
(***************************************************************************)
acquiresleep(c, p) ==
  /\ At(c, p, "acquiresleep")
  /\ Acquire("lk", c)
  /\ Goto(p, "as_check")
  /\ UNCHANGED <<table, plock, locked, cproc>>

\* Mutation of as_check: the lock is not tested again after the sleep.
as_check_once(c, p) ==
  /\ At(c, p, "as_check")
  /\ IF locked # NoProc /\ k[p].ret # "as_check"
       THEN Call(p, "sleep", LockChan, "as_check") /\ UNCHANGED <<lock, locked>>
       ELSE locked' = p /\ Release("lk") /\ Goto(p, "held")
  /\ UNCHANGED <<table, plock, cproc>>

as_check(c, p) ==
  /\ At(c, p, "as_check")
  /\ IF locked # NoProc
       THEN Call(p, "sleep", LockChan, "as_check") /\ UNCHANGED <<lock, locked>>
       ELSE locked' = p /\ Release("lk") /\ Goto(p, "held")
  /\ UNCHANGED <<table, plock, cproc>>

releasesleep(c, p) ==
  /\ At(c, p, "held")
  /\ Acquire("lk", c)
  /\ locked' = NoProc
  /\ Call(p, "wakeup", LockChan, "rs_done")
  /\ UNCHANGED <<table, plock, cproc>>

rs_done(c, p) ==
  /\ At(c, p, "rs_done")
  /\ Release("lk")
  /\ Goto(p, "trapret")
  /\ UNCHANGED <<table, plock, locked, cproc>>

(***************************************************************************)
(* The specification.                                                      *)
(***************************************************************************)
\* The processes that may still take a pid.
Forking == {q \in Procs : "allocproc" \in {k[q].pc, k[q].ipc}}

\* A system call begins.  The bound MaxPid limits the number of forks.
Enter(c, p) ==
  \/ nextpid + Cardinality(Forking) <= MaxPid /\ Syscall(c, p, "fork", "allocproc", -1)
  \/ Syscall(c, p, "exit", "exit", -1)
  \/ Syscall(c, p, "wait", "wait", -1)
  \/ \E n \in KillPids : Syscall(c, p, "kill", "kill", n)
  \/ Syscall(c, p, "sleeplock", "acquiresleep", -1)

\* A process that is in the kernel goes on.
Run(c, p) ==
  \/ trapret(c, p) \/ sleep(c, p) \/ sleep_set(c, p) \/ reacquire(c, p) \/ wakeup(c, p)
  \/ allocproc(c, p) \/ fork_copy(c, p) \/ fork_parent(c, p) \/ fork_run(c, p)
  \/ exit(c, p) \/ reparent(c, p) \/ exit_wakeup(c, p) \/ exit_lock(c, p) \/ exit_zombie(c, p)
  \/ wait(c, p) \/ wait_scan(c, p) \/ wait_sleep(c, p) \/ kill(c, p)
  \/ acquiresleep(c, p) \/ as_check(c, p) \/ releasesleep(c, p) \/ rs_done(c, p)

Next == \E c \in Cpus, p \in Procs : 
  \/ Schedule(c, p) \/ Switch(c, p) \/ Resume(c, p) \/ yield(c, p)
  \/ Enter(c, p) \/ Run(c, p)

Spec == Init /\ [][Next]_vars

(***************************************************************************)
(* Fairness: the CPU of a process executes its code, between interrupts    *)
(* too, and gets a spin lock that is free again and again; the scheduler,  *)
(* which goes round the table, runs every runnable process; a process in   *)
(* user mode is interrupted by the timer.  No process has to make a system *)
(* call.                                                                   *)
(***************************************************************************)
Fairness ==
  \A p \in Procs :
    /\ SF_vars(\E c \in Cpus : Run(c, p))
    /\ SF_vars(\E c \in Cpus : Schedule(c, p))
    /\ WF_vars(\E c \in Cpus : Switch(c, p) \/ Resume(c, p))
    /\ WF_vars(\E c \in Cpus : At(c, p, "user") /\ yield(c, p))

LiveSpec == Spec /\ Fairness

(***************************************************************************)
(* Properties.                                                             *)
(***************************************************************************)

\* Every variable has its type, and exactly the slots in use have a pid.
TypeOK ==
  /\ \A p \in Procs : pid[p] = 0 <=> state[p] = "UNUSED"
  /\ \A p \in Procs : pid[p] < nextpid
  /\ state \in [Procs -> States] /\ chan \in [Procs -> -1..NPROC] /\ killed \in [Procs -> BOOLEAN]
  /\ parent \in [Procs -> Procs \cup {NoProc}] /\ pid \in [Procs -> Nat] /\ nextpid \in Nat
  /\ plock \in [Procs -> Cpus \cup {NoCpu}] /\ lock \in [{"wait_lock", "lk"} -> Cpus \cup {NoCpu}]
  /\ locked \in Procs \cup {NoProc} /\ cproc \in [Cpus -> Procs \cup {NoProc}] /\ k \in [Procs -> Frame]

\* A kernel stack is used by one CPU, and nobody frees or reuses the slot under it: the
\* process handed over by swtch keeps p->lock until the scheduler is on its own stack.
StackInUse ==
  \A c \in Cpus : cproc[c] # NoProc =>
    /\ \A d \in Cpus \ {c} : cproc[d] # cproc[c]
    /\ state[cproc[c]] = "RUNNING" \/ plock[cproc[c]] = c
    /\ state[cproc[c]] \notin {"UNUSED", "USED"}

\* At sched(), the CPU holds p->lock and no other lock (the panics "sched p->lock" and
\* "sched locks" are not reached).
SchedLocks ==
  \A c \in Cpus : cproc[c] # NoProc /\ k[cproc[c]].pc = "swtch" =>
    /\ {p \in Procs : plock[p] = c} = {cproc[c]}
    /\ c \notin {lock["wait_lock"], lock["lk"]}

\* The hand-over of a CPU between a process and the scheduler is sound: one CPU to a
\* stack, and p->lock alone across swtch.
SwitchOK == TypeOK /\ StackInUse /\ SchedLocks

\* A process always has a parent that can wait for it: exit hands its children to init
\* before it becomes a zombie, also when they exit at the same time.
NoOrphan ==
  \A q \in Procs \ {initproc} : state[q] \notin {"UNUSED", "USED"} =>
    parent[q] # NoProc /\ state[parent[q]] \notin {"UNUSED", "USED", "ZOMBIE"}

\* No wakeup of wait is lost: when wait_lock is free, a process asleep in wait has no
\* zombie child (exit calls wakeup under wait_lock, sleep gives it up under p->lock).
NoLostWakeup ==
  lock["wait_lock"] = NoCpu =>
    \A p, q \in Procs : state[p] = "SLEEPING" /\ chan[p] = p /\ parent[q] = p => state[q] # "ZOMBIE"

\* The sleep lock is held by one process, and only by one between acquiresleep and
\* releasesleep; a process asleep on it is woken when it is free.
SleepLockOK ==
  /\ \A p \in Procs : k[p].pc = "held" \/ (k[p].pc = "swtch" /\ k[p].ipc = "held") => locked = p
  /\ lock["lk"] = NoCpu /\ locked = NoProc =>
       \A p \in Procs : ~(state[p] = "SLEEPING" /\ chan[p] = LockChan)

\* kill touches only the process whose pid it was given, not one that gets its slot
\* later: a process marked killed has a pid that was passed to kill.  (Pid 0 is that of
\* every unused slot: kill(0) marks a slot whose next process is born killed.)
KillHitsTarget ==
  0 \notin KillPids => \A p \in Procs : state[p] # "UNUSED" /\ killed[p] => pid[p] \in KillPids

\* A process that waits while it has a zombie child returns from wait.
WaitReturns ==
  \A p, q \in Procs :
    (k[p].ret = "wait_scan" /\ parent[q] = p /\ state[q] = "ZOMBIE") ~> (k[p].ret # "wait_scan")

\* A killed process that runs goes to sleep or exits: it does not run programs for ever.
KilledStops ==
  \A p \in Procs \ {initproc} :
    (killed[p] /\ state[p] = "RUNNING") ~> state[p] \in {"UNUSED", "ZOMBIE", "SLEEPING"}
====
