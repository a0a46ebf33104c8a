------------------------------ MODULE ProcProofs ------------------------------
(***************************************************************************)
(* Theorems about processes and sleep locks: the hand-over of CPUs and     *)
(* stacks, the tree of parents, the wakeups of wait and of the sleep lock, *)
(* and the marks of kill.  Here are the steps that change a process's      *)
(* state, those of fork and of the scheduler, and the initial state.       *)
(***************************************************************************)
EXTENDS ProcInvariant

\* The prover of a leaf that names none.
USE ZenonT(20)

-----------------------------------------------------------------------------
(* The steps that change the table.                                        *)

\* sleep() sets p->chan and p->state, and releases its lock.
LEMMA SleepSetInv ==
  ASSUME IInv, NEW c \in Cpus, NEW p \in Procs, sleep_set(c, p)
  PROVE  IInv'
<1>1. /\ k[p].pc = "sleep_set" /\ cproc[c] = p /\ k \in [Procs -> Frame] /\ Release(SleepLock(p))
      /\ chan' = [chan EXCEPT ![p] = k[p].arg] /\ state' = [state EXCEPT ![p] = "SLEEPING"]
      /\ k' = [k EXCEPT ![p].pc = "swtch", ![p].ipc = "reacquire"]
      /\ UNCHANGED <<killed, parent, pid, nextpid, plock, locked, cproc>>
      /\ {"swtch", "reacquire"} \subseteq PCs
  BY DEF sleep_set, At, IInv, TypeOK, PCs
<1>2. Moved(p, "swtch", "reacquire", k[p].ret, k[p].i, k[p].arg)
  BY <1>1, SwtchMoved
<1>3. \/ /\ k[p].ret = "wait_scan" /\ k[p].arg = p /\ k[p].i = 0
         /\ SleepLock(p) = "wait_lock" /\ HoldsWait(p) /\ ~HoldsLk(p)
      \/ /\ k[p].ret = "as_check" /\ k[p].arg = LockChan
         /\ SleepLock(p) = "lk" /\ HoldsLk(p) /\ ~HoldsWait(p)
  BY <1>1, Constants DEF IInv, Stacks, Stack, Pos, SleepLock, HoldsWait, HoldsLk
<1>4. /\ lock' \in [{"wait_lock", "lk"} -> Cpus \cup {NoCpu}]
      /\ \/ lock'["wait_lock"] = NoCpu /\ lock'["lk"] = lock["lk"] /\ HoldsWait(p) /\ ~HoldsLk(p)
         \/ lock'["lk"] = NoCpu /\ lock'["wait_lock"] = lock["wait_lock"] /\ HoldsLk(p) /\ ~HoldsWait(p)
  BY <1>1, <1>3, ReleaseType
<1>5. /\ state'[p] = "SLEEPING" /\ chan'[p] = k[p].arg /\ state[p] = "RUNNING"
      /\ \A q \in Procs : q # p => state'[q] = state[q] /\ chan'[q] = chan[q]
  BY <1>1, RunsThere, SMT DEF IInv, TypeOK
<1>6. TypeOK'
  <2>1. k[p].arg \in -1..NPROC
    BY <1>3, Constants, SMT DEF Procs, LockChan
  <2>2. state' \in [Procs -> States] /\ chan' \in [Procs -> -1..NPROC]
    BY <1>1, <2>1 DEF IInv, TypeOK, States
  <2>3. \A q \in Procs : pid'[q] = 0 <=> state'[q] = "UNUSED"
    BY <1>1, <1>5 DEF IInv, TypeOK
  <2> QED
    BY <1>1, <1>2, <1>4, <2>2, <2>3 DEF IInv, TypeOK, Moved
<1>7. OnCpu'
  BY <1>1, <1>2, <1>5, SMT DEF IInv, OnCpu, Moved
<1>8. ProcLocks'
  BY <1>1, <1>2, SMT DEF IInv, ProcLocks, OwnPCs, Moved
<1>9. Locks'
  <2>1. ~HoldsWait(p)' /\ ~HoldsLk(p)'
    BY <1>2 DEF HoldsWait, HoldsLk, Moved
  <2> QED
    BY <1>1, <1>2, <1>4, <2>1, LockStep
<1>10. Stacks'
  <2>1. ASSUME NEW q \in Procs, q # p PROVE Stack(q)' /\ Sleeping(q)'
    BY <1>1, <1>2, <1>5, <2>1, OtherStack DEF Moved
  <2>2. Stack(p)'
    BY <1>2, <1>3, <1>5 DEF Stack, Pos, Leaving, NotAlive, Preemptible, Moved
  <2>3. Sleeping(p)'
    BY <1>2, <1>3, <1>5, Constants DEF Sleeping, Moved
  <2> QED
    BY <2>1, <2>2, <2>3 DEF Stacks
<1>11. Children'
  <2>1. Pos(p)' \notin ForkPCs /\ \A x \in Procs : x # p => Pos(x)' = Pos(x) /\ k'[x] = k[x]
    BY <1>2 DEF Pos, ForkPCs, Moved
  <2> QED
    BY <1>1, <1>5, <2>1, SMT DEF IInv, Children
<1>12. Family'
  <2>1. \A x \in Procs : Leaving(x)' => Leaving(x)
    BY <1>2 DEF Leaving, Moved
  <2>2. k'[initproc].pc # "reparent"
    BY <1>2, Constants DEF IInv, Family, Moved
  <2> QED
    BY <1>1, <1>5, <2>1, <2>2, Constants, SMT DEF IInv, Family, NotAlive
<1>13. Waiting'
  <2>1. ASSUME k[p].ret = "wait_scan", NEW y \in Procs
        PROVE  /\ parent[y] = p => state[y] # "ZOMBIE"
               /\ k[y].pc \notin {"exit_lock", "exit_zombie"}
               /\ ~(k[y].pc = "wakeup" /\ k[y].ret = "exit_lock")
    <3>1. HoldsWait(y) => y = p
      BY <1>3, <2>1, OneHolder
    <3> QED
      BY <1>1, <2>1, <3>1 DEF IInv, Waiting, HoldsWait
  <2>2. ASSUME NEW x \in Procs, NEW y \in Procs, state'[x] = "SLEEPING", chan'[x] = x, parent[y] = x
        PROVE  /\ state'[y] = "ZOMBIE" => x = initproc /\ \E r \in Procs :
                      k'[r].pc = "wakeup" /\ k'[r].ret = "exit_wakeup" /\ k'[r].i = 0
               /\ k'[y].pc \notin {"exit_lock", "exit_zombie"}
               /\ k'[y].pc = "wakeup" /\ k'[y].ret = "exit_lock" => k'[y].i <= x
    <3>1. CASE x = p
      <4>1. k[p].ret = "wait_scan"
        BY <1>3, <1>5, <2>2, <3>1, Constants
      <4> QED
        BY <1>2, <1>5, <2>1, <2>2, <3>1, <4>1 DEF Moved
    <3>2. CASE x # p
      <4>1. state[x] = "SLEEPING" /\ chan[x] = x
        BY <1>5, <2>2, <3>2
      <4> QED
        BY <1>1, <1>2, <1>5, <2>2, <4>1, SMTT(30) DEF IInv, Waiting, Moved
    <3> QED
      BY <3>1, <3>2
  <2>3. ASSUME NEW x \in Procs, NEW y \in Procs, parent[y] = x, state'[y] = "ZOMBIE"
        PROVE  /\ k'[x].pc = "wait_scan" => k'[x].i <= y
               /\ k'[x].pc \in {"sleep", "sleep_set"} => k'[x].ret # "wait_scan"
    BY <1>2, <1>5, <2>3, SMT DEF IInv, Waiting, Moved
  <2> QED
    BY <1>1, <2>2, <2>3 DEF Waiting
<1>14. Exclusive'
  <2>1. \A x \in Procs : Pos(x)' = "held" => locked' = x
    BY <1>1, <1>2 DEF IInv, Exclusive, Pos, Moved
  <2>2. ASSUME locked = NoProc, NEW x \in Procs
        PROVE  /\ state'[x] = "SLEEPING" /\ chan'[x] = LockChan => \E r \in Procs :
                    k'[r].pc = "wakeup" /\ k'[r].ret = "rs_done" /\ k'[r].i <= x
               /\ k'[x].pc \in {"sleep", "sleep_set"} => k'[x].ret # "as_check"
    <3>1. k[p].ret # "as_check"
      BY <1>1, <2>2 DEF IInv, Exclusive
    <3>2. chan'[p] # LockChan
      BY <1>3, <1>5, <3>1, Constants
    <3> QED
      BY <1>1, <1>2, <1>5, <2>2, <3>2, SMTT(30) DEF IInv, Exclusive, Moved
  <2> QED
    BY <1>1, <2>1, <2>2 DEF Exclusive
<1>15. Marks'
  <2>1. Marks /\ \A q \in Procs : state'[q] = "UNUSED" => state[q] = "UNUSED"
    BY <1>5 DEF IInv
  <2> QED
    BY <1>1, <2>1 DEF Marks
<1> QED
  BY <1>6, <1>7, <1>8, <1>9, <1>10, <1>11, <1>12, <1>13, <1>14, <1>15 DEF IInv

\* exit() makes the process a zombie and releases wait_lock.
LEMMA ExitZombieInv ==
  ASSUME IInv, NEW c \in Cpus, NEW p \in Procs, exit_zombie(c, p)
  PROVE  IInv'
<1>1. /\ k[p].pc = "exit_zombie" /\ cproc[c] = p /\ k \in [Procs -> Frame] /\ Release("wait_lock")
      /\ state' = [state EXCEPT ![p] = "ZOMBIE"] /\ Goto(p, "swtch") /\ "swtch" \in PCs
      /\ UNCHANGED <<chan, killed, parent, pid, nextpid, plock, locked, cproc>>
  BY DEF exit_zombie, At, IInv, TypeOK, PCs
<1>2. Moved(p, "swtch", k[p].ipc, k[p].ret, k[p].i, k[p].arg)
  BY <1>1, GotoMoved
<1>3. /\ lock' \in [{"wait_lock", "lk"} -> Cpus \cup {NoCpu}]
      /\ lock'["wait_lock"] = NoCpu /\ lock'["lk"] = lock["lk"]
  BY <1>1, ReleaseType
<1>4. /\ state'[p] = "ZOMBIE" /\ state[p] = "RUNNING" /\ chan[p] = NoChan
      /\ \A q \in Procs : q # p => state'[q] = state[q]
  BY <1>1, RunsThere DEF IInv, TypeOK
<1>5. k[p].ipc \in {"user", "exit"} /\ HoldsWait(p) /\ Leaving(p) /\ p # initproc
  BY <1>1 DEF IInv, Stacks, Stack, HoldsWait, Leaving, Family
<1>6. TypeOK'
  <2>1. state' \in [Procs -> States]
    BY <1>1 DEF IInv, TypeOK, States
  <2>2. \A q \in Procs : pid'[q] = 0 <=> state'[q] = "UNUSED"
    BY <1>1, <1>4 DEF IInv, TypeOK
  <2> QED
    BY <1>1, <1>2, <1>3, <2>1, <2>2 DEF IInv, TypeOK, Moved
<1>7. OnCpu'
  BY <1>1, <1>2, <1>4, SMTT(30) DEF IInv, OnCpu, Moved
<1>8. ProcLocks'
  BY <1>1, <1>2, SMT DEF IInv, ProcLocks, OwnPCs, Moved
<1>9. Locks'
  <2>1. ~HoldsWait(p)' /\ (HoldsLk(p)' <=> HoldsLk(p))
    BY <1>1, <1>2 DEF HoldsWait, HoldsLk, Moved
  <2> QED
    BY <1>1, <1>2, <1>3, <1>5, <2>1, LockStep
<1>10. Stacks'
  <2>1. ASSUME NEW q \in Procs, q # p PROVE Stack(q)' /\ Sleeping(q)'
    BY <1>1, <1>2, <1>4, <2>1, OtherStack DEF Moved
  <2>2. Stack(p)' /\ Sleeping(p)'
    BY <1>1, <1>2, <1>4, <1>5 DEF Stack, Sleeping, Pos, Leaving, Preemptible, Moved
  <2> QED
    BY <2>1, <2>2 DEF Stacks
<1>11. Children'
  <2>1. Pos(p)' \notin ForkPCs /\ \A x \in Procs : x # p => Pos(x)' = Pos(x) /\ k'[x] = k[x]
    BY <1>2, <1>5 DEF Pos, ForkPCs, Moved
  <2> QED
    BY <1>1, <1>4, <2>1, SMT DEF IInv, Children
<1>12. Family'
  <2>1. \A x \in Procs : Leaving(x)' => Leaving(x)
    BY <1>2 DEF Leaving, Moved
  <2>2. k'[initproc].pc # "reparent"
    BY <1>2, <1>5, Constants DEF IInv, Family, Moved
  <2>3. parent[p] # NoProc
    BY <1>4, <1>5 DEF IInv, Family
  <2> QED
    BY <1>1, <1>4, <1>5, <2>1, <2>2, <2>3, Constants, SMTT(30) DEF IInv, Family
<1>13. Waiting'
  <2>1. \A x \in Procs : HoldsWait(x) => x = p
    BY <1>5, OneHolder
  <2>2. ASSUME NEW x \in Procs, NEW y \in Procs, state'[x] = "SLEEPING", chan[x] = x, parent[y] = x
        PROVE  /\ state'[y] = "ZOMBIE" => x = initproc /\ \E r \in Procs :
                      k'[r].pc = "wakeup" /\ k'[r].ret = "exit_wakeup" /\ k'[r].i = 0
               /\ k'[y].pc \notin {"exit_lock", "exit_zombie"}
               /\ k'[y].pc = "wakeup" /\ k'[y].ret = "exit_lock" => k'[y].i <= x
    <3>1. x # p /\ state[x] = "SLEEPING"
      BY <1>4, <2>2
    <3>2. y # p
      BY <1>1, <2>2, <3>1 DEF IInv, Waiting
    <3> QED
      BY <1>1, <1>2, <1>4, <2>2, <3>1, <3>2, SMTT(30) DEF IInv, Waiting, Moved
  <2>3. ASSUME NEW x \in Procs
        PROVE  /\ k'[x].pc # "wait_scan"
               /\ k'[x].pc \in {"sleep", "sleep_set"} => k'[x].ret # "wait_scan"
    BY <1>2, <2>1 DEF HoldsWait, Moved
  <2> QED
    BY <1>1, <2>2, <2>3 DEF Waiting
<1>14. Exclusive'
  BY <1>1, <1>2, <1>4, <1>5, SMTT(30) DEF IInv, Exclusive, Pos, Moved
<1>15. Marks'
  <2>1. Marks /\ \A q \in Procs : state'[q] = "UNUSED" => state[q] = "UNUSED"
    BY <1>4 DEF IInv
  <2> QED
    BY <1>1, <2>1 DEF Marks
<1> QED
  BY <1>6, <1>7, <1>8, <1>9, <1>10, <1>11, <1>12, <1>13, <1>14, <1>15 DEF IInv

\* reparent(): one slot of its loop.
LEMMA ReparentInv ==
  ASSUME IInv, NEW c \in Cpus, NEW p \in Procs, reparent(c, p)
  PROVE  IInv'
<1>1. /\ k[p].pc = "reparent" /\ cproc[c] = p /\ k \in [Procs -> Frame]
      /\ parent' = [q \in Procs |-> IF parent[q] = p THEN initproc ELSE parent[q]]
      /\ UNCHANGED <<state, chan, killed, pid, nextpid, plock, lock, locked, cproc>>
      /\ {"wakeup", "exit_wakeup"} \subseteq PCs
  BY DEF reparent, At, IInv, TypeOK, PCs
<1>2. p # initproc /\ HoldsWait(p) /\ state[p] = "RUNNING" /\ k[p].ipc \in {"user", "exit"}
  BY <1>1, RunsThere DEF IInv, Family, HoldsWait, Stacks, Stack
<1>3. PICK l \in {"wakeup", "exit_wakeup"}, r \in PCs, j \in 0..NPROC, a \in Int :
        /\ Moved(p, l, k[p].ipc, r, j, a)
        /\ l = "wakeup" => r = "exit_wakeup" /\ a = initproc /\ j = 0
        /\ l = "exit_wakeup" => \A q \in Procs : parent[q] # p
  <2>1. CASE \E q \in Procs : parent[q] = p
    <3>1. Moved(p, "wakeup", k[p].ipc, "exit_wakeup", 0, initproc)
      BY <1>1, <2>1, CallMoved, Constants DEF reparent
    <3>2. 0 \in 0..NPROC /\ initproc \in Int
      BY Constants, SMT
    <3> QED
      BY <1>1, <3>1, <3>2
  <2>2. CASE \A q \in Procs : parent[q] # p
    <3>1. Moved(p, "exit_wakeup", k[p].ipc, k[p].ret, k[p].i, k[p].arg)
      BY <1>1, <2>2, GotoMoved DEF reparent
    <3>2. k[p].ret \in PCs /\ k[p].i \in 0..NPROC /\ k[p].arg \in Int
      BY <1>1 DEF Frame
    <3> QED
      BY <2>2, <3>1, <3>2
  <2> QED
    BY <2>1, <2>2
<1>4. \A q \in Procs : /\ parent[q] = p => parent'[q] = initproc
                       /\ parent[q] # p => parent'[q] = parent[q]
                       /\ parent'[q] # p
  BY <1>1, <1>2
<1>5. \A x \in Procs : HoldsWait(x) => x = p
  BY <1>2, OneHolder
<1>6. TypeOK'
  BY <1>1, <1>3, Constants DEF IInv, TypeOK, Moved
<1>7. OnCpu' /\ ProcLocks'
  BY <1>1, <1>3, KeepOnCpu, KeepProcLocks DEF Roused, OwnPCs
<1>8. Locks'
  <2>1. HoldsWait(p)' /\ (HoldsLk(p)' <=> HoldsLk(p))
    BY <1>1, <1>3 DEF HoldsWait, HoldsLk, Moved
  <2> QED
    BY <1>1, <1>2, <1>3, <2>1, KeepLocks
<1>9. Stacks'
  <2>1. ASSUME NEW q \in Procs, q # p PROVE Stack(q)' /\ Sleeping(q)'
    <3>1. k'[q] = k[q] /\ ~(k[q].pc = "wakeup" /\ k[q].ret = "exit_lock")
      BY <1>3, <1>5, <2>1 DEF Moved, HoldsWait
    <3> QED
      BY <1>1, <2>1, <3>1, OtherStack
  <2>2. Stack(p)' /\ Sleeping(p)'
    <3>1. chan[p] = NoChan
      BY <1>1, RunsThere
    <3> QED
      BY <1>1, <1>2, <1>3, <3>1 DEF Stack, Sleeping, Pos, Leaving, NotAlive, Moved
  <2> QED
    BY <2>1, <2>2 DEF Stacks
<1>10. Children'
  <2>1. /\ Pos(p)' \notin ForkPCs /\ Pos(p) \notin ForkPCs
        /\ \A x \in Procs : x # p => Pos(x)' = Pos(x) /\ k'[x] = k[x]
    BY <1>1, <1>3 DEF Pos, ForkPCs, Moved
  <2> QED
    BY <1>1, <1>4, <2>1, SMT DEF IInv, Children
<1>11. Family'
  <2>1. \A x \in Procs : x # p => (Leaving(x)' => Leaving(x))
    BY <1>3 DEF Leaving, Moved
  <2>2. k'[initproc].pc # "reparent"
    BY <1>2, <1>3, Constants DEF IInv, Family, Moved
  <2>3. ASSUME NEW x \in Procs, NEW y \in Procs, state[x] \in NotAlive \/ Leaving(x)'
        PROVE  parent'[y] # x
    BY <1>2, <1>4, <2>1, <2>3 DEF IInv, Family
  <2>4. \A y \in Procs : parent[y] # NoProc => parent'[y] # NoProc
    BY <1>4, Constants
  <2> QED
    BY <1>1, <1>2, <2>1, <2>2, <2>3, <2>4, Constants DEF IInv, Family
<1>12. Waiting'
  <2>1. ASSUME NEW x \in Procs, NEW y \in Procs, state[x] = "SLEEPING", chan[x] = x, parent'[y] = x
        PROVE  /\ state[y] = "ZOMBIE" => x = initproc /\ \E s \in Procs :
                      k'[s].pc = "wakeup" /\ k'[s].ret = "exit_wakeup" /\ k'[s].i = 0
               /\ k'[y].pc \notin {"exit_lock", "exit_zombie"}
               /\ k'[y].pc = "wakeup" /\ k'[y].ret = "exit_lock" => k'[y].i <= x
    <3>1. /\ k'[y].pc \notin {"exit_lock", "exit_zombie"}
          /\ ~(k'[y].pc = "wakeup" /\ k'[y].ret = "exit_lock")
      BY <1>3, <1>5 DEF Moved, HoldsWait
    <3>2. CASE parent[y] = p
      <4>1. x = initproc /\ l = "wakeup"
        BY <1>3, <1>4, <2>1, <3>2
      <4> QED
        BY <1>3, <3>1, <4>1 DEF Moved
    <3>3. CASE parent[y] # p
      <4>1. parent[y] = x
        BY <1>4, <2>1, <3>3
      <4> QED
        BY <1>1, <1>3, <2>1, <3>1, <4>1, SMTT(30) DEF IInv, Waiting, Moved
    <3> QED
      BY <3>2, <3>3
  <2>2. ASSUME NEW x \in Procs
        PROVE  /\ k'[x].pc # "wait_scan"
               /\ k'[x].pc \in {"sleep", "sleep_set"} => k'[x].ret # "wait_scan"
    BY <1>1, <1>3, <1>5 DEF HoldsWait, Moved
  <2> QED
    BY <1>1, <2>1, <2>2 DEF Waiting
<1>13. Exclusive' /\ Marks'
  BY <1>1, <1>3, KeepExclusive, KeepMarks DEF Roused
<1> QED
  BY <1>6, <1>7, <1>8, <1>9, <1>10, <1>11, <1>12, <1>13 DEF IInv

-----------------------------------------------------------------------------
(* fork().                                                                 *)

\* allocproc takes the slot q: nobody is on its stack, and its pid is new.
LEMMA FoundInv ==
  ASSUME IInv, NEW c \in Cpus, NEW p \in Procs, NEW q \in Procs, k[p].pc = "allocproc", k[p].i = q,
         cproc[c] = p, Free(q), state[q] = "UNUSED", state' = [state EXCEPT ![q] = "USED"],
         pid' = [pid EXCEPT ![q] = nextpid], nextpid' = nextpid + 1, plock' = [plock EXCEPT ![q] = c],
         k' = [k EXCEPT ![p].pc = "fork_copy", ![p].ipc = "user", ![q] = ForkretFrame],
         UNCHANGED <<chan, killed, parent, lock, locked, cproc>>
  PROVE  IInv'
<1>1. /\ p # q /\ state[p] = "RUNNING" /\ chan[p] = NoChan /\ k[q].pc = "swtch" /\ chan[q] = NoChan
      /\ \A d \in Cpus : cproc[d] # q
  <2>1. state[p] = "RUNNING" /\ chan[p] = NoChan
    BY RunsThere
  <2>2. k[q].pc = "swtch" /\ \A d \in Cpus : cproc[d] # q
    BY DEF IInv, OnCpu
  <2>3. k[q].ipc \in {"user", "exit"}
    BY DEF IInv, Stacks, Stack, NotAlive
  <2> QED
    BY <2>1, <2>2, <2>3 DEF IInv, Stacks, Sleeping
<1>2. /\ k'[p].pc = "fork_copy" /\ k'[p].ipc = "user" /\ k'[p].i = q
      /\ k'[q].pc = "swtch" /\ k'[q].ipc = "user"
      /\ \A x \in Procs : x # p /\ x # q => k'[x] = k[x]
      /\ k' \in [Procs -> Frame]
  <2> DEFINE f == [k[p] EXCEPT !.pc = "fork_copy", !.ipc = "user"]
  <2>1. k \in [Procs -> Frame] /\ {"fork_copy", "user", "swtch"} \subseteq PCs /\ 0 \in 0..NPROC /\ -1 \in Int
    BY Constants, SMT DEF IInv, TypeOK, PCs
  <2>2. f \in Frame /\ f.pc = "fork_copy" /\ f.ipc = "user" /\ f.i = q
    BY <2>1 DEF Frame
  <2>3. ForkretFrame \in Frame /\ ForkretFrame.pc = "swtch" /\ ForkretFrame.ipc = "user"
    BY <2>1 DEF Frame, ForkretFrame, UserFrame
  <2>4. k' = [k EXCEPT ![p] = f, ![q] = ForkretFrame]
    OBVIOUS
  <2> HIDE DEF f
  <2> QED
    BY <1>1, <2>1, <2>2, <2>3, <2>4, SMT
<1>3. /\ state'[q] = "USED" /\ pid'[q] = nextpid /\ plock'[q] = c
      /\ \A x \in Procs : x # q => state'[x] = state[x] /\ pid'[x] = pid[x] /\ plock'[x] = plock[x]
  BY DEF IInv, TypeOK
<1>4. nextpid \in Nat /\ nextpid > 0
  BY DEF IInv, TypeOK
<1>5. TypeOK'
  <2>1. state' \in [Procs -> States] /\ plock' \in [Procs -> Cpus \cup {NoCpu}]
    BY DEF IInv, TypeOK, States
  <2>2. nextpid' \in Nat /\ pid' \in [Procs -> Nat]
    BY <1>4, SMT DEF IInv, TypeOK
  <2>3. \A x \in Procs : pid[x] \in Nat /\ pid[x] < nextpid /\ (pid[x] = 0 <=> state[x] = "UNUSED")
    BY DEF IInv, TypeOK
  <2>4. \A x \in Procs : (pid'[x] = 0 <=> state'[x] = "UNUSED") /\ pid'[x] < nextpid'
    BY <1>3, <1>4, <2>3, SMT
  <2> QED
    BY <1>2, <2>1, <2>2, <2>4 DEF IInv, TypeOK
<1>6. OnCpu'
  BY <1>1, <1>2, <1>3, SMT DEF IInv, OnCpu
<1>7. ProcLocks'
  <2>1. plock[q] = NoCpu /\ NoCpu \notin Cpus /\ p # NoProc
    BY Constants DEF Free
  <2>2. \A d \in Cpus : cproc[d] = p => d = c
    BY <2>1, SMT DEF IInv, OnCpu
  <2>3. ASSUME NEW d \in Cpus, NEW x \in Procs, plock'[x] = d
        PROVE  \/ cproc'[d] = x /\ k'[x].pc \in OwnPCs
               \/ \E y \in Procs : cproc'[d] = y /\ k'[y].pc = "fork_copy" /\ k'[y].i = x
    <3>1. CASE x = q
      BY <1>2, <1>3, <2>3, <3>1, SMTT(30)
    <3>2. CASE x # q
      <4>1. plock[x] = d
        BY <1>3, <2>3, <3>2
      <4>2. k[p].pc \notin OwnPCs \cup {"fork_copy"} /\ k[q].pc # "fork_copy"
        BY <1>1 DEF OwnPCs
      <4> QED
        BY <1>1, <1>2, <3>2, <4>1, <4>2, SMTT(30) DEF IInv, ProcLocks
    <3> QED
      BY <3>1, <3>2
  <2>4. ASSUME NEW d \in Cpus, NEW x \in Procs, cproc'[d] = x
        PROVE  /\ k'[x].pc \in OwnPCs => plock'[x] = d
               /\ k'[x].pc = "fork_copy" => plock'[k'[x].i] = d
    <3>1. CASE x = p
      BY <1>2, <1>3, <2>2, <2>4, <3>1, SMTT(30) DEF OwnPCs
    <3>2. CASE x # p
      <4>1. x # q /\ k'[x] = k[x] /\ plock'[x] = plock[x]
        BY <1>1, <1>2, <1>3, <2>4, <3>2
      <4>2. k[x].pc = "fork_copy" => k[x].i \in Procs /\ k[x].i # q
        BY DEF IInv, Children, ForkPCs, Pos
      <4> QED
        BY <1>3, <2>4, <4>1, <4>2, SMTT(30) DEF IInv, ProcLocks
    <3> QED
      BY <3>1, <3>2
  <2> QED
    BY <2>3, <2>4 DEF ProcLocks
<1>8. Locks'
  <2>1. \A x \in Procs : (HoldsWait(x)' <=> HoldsWait(x)) /\ (HoldsLk(x)' <=> HoldsLk(x))
    BY <1>1, <1>2, SMT DEF HoldsWait, HoldsLk
  <2> QED
    BY <2>1 DEF IInv, Locks
<1>9. Stacks'
  <2>1. ASSUME NEW x \in Procs, x # q, x # p PROVE Stack(x)' /\ Sleeping(x)'
    BY <1>2, <1>3, <2>1, OtherStack
  <2>2. Stack(q)' /\ Sleeping(q)'
    BY <1>1, <1>2, <1>3 DEF Stack, Sleeping, Pos, Leaving, Preemptible
  <2>3. Stack(p)' /\ Sleeping(p)'
    BY <1>1, <1>2, <1>3 DEF Stack, Sleeping, Pos, Leaving, NotAlive
  <2> QED
    BY <2>1, <2>2, <2>3 DEF Stacks
<1>10. Children'
  <2>1. /\ Pos(p)' = "fork_copy" /\ Pos(q)' \notin ForkPCs
        /\ \A x \in Procs : x # p /\ x # q => Pos(x)' = Pos(x) /\ k'[x] = k[x]
    BY <1>2 DEF Pos, ForkPCs
  <2>2. \A x \in Procs : Pos(x) \in ForkPCs => k[x].i # q /\ k[x].i \in Procs
    BY DEF IInv, Children
  <2>3. ASSUME NEW x \in Procs, Pos(x)' \in ForkPCs
        PROVE  /\ k'[x].i \in Procs /\ state'[k'[x].i] = "USED"
               /\ Pos(x)' = "fork_run" => parent'[k'[x].i] = x
    BY <1>2, <1>3, <2>1, <2>2, <2>3, SMTT(30) DEF IInv, Children
  <2>4. ASSUME NEW x \in Procs, NEW y \in Procs, Pos(x)' \in ForkPCs, Pos(y)' \in ForkPCs,
               k'[x].i = k'[y].i
        PROVE  x = y
    BY <1>2, <2>1, <2>2, <2>4, SMT DEF IInv, Children
  <2> QED
    BY <2>3, <2>4 DEF Children
<1>11. Family'
  <2>1. \A x \in Procs : /\ Leaving(x)' => Leaving(x)
                         /\ k'[x].pc = "reparent" => k[x].pc = "reparent"
    BY <1>2 DEF Leaving
  <2>2. \A x \in Procs : /\ state'[x] \in NotAlive <=> state[x] \in NotAlive
                         /\ state'[x] \notin {"UNUSED", "USED"} => state[x] \notin {"UNUSED", "USED"}
    BY <1>3 DEF NotAlive
  <2>3. /\ state'[initproc] \notin NotAlive /\ ~Leaving(initproc)'
        /\ k'[initproc].pc # "reparent"
    BY <2>1, <2>2, Constants DEF IInv, Family
  <2>4. \A x, y \in Procs : state'[x] \in NotAlive \/ Leaving(x)' => parent[y] # x
    BY <2>1, <2>2 DEF IInv, Family
  <2>5. \A x \in Procs \ {initproc} : state'[x] \notin {"UNUSED", "USED"} => parent[x] # NoProc
    BY <2>2 DEF IInv, Family
  <2> QED
    BY <2>3, <2>4, <2>5 DEF Family
<1>12. Waiting'
  <2>1. \A x \in Procs : /\ state'[x] = "SLEEPING" => state[x] = "SLEEPING"
                         /\ state'[x] = "ZOMBIE" => state[x] = "ZOMBIE"
                         /\ k'[x] = k[x] \/ k'[x].pc \in {"swtch", "fork_copy"}
                         /\ k[x].pc = "wakeup" => k'[x] = k[x]
    BY <1>1, <1>2, <1>3, SMT
  <2>2. ASSUME NEW x \in Procs, NEW y \in Procs, state'[x] = "SLEEPING", chan[x] = x, parent[y] = x
        PROVE  /\ state'[y] = "ZOMBIE" => x = initproc /\ \E s \in Procs :
                      k'[s].pc = "wakeup" /\ k'[s].ret = "exit_wakeup" /\ k'[s].i = 0
               /\ k'[y].pc \notin {"exit_lock", "exit_zombie"}
               /\ k'[y].pc = "wakeup" /\ k'[y].ret = "exit_lock" => k'[y].i <= x
    <3>1. /\ state[y] = "ZOMBIE" => x = initproc /\ \E s \in Procs :
                k[s].pc = "wakeup" /\ k[s].ret = "exit_wakeup" /\ k[s].i = 0
          /\ k[y].pc \notin {"exit_lock", "exit_zombie"}
          /\ k[y].pc = "wakeup" /\ k[y].ret = "exit_lock" => k[y].i <= x
      BY <2>1, <2>2, SMT DEF IInv, Waiting
    <3>2. (\E s \in Procs : k[s].pc = "wakeup" /\ k[s].ret = "exit_wakeup" /\ k[s].i = 0) =>
          \E s \in Procs : k'[s].pc = "wakeup" /\ k'[s].ret = "exit_wakeup" /\ k'[s].i = 0
      <4>1. \A s \in Procs : k[s].pc = "wakeup" => k'[s] = k[s]
        BY <2>1
      <4> QED
        BY <4>1
    <3>3. CASE k'[y] = k[y]
      <4>1. state'[y] = "ZOMBIE" => state[y] = "ZOMBIE"
        BY <2>1
      <4> QED
        BY <3>1, <3>2, <3>3, <4>1
    <3>4. CASE k'[y].pc \in {"swtch", "fork_copy"}
      BY <2>1, <3>1, <3>2, <3>4
    <3> QED
      BY <2>1, <3>3, <3>4
  <2>3. ASSUME NEW x \in Procs, NEW y \in Procs, parent[y] = x, state'[y] = "ZOMBIE"
        PROVE  /\ k'[x].pc = "wait_scan" => k'[x].i <= y
               /\ k'[x].pc \in {"sleep", "sleep_set"} => k'[x].ret # "wait_scan"
    <3>1. /\ k[x].pc = "wait_scan" => k[x].i <= y
          /\ k[x].pc \in {"sleep", "sleep_set"} => k[x].ret # "wait_scan"
      BY <2>1, <2>3, SMT DEF IInv, Waiting
    <3> QED
      BY <2>1, <3>1
  <2> QED
    BY <2>2, <2>3 DEF Waiting
<1>13. Exclusive'
  <2>1. \A x \in Procs : Pos(x)' = "held" => Pos(x) = "held"
    BY <1>2 DEF Pos
  <2>2. \A x \in Procs : /\ state'[x] = "SLEEPING" => state[x] = "SLEEPING"
                         /\ k'[x] = k[x] \/ k'[x].pc \in {"swtch", "fork_copy"}
                         /\ k[x].pc = "wakeup" => k'[x] = k[x]
    BY <1>1, <1>2, <1>3, SMTT(30)
  <2>3. ASSUME locked = NoProc, NEW x \in Procs
        PROVE  /\ state'[x] = "SLEEPING" /\ chan[x] = LockChan => \E s \in Procs :
                    k'[s].pc = "wakeup" /\ k'[s].ret = "rs_done" /\ k'[s].i <= x
               /\ k'[x].pc \in {"sleep", "sleep_set"} => k'[x].ret # "as_check"
    <3>1. /\ state[x] = "SLEEPING" /\ chan[x] = LockChan => \E s \in Procs :
                k[s].pc = "wakeup" /\ k[s].ret = "rs_done" /\ k[s].i <= x
          /\ k[x].pc \in {"sleep", "sleep_set"} => k[x].ret # "as_check"
      BY <2>3 DEF IInv, Exclusive
    <3>2. (\E s \in Procs : k[s].pc = "wakeup" /\ k[s].ret = "rs_done" /\ k[s].i <= x) =>
          \E s \in Procs : k'[s].pc = "wakeup" /\ k'[s].ret = "rs_done" /\ k'[s].i <= x
      <4>1. \A s \in Procs : k[s].pc = "wakeup" => k'[s] = k[s]
        BY <2>2
      <4> QED
        BY <4>1
    <3>3. k'[x].pc \in {"sleep", "sleep_set"} => k'[x].ret # "as_check"
      BY <2>2, <3>1
    <3> QED
      BY <2>2, <3>1, <3>2, <3>3
  <2> QED
    BY <2>1, <2>3 DEF IInv, Exclusive
<1>14. Marks'
  <2>1. Marks
    BY DEF IInv
  <2>2. ASSUME NEW x \in Procs, killed[x], 0 \notin KillPids
        PROVE  state'[x] # "UNUSED" /\ pid'[x] \in KillPids
    BY <1>3, <2>1, <2>2, SMT DEF Marks
  <2> QED
    BY <2>2 DEF Marks
<1> QED
  BY <1>5, <1>6, <1>7, <1>8, <1>9, <1>10, <1>11, <1>12, <1>13, <1>14 DEF IInv

\* allocproc(): one slot of its loop.
LEMMA AllocprocInv ==
  ASSUME IInv, NEW c \in Cpus, NEW p \in Procs, allocproc(c, p)
  PROVE  IInv'
<1> DEFINE q == k[p].i
<1>1. /\ k[p].pc = "allocproc" /\ k[p].pc \in WalkPCs /\ {"trapret", "allocproc"} \subseteq WalkPCs
      /\ "trapret" \in PCs /\ k \in [Procs -> Frame] /\ NPROC \in Nat /\ cproc[c] = p
      /\ UNCHANGED <<chan, killed, parent, lock, locked, cproc>>
  BY Constants DEF allocproc, At, WalkPCs, PCs, IInv, TypeOK
<1>2. CASE Goto(p, "trapret") /\ UNCHANGED <<state, pid, nextpid, plock>>
  <2>1. Moved(p, "trapret", k[p].ipc, k[p].ret, k[p].i, k[p].arg)
    BY <1>1, <1>2, GotoMoved
  <2> QED
    BY <1>1, <1>2, <2>1, QuietInv, SMTT(30) DEF table
<1>3. CASE /\ q < NPROC /\ k' = [k EXCEPT ![p].i = @ + 1, ![p].ipc = "user"]
           /\ UNCHANGED <<state, pid, nextpid, plock>>
  <2>1. Moved(p, "allocproc", "user", k[p].ret, k[p].i + 1, k[p].arg)
    BY <1>1, <1>3, TurnMoved
  <2> QED
    BY <1>1, <1>3, <2>1, QuietInv DEF table
<1>4. CASE /\ q < NPROC /\ Free(q) /\ state[q] = "UNUSED" /\ state' = [state EXCEPT ![q] = "USED"]
           /\ pid' = [pid EXCEPT ![q] = nextpid] /\ nextpid' = nextpid + 1
           /\ plock' = [plock EXCEPT ![q] = c]
           /\ k' = [k EXCEPT ![p].pc = "fork_copy", ![p].ipc = "user", ![q] = ForkretFrame]
  <2>1. q \in Procs
    BY <1>1, <1>4, SMT DEF Frame, Procs
  <2> HIDE DEF q
  <2> QED
    BY <1>1, <1>4, <2>1, FoundInv DEF q
<1> QED
  BY <1>2, <1>3, <1>4 DEF allocproc

\* fork gives up the lock of the slot.
LEMMA SlotUnlock ==
  ASSUME IInv, NEW c \in Cpus, NEW p \in Procs, cproc[c] = p, k[p].pc = "fork_copy",
         NEW l, NEW m, NEW r, NEW j, NEW a, Moved(p, l, m, r, j, a), l \notin OwnPCs \cup {"fork_copy"},
         plock' = [plock EXCEPT ![k[p].i] = NoCpu], UNCHANGED cproc
  PROVE  /\ ProcLocks'
         /\ plock' \in [Procs -> Cpus \cup {NoCpu}]
<1> DEFINE np == k[p].i
<1>1. /\ np \in Procs /\ state[np] = "USED"
      /\ \A x \in Procs : x # p /\ k[x].pc = "fork_copy" => k[x].i # np /\ k[x].i \in Procs
  BY DEF IInv, Children, ForkPCs, Pos
<1> HIDE DEF np
<1>2. plock \in [Procs -> Cpus \cup {NoCpu}] /\ plock' = [plock EXCEPT ![np] = NoCpu]
  BY DEF IInv, TypeOK, np
<1>3. plock'[np] = NoCpu /\ \A x \in Procs : x # np => plock'[x] = plock[x]
  BY <1>1, <1>2
<1>4. NoCpu \notin Cpus /\ k[p].pc \notin OwnPCs /\ \A d \in Cpus : cproc[d] # np
  BY <1>1, Constants DEF IInv, OnCpu, OwnPCs
<1>5. ASSUME NEW d \in Cpus, NEW x \in Procs, plock'[x] = d
      PROVE  \/ cproc'[d] = x /\ k'[x].pc \in OwnPCs
             \/ \E y \in Procs : cproc'[d] = y /\ k'[y].pc = "fork_copy" /\ k'[y].i = x
  <2>1. x # np /\ plock[x] = d
    BY <1>3, <1>4, <1>5
  <2> QED
    BY <1>4, <2>1, SMT DEF IInv, ProcLocks, Moved, np
<1>6. ASSUME NEW d \in Cpus, NEW x \in Procs, cproc[d] = x
      PROVE  /\ k'[x].pc \in OwnPCs => plock'[x] = d
             /\ k'[x].pc = "fork_copy" => plock'[k'[x].i] = d
  <2>1. CASE x = p
    BY <2>1 DEF Moved
  <2>2. CASE x # p
    <3>1. k'[x] = k[x] /\ x # np
      BY <1>4, <1>6, <2>2 DEF Moved
    <3> QED
      BY <1>1, <1>3, <1>6, <2>2, <3>1, SMTT(30) DEF IInv, ProcLocks
  <2> QED
    BY <2>1, <2>2
<1>7. plock' \in [Procs -> Cpus \cup {NoCpu}]
  BY <1>1, <1>2
<1> QED
  BY <1>5, <1>6, <1>7 DEF ProcLocks

\* fork() copies the memory, or frees the slot.
LEMMA ForkCopyInv ==
  ASSUME IInv, NEW c \in Cpus, NEW p \in Procs, fork_copy(c, p)
  PROVE  IInv'
<1>1. /\ k[p].pc = "fork_copy" /\ cproc[c] = p /\ k \in [Procs -> Frame]
      /\ plock' = [plock EXCEPT ![k[p].i] = NoCpu] /\ UNCHANGED <<nextpid, lock, locked, cproc>>
      /\ {"fork_parent", "trapret"} \subseteq PCs
  BY DEF fork_copy, At, IInv, TypeOK, PCs
<1>2. /\ k[p].i \in Procs /\ state[k[p].i] = "USED" /\ \A d \in Cpus : cproc[d] # k[p].i
      /\ \A x \in Procs : x # p /\ Pos(x) \in ForkPCs => k[x].i # k[p].i
  <2>1. Pos(p) \in ForkPCs
    BY <1>1 DEF Pos, ForkPCs
  <2>2. /\ k[p].i \in Procs /\ state[k[p].i] = "USED"
        /\ \A x \in Procs : x # p /\ Pos(x) \in ForkPCs => k[x].i # k[p].i
    BY <2>1 DEF IInv, Children
  <2> QED
    BY <2>2 DEF IInv, OnCpu
<1>3. CASE Goto(p, "fork_parent") /\ UNCHANGED <<state, chan, killed, parent, pid>>
  <2>1. Moved(p, "fork_parent", k[p].ipc, k[p].ret, k[p].i, k[p].arg)
    BY <1>1, <1>3, GotoMoved
  <2>2. ProcLocks' /\ plock' \in [Procs -> Cpus \cup {NoCpu}]
    <3>1. "fork_parent" \notin OwnPCs \cup {"fork_copy"}
      BY DEF OwnPCs
    <3> QED
      BY <1>1, <2>1, <3>1, SlotUnlock
  <2>3. TypeOK'
    BY <1>1, <1>3, <2>1, <2>2 DEF IInv, TypeOK, Moved
  <2>4. OnCpu' /\ Roused
    BY <1>1, <1>3, <2>1, KeepOnCpu DEF Roused
  <2>5. Locks'
    <3>1. (HoldsWait(p)' <=> HoldsWait(p)) /\ (HoldsLk(p)' <=> HoldsLk(p))
      BY <1>1, <2>1 DEF HoldsWait, HoldsLk, Moved
    <3> QED
      BY <1>1, <2>1, <3>1, KeepLocks
  <2>6. Stacks'
    <3>1. state'[p] = "RUNNING"
      BY <1>1, <1>3, RunsThere
    <3>2. Stack(p)'
      BY <2>1, <3>1 DEF Stack, Pos, Leaving, NotAlive, Moved
    <3> QED
      BY <1>1, <1>3, <2>1, <2>4, <3>2, KeepStacks
  <2>7. Children'
    <3>1. /\ Pos(p)' = "fork_parent" /\ Pos(p) \in ForkPCs /\ \A x \in Procs : k'[x].i = k[x].i
          /\ \A x \in Procs : x # p => Pos(x)' = Pos(x)
      BY <1>1, <2>1 DEF Pos, ForkPCs, Moved
    <3> QED
      BY <1>3, <3>1, SMTT(30) DEF IInv, Children
  <2>8. Family'
    <3>1. ~Leaving(p)'
      BY <2>1 DEF Leaving, Moved
    <3> QED
      BY <1>3, <2>1, <2>4, <3>1, KeepFamily, SMT
  <2>9. Waiting' /\ Exclusive' /\ Marks'
    BY <1>1, <1>3, <2>1, <2>4, KeepWaiting, KeepExclusive, KeepMarks, SMT
  <2> QED
    BY <2>2, <2>3, <2>4, <2>5, <2>6, <2>7, <2>8, <2>9 DEF IInv
<1>4. CASE Goto(p, "trapret") /\ freed(k[p].i)
  <2>1. Moved(p, "trapret", k[p].ipc, k[p].ret, k[p].i, k[p].arg)
    BY <1>1, <1>4, GotoMoved
  <2>2. ProcLocks' /\ plock' \in [Procs -> Cpus \cup {NoCpu}]
    <3>1. "trapret" \notin OwnPCs \cup {"fork_copy"}
      BY DEF OwnPCs
    <3> QED
      BY <1>1, <2>1, <3>1, SlotUnlock
  <2>3. Locks'
    <3>1. (HoldsWait(p)' <=> HoldsWait(p)) /\ (HoldsLk(p)' <=> HoldsLk(p))
      BY <1>1, <2>1 DEF HoldsWait, HoldsLk, Moved
    <3> QED
      BY <1>1, <2>1, <3>1, KeepLocks
  <2>4. lock' \in [{"wait_lock", "lk"} -> Cpus \cup {NoCpu}]
    BY <1>1 DEF IInv, TypeOK
  <2> QED
    BY <1>1, <1>2, <1>4, <2>1, <2>2, <2>3, <2>4, FreeInv
<1> QED
  BY <1>1, <1>3, <1>4 DEF fork_copy

\* fork() sets np->parent.
LEMMA ForkParentInv ==
  ASSUME IInv, NEW c \in Cpus, NEW p \in Procs, fork_parent(c, p)
  PROVE  IInv'
<1> DEFINE np == k[p].i
<1>1. /\ k[p].pc = "fork_parent" /\ cproc[c] = p /\ k \in [Procs -> Frame] /\ lock["wait_lock"] = NoCpu
      /\ parent' = [parent EXCEPT ![np] = p] /\ Goto(p, "fork_run") /\ "fork_run" \in PCs
      /\ UNCHANGED <<state, chan, killed, pid, nextpid, plock, lock, locked, cproc>>
  BY DEF fork_parent, At, IInv, TypeOK, PCs
<1>2. Moved(p, "fork_run", k[p].ipc, k[p].ret, np, k[p].arg) /\ state[p] = "RUNNING"
  BY <1>1, GotoMoved, RunsThere
<1>3. /\ np \in Procs /\ state[np] = "USED" /\ k[np].pc = "swtch" /\ np # initproc
      /\ \A x \in Procs : x # p /\ Pos(x) \in ForkPCs => k[x].i # np
  <2>1. Pos(p) \in ForkPCs
    BY <1>1 DEF Pos, ForkPCs
  <2>2. /\ np \in Procs /\ state[np] = "USED"
        /\ \A x \in Procs : x # p /\ Pos(x) \in ForkPCs => k[x].i # np
    BY <2>1 DEF IInv, Children
  <2> QED
    BY <2>2, SMT DEF IInv, OnCpu, Family, NotAlive
<1> HIDE DEF np
<1>4. /\ parent'[np] = p /\ \A x \in Procs : x # np => parent'[x] = parent[x]
      /\ parent' \in [Procs -> Procs \cup {NoProc}]
  BY <1>1, <1>3 DEF IInv, TypeOK
<1>5. TypeOK'
  BY <1>1, <1>2, <1>4 DEF IInv, TypeOK, Moved
<1>6. OnCpu' /\ ProcLocks'
  BY <1>1, <1>2, KeepOnCpu, KeepProcLocks, SMT DEF Roused, OwnPCs
<1>7. Locks'
  <2>1. (HoldsWait(p)' <=> HoldsWait(p)) /\ (HoldsLk(p)' <=> HoldsLk(p))
    BY <1>1, <1>2 DEF HoldsWait, HoldsLk, Moved
  <2> QED
    BY <1>1, <1>2, <2>1, KeepLocks
<1>8. Stacks'
  <2>1. ASSUME NEW x \in Procs, x # p PROVE Stack(x)' /\ Sleeping(x)'
    <3>1. k'[x] = k[x] /\ (k[x].pc = "wakeup" => x # np)
      BY <1>2, <1>3, <2>1 DEF Moved
    <3> QED
      BY <1>1, <1>4, <2>1, <3>1, OtherStack
  <2>2. Stack(p)' /\ Sleeping(p)'
    <3>1. chan[p] = NoChan
      BY <1>1, RunsThere
    <3> QED
      BY <1>1, <1>2, <3>1 DEF Stack, Sleeping, Pos, Leaving, NotAlive, Moved
  <2> QED
    BY <2>1, <2>2 DEF Stacks
<1>9. Children'
  <2>1. /\ Pos(p)' = "fork_run" /\ Pos(p) \in ForkPCs /\ k'[p].i = np /\ \A x \in Procs : k'[x].i = k[x].i
        /\ \A x \in Procs : x # p => Pos(x)' = Pos(x)
    BY <1>1, <1>2 DEF Pos, ForkPCs, Moved, np
  <2> QED
    BY <1>1, <1>3, <1>4, <2>1, SMTT(30) DEF IInv, Children
<1>10. Family'
  <2>1. \A x \in Procs : Leaving(x)' => Leaving(x) /\ x # p
    BY <1>2 DEF Leaving, Moved
  <2>2. k'[initproc].pc # "reparent"
    BY <1>2, Constants DEF IInv, Family, Moved
  <2>3. state[p] \notin NotAlive
    BY <1>2 DEF NotAlive
  <2> QED
    BY <1>1, <1>3, <1>4, <2>1, <2>2, <2>3, Constants, SMTT(30) DEF IInv, Family
<1>11. Waiting'
  <2>1. \A x \in Procs : state[x] \in {"SLEEPING", "ZOMBIE"} => x # p /\ x # np
    BY <1>2, <1>3
  <2> QED
    BY <1>1, <1>2, <1>3, <1>4, <2>1, SMTT(30) DEF IInv, Waiting, Moved
<1>12. Exclusive' /\ Marks'
  <2>1. Roused
    BY <1>1, SMT DEF Roused
  <2>2. Exclusive'
    BY <1>1, <1>2, <2>1, KeepExclusive, SMTT(30)
  <2> QED
    BY <1>1, <2>2, KeepMarks
<1> QED
  BY <1>5, <1>6, <1>7, <1>8, <1>9, <1>10, <1>11, <1>12 DEF IInv

\* fork() makes the child runnable.
LEMMA ForkRunInv ==
  ASSUME IInv, NEW c \in Cpus, NEW p \in Procs, fork_run(c, p)
  PROVE  IInv'
<1> DEFINE np == k[p].i
<1>1. /\ k[p].pc = "fork_run" /\ cproc[c] = p /\ k \in [Procs -> Frame]
      /\ state' = [state EXCEPT ![np] = "RUNNABLE"] /\ Goto(p, "trapret") /\ "trapret" \in PCs
      /\ UNCHANGED <<chan, killed, parent, pid, nextpid, plock, lock, locked, cproc>>
  BY DEF fork_run, At, IInv, TypeOK, PCs
<1>2. Moved(p, "trapret", k[p].ipc, k[p].ret, np, k[p].arg) /\ state[p] = "RUNNING" /\ chan[p] = NoChan
  BY <1>1, GotoMoved, RunsThere
<1>3. /\ np \in Procs /\ state[np] = "USED" /\ k[np].pc = "swtch" /\ np # initproc /\ parent[np] = p
      /\ \A x \in Procs : x # p /\ Pos(x) \in ForkPCs => k[x].i # np
      /\ np # p
  <2>1. Pos(p) \in ForkPCs /\ Pos(p) = "fork_run"
    BY <1>1 DEF Pos, ForkPCs
  <2>2. /\ np \in Procs /\ state[np] = "USED" /\ parent[np] = p
        /\ \A x \in Procs : x # p /\ Pos(x) \in ForkPCs => k[x].i # np
    BY <2>1 DEF IInv, Children
  <2> QED
    BY <1>2, <2>2, SMT DEF IInv, OnCpu, Family, NotAlive
<1> HIDE DEF np
<1>4. /\ state'[np] = "RUNNABLE" /\ \A x \in Procs : x # np => state'[x] = state[x]
      /\ state' \in [Procs -> States]
  BY <1>1, <1>3 DEF IInv, TypeOK, States
<1>5. TypeOK'
  <2>1. \A x \in Procs : state'[x] = "UNUSED" <=> state[x] = "UNUSED"
    BY <1>3, <1>4
  <2> QED
    BY <1>1, <1>2, <1>4, <2>1 DEF IInv, TypeOK, Moved
<1>6. OnCpu'
  BY <1>1, <1>2, <1>3, <1>4, SMTT(30) DEF IInv, OnCpu, Moved
<1>7. ProcLocks'
  BY <1>1, <1>2, KeepProcLocks, SMT DEF OwnPCs
<1>8. Locks'
  <2>1. (HoldsWait(p)' <=> HoldsWait(p)) /\ (HoldsLk(p)' <=> HoldsLk(p))
    BY <1>1, <1>2 DEF HoldsWait, HoldsLk, Moved
  <2> QED
    BY <1>1, <1>2, <2>1, KeepLocks
<1>9. Stacks'
  <2>1. ASSUME NEW x \in Procs, x # p PROVE Stack(x)' /\ Sleeping(x)'
    BY <1>1, <1>2, <1>4, <2>1, OtherStack DEF Moved
  <2>2. Stack(p)' /\ Sleeping(p)'
    BY <1>1, <1>2, <1>3, <1>4 DEF Stack, Sleeping, Pos, Leaving, NotAlive, Moved
  <2> QED
    BY <2>1, <2>2 DEF Stacks
<1>10. Children'
  <2>1. /\ Pos(p)' \notin ForkPCs /\ \A x \in Procs : x # p => Pos(x)' = Pos(x) /\ k'[x] = k[x]
    BY <1>2 DEF Pos, ForkPCs, Moved
  <2>2. ASSUME NEW x \in Procs, Pos(x)' \in ForkPCs
        PROVE  /\ k'[x].i \in Procs /\ state'[k'[x].i] = "USED"
               /\ Pos(x)' = "fork_run" => parent'[k'[x].i] = x
    <3>1. x # p /\ k'[x].i = k[x].i /\ Pos(x) \in ForkPCs /\ Pos(x)' = Pos(x)
      BY <2>1, <2>2
    <3>2. k[x].i \in Procs /\ state[k[x].i] = "USED" /\ (Pos(x) = "fork_run" => parent[k[x].i] = x)
      BY <3>1 DEF IInv, Children
    <3> QED
      BY <1>1, <1>3, <1>4, <3>1, <3>2
  <2>3. ASSUME NEW x \in Procs, NEW y \in Procs, Pos(x)' \in ForkPCs, Pos(y)' \in ForkPCs,
               k'[x].i = k'[y].i
        PROVE  x = y
    BY <2>1, <2>3, SMTT(30) DEF IInv, Children
  <2> QED
    BY <2>2, <2>3 DEF Children
<1>11. Family'
  <2>1. \A x \in Procs : Leaving(x)' => Leaving(x)
    BY <1>2 DEF Leaving, Moved
  <2>2. k'[initproc].pc # "reparent"
    BY <1>2, Constants DEF IInv, Family, Moved
  <2>3. \A x \in Procs : state'[x] \in NotAlive => state[x] \in NotAlive
    BY <1>4 DEF NotAlive
  <2>4. parent[np] # NoProc
    BY <1>3, Constants
  <2> QED
    BY <1>1, <1>3, <1>4, <2>1, <2>2, <2>3, <2>4, Constants, SMTT(30) DEF IInv, Family
<1>12. Waiting'
  <2>1. \A x \in Procs : /\ state'[x] = "SLEEPING" => state[x] = "SLEEPING"
                         /\ state'[x] = "ZOMBIE" => state[x] = "ZOMBIE"
    BY <1>4
  <2> QED
    BY <1>1, <1>2, <2>1, SMTT(30) DEF IInv, Waiting, Moved
<1>13. Exclusive'
  <2>1. \A x \in Procs : state'[x] = "SLEEPING" => state[x] = "SLEEPING"
    BY <1>4
  <2> QED
    BY <1>1, <1>2, <2>1, SMTT(30) DEF IInv, Exclusive, Pos, Moved
<1>14. Marks'
  <2>1. Marks /\ \A x \in Procs : state'[x] = "UNUSED" => state[x] = "UNUSED"
    BY <1>4 DEF IInv
  <2> QED
    BY <1>1, <2>1 DEF Marks
<1> QED
  BY <1>5, <1>6, <1>7, <1>8, <1>9, <1>10, <1>11, <1>12, <1>13, <1>14 DEF IInv

-----------------------------------------------------------------------------
(* The scheduler.                                                          *)

\* A process that may be picked is not on a CPU.
LEMMA ScheduleInv ==
  ASSUME IInv, NEW c \in Cpus, NEW p \in Procs, Schedule(c, p)
  PROVE  IInv'
<1>1. /\ cproc[c] = NoProc /\ plock[p] = NoCpu /\ state[p] = "RUNNABLE"
      /\ state' = [state EXCEPT ![p] = "RUNNING"] /\ plock' = [plock EXCEPT ![p] = c]
      /\ cproc' = [cproc EXCEPT ![c] = p]
      /\ UNCHANGED <<chan, killed, parent, pid, nextpid, lock, locked, k>>
  BY DEF Schedule, Free
<1>2. k[p].pc = "swtch" /\ \A d \in Cpus : cproc[d] # p
  <2>1. \A d \in Cpus : cproc[d] # p
    BY <1>1, Constants, SMTT(30) DEF IInv, OnCpu, ProcLocks, OwnPCs
  <2> QED
    BY <2>1 DEF IInv, OnCpu
<1>3. /\ state'[p] = "RUNNING" /\ plock'[p] = c /\ cproc'[c] = p
      /\ \A x \in Procs : x # p => state'[x] = state[x] /\ plock'[x] = plock[x]
      /\ \A d \in Cpus : d # c => cproc'[d] = cproc[d]
  BY <1>1 DEF IInv, TypeOK
<1>4. \A x \in Procs : /\ state'[x] = state[x] \/ x = p
                       /\ state'[x] = "SLEEPING" => state[x] = "SLEEPING"
                       /\ state'[x] = "ZOMBIE" => state[x] = "ZOMBIE"
                       /\ state'[x] = "UNUSED" <=> state[x] = "UNUSED"
                       /\ state'[x] = "USED" <=> state[x] = "USED"
                       /\ state'[x] \in NotAlive <=> state[x] \in NotAlive
  BY <1>1, <1>3 DEF NotAlive
<1>5. TypeOK'
  <2>1. /\ state' \in [Procs -> States] /\ plock' \in [Procs -> Cpus \cup {NoCpu}]
        /\ cproc' \in [Cpus -> Procs \cup {NoProc}]
    BY <1>1 DEF IInv, TypeOK, States
  <2> QED
    BY <1>1, <1>4, <2>1 DEF IInv, TypeOK
<1>6. OnCpu'
  <2>1. ASSUME NEW d \in Cpus, NEW e \in Cpus, cproc'[d] # NoProc, cproc'[d] = cproc'[e]
        PROVE  d = e
    BY <1>2, <1>3, <2>1, SMTT(30) DEF IInv, OnCpu
  <2>2. ASSUME NEW d \in Cpus, NEW x \in Procs, cproc'[d] = x
        PROVE  \/ state'[x] = "RUNNING"
               \/ state'[x] \in {"RUNNABLE", "SLEEPING", "ZOMBIE"} /\ k'[x].pc = "swtch"
    BY <1>1, <1>3, <2>2, SMTT(30) DEF IInv, OnCpu
  <2>3. ASSUME NEW x \in Procs, state'[x] = "RUNNING" \/ k'[x].pc # "swtch"
        PROVE  \E d \in Cpus : cproc'[d] = x
    BY <1>1, <1>3, <2>3, Constants, SMTT(30) DEF IInv, OnCpu
  <2> QED
    BY <2>1, <2>2, <2>3 DEF OnCpu
<1>7. ProcLocks'
  <2>1. NoProc \notin Procs
    BY Constants
  <2>2. ASSUME NEW d \in Cpus, NEW x \in Procs, plock'[x] = d
        PROVE  \/ cproc'[d] = x /\ k'[x].pc \in OwnPCs
               \/ \E y \in Procs : cproc'[d] = y /\ k'[y].pc = "fork_copy" /\ k'[y].i = x
    <3>1. CASE x = p
      BY <1>1, <1>2, <1>3, <2>2, <3>1 DEF OwnPCs
    <3>2. CASE x # p
      <4>1. plock[x] = d
        BY <1>3, <2>2, <3>2
      <4>2. cproc[d] \in Procs
        BY <4>1, SMT DEF IInv, ProcLocks
      <4>3. cproc'[d] = cproc[d]
        BY <1>1, <1>3, <2>1, <4>2
      <4> QED
        BY <1>1, <4>1, <4>3, SMTT(30) DEF IInv, ProcLocks
    <3> QED
      BY <3>1, <3>2
  <2>3. ASSUME NEW d \in Cpus, NEW x \in Procs, cproc'[d] = x
        PROVE  /\ k'[x].pc \in OwnPCs => plock'[x] = d
               /\ k'[x].pc = "fork_copy" => plock'[k'[x].i] = d
    <3>1. CASE d = c
      BY <1>1, <1>2, <1>3, <2>3, <3>1
    <3>2. CASE d # c
      <4>1. cproc[d] = x /\ x # p
        BY <1>2, <1>3, <2>3, <3>2
      <4>2. k[x].pc = "fork_copy" => k[x].i \in Procs /\ k[x].i # p
        BY <1>1 DEF IInv, Children, ForkPCs, Pos
      <4> QED
        BY <1>1, <1>3, <4>1, <4>2, SMTT(30) DEF IInv, ProcLocks
    <3> QED
      BY <3>1, <3>2
  <2> QED
    BY <2>2, <2>3 DEF ProcLocks
<1>8. Locks'
  <2>1. c \notin {lock["wait_lock"], lock["lk"]} /\ ~HoldsWait(p) /\ ~HoldsLk(p)
    BY <1>1, <1>2 DEF IInv, Locks, HoldsWait, HoldsLk
  <2>2. \A x \in Procs : (HoldsWait(x)' <=> HoldsWait(x)) /\ (HoldsLk(x)' <=> HoldsLk(x))
    BY <1>1 DEF HoldsWait, HoldsLk
  <2>3. ASSUME NEW d \in Cpus, NEW x \in Procs, cproc'[d] = x
        PROVE  (HoldsWait(x)' <=> lock'["wait_lock"] = d) /\ (HoldsLk(x)' <=> lock'["lk"] = d)
    <3>1. CASE d = c
      BY <1>1, <1>3, <2>1, <2>2, <2>3, <3>1
    <3>2. CASE d # c
      BY <1>1, <1>3, <2>2, <2>3, <3>2 DEF IInv, Locks
    <3> QED
      BY <3>1, <3>2
  <2>4. \A d \in Cpus : d \in {lock'["wait_lock"], lock'["lk"]} => cproc'[d] # NoProc
    BY <1>1, <1>3, <2>1, SMT DEF IInv, Locks
  <2> QED
    BY <2>3, <2>4 DEF Locks
<1>9. Stacks'
  BY <1>1, <1>3, OtherStack DEF Stacks
<1>10. Children'
  BY <1>1, <1>4, SMTT(30) DEF IInv, Children, Pos
<1>11. Family'
  <2>1. \A x \in Procs : Leaving(x)' <=> Leaving(x)
    BY <1>1 DEF Leaving
  <2> QED
    BY <1>1, <1>4, <2>1, Constants, SMTT(30) DEF IInv, Family
<1>12. Waiting'
  BY <1>1, <1>4, SMTT(30) DEF IInv, Waiting
<1>13. Exclusive'
  BY <1>1, <1>4 DEF IInv, Exclusive, Pos
<1>14. Marks'
  <2>1. Marks
    BY DEF IInv
  <2> QED
    BY <1>1, <1>4, <2>1 DEF Marks
<1> QED
  BY <1>5, <1>6, <1>7, <1>8, <1>9, <1>10, <1>11, <1>12, <1>13, <1>14 DEF IInv

\* What the process that leaves or enters its stack gives up is p->lock.
LEMMA SwtchUnlock ==
  ASSUME IInv, NEW c \in Cpus, NEW p \in Procs, At(c, p, "swtch"),
         plock' = [plock EXCEPT ![p] = NoCpu], \A x \in Procs : x # p => k'[x] = k[x],
         \/ cproc' = [cproc EXCEPT ![c] = NoProc]
         \/ cproc' = cproc /\ k'[p].pc \notin OwnPCs \cup {"fork_copy"}
  PROVE  /\ ProcLocks'
         /\ plock' \in [Procs -> Cpus \cup {NoCpu}]
<1>1. /\ cproc[c] = p /\ k[p].pc = "swtch" /\ plock \in [Procs -> Cpus \cup {NoCpu}]
      /\ cproc \in [Cpus -> Procs \cup {NoProc}]
  BY DEF At, IInv, TypeOK
<1>2. plock'[p] = NoCpu /\ \A x \in Procs : x # p => plock'[x] = plock[x]
  BY <1>1
<1>3. NoCpu \notin Cpus /\ NoProc \notin Procs /\ \A d \in Cpus : cproc[d] = p => d = c
  BY <1>1, Constants, SMTT(30) DEF IInv, OnCpu
<1>4. state[p] # "USED"
  BY <1>1 DEF IInv, OnCpu
<1>5. \A d \in Cpus : d # c => cproc'[d] = cproc[d]
  BY <1>1
<1>6. ASSUME NEW d \in Cpus, NEW x \in Procs, plock'[x] = d
      PROVE  \/ cproc'[d] = x /\ k'[x].pc \in OwnPCs
             \/ \E y \in Procs : cproc'[d] = y /\ k'[y].pc = "fork_copy" /\ k'[y].i = x
  <2>1. x # p /\ plock[x] = d
    BY <1>2, <1>3, <1>6
  <2>2. CASE cproc[d] = x /\ k[x].pc \in OwnPCs
    BY <1>1, <1>5, <2>1, <2>2
  <2>3. ASSUME NEW y \in Procs, cproc[d] = y, k[y].pc = "fork_copy", k[y].i = x
        PROVE  \E z \in Procs : cproc'[d] = z /\ k'[z].pc = "fork_copy" /\ k'[z].i = x
    <3>1. y # p /\ d # c
      BY <1>1, <2>3
    <3> QED
      BY <1>5, <2>3, <3>1
  <2> QED
    BY <2>1, <2>2, <2>3, SMTT(30) DEF IInv, ProcLocks
<1>7. ASSUME NEW d \in Cpus, NEW x \in Procs, cproc'[d] = x
      PROVE  /\ k'[x].pc \in OwnPCs => plock'[x] = d
             /\ k'[x].pc = "fork_copy" => plock'[k'[x].i] = d
  <2>1. CASE x = p
    <3>1. cproc' = cproc /\ k'[p].pc \notin OwnPCs \cup {"fork_copy"}
      BY <1>1, <1>3, <1>5, <1>7, <2>1
    <3> QED
      BY <2>1, <3>1
  <2>2. CASE x # p
    <3>1. cproc[d] = x /\ k'[x] = k[x]
      BY <1>1, <1>3, <1>5, <1>7, <2>2
    <3>2. k[x].pc = "fork_copy" => k[x].i \in Procs /\ k[x].i # p
      BY <1>4, SMT DEF IInv, Children, ForkPCs, Pos
    <3> QED
      BY <1>2, <2>2, <3>1, <3>2, SMTT(30) DEF IInv, ProcLocks
  <2> QED
    BY <2>1, <2>2
<1>8. plock' \in [Procs -> Cpus \cup {NoCpu}]
  BY <1>1
<1> QED
  BY <1>6, <1>7, <1>8 DEF ProcLocks

\* A step that changes only CPUs and spin locks.
LEMMA StillInv ==
  ASSUME IInv, UNCHANGED <<state, chan, killed, parent, pid, nextpid, locked, k>>
  PROVE  Stacks' /\ Children' /\ Family' /\ Waiting' /\ Exclusive' /\ Marks'
<1>1. \A x \in Procs : (Pos(x)' = Pos(x)) /\ (Leaving(x)' <=> Leaving(x))
  BY DEF Pos, Leaving
<1>2. Stacks'
  BY OtherStack DEF Stacks
<1>3. Children'
  BY <1>1 DEF IInv, Children
<1>4. Family'
  BY <1>1, Constants DEF IInv, Family
<1>5. Waiting'
  BY DEF IInv, Waiting
<1>6. Exclusive'
  BY <1>1 DEF IInv, Exclusive
<1>7. Marks'
  BY KeepMarks
<1> QED
  BY <1>2, <1>3, <1>4, <1>5, <1>6, <1>7

\* swtch() to the scheduler.
LEMMA SwitchInv ==
  ASSUME IInv, NEW c \in Cpus, NEW p \in Procs, Switch(c, p)
  PROVE  IInv'
<1>1. /\ At(c, p, "swtch") /\ cproc[c] = p /\ k[p].pc = "swtch" /\ state[p] # "RUNNING"
      /\ cproc' = [cproc EXCEPT ![c] = NoProc] /\ plock' = [plock EXCEPT ![p] = NoCpu]
      /\ UNCHANGED <<state, chan, killed, parent, pid, nextpid, lock, locked, k>>
  BY DEF Switch, At, table
<1>2. ProcLocks' /\ plock' \in [Procs -> Cpus \cup {NoCpu}]
  BY <1>1, SwtchUnlock
<1>3. cproc'[c] = NoProc /\ \A d \in Cpus : d # c => cproc'[d] = cproc[d]
  BY <1>1 DEF IInv, TypeOK
<1>4. TypeOK'
  BY <1>1, <1>2 DEF IInv, TypeOK
<1>5. OnCpu'
  BY <1>1, <1>3, Constants, SMTT(30) DEF IInv, OnCpu
<1>6. Locks'
  <2>1. c \notin {lock["wait_lock"], lock["lk"]}
    BY <1>1 DEF IInv, Locks, HoldsWait, HoldsLk
  <2>2. \A x \in Procs : (HoldsWait(x)' <=> HoldsWait(x)) /\ (HoldsLk(x)' <=> HoldsLk(x))
    BY <1>1 DEF HoldsWait, HoldsLk
  <2>3. NoProc \notin Procs
    BY Constants
  <2> QED
    BY <1>1, <1>3, <2>1, <2>2, <2>3, SMTT(30) DEF IInv, Locks
<1>7. Stacks' /\ Children' /\ Family' /\ Waiting' /\ Exclusive' /\ Marks'
  BY <1>1, StillInv
<1> QED
  BY <1>2, <1>4, <1>5, <1>6, <1>7 DEF IInv

\* swtch() returns in the process.
LEMMA ResumeInv ==
  ASSUME IInv, NEW c \in Cpus, NEW p \in Procs, Resume(c, p)
  PROVE  IInv'
<1>1. /\ At(c, p, "swtch") /\ cproc[c] = p /\ k[p].pc = "swtch" /\ state[p] = "RUNNING"
      /\ chan' = [chan EXCEPT ![p] = NoChan] /\ plock' = [plock EXCEPT ![p] = NoCpu]
      /\ k \in [Procs -> Frame] /\ k[p].ipc \in PCs /\ "user" \in PCs
      /\ UNCHANGED <<state, killed, parent, pid, nextpid, lock, locked, cproc>>
  BY DEF Resume, At, IInv, TypeOK, Frame, PCs
<1>2. k[p].ipc \in Preemptible
  BY <1>1 DEF IInv, Stacks, Stack
<1>3. PICK m \in {"user", k[p].ipc} : Moved(p, k[p].ipc, m, k[p].ret, k[p].i, k[p].arg)
  <2> DEFINE n == IF chan[p] = NoChan THEN k[p].ipc ELSE "user"
  <2>1. n \in {"user", k[p].ipc} /\ n \in PCs
    BY <1>1
  <2>2. k' = [k EXCEPT ![p].pc = k[p].ipc, ![p].ipc = n]
    BY <1>1 DEF Resume
  <2> HIDE DEF n
  <2> QED
    BY <1>1, <2>1, <2>2, SwtchMoved
<1>4. /\ chan'[p] = NoChan /\ \A x \in Procs : x # p => chan'[x] = chan[x]
      /\ chan' \in [Procs -> -1..NPROC]
  BY <1>1, Constants, SMT DEF IInv, TypeOK, NoChan
<1>5. ProcLocks' /\ plock' \in [Procs -> Cpus \cup {NoCpu}]
  <2>1. k'[p].pc \notin OwnPCs \cup {"fork_copy"}
    BY <1>2, <1>3 DEF Preemptible, OwnPCs, Moved
  <2>2. \A x \in Procs : x # p => k'[x] = k[x]
    BY <1>3 DEF Moved
  <2> QED
    BY <1>1, <2>1, <2>2, SwtchUnlock
<1>6. TypeOK'
  BY <1>1, <1>3, <1>4, <1>5 DEF IInv, TypeOK, Moved
<1>7. OnCpu'
  BY <1>1, <1>3, SMT DEF IInv, OnCpu, Moved
<1>8. Locks'
  <2>1. ~HoldsWait(p) /\ ~HoldsLk(p) /\ ~HoldsWait(p)' /\ ~HoldsLk(p)'
    BY <1>1, <1>2, <1>3 DEF HoldsWait, HoldsLk, Preemptible, Moved
  <2> QED
    BY <1>1, <1>3, <2>1, KeepLocks
<1>9. Pos(p) = k[p].ipc /\ Pos(p)' = k[p].ipc /\ \A x \in Procs : x # p => Pos(x)' = Pos(x)
  BY <1>1, <1>2, <1>3 DEF Pos, Moved, Preemptible
<1>10. Stacks'
  <2>1. ASSUME NEW x \in Procs, x # p PROVE Stack(x)' /\ Sleeping(x)'
    BY <1>1, <1>3, <1>4, <2>1, OtherStack DEF Moved
  <2>2. Sleeping(p)'
    BY <1>1, <1>4 DEF Sleeping
  <2>3. Stack(p)'
    <3>1. /\ k'[p].pc \notin {"wakeup", "reparent", "swtch"} /\ ~Leaving(p)'
          /\ k'[p].pc = "exit" => k'[p].ipc \in {"user", "exit"}
      BY <1>2, <1>3 DEF Preemptible, Leaving, Moved
    <3>2. state'[p] \notin NotAlive
      BY <1>1 DEF NotAlive
    <3>3. k'[p].ret = k[p].ret /\ k'[p].arg = k[p].arg /\ k'[p].i = k[p].i
      BY <1>3 DEF Moved
    <3> QED
      BY <1>9, <3>1, <3>2, <3>3, SMTT(30) DEF IInv, Stacks, Stack
  <2> QED
    BY <2>1, <2>2, <2>3 DEF Stacks
<1>11. Children'
  <2>1. \A x \in Procs : Pos(x)' = Pos(x) /\ k'[x].i = k[x].i
    BY <1>3, <1>9 DEF Moved
  <2> QED
    BY <1>1, <2>1, SMT DEF IInv, Children
<1>12. Family'
  <2>1. k[p].ipc # "reparent" /\ ~Leaving(p)'
    BY <1>2, <1>3 DEF Preemptible, Leaving, Moved
  <2> QED
    BY <1>1, <1>3, <2>1, KeepFamily DEF Roused
<1>13. k'[p].pc \notin {"wakeup", "exit_lock", "exit_zombie", "wait_scan", "sleep", "sleep_set"}
  BY <1>2, <1>3 DEF Preemptible, Moved
<1>14. Waiting'
  <2>1. \A x \in Procs : state[x] = "SLEEPING" => x # p
    BY <1>1
  <2> QED
    BY <1>1, <1>3, <1>4, <1>13, <2>1, SMTT(30) DEF IInv, Waiting, Moved
<1>15. Exclusive'
  <2>1. \A x \in Procs : Pos(x)' = Pos(x)
    BY <1>9
  <2>2. \A x \in Procs : state[x] = "SLEEPING" => x # p
    BY <1>1
  <2> QED
    BY <1>1, <1>3, <1>4, <1>13, <2>1, <2>2, SMTT(30) DEF IInv, Exclusive, Moved
<1>16. Marks'
  BY <1>1, KeepMarks
<1> QED
  BY <1>5, <1>6, <1>7, <1>8, <1>10, <1>11, <1>12, <1>14, <1>15, <1>16 DEF IInv

\* yield().
LEMMA YieldInv ==
  ASSUME IInv, NEW c \in Cpus, NEW p \in Procs, yield(c, p)
  PROVE  IInv'
<1>1. /\ cproc[c] = p /\ k[p].pc \in Preemptible /\ Free(p) /\ plock' = [plock EXCEPT ![p] = c]
      /\ state' = [state EXCEPT ![p] = "RUNNABLE"]
      /\ k' = [k EXCEPT ![p].pc = "swtch", ![p].ipc = k[p].pc]
      /\ UNCHANGED <<chan, killed, parent, pid, nextpid, lock, locked, cproc>>
  BY DEF yield
<1>2. k \in [Procs -> Frame] /\ k[p].pc \in PCs /\ "swtch" \in PCs
  BY DEF IInv, TypeOK, Frame, PCs
<1>3. Moved(p, "swtch", k[p].pc, k[p].ret, k[p].i, k[p].arg)
  BY <1>1, <1>2, SwtchMoved
<1>4. k[p].pc # "swtch" /\ state[p] = "RUNNING" /\ chan[p] = NoChan
  <2>1. k[p].pc # "swtch"
    BY <1>1 DEF Preemptible
  <2> QED
    BY <2>1, RunsThere
<1>5. /\ state'[p] = "RUNNABLE" /\ \A x \in Procs : x # p => state'[x] = state[x]
      /\ state' \in [Procs -> States]
  BY <1>1 DEF IInv, TypeOK, States
<1>6. ProcLocks' /\ plock' \in [Procs -> Cpus \cup {NoCpu}]
  <2>1. k[p].pc # "fork_copy" /\ "swtch" \in OwnPCs
    BY <1>1 DEF Preemptible, OwnPCs
  <2> QED
    BY <1>1, <1>3, <2>1, OwnLock
<1>7. TypeOK'
  <2>1. \A x \in Procs : state'[x] = "UNUSED" <=> state[x] = "UNUSED"
    BY <1>4, <1>5
  <2> QED
    BY <1>1, <1>3, <1>5, <1>6, <2>1 DEF IInv, TypeOK, Moved
<1>8. OnCpu'
  BY <1>1, <1>3, <1>5, SMTT(30) DEF IInv, OnCpu, Moved
<1>9. Locks'
  <2>1. ~HoldsWait(p) /\ ~HoldsLk(p) /\ ~HoldsWait(p)' /\ ~HoldsLk(p)'
    BY <1>1, <1>3 DEF HoldsWait, HoldsLk, Preemptible, Moved
  <2> QED
    BY <1>1, <1>3, <2>1, KeepLocks
<1>10. /\ \A x \in Procs : Pos(x)' = Pos(x) /\ k'[x].i = k[x].i
       /\ \A x \in Procs : state'[x] \in {"SLEEPING", "ZOMBIE", "USED", "UNUSED"} => state'[x] = state[x]
       /\ \A x \in Procs : k[x].pc = "wakeup" => x # p
  <2>1. Pos(p) = k[p].pc /\ Pos(p)' = k[p].pc /\ \A x \in Procs : x # p => Pos(x)' = Pos(x)
    BY <1>3, <1>4 DEF Pos, Moved
  <2>2. \A x \in Procs : k'[x].i = k[x].i
    BY <1>3 DEF Moved
  <2>3. \A x \in Procs : k[x].pc = "wakeup" => x # p
    BY <1>1 DEF Preemptible
  <2> QED
    BY <1>5, <2>1, <2>2, <2>3
<1>11. Stacks'
  <2>1. ASSUME NEW x \in Procs, x # p PROVE Stack(x)' /\ Sleeping(x)'
    BY <1>1, <1>3, <1>5, <2>1, OtherStack DEF Moved
  <2>2. Sleeping(p)'
    BY <1>1, <1>4, <1>5 DEF Sleeping
  <2>3. Stack(p)'
    <3>1. /\ k'[p].pc = "swtch" /\ k'[p].ipc \in Preemptible /\ ~Leaving(p)'
          /\ k'[p].ret = k[p].ret /\ k'[p].arg = k[p].arg /\ k'[p].i = k[p].i
      BY <1>1, <1>3 DEF Leaving, Moved
    <3>2. state'[p] \notin NotAlive
      BY <1>5 DEF NotAlive
    <3> QED
      BY <1>10, <3>1, <3>2 DEF IInv, Stacks, Stack
  <2> QED
    BY <2>1, <2>2, <2>3 DEF Stacks
<1>12. Children'
  <2>1. \A x \in Procs : state[x] = "USED" => state'[x] = "USED"
    BY <1>4, <1>5
  <2>2. ASSUME NEW x \in Procs, Pos(x)' \in ForkPCs
        PROVE  /\ k'[x].i \in Procs /\ state'[k'[x].i] = "USED"
               /\ Pos(x)' = "fork_run" => parent'[k'[x].i] = x
    <3>1. k'[x].i = k[x].i /\ Pos(x)' = Pos(x) /\ Pos(x) \in ForkPCs
      BY <1>10, <2>2
    <3>2. k[x].i \in Procs /\ state[k[x].i] = "USED" /\ (Pos(x) = "fork_run" => parent[k[x].i] = x)
      BY <3>1 DEF IInv, Children
    <3> QED
      BY <1>1, <2>1, <3>1, <3>2
  <2>3. ASSUME NEW x \in Procs, NEW y \in Procs, Pos(x)' \in ForkPCs, Pos(y)' \in ForkPCs,
               k'[x].i = k'[y].i
        PROVE  x = y
    BY <1>10, <2>3, SMT DEF IInv, Children
  <2> QED
    BY <2>2, <2>3 DEF Children
<1>13. Family'
  <2>1. \A x \in Procs : Leaving(x)' => Leaving(x)
    BY <1>3 DEF Leaving, Moved
  <2>2. k'[initproc].pc # "reparent"
    BY <1>3, Constants DEF IInv, Family, Moved
  <2>3. \A x \in Procs : /\ state'[x] \in NotAlive <=> state[x] \in NotAlive
                         /\ state'[x] \in {"UNUSED", "USED"} <=> state[x] \in {"UNUSED", "USED"}
    BY <1>4, <1>5 DEF NotAlive
  <2> QED
    BY <1>1, <2>1, <2>2, <2>3, Constants DEF IInv, Family
<1>14. Waiting'
  BY <1>1, <1>3, <1>10, SMTT(30) DEF IInv, Waiting, Moved
<1>15. Exclusive'
  BY <1>1, <1>3, <1>10, SMTT(30) DEF IInv, Exclusive, Moved
<1>16. Marks'
  <2>1. Marks
    BY DEF IInv
  <2> QED
    BY <1>1, <1>10, <2>1 DEF Marks
<1> QED
  BY <1>6, <1>7, <1>8, <1>9, <1>11, <1>12, <1>13, <1>14, <1>15, <1>16 DEF IInv

-----------------------------------------------------------------------------
(* The theorems.                                                           *)

\* userinit() sets the invariant up.
LEMMA InitInv == Init => IInv
<1> SUFFICES ASSUME Init PROVE IInv
  OBVIOUS
<1>1. /\ NPROC \in Nat /\ initproc \in Procs /\ NoProc \notin Procs /\ NoCpu \notin Cpus
  BY Constants
<1>2. /\ ForkretFrame.pc = "swtch" /\ ForkretFrame.ipc = "user" /\ ForkretFrame \in Frame
  <2>1. {"swtch", "user"} \subseteq PCs /\ 0 \in 0..NPROC /\ -1 \in Int
    BY <1>1, SMT DEF PCs
  <2> QED
    BY <2>1 DEF ForkretFrame, UserFrame, Frame
<1>3. \A p \in Procs :
        /\ state[p] = (IF p = initproc THEN "RUNNABLE" ELSE "UNUSED")
        /\ chan[p] = NoChan /\ ~killed[p] /\ parent[p] = NoProc
        /\ pid[p] = (IF p = initproc THEN 1 ELSE 0) /\ plock[p] = NoCpu /\ k[p] = ForkretFrame
  BY DEF Init
<1>4. \A p \in Procs : k[p].pc = "swtch" /\ k[p].ipc = "user" /\ Pos(p) = "user"
  BY <1>2, <1>3 DEF Pos
<1>5. \A p \in Procs : ~HoldsWait(p) /\ ~HoldsLk(p) /\ ~Leaving(p)
  BY <1>4 DEF HoldsWait, HoldsLk, Leaving
<1>6. TypeOK
  <2>1. state \in [Procs -> States] /\ killed \in [Procs -> BOOLEAN] /\ parent \in [Procs -> Procs \cup {NoProc}]
    BY DEF Init, States
  <2>2. chan \in [Procs -> -1..NPROC] /\ pid \in [Procs -> Nat] /\ nextpid \in Nat
    BY <1>1, SMT DEF Init, NoChan
  <2>3. /\ plock \in [Procs -> Cpus \cup {NoCpu}] /\ lock \in [{"wait_lock", "lk"} -> Cpus \cup {NoCpu}]
        /\ locked \in Procs \cup {NoProc} /\ cproc \in [Cpus -> Procs \cup {NoProc}]
    BY DEF Init
  <2>4. k \in [Procs -> Frame]
    BY <1>2 DEF Init
  <2>5. \A p \in Procs : (pid[p] = 0 <=> state[p] = "UNUSED") /\ pid[p] < nextpid
    BY <1>3, SMT DEF Init
  <2> QED
    BY <2>1, <2>2, <2>3, <2>4, <2>5 DEF TypeOK
<1>7. OnCpu
  <2>1. \A c \in Cpus : cproc[c] = NoProc
    BY DEF Init
  <2> QED
    BY <1>1, <1>3, <1>4, <2>1 DEF OnCpu
<1>8. ProcLocks /\ Locks
  <2>1. (\A c \in Cpus : cproc[c] = NoProc) /\ lock["wait_lock"] = NoCpu /\ lock["lk"] = NoCpu
    BY DEF Init
  <2> QED
    BY <1>1, <1>3, <2>1 DEF ProcLocks, Locks
<1>9. Stacks
  <2>1. \A p \in Procs : state[p] # "SLEEPING"
    BY <1>3
  <2> QED
    BY <1>3, <1>4, <1>5, <2>1 DEF Stacks, Stack, Sleeping, Preemptible
<1>10. Children
  BY <1>4 DEF Children, ForkPCs
<1>11. Family
  BY <1>1, <1>3, <1>4, <1>5, SMT DEF Family, NotAlive
<1>12. Waiting /\ Exclusive
  <2>1. \A p \in Procs : state[p] # "SLEEPING" /\ parent[p] \notin Procs
    BY <1>1, <1>3
  <2> QED
    BY <1>4, <2>1 DEF Waiting, Exclusive
<1>13. Marks
  BY <1>3 DEF Marks
<1> QED
  BY <1>6, <1>7, <1>8, <1>9, <1>10, <1>11, <1>12, <1>13 DEF IInv

\* Every step of a process in the kernel.
LEMMA RunInv ==
  ASSUME IInv, NEW c \in Cpus, NEW p \in Procs, Run(c, p)
  PROVE  IInv'
<1>1. CASE trapret(c, p) \/ sleep(c, p) \/ sleep_set(c, p) \/ reacquire(c, p) \/ wakeup(c, p)
  BY <1>1, TrapretInv, SleepInv, SleepSetInv, ReacquireInv, WakeupInv
<1>2. CASE allocproc(c, p) \/ fork_copy(c, p) \/ fork_parent(c, p) \/ fork_run(c, p)
  BY <1>2, AllocprocInv, ForkCopyInv, ForkParentInv, ForkRunInv
<1>3. CASE exit(c, p) \/ reparent(c, p) \/ exit_wakeup(c, p) \/ exit_lock(c, p) \/ exit_zombie(c, p)
  BY <1>3, ExitInv, ReparentInv, ExitWakeupInv, ExitLockInv, ExitZombieInv
<1>4. CASE wait(c, p) \/ wait_scan(c, p) \/ wait_sleep(c, p) \/ kill(c, p)
  BY <1>4, WaitInv, WaitScanInv, WaitSleepInv, KillInv
<1>5. CASE acquiresleep(c, p) \/ as_check(c, p) \/ releasesleep(c, p) \/ rs_done(c, p)
  BY <1>5, AcquiresleepInv, AsCheckInv, ReleasesleepInv, RsDoneInv
<1> QED
  BY <1>1, <1>2, <1>3, <1>4, <1>5 DEF Run

\* Every step of the system.
LEMMA StepInv == IInv /\ [Next]_vars => IInv'
<1> SUFFICES ASSUME IInv, [Next]_vars PROVE IInv'
  OBVIOUS
<1>1. ASSUME NEW c \in Cpus, NEW p \in Procs,
             \/ Schedule(c, p) \/ Switch(c, p) \/ Resume(c, p) \/ yield(c, p)
             \/ Enter(c, p) \/ Run(c, p)
      PROVE  IInv'
  BY <1>1, ScheduleInv, SwitchInv, ResumeInv, YieldInv, EnterInv, RunInv
<1>2. CASE UNCHANGED vars
  <2>1. /\ UNCHANGED <<state, chan, killed, parent, pid, nextpid, locked, k>>
        /\ UNCHANGED <<plock, lock, cproc>>
    BY <1>2 DEF vars
  <2>2. Stacks' /\ Children' /\ Family' /\ Waiting' /\ Exclusive' /\ Marks'
    BY <2>1, StillInv
  <2>3. TypeOK' /\ OnCpu' /\ ProcLocks'
    BY <2>1, SMTT(30) DEF IInv, TypeOK, OnCpu, ProcLocks
  <2>4. Locks'
    <3>1. \A x \in Procs : (HoldsWait(x)' <=> HoldsWait(x)) /\ (HoldsLk(x)' <=> HoldsLk(x))
      BY <2>1 DEF HoldsWait, HoldsLk
    <3> QED
      BY <2>1, <3>1 DEF IInv, Locks
  <2> QED
    BY <2>2, <2>3, <2>4 DEF IInv
<1> QED
  BY <1>1, <1>2 DEF Next

\* The inductive invariant holds in every state that the kernel reaches.
THEOREM IInvHolds == Spec => []IInv
BY InitInv, StepInv, PTL DEF Spec

\* sched(), swtch() and scheduler(): a kernel stack is used by one CPU, its slot
\* is not freed or reused under it, and the CPU that switches holds p->lock and
\* no other lock.
THEOREM SwitchIsSound == Spec => []SwitchOK
<1>1. IInv => SwitchOK
  <2> SUFFICES ASSUME IInv PROVE SwitchOK
    OBVIOUS
  <2>1. \A c \in Cpus : cproc[c] # NoProc => cproc[c] \in Procs
    BY DEF IInv, TypeOK
  <2>2. StackInUse
    <3> SUFFICES ASSUME NEW c \in Cpus, cproc[c] # NoProc
                 PROVE  /\ \A d \in Cpus \ {c} : cproc[d] # cproc[c]
                        /\ state[cproc[c]] = "RUNNING" \/ plock[cproc[c]] = c
                        /\ state[cproc[c]] \notin {"UNUSED", "USED"}
      BY DEF StackInUse
    <3>1. \A d \in Cpus \ {c} : cproc[d] # cproc[c]
      BY DEF IInv, OnCpu
    <3> QED
      BY <2>1, <3>1, SMTT(30) DEF IInv, OnCpu, ProcLocks, OwnPCs
  <2>3. SchedLocks
    <3> SUFFICES ASSUME NEW c \in Cpus, cproc[c] # NoProc, k[cproc[c]].pc = "swtch"
                 PROVE  /\ {p \in Procs : plock[p] = c} = {cproc[c]}
                        /\ c \notin {lock["wait_lock"], lock["lk"]}
      BY DEF SchedLocks
    <3>1. cproc[c] \in Procs /\ plock[cproc[c]] = c
      BY <2>1 DEF IInv, ProcLocks, OwnPCs
    <3>2. ASSUME NEW p \in Procs, plock[p] = c PROVE p = cproc[c]
      BY <3>2 DEF IInv, ProcLocks
    <3>3. c \notin {lock["wait_lock"], lock["lk"]}
      BY <3>1 DEF IInv, Locks, HoldsWait, HoldsLk
    <3> QED
      BY <3>1, <3>2, <3>3
  <2> QED
    BY <2>2, <2>3 DEF SwitchOK, IInv
<1> QED
  BY <1>1, IInvHolds, PTL

\* exit() and reparent(): every process has a parent, and the parent has not
\* exited.
THEOREM NoOrphanHolds == Spec => []NoOrphan
<1>1. IInv => NoOrphan
  <2> SUFFICES ASSUME IInv, NEW q \in Procs \ {initproc}, state[q] \notin {"UNUSED", "USED"}
               PROVE  parent[q] # NoProc /\ state[parent[q]] \notin {"UNUSED", "USED", "ZOMBIE"}
    BY DEF NoOrphan
  <2>1. parent[q] # NoProc /\ parent[q] \in Procs
    BY DEF IInv, Family, TypeOK
  <2> QED
    BY <2>1 DEF IInv, Family, NotAlive
<1> QED
  BY <1>1, IInvHolds, PTL

\* wait(), exit(), sleep() and wakeup(): outside the sections that hold wait_lock,
\* no process sleeps in wait while it has a zombie child.
THEOREM NoLostWakeupHolds == Spec => []NoLostWakeup
<1>1. IInv => NoLostWakeup
  <2> SUFFICES ASSUME IInv, lock["wait_lock"] = NoCpu, NEW p \in Procs, NEW q \in Procs,
                      state[p] = "SLEEPING", chan[p] = p, parent[q] = p, state[q] = "ZOMBIE"
               PROVE  FALSE
    BY DEF NoLostWakeup
  <2>1. PICK r \in Procs : k[r].pc = "wakeup" /\ k[r].ret = "exit_wakeup"
    BY DEF IInv, Waiting
  <2>2. HoldsWait(r)
    BY <2>1 DEF HoldsWait
  <2> QED
    BY <2>2, NoHolder
<1> QED
  BY <1>1, IInvHolds, PTL

\* acquiresleep() and releasesleep(): one process at a time is between them, and
\* no process sleeps on a lock that is free.
THEOREM SleepLockHolds == Spec => []SleepLockOK
<1>1. IInv => SleepLockOK
  <2> SUFFICES ASSUME IInv PROVE SleepLockOK
    OBVIOUS
  <2>1. \A p \in Procs : k[p].pc = "held" \/ (k[p].pc = "swtch" /\ k[p].ipc = "held") => locked = p
    BY DEF IInv, Exclusive, Pos
  <2>2. ASSUME lock["lk"] = NoCpu, locked = NoProc, NEW p \in Procs, state[p] = "SLEEPING",
               chan[p] = LockChan
        PROVE  FALSE
    <3>1. PICK r \in Procs : k[r].pc = "wakeup" /\ k[r].ret = "rs_done"
      BY <2>2 DEF IInv, Exclusive
    <3>2. HoldsLk(r)
      BY <3>1 DEF HoldsLk
    <3> QED
      BY <2>2, <3>2, NoHolder
  <2> QED
    BY <2>1, <2>2 DEF SleepLockOK
<1> QED
  BY <1>1, IInvHolds, PTL

\* kill() and freeproc(): a process that is marked killed has a pid that was
\* passed to kill, however often its slot was used before.
THEOREM KillHitsTargetHolds == Spec => []KillHitsTarget
<1>1. IInv => KillHitsTarget
  BY DEF IInv, Marks, KillHitsTarget
<1> QED
  BY <1>1, IInvHolds, PTL

=============================================================================
