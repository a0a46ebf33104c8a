-------------------------------- MODULE Log --------------------------------
(***************************************************************************)
(* The redo log of kernel/log.c over the buffer cache of kernel/bio.c,     *)
(* with power failures.                                                    *)
(*                                                                         *)
(* Processes run file-system calls: begin_op, then any number of bread,    *)
(* modify, log_write and brelse, then end_op.  The last call to end        *)
(* commits.  A process may also read outside a transaction (sys_read).     *)
(* crash is a power failure at any step, including during recovery.        *)
(*                                                                         *)
(* One step of a process is one critical section of log.lock, one          *)
(* operation on a buffer it has locked, or one block written to the disk.  *)
(* A block write is atomic.  The buffers of the log's own blocks are       *)
(* written through at once, so they are identified with the disk blocks.   *)
(* The cache is abstracted to the contents it holds for each home block;   *)
(* recycle stands for bget reusing the buffer of a block nobody holds.     *)
(***************************************************************************)
EXTENDS Integers, Sequences, FiniteSets

CONSTANTS Procs,        \* processes that make file-system calls
          Blocks,       \* home blocks
          Values,       \* contents of a block
          NoProc, NoBlock, NoBuf,
          MAXOPBLOCKS, LOGSIZE,
          NLOG,         \* sb.nlog: blocks of the on-disk log, header included
          OpBlocks,     \* bound: distinct blocks one call writes
          OpReads,      \* bound: buffers one call gets
          IdleReads     \* bound: reads outside a transaction per boot

ASSUME LogAssumption ==
  /\ MAXOPBLOCKS \in Nat \ {0}
  /\ LOGSIZE \in Nat /\ LOGSIZE >= MAXOPBLOCKS
  /\ NLOG \in Nat /\ OpBlocks \in Nat /\ OpReads \in Nat /\ IdleReads \in Nat
  /\ NoProc \notin Procs /\ NoBlock \notin Blocks /\ NoBuf \notin Values

VARIABLES
  disk,         \* home blocks on the disk
  dhead, dlog,  \* the on-disk header (its block numbers) and log blocks
  bcache,       \* the buffer of each home block: data, lock holder, pins
  lh, outstanding, committing,
  tail,         \* the loop index of write_log and install_trans
  proc,         \* the processes: where they are, the buffer they hold, the
                \* blocks their call wrote and the buffers it may still get
  reads,        \* reads made outside a transaction since the last boot
  boot          \* where initlog is; "up" once it has returned

vars == <<disk, dhead, dlog, bcache, lh, outstanding, committing, tail, proc, reads, boot>>
onDisk == <<disk, dhead, dlog>>
inLog == <<lh, outstanding, committing>>

OpPCs == {"op", "held", "dirty", "logged"}
CommitPCs == {"commit", "write_log", "write_head", "install", "clear", "done"}
PCs == {"idle", "sleep", "begin", "read", "panic"} \cup OpPCs \cup CommitPCs

EmptyCache == [b \in Blocks |-> [data |-> NoBuf, lock |-> NoProc, refcnt |-> 0]]
IdleProcs == [p \in Procs |-> [pc |-> "idle", buf |-> NoBlock, wrote |-> {}, left |-> 0]]

\* The machine is switched on with a disk as mkfs leaves it.
Init == /\ disk \in [Blocks -> Values]
        /\ dhead = <<>>
        /\ dlog \in {[i \in 1..LOGSIZE |-> v] : v \in Values}
        /\ bcache = EmptyCache
        /\ lh = <<>> /\ outstanding = 0 /\ committing = FALSE
        /\ tail = 1
        /\ proc = IdleProcs
        /\ reads = 0
        /\ boot = "read_head"

\* The power fails at any time; only the disk survives.
crash == /\ bcache' = EmptyCache
         /\ lh' = <<>> /\ outstanding' = 0 /\ committing' = FALSE
         /\ tail' = 1
         /\ proc' = IdleProcs
         /\ reads' = 0
         /\ boot' = "read_head"
         /\ UNCHANGED onDisk

\* panic() stops the machine: nothing but a reset follows.
Panicked == \E p \in Procs : proc[p].pc = "panic"
At(p, l) == boot = "up" /\ ~Panicked /\ proc[p].pc = l
Goto(p, l) == proc' = [proc EXCEPT ![p].pc = l]

-----------------------------------------------------------------------------
(* The buffer cache, as the log and the file system use it.                *)

\* The contents a bread of b gives: the cached buffer, or the disk's block.
Contents(b) == IF bcache[b].data = NoBuf THEN disk[b] ELSE bcache[b].data

\* p locks the buffer of b, reading it from the disk if it is not valid: inside
\* a call, or outside any call, since readi from sys_read takes no transaction.
bread(p, b) ==
  /\ bcache[b].lock = NoProc
  /\ bcache' = [bcache EXCEPT ![b].lock = p, ![b].data = Contents(b)]
  /\ \/ /\ At(p, "op") /\ proc[p].left > 0
        /\ proc' = [proc EXCEPT ![p].pc = "held", ![p].buf = b, ![p].left = @ - 1]
        /\ UNCHANGED reads
     \/ /\ At(p, "idle") /\ reads < IdleReads
        /\ proc' = [proc EXCEPT ![p].pc = "read", ![p].buf = b]
        /\ reads' = reads + 1
  /\ UNCHANGED <<onDisk, inLog, tail, boot>>

\* The call changes b->data; the block counts against what one call may write.
modify(p, v) ==
  LET w == proc[p].wrote \cup {proc[p].buf} IN
  /\ At(p, "held") /\ Cardinality(w) <= OpBlocks
  /\ bcache' = [bcache EXCEPT ![proc[p].buf].data = v]
  /\ proc' = [proc EXCEPT ![p].pc = "dirty", ![p].wrote = w]
  /\ UNCHANGED <<onDisk, inLog, tail, reads, boot>>

brelse(p) ==
  /\ At(p, "held") \/ At(p, "logged") \/ At(p, "read")
  /\ bcache' = [bcache EXCEPT ![proc[p].buf].lock = NoProc]
  /\ proc' = [proc EXCEPT ![p].buf = NoBlock,
                          ![p].pc = IF @ = "read" THEN "idle" ELSE "op"]
  /\ UNCHANGED <<onDisk, inLog, tail, reads, boot>>

\* Mutation of Unused: a pinned buffer counts as unused.
Unused_pinned(b) == bcache[b].lock = NoProc

\* b->refcnt is 0: nobody has locked the buffer and the log has not pinned it.
Unused(b) == bcache[b].lock = NoProc /\ bcache[b].refcnt = 0

\* bget reuses the buffer of b for another block.
recycle(b) ==
  /\ boot = "up" /\ ~Panicked /\ bcache[b].data # NoBuf /\ Unused(b)
  /\ bcache' = [bcache EXCEPT ![b].data = NoBuf]
  /\ UNCHANGED <<onDisk, inLog, tail, proc, reads, boot>>

-----------------------------------------------------------------------------
(* begin_op, log_write and end_op.                                         *)

\* Mutation of Fits: the blocks already in the log are forgotten.
Fits_nolh == (outstanding + 1) * MAXOPBLOCKS <= LOGSIZE

\* Another call cannot exhaust the log.
Fits == Len(lh) + (outstanding + 1) * MAXOPBLOCKS <= LOGSIZE

begin_op(p) ==
  /\ At(p, "idle") \/ At(p, "begin")
  /\ IF committing \/ ~Fits THEN Goto(p, "sleep") /\ UNCHANGED outstanding
     ELSE /\ outstanding' = outstanding + 1
          /\ proc' = [proc EXCEPT ![p].pc = "op", ![p].wrote = {}, ![p].left = OpReads]
  /\ UNCHANGED <<onDisk, bcache, lh, committing, tail, reads, boot>>

\* Record the block in the transaction once (absorption) and pin its buffer.
log_write(p) ==
  LET b == proc[p].buf IN
  /\ At(p, "dirty")
  /\ IF Len(lh) >= LOGSIZE \/ Len(lh) >= NLOG - 1 \/ outstanding < 1
     THEN Goto(p, "panic") /\ UNCHANGED <<lh, bcache>>
     ELSE /\ Goto(p, "logged")
          /\ IF \E i \in 1..Len(lh) : lh[i] = b THEN UNCHANGED <<lh, bcache>>
             ELSE lh' = Append(lh, b) /\ bcache' = [bcache EXCEPT ![b].refcnt = @ + 1]
  /\ UNCHANGED <<onDisk, outstanding, committing, tail, reads, boot>>

\* p goes to l and wakes every process asleep on &log.
WakeupAndGoto(p, l) ==
  proc' = [q \in Procs |->
             IF q = p THEN [proc[q] EXCEPT !.pc = l]
             ELSE IF proc[q].pc = "sleep" THEN [proc[q] EXCEPT !.pc = "begin"] ELSE proc[q]]

\* The last call to end commits; the others wake those waiting for space.
end_op(p) ==
  /\ At(p, "op")
  /\ outstanding' = outstanding - 1
  /\ IF committing THEN Goto(p, "panic") /\ UNCHANGED committing
     ELSE IF outstanding = 1 THEN committing' = TRUE /\ Goto(p, "commit")
     ELSE WakeupAndGoto(p, "idle") /\ UNCHANGED committing
  /\ UNCHANGED <<onDisk, bcache, lh, tail, reads, boot>>

\* After commit() returns.
end_op_done(p) ==
  /\ At(p, "done")
  /\ committing' = FALSE
  /\ WakeupAndGoto(p, "idle")
  /\ UNCHANGED <<onDisk, bcache, lh, outstanding, tail, reads, boot>>

-----------------------------------------------------------------------------
(* commit().                                                               *)

\* Mutation of commit: a transaction of one block is taken for an empty one.
commit_two(p) ==
  /\ At(p, "commit")
  /\ tail' = 1
  /\ Goto(p, IF Len(lh) > 1 THEN "write_log" ELSE "done")
  /\ UNCHANGED <<onDisk, bcache, inLog, reads, boot>>

commit(p) ==
  /\ At(p, "commit")
  /\ tail' = 1
  /\ Goto(p, IF Len(lh) > 0 THEN "write_log" ELSE "done")
  /\ UNCHANGED <<onDisk, bcache, inLog, reads, boot>>

\* One iteration of write_log: a modified block goes from the cache to the log.
write_log(p) ==
  /\ At(p, "write_log")
  /\ IF tail > Len(lh) THEN Goto(p, "write_head") /\ UNCHANGED <<dlog, bcache, tail>>
     ELSE /\ bcache[lh[tail]].lock = NoProc
          /\ bcache' = [bcache EXCEPT ![lh[tail]].data = Contents(lh[tail])]
          /\ dlog' = [dlog EXCEPT ![tail] = Contents(lh[tail])]
          /\ tail' = tail + 1
          /\ UNCHANGED proc
  /\ UNCHANGED <<disk, dhead, inLog, reads, boot>>

\* The commit point.
write_head(p) ==
  /\ At(p, "write_head")
  /\ dhead' = lh
  /\ tail' = 1
  /\ Goto(p, "install")
  /\ UNCHANGED <<disk, dlog, bcache, inLog, reads, boot>>

\* Mutation of Install: the buffer stays pinned.
Install_keep(recovering) ==
  /\ disk' = [disk EXCEPT ![lh[tail]] = dlog[tail]]
  /\ bcache' = [bcache EXCEPT ![lh[tail]].data = dlog[tail]]

\* One iteration of install_trans: a block goes from the log to its home.
Install(recovering) ==
  /\ disk' = [disk EXCEPT ![lh[tail]] = dlog[tail]]
  /\ bcache' = [bcache EXCEPT ![lh[tail]].data = dlog[tail],
                              ![lh[tail]].refcnt = IF recovering THEN @ ELSE @ - 1]

install_trans(p) ==
  /\ At(p, "install")
  /\ IF tail > Len(lh) THEN Goto(p, "clear") /\ UNCHANGED <<disk, bcache, tail>>
     ELSE /\ bcache[lh[tail]].lock = NoProc
          /\ Install(FALSE)
          /\ tail' = tail + 1
          /\ UNCHANGED proc
  /\ UNCHANGED <<dhead, dlog, inLog, reads, boot>>

\* log.lh.n = 0 and the header is written again.
clear_head(p) ==
  /\ At(p, "clear")
  /\ lh' = <<>> /\ dhead' = <<>>
  /\ Goto(p, "done")
  /\ UNCHANGED <<disk, dlog, bcache, outstanding, committing, tail, reads, boot>>

-----------------------------------------------------------------------------
(* initlog runs recover_from_log before any file-system call.              *)

read_head ==
  /\ boot = "read_head"
  /\ lh' = dhead
  /\ boot' = "install"
  /\ UNCHANGED <<onDisk, bcache, outstanding, committing, tail, proc, reads>>

recover_install ==
  /\ boot = "install"
  /\ IF tail > Len(lh) THEN boot' = "clear" /\ UNCHANGED <<disk, bcache, tail>>
     ELSE Install(TRUE) /\ tail' = tail + 1 /\ UNCHANGED boot
  /\ UNCHANGED <<dhead, dlog, inLog, proc, reads>>

recover_clear ==
  /\ boot = "clear"
  /\ lh' = <<>> /\ dhead' = <<>>
  /\ boot' = "up"
  /\ UNCHANGED <<disk, dlog, bcache, outstanding, committing, tail, proc, reads>>

recover_from_log == read_head \/ recover_install \/ recover_clear

-----------------------------------------------------------------------------
\* A step of a process.
Step(p) == \/ begin_op(p)
           \/ \E b \in Blocks : bread(p, b)
           \/ \E v \in Values : modify(p, v)
           \/ brelse(p)
           \/ log_write(p)
           \/ end_op(p)
           \/ end_op_done(p)
           \/ commit(p)
           \/ write_log(p)
           \/ write_head(p)
           \/ install_trans(p)
           \/ clear_head(p)

Next == \/ \E p \in Procs : Step(p)
        \/ \E b \in Blocks : recycle(b)
        \/ recover_from_log
        \/ crash

Spec == Init /\ [][Next]_vars

\* The scheduler runs every runnable process again and again, so a call that
\* has started goes on; nobody has to start one.  Recovery runs to its end.
Fairness == /\ \A p \in Procs : WF_vars(proc[p].pc # "idle" /\ Step(p))
            /\ WF_vars(recover_from_log)

LiveSpec == Spec /\ Fairness

-----------------------------------------------------------------------------
(* Properties.                                                             *)

\* Every variable has its type; no pin is given back twice.
TypeOK ==
  /\ disk \in [Blocks -> Values]
  /\ dhead \in Seq(Blocks) /\ Len(dhead) <= LOGSIZE
  /\ dlog \in [1..LOGSIZE -> Values]
  /\ bcache \in [Blocks -> [data : Values \cup {NoBuf}, lock : Procs \cup {NoProc}, refcnt : Nat]]
  /\ lh \in Seq(Blocks) /\ Len(lh) <= LOGSIZE
  /\ outstanding \in Nat
  /\ committing \in BOOLEAN
  /\ tail \in 1..(LOGSIZE + 1)
  /\ proc \in [Procs -> [pc : PCs, buf : Blocks \cup {NoBlock}, wrote : SUBSET Blocks,
                         left : 0..OpReads]]
  /\ reads \in 0..IdleReads
  /\ boot \in {"up", "read_head", "install", "clear"}

\* What the disk holds once a committed log is installed.
Stable == [b \in Blocks |->
            IF \E i \in 1..Len(dhead) : dhead[i] = b
            THEN dlog[CHOOSE i \in 1..Len(dhead) : dhead[i] = b]
            ELSE disk[b]]

\* What a read returns; while the machine recovers nobody reads.
Current == IF boot = "up" THEN [b \in Blocks |-> Contents(b)] ELSE Stable

Active == {p \in Procs : proc[p].pc \in OpPCs}

AD == INSTANCE AtomicDisk WITH stable <- Stable, current <- Current, active <- Active

\* The log makes the calls that run together atomic with respect to crashes,
\* and neither commit, installation, recovery nor the recycling of buffers
\* changes what a read returns (log.c: "The logging system only commits when
\* there are no FS system calls active").
Atomic == AD!Spec

\* end_op returns from the last active call only when everything that call and
\* its companions wrote would survive a crash.
Durable == ~committing /\ outstanding = 0 => Stable = Current

\* How many blocks of the transaction install_trans has already written home.
Installed == IF \E p \in Procs : proc[p].pc = "install" THEN tail - 1
             ELSE IF \E p \in Procs : proc[p].pc = "clear" THEN Len(lh) ELSE 0

\* A buffer stays pinned exactly as long as its block waits to be installed:
\* log_write pins once per transaction, install_trans unpins what it wrote.
PinExact ==
  /\ TypeOK
  /\ boot = "up" =>
       \A b \in Blocks :
         bcache[b].refcnt = Cardinality({i \in (Installed + 1)..Len(lh) : lh[i] = b})

\* What begin_op relies on: a call writes fewer blocks than MAXOPBLOCKS, and
\* what it may leave unused covers the block by which the log mkfs makes on the
\* disk is smaller than LOGSIZE.
LogRoom == /\ OpBlocks < MAXOPBLOCKS
           /\ LOGSIZE - (MAXOPBLOCKS - OpBlocks) < NLOG - 1

\* Neither panic of log_write nor the one of end_op is reached: begin_op
\* reserves enough of the log for every call it lets in.
NoLogPanic == ~Panicked

\* A process that sleeps in begin_op is woken: end_op wakes those waiting for
\* space, and the committer those waiting for the commit.
Woken == \A p \in Procs : proc[p].pc = "sleep" ~> proc[p].pc # "sleep"
=============================================================================
