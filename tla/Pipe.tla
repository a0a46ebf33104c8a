-------------------------------- MODULE Pipe --------------------------------
(***************************************************************************)
(* Pipes (kernel/pipe.c): readers, writers and closers of one pipe, each   *)
(* step the work of one turn of a loop under pi->lock.  sleep gives the    *)
(* lock up and sleeps in one step, which module Proc justifies.            *)
(***************************************************************************)
EXTENDS Integers, Sequences

CONSTANTS
  Procs, NoProc,
  Bytes,      \* contents of a byte
  PIPESIZE,
  Wrap,       \* 2^32: the counters nread and nwrite are unsigned int
  Lens,       \* the lengths of reads and writes
  Junk        \* what kalloc leaves in a page

ASSUME PipeAssumption ==
  /\ NoProc \notin Procs
  /\ PIPESIZE \in Nat \ {0} /\ Lens \subseteq Nat
  /\ Wrap \in Nat /\ Wrap > PIPESIZE /\ Wrap % PIPESIZE = 0

VARIABLES
  data, nread, nwrite, readopen, writeopen,   \* struct pipe
  lock,     \* the process that holds pi->lock
  frees,    \* how many times the page of the pipe was freed
  ends,     \* ends[p]: the ends of the pipe p has a descriptor of
  killed,
  op        \* op[p]: where p is, the length n of its call and its index i

vars == <<data, nread, nwrite, readopen, writeopen, lock, frees, ends, killed, op>>
ring == <<data, nread, nwrite>>
open == <<readopen, writeopen>>

Idle == [pc |-> "idle", n |-> 0, i |-> 0]
PCs == {"idle", "write", "wloop", "wfull", "wsleep", "wwoken",
        "read", "rwait", "rempty", "rsleep", "rwoken", "rloop", "closing", "kfree"}

\* pipealloc, and the forks and closes that give each end to some processes.
Init ==
  /\ data = [j \in 0..(PIPESIZE - 1) |-> Junk]
  /\ nread = 0 /\ nwrite = 0
  /\ readopen = TRUE /\ writeopen = TRUE
  /\ lock = NoProc /\ frees = 0
  /\ ends \in [Procs -> SUBSET {"r", "w"}]
  /\ \A e \in {"r", "w"} : \E p \in Procs : e \in ends[p]
  /\ killed = [p \in Procs |-> FALSE]
  /\ op = [p \in Procs |-> Idle]

Goto(p, l) == op' = [op EXCEPT ![p].pc = l]
Return(p) == op' = [op EXCEPT ![p] = Idle] /\ lock' = NoProc

\* wakeup on nread or nwrite makes every process that sleeps there runnable.
Woken(asleep, woken) == [p \in Procs |-> IF op[p].pc = asleep THEN [op[p] EXCEPT !.pc = woken] ELSE op[p]]
WokenReaders == Woken("rsleep", "rwoken")
WokenWriters == Woken("wsleep", "wwoken")

(***************************************************************************)
(* pipewrite(pi, addr, n).                                                 *)
(***************************************************************************)
Call(p, e, l, n) ==
  /\ op[p].pc = "idle" /\ e \in ends[p] /\ ~killed[p]
  /\ op' = [op EXCEPT ![p] = [pc |-> l, n |-> n, i |-> 0]]
  /\ UNCHANGED <<ring, open, lock, frees, ends, killed>>

\* acquire, at the start and at the end of sleep.
Lock(p, from, to) ==
  /\ op[p].pc \in from /\ lock = NoProc
  /\ lock' = p
  /\ Goto(p, to)
  /\ UNCHANGED <<ring, open, frees, ends, killed>>

pipewrite_fail(p) ==
  /\ op[p].pc = "wloop" /\ op[p].i < op[p].n
  /\ ~readopen \/ killed[p]
  /\ Return(p)
  /\ UNCHANGED <<ring, open, frees, ends, killed>>

\* Mutation of Full: nread + PIPESIZE does not wrap.
Full_nowrap == nwrite = nread + PIPESIZE

Full == nwrite = (nread + PIPESIZE) % Wrap

\* Mutation of pipewrite_full: the readers are not woken.
pipewrite_full_quiet(p) ==
  /\ op[p].pc = "wloop" /\ op[p].i < op[p].n
  /\ readopen /\ ~killed[p] /\ Full
  /\ op' = [op EXCEPT ![p].pc = "wfull"]
  /\ UNCHANGED <<ring, open, lock, frees, ends, killed>>

pipewrite_full(p) ==
  /\ op[p].pc = "wloop" /\ op[p].i < op[p].n
  /\ readopen /\ ~killed[p] /\ Full
  /\ op' = [WokenReaders EXCEPT ![p].pc = "wfull"]
  /\ UNCHANGED <<ring, open, lock, frees, ends, killed>>

Sleep(p, from, to) ==
  /\ op[p].pc = from
  /\ Goto(p, to)
  /\ lock' = NoProc
  /\ UNCHANGED <<ring, open, frees, ends, killed>>

pipewrite_byte(p, ch) ==
  /\ op[p].pc = "wloop" /\ op[p].i < op[p].n
  /\ readopen /\ ~killed[p] /\ ~Full
  /\ data' = [data EXCEPT ![nwrite % PIPESIZE] = ch]
  /\ nwrite' = (nwrite + 1) % Wrap
  /\ op' = [op EXCEPT ![p].i = @ + 1]
  /\ UNCHANGED <<nread, open, lock, frees, ends, killed>>

\* All bytes are written, or copyin fails.
pipewrite_done(p) ==
  /\ op[p].pc = "wloop"
  /\ op[p].i = op[p].n \/ (readopen /\ ~killed[p] /\ ~Full)
  /\ op' = [WokenReaders EXCEPT ![p] = Idle]
  /\ lock' = NoProc
  /\ UNCHANGED <<ring, open, frees, ends, killed>>

(***************************************************************************)
(* piperead(pi, addr, n).                                                  *)
(***************************************************************************)
Empty == nread = nwrite

piperead_wait(p) ==
  /\ op[p].pc = "rwait"
  /\ \/ /\ Empty /\ writeopen /\ killed[p]
        /\ Return(p)
     \/ /\ Empty /\ writeopen /\ ~killed[p]
        /\ Goto(p, "rempty") /\ UNCHANGED lock
     \/ /\ ~Empty \/ ~writeopen
        /\ Goto(p, "rloop") /\ UNCHANGED lock
  /\ UNCHANGED <<ring, open, frees, ends, killed>>

\* A byte is taken; when copyout fails, it is lost and the read is over.
piperead_byte(p) ==
  /\ op[p].pc = "rloop" /\ op[p].i < op[p].n /\ ~Empty
  /\ nread' = (nread + 1) % Wrap
  /\ \/ op' = [op EXCEPT ![p].i = @ + 1]
     \/ op' = [op EXCEPT ![p].n = op[p].i]
  /\ UNCHANGED <<data, nwrite, open, lock, frees, ends, killed>>

piperead_done(p) ==
  /\ op[p].pc = "rloop"
  /\ op[p].i = op[p].n \/ Empty
  /\ op' = [WokenWriters EXCEPT ![p] = Idle]
  /\ lock' = NoProc
  /\ UNCHANGED <<ring, open, frees, ends, killed>>

(***************************************************************************)
(* close: the last descriptor of an end calls pipeclose.                   *)
(***************************************************************************)
fileclose(p, e) ==
  /\ op[p].pc = "idle" /\ e \in ends[p]
  /\ ends' = [ends EXCEPT ![p] = @ \ {e}]
  /\ op' = IF \E q \in Procs \ {p} : e \in ends[q] THEN op
           ELSE [op EXCEPT ![p].pc = "closing", ![p].i = IF e = "w" THEN 1 ELSE 0]
  /\ UNCHANGED <<ring, open, lock, frees, killed>>

\* Mutation of pipeclose: the page is freed when either end is closed.
pipeclose_either(p) ==
  /\ op[p].pc = "closing" /\ lock = NoProc
  /\ readopen' = (readopen /\ op[p].i = 1) /\ writeopen' = (writeopen /\ op[p].i = 0)
  /\ op' = [(IF op[p].i = 1 THEN WokenReaders ELSE WokenWriters) EXCEPT ![p] = [Idle EXCEPT !.pc = "kfree"]]
  /\ UNCHANGED <<ring, lock, frees, ends, killed>>

pipeclose(p) ==
  /\ op[p].pc = "closing" /\ lock = NoProc
  /\ readopen' = (readopen /\ op[p].i = 1) /\ writeopen' = (writeopen /\ op[p].i = 0)
  /\ op' = [(IF op[p].i = 1 THEN WokenReaders ELSE WokenWriters)
             EXCEPT ![p] = IF readopen' \/ writeopen' THEN Idle ELSE [Idle EXCEPT !.pc = "kfree"]]
  /\ UNCHANGED <<ring, lock, frees, ends, killed>>

pipeclose_kfree(p) ==
  /\ op[p].pc = "kfree"
  /\ frees' = frees + 1
  /\ op' = [op EXCEPT ![p] = Idle]
  /\ UNCHANGED <<ring, open, lock, ends, killed>>

\* kill, which also wakes the process.
kill(p) ==
  /\ ~killed[p]
  /\ killed' = [killed EXCEPT ![p] = TRUE]
  /\ op' = [op EXCEPT ![p].pc = IF @ = "rsleep" THEN "rwoken" ELSE IF @ = "wsleep" THEN "wwoken" ELSE @]
  /\ UNCHANGED <<ring, open, lock, frees, ends>>

(***************************************************************************)
(* The specification.                                                      *)
(***************************************************************************)
Write(p) ==
  \/ Lock(p, {"write", "wwoken"}, "wloop") \/ Sleep(p, "wfull", "wsleep")
  \/ pipewrite_fail(p) \/ pipewrite_full(p) \/ pipewrite_done(p)
  \/ \E ch \in Bytes : pipewrite_byte(p, ch)

Read(p) ==
  \/ Lock(p, {"read", "rwoken"}, "rwait") \/ Sleep(p, "rempty", "rsleep")
  \/ piperead_wait(p) \/ piperead_byte(p) \/ piperead_done(p)

Close(p) == pipeclose(p) \/ pipeclose_kfree(p)

Start(p) ==
  \/ \E n \in Lens : Call(p, "w", "write", n) \/ Call(p, "r", "read", n)
  \/ fileclose(p, "r") \/ fileclose(p, "w")

Next == \E p \in Procs : Start(p) \/ Write(p) \/ Read(p) \/ Close(p) \/ kill(p)

Spec == Init /\ [][Next]_vars

(***************************************************************************)
(* Properties.                                                             *)
(***************************************************************************)

\* The bytes between nread and nwrite, across the wrap of the counters.
Contents == [j \in 1..((nwrite - nread) % Wrap) |-> data[(nread + j - 1) % PIPESIZE]]

\* pipewrite, piperead and pipeclose implement a bounded queue: no byte is overwritten,
\* read twice or reordered, at the wrap of the ring and of the counters too.
F == INSTANCE Fifo WITH queue <- Contents, ropen <- readopen, wopen <- writeopen, Size <- PIPESIZE
PipeIsFifo == F!Spec

\* When the lock is free, a reader sleeps only on an empty pipe that can still be written,
\* and a writer only on a full one that can still be read: pipewrite, piperead and
\* pipeclose wake everyone they must.  The exception is a writer killed in the middle of
\* a write, which wakes no reader.
SleepersHaveCause ==
  lock = NoProc => \A p \in Procs :
    /\ op[p].pc = "rsleep" => writeopen /\ (Empty \/ \E q \in Procs : killed[q])
    /\ op[p].pc = "wsleep" => readopen /\ Full

\* The page of the pipe is freed once, by the last pipeclose, when nobody uses it.
FreedOnce == frees > 0 => frees = 1 /\ \A p \in Procs : op[p] = Idle /\ ends[p] = {}
====
