---------------------------- MODULE PipeProofs ----------------------------
(***************************************************************************)
(* The invariants of Pipe, and that it implements Fifo, for any number of  *)
(* processes, any size of the ring and any width of the counters that is   *)
(* a multiple of it.                                                       *)
(***************************************************************************)
EXTENDS Pipe, WrapLemmas

Op == [pc : PCs, n : Nat, i : Nat]
Writing == {"write", "wloop", "wfull", "wsleep", "wwoken"}
Reading == {"read", "rwait", "rempty", "rsleep", "rwoken", "rloop"}
Locked == {"wloop", "wfull", "rwait", "rempty", "rloop"}
Count == (nwrite - nread) % Wrap

Types ==
  /\ data \in [0..(PIPESIZE - 1) -> Bytes \cup {Junk}]
  /\ nread \in 0..(Wrap - 1) /\ nwrite \in 0..(Wrap - 1)
  /\ readopen \in BOOLEAN /\ writeopen \in BOOLEAN /\ frees \in Nat
  /\ ends \in [Procs -> SUBSET {"r", "w"}] /\ killed \in [Procs -> BOOLEAN]
  /\ op \in [Procs -> Op]

\* Who is at work has the end open, and nobody has an end that is closed or that
\* its last user is closing.
Descriptors ==
  \A p \in Procs :
    /\ "r" \in ends[p] => readopen
    /\ "w" \in ends[p] => writeopen
    /\ op[p].pc \in Reading => "r" \in ends[p]
    /\ op[p].pc \in Writing => "w" \in ends[p]
    /\ op[p].pc = "closing" => \/ op[p].i = 0 /\ readopen /\ \A q \in Procs : "r" \notin ends[q]
                               \/ op[p].i = 1 /\ writeopen /\ \A q \in Procs : "w" \notin ends[q]

\* An end is closed by one process, and the page freed by one.
Closers ==
  /\ \A p, q \in Procs : op[p].pc = "closing" /\ op[q].pc = "closing" /\ op[p].i = op[q].i => p = q
  /\ \A p \in Procs : op[p].pc = "kfree" => ~readopen /\ ~writeopen /\ frees = 0
  /\ \A p, q \in Procs : op[p].pc = "kfree" /\ op[q].pc = "kfree" => p = q
  /\ frees > 0 => frees = 1 /\ ~readopen /\ ~writeopen
  /\ \A p \in Procs : op[p].pc = "idle" => op[p] = Idle

\* pi->lock is held in the loops.  A sleeper has its cause, or the holder of the
\* lock is in the loop that ends with the wakeup.
Sleeping ==
  /\ \A p \in Procs : op[p].pc \in Locked => lock = p
  /\ \A p \in Procs : op[p].pc = "rempty" => Empty /\ writeopen
  /\ \A p \in Procs : op[p].pc = "wfull" => Full /\ readopen
  /\ \A p \in Procs : op[p].pc = "rsleep" => /\ writeopen
                                             /\ Empty \/ (\E q \in Procs : killed[q] \/ op[q].pc = "wloop")
  /\ \A p \in Procs : op[p].pc = "wsleep" => readopen /\ (Full \/ \E q \in Procs : op[q].pc = "rloop")
  /\ \A p, q \in Procs : op[p].pc = "wfull" => op[q].pc # "rsleep"

IInv == Types /\ Count <= PIPESIZE /\ Descriptors /\ Closers /\ Sleeping

(***************************************************************************)
(* Every step preserves IInv, one lemma per operation of kernel/pipe.c.    *)
(***************************************************************************)
LEMMA GotoOp ==
  ASSUME Types, NEW p \in Procs, NEW l \in PCs, Goto(p, l)
  PROVE  /\ op' \in [Procs -> Op] /\ op'[p].pc = l /\ op'[p].i = op[p].i /\ op'[p].n = op[p].n
         /\ \A q \in Procs \ {p} : op'[q] = op[q]
BY DEF Types, Goto, Op

LEMMA LockStep ==
  ASSUME IInv, NEW p \in Procs,
         Lock(p, {"write", "wwoken"}, "wloop") \/ Lock(p, {"read", "rwoken"}, "rwait")
  PROVE  IInv'
<1>1. /\ lock = NoProc /\ lock' = p
      /\ UNCHANGED <<data, nread, nwrite, readopen, writeopen, frees, ends, killed>>
      /\ \/ op[p].pc \in {"write", "wwoken"} /\ Goto(p, "wloop")
         \/ op[p].pc \in {"read", "rwoken"} /\ Goto(p, "rwait")
  BY DEF Lock, ring, open
<1>2. /\ op' \in [Procs -> Op] /\ op'[p].i = op[p].i /\ op'[p].n = op[p].n
      /\ \/ op[p].pc \in {"write", "wwoken"} /\ op'[p].pc = "wloop"
         \/ op[p].pc \in {"read", "rwoken"} /\ op'[p].pc = "rwait"
      /\ \A q \in Procs \ {p} : op'[q] = op[q]
  BY <1>1, GotoOp DEF IInv, PCs
<1>3. Types' /\ (Count <= PIPESIZE)' BY <1>1, <1>2 DEF IInv, Types, Count
<1>4. Descriptors' BY <1>1, <1>2 DEF IInv, Descriptors, Reading, Writing
<1>5. Closers' BY <1>1, <1>2 DEF IInv, Closers
<1>6. Sleeping' BY <1>1, <1>2, PipeAssumption DEF IInv, Sleeping, Locked, Empty, Full
<1> QED BY <1>3, <1>4, <1>5, <1>6 DEF IInv

LEMMA SleepStep ==
  ASSUME IInv, NEW p \in Procs, Sleep(p, "wfull", "wsleep") \/ Sleep(p, "rempty", "rsleep")
  PROVE  IInv'
<1>1. /\ lock' = NoProc
      /\ UNCHANGED <<data, nread, nwrite, readopen, writeopen, frees, ends, killed>>
      /\ \/ op[p].pc = "wfull" /\ Goto(p, "wsleep")
         \/ op[p].pc = "rempty" /\ Goto(p, "rsleep")
  BY DEF Sleep, ring, open
<1>2. /\ op' \in [Procs -> Op] /\ op'[p].i = op[p].i /\ op'[p].n = op[p].n
      /\ \/ op[p].pc = "wfull" /\ op'[p].pc = "wsleep"
         \/ op[p].pc = "rempty" /\ op'[p].pc = "rsleep"
      /\ \A q \in Procs \ {p} : op'[q] = op[q]
  BY <1>1, GotoOp DEF IInv, PCs
<1>3. Types' /\ (Count <= PIPESIZE)' BY <1>1, <1>2 DEF IInv, Types, Count
<1>4. Descriptors' BY <1>1, <1>2 DEF IInv, Descriptors, Reading, Writing
<1>5. Closers' BY <1>1, <1>2 DEF IInv, Closers
<1>6. Sleeping' BY <1>1, <1>2, PipeAssumption DEF IInv, Sleeping, Locked, Empty, Full
<1> QED BY <1>3, <1>4, <1>5, <1>6 DEF IInv

\* Idle, as the others see it.
LEMMA IdleOp == Idle \in Op /\ Idle.pc = "idle" /\ Idle.n = 0 /\ Idle.i = 0
BY DEF Idle, Op, PCs

\* A writer that fails was killed: a reader that sleeps has its end open.
LEMMA FailStep ==
  ASSUME IInv, NEW p \in Procs, pipewrite_fail(p)
  PROVE  IInv'
<1>1. op' \in [Procs -> Op] /\ op'[p] = Idle /\ \A q \in Procs \ {p} : op'[q] = op[q]
  BY IdleOp DEF pipewrite_fail, Return, IInv, Types
<1>2. /\ op[p].pc = "wloop" /\ (~readopen \/ killed[p]) /\ lock' = NoProc
      /\ UNCHANGED <<data, nread, nwrite, readopen, writeopen, frees, ends, killed>>
  BY DEF pipewrite_fail, Return, ring, open
<1>3. Types' BY <1>1, <1>2 DEF IInv, Types
<1>4. (Count <= PIPESIZE)' BY <1>2 DEF IInv, Count
<1>5. Descriptors' BY <1>1, <1>2, IdleOp DEF IInv, Descriptors, Reading, Writing
<1>6. Closers' BY <1>1, <1>2, IdleOp DEF IInv, Closers
<1>7. \A q \in Procs : op[q].pc = "rsleep" => readopen BY DEF IInv, Descriptors, Reading
<1>8. Sleeping' BY <1>1, <1>2, <1>7, IdleOp, PipeAssumption DEF IInv, Sleeping, Locked, Empty, Full
<1> QED BY <1>3, <1>4, <1>5, <1>6, <1>8 DEF IInv

\* wakeup changes where the sleepers are and nothing else.
LEMMA WokenReadersOp ==
  ASSUME Types
  PROVE  /\ WokenReaders \in [Procs -> Op]
         /\ \A q \in Procs : /\ WokenReaders[q].i = op[q].i /\ WokenReaders[q].n = op[q].n
                             /\ WokenReaders[q].pc = IF op[q].pc = "rsleep" THEN "rwoken" ELSE op[q].pc
                             /\ op[q].pc # "rsleep" => WokenReaders[q] = op[q]
BY DEF Types, WokenReaders, Woken, Op, PCs

LEMMA WokenWritersOp ==
  ASSUME Types
  PROVE  /\ WokenWriters \in [Procs -> Op]
         /\ \A q \in Procs : /\ WokenWriters[q].i = op[q].i /\ WokenWriters[q].n = op[q].n
                             /\ WokenWriters[q].pc = IF op[q].pc = "wsleep" THEN "wwoken" ELSE op[q].pc
                             /\ op[q].pc # "wsleep" => WokenWriters[q] = op[q]
BY DEF Types, WokenWriters, Woken, Op, PCs

LEMMA FullStep ==
  ASSUME IInv, NEW p \in Procs, pipewrite_full(p)
  PROVE  IInv'
<1> DEFINE w == WokenReaders
<1>1. /\ w \in [Procs -> Op]
      /\ \A q \in Procs : /\ w[q].i = op[q].i /\ w[q].n = op[q].n
                          /\ w[q].pc = IF op[q].pc = "rsleep" THEN "rwoken" ELSE op[q].pc
                          /\ op[q].pc # "rsleep" => w[q] = op[q]
  BY WokenReadersOp DEF IInv
<1>2. op' = [w EXCEPT ![p].pc = "wfull"] BY DEF pipewrite_full
<1> HIDE DEF w
<1>3. /\ op' \in [Procs -> Op] /\ op'[p].pc = "wfull" /\ op'[p].i = op[p].i /\ op'[p].n = op[p].n
      /\ \A q \in Procs \ {p} : op'[q] = w[q]
  BY <1>1, <1>2 DEF Op, PCs
<1>4. /\ op[p].pc = "wloop" /\ readopen /\ Full
      /\ UNCHANGED <<data, nread, nwrite, readopen, writeopen, lock, frees, ends, killed>>
  BY DEF pipewrite_full, ring, open
<1>5. Types' BY <1>3, <1>4 DEF IInv, Types
<1>6. (Count <= PIPESIZE)' BY <1>4 DEF IInv, Count
<1>7. Descriptors' BY <1>1, <1>3, <1>4 DEF IInv, Descriptors, Reading, Writing
<1>8. Closers' BY <1>1, <1>3, <1>4 DEF IInv, Closers
<1>9. Sleeping' BY <1>1, <1>3, <1>4, PipeAssumption DEF IInv, Sleeping, Locked, Empty, Full
<1> QED BY <1>5, <1>6, <1>7, <1>8, <1>9 DEF IInv

LEMMA WriteDoneStep ==
  ASSUME IInv, NEW p \in Procs, pipewrite_done(p)
  PROVE  IInv'
<1> DEFINE w == WokenReaders
<1>1. /\ w \in [Procs -> Op]
      /\ \A q \in Procs : /\ w[q].i = op[q].i /\ w[q].n = op[q].n
                          /\ w[q].pc = IF op[q].pc = "rsleep" THEN "rwoken" ELSE op[q].pc
                          /\ op[q].pc # "rsleep" => w[q] = op[q]
  BY WokenReadersOp DEF IInv
<1>2. op' = [w EXCEPT ![p] = Idle] BY DEF pipewrite_done
<1> HIDE DEF w
<1>3. op' \in [Procs -> Op] /\ op'[p] = Idle /\ \A q \in Procs \ {p} : op'[q] = w[q]
  BY <1>1, <1>2, IdleOp
<1>4. /\ op[p].pc = "wloop" /\ lock' = NoProc
      /\ UNCHANGED <<data, nread, nwrite, readopen, writeopen, frees, ends, killed>>
  BY DEF pipewrite_done, ring, open
<1>5. Types' BY <1>3, <1>4 DEF IInv, Types
<1>6. (Count <= PIPESIZE)' BY <1>4 DEF IInv, Count
<1>7. Descriptors' BY <1>1, <1>3, <1>4, IdleOp DEF IInv, Descriptors, Reading, Writing
<1>8. Closers' BY <1>1, <1>3, <1>4, IdleOp DEF IInv, Closers
<1>9. Sleeping' BY <1>1, <1>3, <1>4, IdleOp, PipeAssumption DEF IInv, Sleeping, Locked, Empty, Full
<1> QED BY <1>5, <1>6, <1>7, <1>8, <1>9 DEF IInv

\* The ring is full when PIPESIZE bytes are in it and empty when none is; a byte more
\* or less is one more or less in the count.
LEMMA CountOne ==
  ASSUME Types, Count <= PIPESIZE
  PROVE  /\ Count \in 0..PIPESIZE
         /\ Full <=> Count = PIPESIZE
         /\ Empty <=> Count = 0
         /\ ~Full => (((nwrite + 1) % Wrap) - nread) % Wrap = Count + 1
         /\ ~Empty => (nwrite - ((nread + 1) % Wrap)) % Wrap = Count - 1
         /\ (nread + 1) % Wrap \in 0..(Wrap - 1) /\ (nwrite + 1) % Wrap \in 0..(Wrap - 1)
<1>1. /\ Wrap \in Nat \ {0} /\ PIPESIZE \in Nat \ {0} /\ Wrap > PIPESIZE
      /\ nread \in 0..(Wrap - 1) /\ nwrite \in 0..(Wrap - 1)
  BY PipeAssumption DEF Types
<1>2. Count = IF nwrite >= nread THEN nwrite - nread ELSE nwrite - nread + Wrap
  BY <1>1, Difference DEF Count
<1>3. (nread + PIPESIZE) % Wrap = IF nread + PIPESIZE < Wrap THEN nread + PIPESIZE ELSE nread + PIPESIZE - Wrap
  <2>1. PIPESIZE \in 0..(Wrap - 1) BY <1>1
  <2> QED BY <1>1, <2>1, Sum
<1>4. Count \in 0..PIPESIZE /\ (Full <=> Count = PIPESIZE) /\ (Empty <=> Count = 0)
  BY <1>1, <1>2, <1>3 DEF Full, Empty
<1>5. ~Full => (((nwrite + 1) % Wrap) - nread) % Wrap = Count + 1
  <2>1. ~Full => (nwrite - nread) % Wrap < Wrap - 1 BY <1>1, <1>4 DEF Count
  <2>2. CASE ~Full BY <1>1, <2>1, <2>2, DifferenceUp DEF Count
  <2> QED BY <2>2
<1>6. ~Empty => (nwrite - ((nread + 1) % Wrap)) % Wrap = Count - 1
  BY <1>1, DifferenceDown DEF Count, Empty
<1>7. nread + 1 \in Int /\ nwrite + 1 \in Int BY <1>1
<1>8. (nread + 1) % Wrap \in 0..(Wrap - 1) /\ (nwrite + 1) % Wrap \in 0..(Wrap - 1) BY <1>1, <1>7, ModRange
<1> QED BY <1>4, <1>5, <1>6, <1>8

LEMMA WriteByteStep ==
  ASSUME IInv, NEW p \in Procs, NEW ch \in Bytes, pipewrite_byte(p, ch)
  PROVE  IInv'
<1>1. /\ op' \in [Procs -> Op] /\ op'[p].pc = "wloop" /\ \A q \in Procs \ {p} : op'[q] = op[q]
  <2>1. op \in [Procs -> Op] /\ op[p].pc = "wloop" BY DEF pipewrite_byte, IInv, Types
  <2>2. op' = [op EXCEPT ![p].i = @ + 1] BY DEF pipewrite_byte
  <2> QED BY <2>1, <2>2 DEF Op
<1>2. /\ op[p].pc = "wloop" /\ ~Full /\ nwrite' = (nwrite + 1) % Wrap
      /\ UNCHANGED <<nread, readopen, writeopen, lock, frees, ends, killed>>
  BY DEF pipewrite_byte, open
<1>3. data' \in [0..(PIPESIZE - 1) -> Bytes \cup {Junk}] BY DEF pipewrite_byte, IInv, Types
<1>4. Types' BY <1>1, <1>2, <1>3, CountOne DEF IInv, Types
<1>5. (Count <= PIPESIZE)'
  <2>1. Count' = Count + 1 BY <1>2, CountOne DEF IInv, Count
  <2> QED BY <1>2, <2>1, CountOne, PipeAssumption DEF IInv
<1>6. Descriptors' BY <1>1, <1>2 DEF IInv, Descriptors, Reading, Writing
<1>7. Closers' BY <1>1, <1>2 DEF IInv, Closers
<1>8. Sleeping' BY <1>1, <1>2, PipeAssumption DEF IInv, Sleeping, Locked
<1> QED BY <1>4, <1>5, <1>6, <1>7, <1>8 DEF IInv

LEMMA ReadWaitStep ==
  ASSUME IInv, NEW p \in Procs, piperead_wait(p)
  PROVE  IInv'
<1>1. /\ op[p].pc = "rwait"
      /\ UNCHANGED <<data, nread, nwrite, readopen, writeopen, frees, ends, killed>>
  BY DEF piperead_wait, ring, open
<1>2. CASE Return(p)
  <2>1. /\ op' \in [Procs -> Op] /\ op'[p] = Idle /\ lock' = NoProc
        /\ \A q \in Procs \ {p} : op'[q] = op[q]
    BY <1>2, IdleOp DEF Return, IInv, Types
  <2>2. Types' /\ (Count <= PIPESIZE)' BY <1>1, <2>1 DEF IInv, Types, Count
  <2>3. Descriptors' BY <1>1, <2>1, IdleOp DEF IInv, Descriptors, Reading, Writing
  <2>4. Closers' BY <1>1, <2>1, IdleOp DEF IInv, Closers
  <2>5. Sleeping' BY <1>1, <2>1, IdleOp, PipeAssumption DEF IInv, Sleeping, Locked, Empty, Full
  <2> QED BY <2>2, <2>3, <2>4, <2>5 DEF IInv
<1>3. ASSUME NEW l \in {"rempty", "rloop"}, Goto(p, l), lock' = lock, l = "rempty" => Empty /\ writeopen
      PROVE  IInv'
  <2>1. l \in PCs BY DEF PCs
  <2>2. /\ op' \in [Procs -> Op] /\ op'[p].pc = l
        /\ \A q \in Procs \ {p} : op'[q] = op[q]
    BY <1>3, <2>1, GotoOp DEF IInv
  <2>3. Types' /\ (Count <= PIPESIZE)' BY <1>1, <1>3, <2>2 DEF IInv, Types, Count
  <2>4. Descriptors' BY <1>1, <2>2 DEF IInv, Descriptors, Reading, Writing
  <2>5. Closers' BY <1>1, <2>2 DEF IInv, Closers
  <2>6. Sleeping' BY <1>1, <1>3, <2>2, PipeAssumption DEF IInv, Sleeping, Locked, Empty, Full
  <2> QED BY <2>3, <2>4, <2>5, <2>6 DEF IInv
<1> QED BY <1>2, <1>3 DEF piperead_wait

LEMMA ReadByteStep ==
  ASSUME IInv, NEW p \in Procs, piperead_byte(p)
  PROVE  IInv'
<1>1. /\ op' \in [Procs -> Op] /\ op'[p].pc = "rloop" /\ \A q \in Procs \ {p} : op'[q] = op[q]
  <2>1. op \in [Procs -> Op] /\ op[p].pc = "rloop" BY DEF piperead_byte, IInv, Types
  <2>2. CASE op' = [op EXCEPT ![p].i = @ + 1] BY <2>1, <2>2 DEF Op
  <2>3. CASE op' = [op EXCEPT ![p].n = op[p].i] BY <2>1, <2>3 DEF Op
  <2> QED BY <2>2, <2>3 DEF piperead_byte
<1>2. /\ op[p].pc = "rloop" /\ ~Empty /\ nread' = (nread + 1) % Wrap
      /\ UNCHANGED <<data, nwrite, readopen, writeopen, lock, frees, ends, killed>>
  BY DEF piperead_byte, open
<1>3. Types' BY <1>1, <1>2, CountOne DEF IInv, Types
<1>4. (Count <= PIPESIZE)'
  <2>1. Count' = Count - 1 BY <1>2, CountOne DEF IInv, Count
  <2> QED BY <1>2, <2>1, CountOne, PipeAssumption DEF IInv
<1>5. Descriptors' BY <1>1, <1>2 DEF IInv, Descriptors, Reading, Writing
<1>6. Closers' BY <1>1, <1>2 DEF IInv, Closers
<1>7. Sleeping' BY <1>1, <1>2, PipeAssumption DEF IInv, Sleeping, Locked
<1> QED BY <1>3, <1>4, <1>5, <1>6, <1>7 DEF IInv

LEMMA ReadDoneStep ==
  ASSUME IInv, NEW p \in Procs, piperead_done(p)
  PROVE  IInv'
<1> DEFINE w == WokenWriters
<1>1. /\ w \in [Procs -> Op]
      /\ \A q \in Procs : /\ w[q].i = op[q].i /\ w[q].n = op[q].n
                          /\ w[q].pc = IF op[q].pc = "wsleep" THEN "wwoken" ELSE op[q].pc
                          /\ op[q].pc # "wsleep" => w[q] = op[q]
  BY WokenWritersOp DEF IInv
<1>2. op' = [w EXCEPT ![p] = Idle] BY DEF piperead_done
<1> HIDE DEF w
<1>3. op' \in [Procs -> Op] /\ op'[p] = Idle /\ \A q \in Procs \ {p} : op'[q] = w[q]
  BY <1>1, <1>2, IdleOp
<1>4. /\ op[p].pc = "rloop" /\ lock' = NoProc
      /\ UNCHANGED <<data, nread, nwrite, readopen, writeopen, frees, ends, killed>>
  BY DEF piperead_done, ring, open
<1>5. Types' BY <1>3, <1>4 DEF IInv, Types
<1>6. (Count <= PIPESIZE)' BY <1>4 DEF IInv, Count
<1>7. Descriptors' BY <1>1, <1>3, <1>4, IdleOp DEF IInv, Descriptors, Reading, Writing
<1>8. Closers' BY <1>1, <1>3, <1>4, IdleOp DEF IInv, Closers
<1>9. Sleeping' BY <1>1, <1>3, <1>4, IdleOp, PipeAssumption DEF IInv, Sleeping, Locked, Empty, Full
<1> QED BY <1>5, <1>6, <1>7, <1>8, <1>9 DEF IInv

LEMMA CallStep ==
  ASSUME IInv, NEW p \in Procs, NEW n \in Lens, Call(p, "w", "write", n) \/ Call(p, "r", "read", n)
  PROVE  IInv'
<1>1. /\ op[p].pc = "idle"
      /\ UNCHANGED <<data, nread, nwrite, readopen, writeopen, lock, frees, ends, killed>>
      /\ \/ "w" \in ends[p] /\ op' = [op EXCEPT ![p] = [pc |-> "write", n |-> n, i |-> 0]]
         \/ "r" \in ends[p] /\ op' = [op EXCEPT ![p] = [pc |-> "read", n |-> n, i |-> 0]]
  BY DEF Call, ring, open
<1>2. /\ op' \in [Procs -> Op]
      /\ \/ "w" \in ends[p] /\ op'[p].pc = "write"
         \/ "r" \in ends[p] /\ op'[p].pc = "read"
      /\ \A q \in Procs \ {p} : op'[q] = op[q]
  <2>1. n \in Nat /\ op \in [Procs -> Op] BY PipeAssumption DEF IInv, Types
  <2> QED BY <1>1, <2>1 DEF Op, PCs
<1>3. Types' /\ (Count <= PIPESIZE)' BY <1>1, <1>2 DEF IInv, Types, Count
<1>4. Descriptors' BY <1>1, <1>2 DEF IInv, Descriptors, Reading, Writing
<1>5. Closers' BY <1>1, <1>2 DEF IInv, Closers
<1>6. Sleeping' BY <1>1, <1>2, PipeAssumption DEF IInv, Sleeping, Locked, Empty, Full
<1> QED BY <1>3, <1>4, <1>5, <1>6 DEF IInv

\* The last descriptor of an end: nobody else closes that end.
LEMMA FilecloseStep ==
  ASSUME IInv, NEW p \in Procs, NEW e \in {"r", "w"}, fileclose(p, e)
  PROVE  IInv'
<1> DEFINE last == \A q \in Procs \ {p} : e \notin ends[q]
           k == IF e = "w" THEN 1 ELSE 0
<1>1. /\ op[p].pc = "idle" /\ e \in ends[p]
      /\ UNCHANGED <<data, nread, nwrite, readopen, writeopen, lock, frees, killed>>
  BY DEF fileclose, ring, open
<1>2. /\ ends' \in [Procs -> SUBSET {"r", "w"}] /\ ends'[p] = ends[p] \ {e}
      /\ \A q \in Procs \ {p} : ends'[q] = ends[q]
  BY DEF fileclose, IInv, Types
<1>3. /\ op' \in [Procs -> Op] /\ \A q \in Procs \ {p} : op'[q] = op[q]
      /\ ~last => op' = op
      /\ last => op'[p].pc = "closing" /\ op'[p].i = k
  <2>1. CASE ~last BY <2>1 DEF fileclose, IInv, Types
  <2>2. CASE last
    <3>1. k \in Nat OBVIOUS
    <3> HIDE DEF k
    <3>2. op' = [op EXCEPT ![p].pc = "closing", ![p].i = k] BY <2>2 DEF fileclose, k
    <3> QED BY <2>2, <3>1, <3>2 DEF IInv, Types, Op, PCs
  <2> QED BY <2>1, <2>2
<1>4. Types' BY <1>1, <1>2, <1>3 DEF IInv, Types
<1>5. (Count <= PIPESIZE)' BY <1>1 DEF IInv, Count
<1>6. Descriptors' BY <1>1, <1>2, <1>3 DEF IInv, Descriptors, Reading, Writing
<1>7. Closers'
  <2>1. ASSUME NEW q \in Procs, op[q].pc = "closing", last PROVE op[q].i # k
    BY <1>1, <2>1 DEF IInv, Descriptors
  <2>2. last => readopen \/ writeopen BY <1>1 DEF IInv, Descriptors
  <2> QED BY <1>1, <1>3, <2>1, <2>2 DEF IInv, Closers
<1>8. Sleeping' BY <1>1, <1>2, <1>3, PipeAssumption DEF IInv, Sleeping, Locked, Empty, Full
<1> QED BY <1>4, <1>5, <1>6, <1>7, <1>8 DEF IInv

LEMMA KfreeStep ==
  ASSUME IInv, NEW p \in Procs, pipeclose_kfree(p)
  PROVE  IInv'
<1>1. op' \in [Procs -> Op] /\ op'[p] = Idle /\ \A q \in Procs \ {p} : op'[q] = op[q]
  BY IdleOp DEF pipeclose_kfree, IInv, Types
<1>2. /\ op[p].pc = "kfree" /\ frees' = frees + 1
      /\ UNCHANGED <<data, nread, nwrite, readopen, writeopen, lock, ends, killed>>
  BY DEF pipeclose_kfree, ring, open
<1>3. Types' BY <1>1, <1>2 DEF IInv, Types
<1>4. (Count <= PIPESIZE)' BY <1>2 DEF IInv, Count
<1>5. Descriptors' BY <1>1, <1>2, IdleOp DEF IInv, Descriptors, Reading, Writing
<1>6. Closers' BY <1>1, <1>2, IdleOp DEF IInv, Closers
<1>7. Sleeping' BY <1>1, <1>2, IdleOp, PipeAssumption DEF IInv, Sleeping, Locked, Empty, Full
<1> QED BY <1>3, <1>4, <1>5, <1>6, <1>7 DEF IInv

LEMMA KillStep ==
  ASSUME IInv, NEW p \in Procs, kill(p)
  PROVE  IInv'
<1> DEFINE to == IF op[p].pc = "rsleep" THEN "rwoken" ELSE IF op[p].pc = "wsleep" THEN "wwoken" ELSE op[p].pc
<1>1. to \in PCs BY DEF IInv, Types, Op, PCs
<1>2. op' = [op EXCEPT ![p].pc = to] BY DEF kill, IInv, Types, Op
<1> HIDE DEF to
<1>3. /\ op' \in [Procs -> Op] /\ op'[p].pc = to /\ op'[p].i = op[p].i /\ op'[p].n = op[p].n
      /\ \A q \in Procs \ {p} : op'[q] = op[q]
  BY <1>1, <1>2 DEF IInv, Types, Op
<1>4. op[p].pc \notin {"rsleep", "wsleep"} => op'[p] = op[p] BY <1>2 DEF IInv, Types, Op, to
<1>5. UNCHANGED <<data, nread, nwrite, readopen, writeopen, lock, frees, ends>> BY DEF kill, ring, open
<1>6. killed' \in [Procs -> BOOLEAN] /\ \A q \in Procs : killed[q] => killed'[q] BY DEF kill, IInv, Types
<1>7. Types' /\ (Count <= PIPESIZE)' BY <1>3, <1>5, <1>6 DEF IInv, Types, Count
<1>8. Descriptors' BY <1>3, <1>5 DEF IInv, Descriptors, Reading, Writing, to
<1>9. Closers' BY <1>3, <1>4, <1>5 DEF IInv, Closers, to
<1>10. Sleeping' BY <1>3, <1>5, <1>6, PipeAssumption DEF IInv, Sleeping, Locked, Empty, Full, to
<1> QED BY <1>7, <1>8, <1>9, <1>10 DEF IInv

\* pipeclose wakes whoever sleeps for the other end, and frees when both are closed.
LEMMA PipecloseStep ==
  ASSUME IInv, NEW p \in Procs, pipeclose(p)
  PROVE  IInv'
<1> DEFINE w == IF op[p].i = 1 THEN WokenReaders ELSE WokenWriters
           o == IF readopen' \/ writeopen' THEN Idle ELSE [Idle EXCEPT !.pc = "kfree"]
<1>1. /\ w \in [Procs -> Op]
      /\ \A q \in Procs : /\ w[q].i = op[q].i /\ w[q].n = op[q].n
                          /\ w[q].pc = IF op[p].i = 1 /\ op[q].pc = "rsleep" THEN "rwoken"
                                       ELSE IF op[p].i # 1 /\ op[q].pc = "wsleep" THEN "wwoken"
                                       ELSE op[q].pc
                          /\ op[q].pc \notin {"rsleep", "wsleep"} => w[q] = op[q]
  <2>1. CASE op[p].i = 1
    <3>1. w = WokenReaders BY <2>1
    <3> HIDE DEF w
    <3> QED BY <2>1, <3>1, WokenReadersOp DEF IInv
  <2>2. CASE op[p].i # 1
    <3>1. w = WokenWriters BY <2>2
    <3> HIDE DEF w
    <3> QED BY <2>2, <3>1, WokenWritersOp DEF IInv
  <2> QED BY <2>1, <2>2
<1>2. /\ o \in Op /\ (o.pc = "idle" => o = Idle)
      /\ o.pc = IF readopen' \/ writeopen' THEN "idle" ELSE "kfree"
  <2>1. CASE readopen' \/ writeopen' BY <2>1, IdleOp
  <2>2. CASE ~(readopen' \/ writeopen') BY <2>2 DEF Idle, Op, PCs
  <2> QED BY <2>1, <2>2
<1>3. op' = [w EXCEPT ![p] = o] BY DEF pipeclose
<1>4. /\ op[p].pc = "closing" /\ lock = NoProc
      /\ readopen' = (readopen /\ op[p].i = 1) /\ writeopen' = (writeopen /\ op[p].i = 0)
      /\ UNCHANGED <<data, nread, nwrite, lock, frees, ends, killed>>
  BY DEF pipeclose, ring
<1> HIDE DEF w, o
<1>5. op' \in [Procs -> Op] /\ op'[p] = o /\ \A q \in Procs \ {p} : op'[q] = w[q] BY <1>1, <1>2, <1>3
<1>6. /\ readopen' \in BOOLEAN /\ writeopen' \in BOOLEAN
      /\ \/ /\ op[p].i = 0 /\ readopen /\ ~readopen' /\ writeopen' = writeopen
            /\ \A q \in Procs : "r" \notin ends[q]
         \/ /\ op[p].i = 1 /\ writeopen /\ ~writeopen' /\ readopen' = readopen
            /\ \A q \in Procs : "w" \notin ends[q]
  <2>1. readopen \in BOOLEAN /\ writeopen \in BOOLEAN BY DEF IInv, Types
  <2>2. \/ op[p].i = 0 /\ readopen /\ \A q \in Procs : "r" \notin ends[q]
        \/ op[p].i = 1 /\ writeopen /\ \A q \in Procs : "w" \notin ends[q]
    BY <1>4 DEF IInv, Descriptors
  <2>3. CASE op[p].i = 0
    <3>1. ~(op[p].i = 1) BY <2>3
    <3> QED BY <1>4, <2>1, <2>2, <2>3, <3>1, Zenon
  <2>4. CASE op[p].i = 1
    <3>1. ~(op[p].i = 0) BY <2>4
    <3> QED BY <1>4, <2>1, <2>2, <2>4, <3>1, Zenon
  <2> QED BY <2>2, <2>3, <2>4
<1>7. Types' BY <1>4, <1>5, <1>6 DEF IInv, Types
<1>8. (Count <= PIPESIZE)' BY <1>4 DEF IInv, Count
<1>9. Descriptors'
  <2>1. ASSUME NEW q \in Procs, "r" \in ends[q] PROVE readopen' BY <1>6, <2>1 DEF IInv, Descriptors
  <2>2. ASSUME NEW q \in Procs, "w" \in ends[q] PROVE writeopen' BY <1>6, <2>2 DEF IInv, Descriptors
  <2>3. ASSUME NEW q \in Procs PROVE op'[q].pc \in Reading \/ op'[q].pc \in Writing \/ op'[q].pc = "closing" => q # p
    BY <1>2, <1>5 DEF Reading, Writing
  <2>4. ASSUME NEW q \in Procs, q # p
        PROVE  /\ op'[q].i = op[q].i /\ (op'[q].pc = "closing" => op[q].pc = "closing")
               /\ (op'[q].pc \in Reading => op[q].pc \in Reading) /\ (op'[q].pc \in Writing => op[q].pc \in Writing)
    BY <1>1, <1>5, <2>4 DEF Reading, Writing
  <2>5. ASSUME NEW q \in Procs, op'[q].pc = "closing"
        PROVE  \/ op'[q].i = 0 /\ readopen' /\ \A r \in Procs : "r" \notin ends[r]
               \/ op'[q].i = 1 /\ writeopen' /\ \A r \in Procs : "w" \notin ends[r]
    <3>1. q # p /\ op[q].pc = "closing" /\ op'[q].i = op[q].i BY <2>3, <2>4, <2>5
    <3>2. \/ op[q].i = 0 /\ readopen /\ \A r \in Procs : "r" \notin ends[r]
          \/ op[q].i = 1 /\ writeopen /\ \A r \in Procs : "w" \notin ends[r]
      BY <3>1 DEF IInv, Descriptors
    <3>3. op[q].i # op[p].i BY <1>4, <3>1 DEF IInv, Closers
    <3> QED BY <1>6, <3>1, <3>2, <3>3
  <2>6. ASSUME NEW q \in Procs PROVE /\ op'[q].pc \in Reading => "r" \in ends[q]
                                     /\ op'[q].pc \in Writing => "w" \in ends[q]
    BY <2>3, <2>4 DEF IInv, Descriptors
  <2> QED BY <1>4, <2>1, <2>2, <2>5, <2>6 DEF Descriptors
<1>10. Closers' BY <1>1, <1>2, <1>4, <1>5, <1>6 DEF IInv, Closers, Descriptors, Types
<1>11. Sleeping' BY <1>1, <1>2, <1>4, <1>5, <1>6, PipeAssumption DEF IInv, Sleeping, Locked, Empty, Full
<1> QED BY <1>7, <1>8, <1>9, <1>10, <1>11 DEF IInv

LEMMA PipeInit ==
  ASSUME Init
  PROVE  IInv
<1>1. Types BY PipeAssumption, IdleOp DEF Init, Types
<1>2. Count = 0 BY PipeAssumption, ModSmall DEF Init, Count
<1>3. Descriptors /\ Closers BY IdleOp DEF Init, Descriptors, Closers, Reading, Writing
<1>4. Sleeping BY IdleOp DEF Init, Sleeping, Locked
<1> QED BY <1>1, <1>2, <1>3, <1>4, PipeAssumption DEF IInv

LEMMA PipeStep ==
  ASSUME IInv, [Next]_vars
  PROVE  IInv'
<1>1. ASSUME NEW p \in Procs, Start(p) PROVE IInv' BY <1>1, CallStep, FilecloseStep DEF Start
<1>2. ASSUME NEW p \in Procs, Write(p) PROVE IInv'
  BY <1>2, LockStep, SleepStep, FailStep, FullStep, WriteDoneStep, WriteByteStep DEF Write
<1>3. ASSUME NEW p \in Procs, Read(p) PROVE IInv'
  BY <1>3, LockStep, SleepStep, ReadWaitStep, ReadByteStep, ReadDoneStep DEF Read
<1>4. ASSUME NEW p \in Procs, Close(p) PROVE IInv'
  BY <1>4, PipecloseStep, KfreeStep DEF Close
<1>5. CASE UNCHANGED vars
  BY <1>5 DEF vars, IInv, Types, Count, Descriptors, Closers, Sleeping, Empty, Full
<1> QED BY <1>1, <1>2, <1>3, <1>4, <1>5, KillStep DEF Next

\* The sizes, the descriptors, the closers and the sleepers of a pipe stay as IInv has them.
THEOREM PipeInvariant == Spec => []IInv
<1>1. Init => IInv BY PipeInit
<1>2. IInv /\ [Next]_vars => IInv' BY PipeStep
<1> QED BY <1>1, <1>2, PTL DEF Spec

\* When the lock is free, whoever sleeps in piperead or pipewrite has a cause to.
THEOREM SleepersWoken == Spec => []SleepersHaveCause
<1>1. IInv => SleepersHaveCause
  BY PipeAssumption DEF IInv, Sleeping, Locked, SleepersHaveCause
<1> QED BY <1>1, PipeInvariant, PTL

\* The page of a pipe is freed once, when no process can use it any more.
THEOREM PageFreedOnce == Spec => []FreedOnce
<1>1. ASSUME IInv, frees > 0, NEW p \in Procs
      PROVE  frees = 1 /\ op[p] = Idle /\ ends[p] = {}
  <2>1. frees = 1 /\ ~readopen /\ ~writeopen BY <1>1 DEF IInv, Closers
  <2>2. ends[p] = {} BY <1>1, <2>1 DEF IInv, Descriptors, Types
  <2>3. op[p].pc \notin Reading /\ op[p].pc \notin Writing /\ op[p].pc # "closing"
    BY <1>1, <2>1, <2>2 DEF IInv, Descriptors
  <2>4. op[p].pc # "kfree" BY <1>1, <2>1 DEF IInv, Closers
  <2>5. op[p].pc = "idle" BY <1>1, <2>3, <2>4 DEF IInv, Types, Op, PCs, Reading, Writing
  <2> QED BY <1>1, <2>1, <2>2, <2>5 DEF IInv, Closers
<1>2. IInv => FreedOnce
  <2>1. IInv /\ frees > 0 => frees = 1 BY DEF IInv, Closers
  <2> QED BY <1>1, <2>1 DEF FreedOnce
<1> QED BY <1>2, PipeInvariant, PTL

(***************************************************************************)
(* The refinement.                                                         *)
(***************************************************************************)

\* Contents as a sequence.
LEMMA ContentsSeq ==
  ASSUME Types, Count <= PIPESIZE
  PROVE  /\ Contents \in Seq(Bytes \cup {Junk}) /\ Len(Contents) = Count
         /\ \A j \in 1..Count : Contents[j] = data[(nread + j - 1) % PIPESIZE]
<1>1. Count \in Nat BY CountOne, PipeAssumption
<1>2. Contents = [j \in 1..Count |-> data[(nread + j - 1) % PIPESIZE]] BY DEF Contents, Count
<1>3. ASSUME NEW j \in 1..Count PROVE data[(nread + j - 1) % PIPESIZE] \in Bytes \cup {Junk}
  <2>1. nread + j - 1 \in Int BY <1>1 DEF Types
  <2>2. (nread + j - 1) % PIPESIZE \in 0..(PIPESIZE - 1) BY <2>1, ModRange, PipeAssumption
  <2> QED BY <2>2 DEF Types
<1> HIDE DEF Contents
<1> QED BY <1>1, <1>2, <1>3

\* The place of the byte after the last one is nwrite's, also when nwrite has wrapped,
\* because the size of the ring divides the range of the counters; the bytes before
\* it are elsewhere.
LEMMA Places ==
  ASSUME Types, Count <= PIPESIZE
  PROVE  /\ (nread + Count) % PIPESIZE = nwrite % PIPESIZE
         /\ Count < PIPESIZE => \A j \in 1..Count : (nread + j - 1) % PIPESIZE # nwrite % PIPESIZE
         /\ \A j \in Nat : (((nread + 1) % Wrap) + j) % PIPESIZE = (nread + 1 + j) % PIPESIZE
<1>1. /\ Wrap \in Nat \ {0} /\ PIPESIZE \in Nat \ {0} /\ Wrap > PIPESIZE /\ Wrap % PIPESIZE = 0
      /\ nread \in 0..(Wrap - 1) /\ nwrite \in 0..(Wrap - 1) /\ Count \in 0..PIPESIZE
  BY PipeAssumption, CountOne DEF Types
<1>2. Count = IF nwrite >= nread THEN nwrite - nread ELSE nwrite - nread + Wrap
  BY <1>1, Difference DEF Count
<1> HIDE DEF Count
<1>3. (nread + Count) % PIPESIZE = nwrite % PIPESIZE
  <2>1. nread + Count = nwrite \/ nread + Count = nwrite + Wrap BY <1>1, <1>2
  <2>2. nwrite \in Int /\ Wrap \in Int BY <1>1
  <2>3. (nwrite + Wrap) % PIPESIZE = nwrite % PIPESIZE BY <1>1, <2>2, ModAdd
  <2> QED BY <2>1, <2>3
<1>4. ASSUME Count < PIPESIZE, NEW j \in 1..Count
      PROVE  (nread + j - 1) % PIPESIZE # nwrite % PIPESIZE
  <2> DEFINE a == nread + j - 1
             d == Count - j + 1
  <2>1. a \in Int /\ d \in 1..(PIPESIZE - 1) /\ a + d = nread + Count BY <1>1, <1>4
  <2> HIDE DEF a, d
  <2>2. (a + d) % PIPESIZE # a % PIPESIZE BY <1>1, <2>1, ModApart
  <2> QED BY <1>3, <2>1, <2>2 DEF a
<1>5. ASSUME NEW j \in Nat
      PROVE  (((nread + 1) % Wrap) + j) % PIPESIZE = (nread + 1 + j) % PIPESIZE
  <2>1. CASE nread = Wrap - 1
    <3>1. (nread + 1) % Wrap = 0 /\ nread + 1 + j = j + Wrap BY <1>1, <2>1, Successor
    <3>2. j \in Int /\ Wrap \in Int BY <1>1
    <3>3. (j + Wrap) % PIPESIZE = j % PIPESIZE BY <1>1, <3>2, ModAdd
    <3> QED BY <3>1, <3>3
  <2>2. CASE nread # Wrap - 1
    <3>1. (nread + 1) % Wrap = nread + 1 BY <1>1, <2>2, Successor
    <3> QED BY <3>1
  <2> QED BY <2>1, <2>2
<1> QED BY <1>3, <1>4, <1>5

\* Sequences as functions.
LEMMA SeqFn ==
  ASSUME NEW S, NEW s \in Seq(S)
  PROVE  Len(s) \in Nat /\ s = [j \in 1..Len(s) |-> s[j]]
OBVIOUS

LEMMA AppendFn ==
  ASSUME NEW S, NEW s \in Seq(S), NEW e \in S
  PROVE  Append(s, e) = [j \in 1..(Len(s) + 1) |-> IF j = Len(s) + 1 THEN e ELSE s[j]]
<1> DEFINE t == Append(s, e)
<1>1. t \in Seq(S) /\ Len(t) = Len(s) + 1 /\ Len(s) \in Nat OBVIOUS
<1>2. \A j \in 1..Len(t) : t[j] = IF j = Len(s) + 1 THEN e ELSE s[j]
  <2>1. (\A j \in 1..Len(s) : t[j] = s[j]) /\ t[Len(s) + 1] = e OBVIOUS
  <2>2. \A j \in 1..Len(t) : j = Len(s) + 1 \/ j \in 1..Len(s) BY <1>1
  <2> QED BY <2>1, <2>2
<1> HIDE DEF t
<1>3. t = [j \in 1..(Len(s) + 1) |-> IF j = Len(s) + 1 THEN e ELSE s[j]] BY <1>1, <1>2, SeqFn
<1> QED BY <1>3 DEF t

LEMMA TailFn ==
  ASSUME NEW S, NEW s \in Seq(S), s # <<>>
  PROVE  Tail(s) = [j \in 1..(Len(s) - 1) |-> s[j + 1]]
<1> DEFINE t == Tail(s)
<1>1. t \in Seq(S) /\ Len(t) = Len(s) - 1 /\ \A j \in 1..(Len(s) - 1) : t[j] = s[j + 1] OBVIOUS
<1> HIDE DEF t
<1>2. t = [j \in 1..(Len(s) - 1) |-> s[j + 1]] BY <1>1, SeqFn
<1> QED BY <1>2 DEF t

\* pipewrite appends the byte, piperead takes the first.
LEMMA PutContents ==
  ASSUME IInv, NEW p \in Procs, NEW ch \in Bytes, pipewrite_byte(p, ch)
  PROVE  Contents' = Append(Contents, ch)
<1>1. /\ ~Full /\ nwrite' = (nwrite + 1) % Wrap /\ nread' = nread
      /\ data' = [data EXCEPT ![nwrite % PIPESIZE] = ch]
  BY DEF pipewrite_byte
<1>2. Types /\ Count <= PIPESIZE /\ PIPESIZE \in Nat \ {0} BY PipeAssumption DEF IInv
<1>3. Count' = Count + 1 /\ Count \in Nat /\ Count < PIPESIZE BY <1>1, <1>2, CountOne DEF Count
<1>4. Contents' = [j \in 1..(Count + 1) |-> data'[(nread + j - 1) % PIPESIZE]]
  BY <1>1, <1>3 DEF Contents, Count
<1>5. ASSUME NEW j \in 1..Count PROVE data'[(nread + j - 1) % PIPESIZE] = Contents[j]
  <2>1. (nread + j - 1) % PIPESIZE # nwrite % PIPESIZE BY <1>2, <1>3, Places
  <2>2. nread + j - 1 \in Int BY <1>3 DEF Types, IInv
  <2>3. (nread + j - 1) % PIPESIZE \in 0..(PIPESIZE - 1) BY <1>2, <2>2, ModRange
  <2>4. data'[(nread + j - 1) % PIPESIZE] = data[(nread + j - 1) % PIPESIZE]
    BY <1>1, <1>2, <2>1, <2>3 DEF Types
  <2> QED BY <1>2, <2>4, ContentsSeq
<1>6. data'[(nread + (Count + 1) - 1) % PIPESIZE] = ch
  <2>1. nread + (Count + 1) - 1 = nread + Count BY <1>2, <1>3 DEF Types
  <2>2. nwrite \in Int BY <1>2 DEF Types
  <2>3. nwrite % PIPESIZE \in 0..(PIPESIZE - 1) BY <1>2, <2>2, ModRange
  <2>4. data'[nwrite % PIPESIZE] = ch BY <1>1, <1>2, <2>3 DEF Types
  <2> QED BY <1>2, <2>1, <2>4, Places
<1>7. Contents \in Seq(Bytes \cup {Junk}) /\ Len(Contents) = Count BY <1>2, ContentsSeq
<1> HIDE DEF Contents, Count
<1>8. Append(Contents, ch) = [j \in 1..(Count + 1) |-> IF j = Count + 1 THEN ch ELSE Contents[j]]
  BY <1>7, AppendFn
<1> QED BY <1>3, <1>4, <1>5, <1>6, <1>8

LEMMA TakeContents ==
  ASSUME IInv, NEW p \in Procs, piperead_byte(p)
  PROVE  Contents' = Tail(Contents) /\ Contents # <<>>
<1>1. ~Empty /\ nread' = (nread + 1) % Wrap /\ nwrite' = nwrite /\ data' = data
  BY DEF piperead_byte
<1>2. Types /\ Count <= PIPESIZE /\ PIPESIZE \in Nat \ {0} BY PipeAssumption DEF IInv
<1>3. Count' = Count - 1 /\ Count \in Nat \ {0} BY <1>1, <1>2, CountOne DEF Count
<1>4. Contents' = [j \in 1..(Count - 1) |-> data[(nread' + j - 1) % PIPESIZE]]
  BY <1>1, <1>3 DEF Contents, Count
<1>5. ASSUME NEW j \in 1..(Count - 1) PROVE data[(nread' + j - 1) % PIPESIZE] = Contents[j + 1]
  <2> DEFINE i == j - 1
  <2>1. i \in Nat /\ j + 1 \in 1..Count /\ nread \in Int /\ nread' \in Int
    BY <1>1, <1>2, <1>3, CountOne DEF Types
  <2>2. nread' + j - 1 = nread' + i /\ nread + (j + 1) - 1 = nread + 1 + i BY <2>1
  <2> HIDE DEF i
  <2>3. (nread' + i) % PIPESIZE = (nread + 1 + i) % PIPESIZE BY <1>1, <1>2, <2>1, Places
  <2>4. Contents[j + 1] = data[(nread + (j + 1) - 1) % PIPESIZE] BY <1>2, <2>1, ContentsSeq
  <2> QED BY <2>2, <2>3, <2>4
<1>6. Contents \in Seq(Bytes \cup {Junk}) /\ Len(Contents) = Count BY <1>2, ContentsSeq
<1> HIDE DEF Contents, Count
<1>7. Contents # <<>> BY <1>3, <1>6
<1>8. Tail(Contents) = [j \in 1..(Count - 1) |-> Contents[j + 1]] BY <1>6, <1>7, TailFn
<1> QED BY <1>4, <1>5, <1>7, <1>8

\* A step that changes neither ring nor ends is a stutter of the queue.
LEMMA Stutter ==
  ASSUME UNCHANGED <<data, nread, nwrite, readopen, writeopen>>
  PROVE  UNCHANGED F!vars
BY DEF F!vars, Contents

LEMMA FifoStep ==
  ASSUME IInv, [Next]_vars
  PROVE  [F!Next]_(F!vars)
<1>1. ASSUME NEW p \in Procs, NEW ch \in Bytes, pipewrite_byte(p, ch) PROVE F!Put(ch)
  <2>1. readopen /\ writeopen /\ UNCHANGED <<readopen, writeopen>>
    BY <1>1 DEF pipewrite_byte, open, IInv, Descriptors, Writing
  <2>2. Len(Contents) < PIPESIZE
    BY <1>1, CountOne, ContentsSeq, PipeAssumption DEF pipewrite_byte, IInv
  <2> QED BY <1>1, <2>1, <2>2, PutContents DEF F!Put
<1>2. ASSUME NEW p \in Procs, piperead_byte(p) PROVE F!Take
  <2>1. readopen /\ UNCHANGED <<readopen, writeopen>>
    BY <1>2 DEF piperead_byte, open, IInv, Descriptors, Reading
  <2> QED BY <1>2, <2>1, TakeContents DEF F!Take
<1>3. ASSUME NEW p \in Procs, pipeclose(p) PROVE F!CloseRead \/ F!CloseWrite
  <2>1. /\ readopen' = (readopen /\ op[p].i = 1) /\ writeopen' = (writeopen /\ op[p].i = 0)
        /\ op[p].pc = "closing" /\ UNCHANGED <<data, nread, nwrite>>
    BY <1>3 DEF pipeclose, ring
  <2>2. Contents' = Contents BY <2>1 DEF Contents
  <2>3. /\ readopen \in BOOLEAN /\ writeopen \in BOOLEAN
        /\ \/ op[p].i = 0 /\ readopen
           \/ op[p].i = 1 /\ writeopen
    BY <2>1 DEF IInv, Types, Descriptors
  <2>4. CASE op[p].i = 0
    <3>1. ~(op[p].i = 1) BY <2>4
    <3>2. readopen /\ readopen' = FALSE /\ writeopen' = writeopen BY <2>1, <2>3, <2>4, <3>1, Zenon
    <3> QED BY <2>2, <3>2 DEF F!CloseRead
  <2>5. CASE op[p].i = 1
    <3>1. ~(op[p].i = 0) BY <2>5
    <3>2. writeopen /\ writeopen' = FALSE /\ readopen' = readopen BY <2>1, <2>3, <2>5, <3>1, Zenon
    <3> QED BY <2>2, <3>2 DEF F!CloseWrite
  <2> QED BY <2>3, <2>4, <2>5
<1>4. ASSUME NEW p \in Procs, Start(p) PROVE UNCHANGED F!vars
  BY <1>4, Stutter DEF Start, Call, fileclose, ring, open
<1>5. ASSUME NEW p \in Procs, Write(p) PROVE [F!Next]_(F!vars)
  <2>1. CASE \E ch \in Bytes : pipewrite_byte(p, ch) BY <1>1, <2>1 DEF F!Next
  <2>2. CASE ~\E ch \in Bytes : pipewrite_byte(p, ch)
    BY <1>5, <2>2, Stutter DEF Write, Lock, Sleep, pipewrite_fail, pipewrite_full, pipewrite_done, ring, open
  <2> QED BY <2>1, <2>2
<1>6. ASSUME NEW p \in Procs, Read(p) PROVE [F!Next]_(F!vars)
  <2>1. CASE piperead_byte(p) BY <1>2, <2>1 DEF F!Next
  <2>2. CASE ~piperead_byte(p)
    BY <1>6, <2>2, Stutter DEF Read, Lock, Sleep, piperead_wait, piperead_done, ring, open
  <2> QED BY <2>1, <2>2
<1>7. ASSUME NEW p \in Procs, Close(p) PROVE [F!Next]_(F!vars)
  <2>1. CASE pipeclose(p) BY <1>3, <2>1 DEF F!Next
  <2>2. CASE pipeclose_kfree(p) BY <2>2, Stutter DEF pipeclose_kfree, ring, open
  <2> QED BY <1>7, <2>1, <2>2 DEF Close
<1>8. ASSUME NEW p \in Procs, kill(p) PROVE UNCHANGED F!vars BY <1>8, Stutter DEF kill, ring, open
<1>9. CASE UNCHANGED vars BY <1>9, Stutter DEF vars
<1> QED BY <1>4, <1>5, <1>6, <1>7, <1>8, <1>9 DEF Next

\* pipe.c implements the bounded queue of bytes of module Fifo.
THEOREM PipeImplementsFifo == Spec => PipeIsFifo
<1>1. Init => F!Init
  <2>1. ASSUME Init PROVE Contents = <<>> /\ readopen = TRUE /\ writeopen = TRUE
    <3>1. Count = 0 BY <2>1, PipeAssumption, ModSmall DEF Init, Count
    <3>2. Types /\ Count <= PIPESIZE BY <2>1, PipeInit DEF IInv
    <3>3. Contents \in Seq(Bytes \cup {Junk}) /\ Len(Contents) = 0 BY <3>1, <3>2, ContentsSeq
    <3> HIDE DEF Contents
    <3> QED BY <2>1, <3>3 DEF Init
  <2> QED BY <2>1 DEF F!Init
<1>2. IInv /\ [Next]_vars => [F!Next]_(F!vars) BY FifoStep
<1> QED BY <1>1, <1>2, PipeInvariant, PTL DEF Spec, PipeIsFifo, F!Spec
====
