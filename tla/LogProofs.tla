---------------------------- MODULE LogProofs ----------------------------
(***************************************************************************)
(* The inductive invariant of the redo log of module Log, the proof that   *)
(* every step of log.c, of the calls that use it and of the hardware       *)
(* preserves it, and the theorems that follow, for every number of         *)
(* processes, blocks and log blocks.                                       *)
(***************************************************************************)
EXTENDS Log, FiniteSetTheorems, TLAPS

\* The prover of a leaf that names none.
USE ZenonT(20)

-----------------------------------------------------------------------------
(* The inductive invariant.                                                *)

HoldPCs == {"held", "dirty", "logged", "read", "panic"}

\* The calls begin_op has counted; one that panicked is never counted out.
InCall == {p \in Procs : proc[p].pc \in OpPCs \cup {"panic"}}

\* log.outstanding counts the calls between begin_op and end_op.
Counted == IsFiniteSet(InCall) /\ outstanding = Cardinality(InCall)

\* At most one process is in commit(), it has set log.committing, and no call
\* is then active.
OneCommitter ==
  /\ committing => outstanding = 0
  /\ \A p, q \in Procs : proc[p].pc \in CommitPCs =>
       committing /\ boot = "up" /\ (proc[q].pc \in CommitPCs => q = p)

\* A block is in the header once.
Once(s) == \A i, j \in 1..Len(s) : s[i] = s[j] => i = j

\* While initlog runs there are no processes, no locks and no pins, and the
\* cache agrees with the disk.
Recovering ==
  boot # "up" =>
    /\ \A p \in Procs : proc[p].pc = "idle"
    /\ outstanding = 0 /\ ~committing
    /\ boot = "read_head" => lh = <<>> /\ tail = 1
    /\ boot # "read_head" => lh = dhead
    /\ boot = "install" =>
         tail <= Len(lh) + 1 /\ \A i \in 1..(tail - 1) : disk[lh[i]] = dlog[i]
    /\ boot = "clear" => \A i \in 1..Len(lh) : disk[lh[i]] = dlog[i]
    /\ \A b \in Blocks : /\ bcache[b].data \in {NoBuf, disk[b]}
                         /\ bcache[b].lock = NoProc
                         /\ bcache[b].refcnt = 0

\* A process that has got a buffer holds its lock.
Held == \A p \in Procs : proc[p].pc \in HoldPCs =>
          /\ proc[p].buf \in Blocks
          /\ bcache[proc[p].buf].lock = p

\* What commit() has done by each of its steps.
Committed ==
  boot = "up" =>
    /\ (\A p \in Procs : proc[p].pc \notin {"install", "clear"}) => dhead = <<>>
    /\ ~committing /\ outstanding = 0 => lh = <<>>
    /\ \A p \in Procs :
         /\ proc[p].pc = "write_log" =>
              /\ tail <= Len(lh) + 1
              /\ \A i \in 1..(tail - 1) : dlog[i] = Contents(lh[i])
         /\ proc[p].pc = "write_head" => \A i \in 1..Len(lh) : dlog[i] = Contents(lh[i])
         /\ proc[p].pc = "install" =>
              /\ tail <= Len(lh) + 1 /\ dhead = lh
              /\ \A i \in 1..Len(lh) : dlog[i] = Contents(lh[i])
              /\ \A i \in 1..(tail - 1) : disk[lh[i]] = dlog[i]
         /\ proc[p].pc = "clear" =>
              /\ dhead = lh
              /\ \A i \in 1..Len(lh) : dlog[i] = Contents(lh[i]) /\ disk[lh[i]] = dlog[i]
         /\ proc[p].pc = "done" => lh = <<>>

\* The blocks whose new contents are not yet at home.
Pending == {lh[i] : i \in (Installed + 1)..Len(lh)}

\* A cached block that differs from the disk is in the log's transaction, or
\* the call that changed it has yet to pass it to log_write.
Clean == boot = "up" =>
  \A b \in Blocks : \/ bcache[b].data \in {NoBuf, disk[b]}
                    \/ b \in Pending
                    \/ \E p \in Procs : proc[p].pc \in {"dirty", "panic"} /\ proc[p].buf = b

\* log_write pins a block once, install_trans gives the pin back.
Pinned == boot = "up" =>
  \A b \in Blocks : /\ b \in Pending => bcache[b].refcnt = 1
                    /\ b \notin Pending => bcache[b].refcnt = 0

IInv == /\ TypeOK /\ Counted /\ OneCommitter /\ Once(lh) /\ Once(dhead)
        /\ Recovering /\ Held /\ Committed /\ Clean /\ Pinned

-----------------------------------------------------------------------------
(* What the updates of proc and the counting of calls amount to.           *)

ProcRec == [pc : PCs, buf : Blocks \cup {NoBlock}, wrote : SUBSET Blocks, left : 0..OpReads]
CacheRec == [data : Values \cup {NoBuf}, lock : Procs \cup {NoProc}, refcnt : Nat]

\* Goto changes where p is and nothing else.
LEMMA GotoProc ==
  ASSUME proc \in [Procs -> ProcRec], NEW p \in Procs, NEW l \in PCs, Goto(p, l)
  PROVE  /\ proc' \in [Procs -> ProcRec]
         /\ \A q \in Procs : /\ proc'[q].pc = IF q = p THEN l ELSE proc[q].pc
                             /\ proc'[q].buf = proc[q].buf
                             /\ proc'[q].wrote = proc[q].wrote
BY DEF Goto, ProcRec

\* A write to a buffer changes its data and nothing else.
LEMMA CacheData ==
  ASSUME bcache \in [Blocks -> CacheRec], NEW b \in Blocks, NEW v \in Values \cup {NoBuf},
         bcache' = [bcache EXCEPT ![b].data = v]
  PROVE  /\ bcache' \in [Blocks -> CacheRec]
         /\ \A c \in Blocks : /\ bcache'[c].data = IF c = b THEN v ELSE bcache[c].data
                              /\ bcache'[c].lock = bcache[c].lock
                              /\ bcache'[c].refcnt = bcache[c].refcnt
BY DEF CacheRec

\* wakeup(&log) makes the sleepers of begin_op try again.
LEMMA WakeupProc ==
  ASSUME proc \in [Procs -> ProcRec], NEW p \in Procs, NEW l \in PCs, WakeupAndGoto(p, l)
  PROVE  /\ proc' \in [Procs -> ProcRec]
         /\ \A q \in Procs : /\ proc'[q].pc = IF q = p THEN l
                                              ELSE IF proc[q].pc = "sleep" THEN "begin"
                                              ELSE proc[q].pc
                             /\ proc'[q].buf = proc[q].buf
                             /\ proc'[q].wrote = proc[q].wrote
BY SMTT(30) DEF WakeupAndGoto, ProcRec, PCs

\* begin_op counts a call, end_op counts it out.
LEMMA CountIn ==
  ASSUME Counted, NEW p \in Procs, InCall' = InCall \cup {p}, p \notin InCall,
         outstanding' = outstanding + 1
  PROVE  Counted'
BY FS_AddElement DEF Counted

LEMMA CountOut ==
  ASSUME Counted, NEW p \in Procs, InCall' = InCall \ {p}, p \in InCall,
         outstanding' = outstanding - 1
  PROVE  Counted' /\ outstanding >= 1
<1>1. Counted'
  BY FS_RemoveElement DEF Counted
<1>2. Cardinality(InCall) \in Nat /\ Cardinality(InCall) # 0
  BY FS_CardinalityType, FS_EmptySet DEF Counted
<1> QED
  BY <1>1, <1>2, SMTT(30) DEF Counted

LEMMA CountSame ==
  ASSUME Counted, InCall' = InCall, outstanding' = outstanding
  PROVE  Counted'
BY DEF Counted

\* A call that is active is counted.
LEMMA ActiveCounted ==
  ASSUME Counted, NEW p \in InCall
  PROVE  outstanding >= 1 /\ outstanding \in Nat
BY FS_CardinalityType, FS_EmptySet, SMTT(30) DEF Counted

-----------------------------------------------------------------------------
(* Every action preserves the inductive invariant.                         *)

LEMMA InitInv == Init => IInv
<1> SUFFICES ASSUME Init PROVE IInv
  OBVIOUS
<1> USE LogAssumption DEF LogAssumption
<1>1. TypeOK
  <2>1. "idle" \in PCs
    BY DEF PCs
  <2>2. proc \in [Procs -> ProcRec]
    BY <2>1, SMTT(30) DEF Init, IdleProcs, ProcRec
  <2>3. bcache \in [Blocks -> [data : Values \cup {NoBuf}, lock : Procs \cup {NoProc}, refcnt : Nat]]
    BY DEF Init, EmptyCache
  <2>4. dlog \in [1..LOGSIZE -> Values] /\ disk \in [Blocks -> Values]
    BY DEF Init
  <2>5. /\ lh \in Seq(Blocks) /\ Len(lh) <= LOGSIZE
        /\ dhead \in Seq(Blocks) /\ Len(dhead) <= LOGSIZE
    BY SMTT(30) DEF Init
  <2>6. tail \in 1..(LOGSIZE + 1) /\ reads \in 0..IdleReads /\ outstanding \in Nat
    BY SMTT(30) DEF Init
  <2>7. committing \in BOOLEAN /\ boot \in {"up", "read_head", "install", "clear"}
    BY DEF Init
  <2> QED
    BY <2>2, <2>3, <2>4, <2>5, <2>6, <2>7 DEF TypeOK, ProcRec
<1>2. InCall = {}
  BY DEF Init, InCall, IdleProcs, OpPCs
<1>3. Counted
  BY <1>2, FS_EmptySet DEF Init, Counted
<1> QED
  BY <1>1, <1>3, SMTT(30) DEF Init, IInv, OneCommitter, Once, Recovering, Held, Committed, Clean,
     Pinned, IdleProcs, EmptyCache, CommitPCs, HoldPCs

\* Outside install_trans and after it nothing of the transaction is at home.
LEMMA NothingInstalled ==
  ASSUME \A q \in Procs : proc[q].pc \notin {"install", "clear"},
         \A q \in Procs : proc'[q].pc \notin {"install", "clear"}, lh' = lh
  PROVE  Installed = 0 /\ Installed' = 0 /\ Pending' = Pending
<1>1. Installed = 0 /\ Installed' = 0
  BY DEF Installed
<1> QED
  BY <1>1 DEF Pending

\* The blocks do not matter to a step that leaves the cache, the disk and the
\* transaction alone.
LEMMA KeepClean ==
  ASSUME Clean, Pinned, Pending' = Pending, UNCHANGED <<bcache, disk, boot>>,
         \A q \in Procs : proc[q].pc \in {"dirty", "panic"} =>
           proc'[q].pc = proc[q].pc /\ proc'[q].buf = proc[q].buf
  PROVE  Clean' /\ Pinned'
<1>1. Clean'
  BY SMTT(30) DEF Clean
<1>2. Pinned'
  BY DEF Pinned
<1> QED
  BY <1>1, <1>2

LEMMA BeginInv ==
  ASSUME IInv, NEW p \in Procs, begin_op(p)
  PROVE  IInv'
<1> USE LogAssumption DEF LogAssumption, IInv
<1>1. /\ boot = "up" /\ proc[p].pc \in {"idle", "begin"} /\ proc[p].pc # "panic"
      /\ UNCHANGED <<disk, dhead, dlog, bcache, lh, committing, tail, reads, boot>>
  BY DEF begin_op, At, onDisk
<1>2. proc \in [Procs -> ProcRec]
  BY DEF TypeOK, ProcRec
<1>3. CASE committing \/ ~Fits
  <2>1. Goto(p, "sleep") /\ outstanding' = outstanding
    BY <1>3 DEF begin_op
  <2>2. /\ proc' \in [Procs -> ProcRec]
        /\ \A q \in Procs : /\ proc'[q].pc = IF q = p THEN "sleep" ELSE proc[q].pc
                            /\ proc'[q].buf = proc[q].buf
    BY <1>2, <2>1, GotoProc DEF PCs
  <2>3. TypeOK'
    BY <1>1, <2>1, <2>2 DEF TypeOK, ProcRec
  <2>4. Counted'
    <3>1. InCall' = InCall
      BY <1>1, <2>2 DEF InCall, OpPCs
    <3> QED
      BY <2>1, <3>1, CountSame
  <2>5. OneCommitter'
    BY <1>1, <2>1, <2>2 DEF OneCommitter, CommitPCs
  <2>6. Installed' = Installed /\ Pending' = Pending
    BY <1>1, <2>2, SMTT(30) DEF Installed, Pending
  <2>7. Recovering' /\ Held'
    BY <1>1, <2>2 DEF Recovering, Held, HoldPCs
  <2>8. Committed'
    BY <1>1, <2>1, <2>2, SMTT(30) DEF Committed, Contents
  <2>9. Clean' /\ Pinned'
    BY <1>1, <2>2, <2>6, SMTT(30) DEF Clean, Pinned
  <2> QED
    BY <1>1, <2>3, <2>4, <2>5, <2>7, <2>8, <2>9 DEF Once
<1>4. CASE ~(committing \/ ~Fits)
  <2>1. /\ outstanding' = outstanding + 1
        /\ proc' = [proc EXCEPT ![p].pc = "op", ![p].wrote = {}, ![p].left = OpReads]
    BY <1>4 DEF begin_op
  <2>2. /\ proc' \in [Procs -> ProcRec]
        /\ \A q \in Procs : /\ proc'[q].pc = IF q = p THEN "op" ELSE proc[q].pc
                            /\ proc'[q].buf = proc[q].buf
    <3>1. "op" \in PCs /\ {} \in SUBSET Blocks /\ OpReads \in 0..OpReads
      BY SMTT(30) DEF PCs, OpPCs
    <3> QED
      BY <1>2, <2>1, <3>1, ZenonT(60) DEF ProcRec
  <2>0. outstanding \in Nat /\ outstanding' \in Nat /\ outstanding' # 0
    <3>1. outstanding \in Nat
      BY DEF TypeOK
    <3> QED
      BY <2>1, <3>1, SMTT(30)
  <2>3. TypeOK'
    BY <1>1, <2>0, <2>2 DEF TypeOK, ProcRec
  <2>4. Counted'
    <3>1. InCall' = InCall \cup {p} /\ p \notin InCall
      BY <1>1, <2>2 DEF InCall, OpPCs
    <3> QED
      BY <2>1, <3>1, CountIn
  <2>5. OneCommitter'
    BY <1>1, <1>4, <2>1, <2>2, SMTT(30) DEF OneCommitter, CommitPCs
  <2>6. Installed' = Installed /\ Pending' = Pending
    BY <1>1, <2>2, SMTT(30) DEF Installed, Pending
  <2>7. Recovering' /\ Held'
    BY <1>1, <2>2 DEF Recovering, Held, HoldPCs
  <2>8. Committed'
    BY <1>1, <2>0, <2>2, SMTT(30) DEF Committed, Contents
  <2>9. Clean' /\ Pinned'
    BY <1>1, <2>2, <2>6, SMTT(30) DEF Clean, Pinned
  <2> QED
    BY <1>1, <2>3, <2>4, <2>5, <2>7, <2>8, <2>9 DEF Once
<1> QED
  BY <1>3, <1>4

\* A step that changes neither the log nor what a read returns undoes nothing
\* of a commit.
LEMMA KeepCommitted ==
  ASSUME TypeOK, Committed,
         UNCHANGED <<disk, dhead, dlog, lh, outstanding, committing, tail, boot>>,
         \A c \in Blocks : Contents(c)' = Contents(c),
         \A q \in Procs : proc'[q].pc \in CommitPCs \/ proc[q].pc \in CommitPCs =>
                            proc'[q].pc = proc[q].pc
  PROVE  Committed'
<1>1. \A i \in 1..Len(lh) : lh[i] \in Blocks /\ Contents(lh[i])' = Contents(lh[i])
  BY SMTT(30) DEF TypeOK, Contents
<1>2. Len(lh) \in Nat /\ tail \in Nat
  BY LogAssumption, SMTT(30) DEF LogAssumption, TypeOK
<1>3. \A i \in Nat : tail <= Len(lh) + 1 /\ i \in 1..(tail - 1) => i \in 1..Len(lh)
  BY <1>2, SMTT(30)
<1> QED
  BY <1>1, <1>3, SMTT(30) DEF Committed, Contents, CommitPCs

LEMMA BreadInv ==
  ASSUME IInv, NEW p \in Procs, NEW b \in Blocks, bread(p, b)
  PROVE  IInv'
<1> USE LogAssumption DEF LogAssumption, IInv
<1>1. /\ boot = "up" /\ bcache[b].lock = NoProc
      /\ UNCHANGED <<disk, dhead, dlog, lh, outstanding, committing, tail, boot>>
  BY DEF bread, At, onDisk, inLog
<1>2. proc \in [Procs -> ProcRec] /\ bcache \in [Blocks -> CacheRec]
  BY DEF TypeOK, ProcRec, CacheRec
<1>3. Contents(b) \in Values
  BY <1>2 DEF Contents, TypeOK, CacheRec
<1>4. /\ bcache' \in [Blocks -> CacheRec]
      /\ \A c \in Blocks : /\ bcache'[c].data = IF c = b THEN Contents(b) ELSE bcache[c].data
                           /\ bcache'[c].lock = IF c = b THEN p ELSE bcache[c].lock
                           /\ bcache'[c].refcnt = bcache[c].refcnt
  <2>1. bcache' = [bcache EXCEPT ![b].lock = p, ![b].data = Contents(b)]
    BY DEF bread
  <2> QED
    BY <1>2, <1>3, <2>1 DEF CacheRec
<1>5. \A c \in Blocks : Contents(c)' = Contents(c)
  BY <1>1, <1>3, <1>4 DEF Contents
<1>6. \/ /\ proc[p].pc = "op" /\ proc[p].left > 0 /\ reads' = reads
         /\ proc' = [proc EXCEPT ![p].pc = "held", ![p].buf = b, ![p].left = @ - 1]
      \/ /\ proc[p].pc = "idle" /\ reads < IdleReads /\ reads' = reads + 1
         /\ proc' = [proc EXCEPT ![p].pc = "read", ![p].buf = b]
  BY DEF bread, At
<1>7. /\ proc' \in [Procs -> ProcRec] /\ reads' \in 0..IdleReads
      /\ \A q \in Procs \ {p} : proc'[q] = proc[q]
      /\ proc'[p].buf = b /\ proc'[p].wrote = proc[p].wrote
      /\ \/ proc[p].pc = "op" /\ proc'[p].pc = "held"
         \/ proc[p].pc = "idle" /\ proc'[p].pc = "read"
  <2>1. "held" \in PCs /\ "read" \in PCs /\ reads \in 0..IdleReads
    BY DEF PCs, OpPCs, TypeOK
  <2>2. proc[p].left > 0 => proc[p].left - 1 \in 0..OpReads
    BY <1>2, SMTT(30) DEF ProcRec
  <2>3. reads < IdleReads => reads + 1 \in 0..IdleReads
    BY <2>1, SMTT(30)
  <2> QED
    BY <1>2, <1>6, <2>1, <2>2, <2>3, SMTT(30) DEF ProcRec
<1>8. TypeOK'
  BY <1>1, <1>4, <1>7 DEF TypeOK, ProcRec, CacheRec
<1>9. Counted'
  <2>1. InCall' = InCall
    BY <1>7 DEF InCall, OpPCs
  <2> QED
    BY <1>1, <2>1, CountSame
<1>10. OneCommitter'
  BY <1>1, <1>7 DEF OneCommitter, CommitPCs
<1>11. Installed' = Installed /\ Pending' = Pending
  BY <1>1, <1>7, SMTT(30) DEF Installed, Pending
<1>12. Recovering' /\ Held'
  BY <1>1, <1>4, <1>7, SMTT(30) DEF Recovering, Held, HoldPCs
<1>13. Committed'
  <2>1. \A q \in Procs : proc'[q].pc \in CommitPCs \/ proc[q].pc \in CommitPCs => proc'[q].pc = proc[q].pc
    BY <1>7 DEF CommitPCs
  <2> QED
    BY <1>1, <1>5, <2>1, KeepCommitted
<1>14. Clean' /\ Pinned'
  BY <1>1, <1>4, <1>7, <1>11, SMTT(30) DEF Clean, Pinned, Contents
<1> QED
  BY <1>1, <1>8, <1>9, <1>10, <1>12, <1>13, <1>14 DEF Once

LEMMA ModifyInv ==
  ASSUME IInv, NEW p \in Procs, NEW v \in Values, modify(p, v)
  PROVE  IInv'
<1> USE LogAssumption DEF LogAssumption, IInv
<1> DEFINE b == proc[p].buf
<1>1. /\ boot = "up" /\ proc[p].pc = "held" /\ b \in Blocks /\ bcache[b].lock = p
      /\ UNCHANGED <<disk, dhead, dlog, lh, outstanding, committing, tail, reads, boot>>
  BY DEF modify, At, onDisk, inLog, Held, HoldPCs
<1>2. proc \in [Procs -> ProcRec] /\ bcache \in [Blocks -> CacheRec]
  BY DEF TypeOK, ProcRec, CacheRec
<1>3. /\ bcache' = [bcache EXCEPT ![b].data = v]
      /\ proc' = [proc EXCEPT ![p].pc = "dirty", ![p].wrote = proc[p].wrote \cup {b}]
  BY DEF modify
<1>4. /\ bcache' \in [Blocks -> CacheRec]
      /\ \A c \in Blocks : /\ bcache'[c].data = IF c = b THEN v ELSE bcache[c].data
                           /\ bcache'[c].lock = bcache[c].lock
                           /\ bcache'[c].refcnt = bcache[c].refcnt
  BY <1>1, <1>2, <1>3, SMTT(30) DEF CacheRec
<1>5. /\ proc' \in [Procs -> ProcRec]
      /\ \A q \in Procs \ {p} : proc'[q] = proc[q]
      /\ proc'[p].buf = b /\ proc'[p].wrote = proc[p].wrote \cup {b}
      /\ proc'[p].pc = "dirty"
  <2>1. "dirty" \in PCs /\ proc[p].wrote \cup {b} \in SUBSET Blocks
    BY <1>1, <1>2 DEF PCs, OpPCs, ProcRec
  <2> QED
    BY <1>2, <1>3, <2>1 DEF ProcRec
<1>6. TypeOK'
  BY <1>1, <1>4, <1>5 DEF TypeOK, ProcRec, CacheRec
<1>7. Counted'
  <2>1. InCall' = InCall
    BY <1>1, <1>5 DEF InCall, OpPCs
  <2> QED
    BY <1>1, <2>1, CountSame
<1>8. ~committing
  <2>1. p \in InCall
    BY <1>1 DEF InCall, OpPCs
  <2> QED
    BY <2>1, ActiveCounted, SMTT(30) DEF OneCommitter
<1>9. OneCommitter' /\ \A q \in Procs : proc[q].pc \notin CommitPCs /\ proc'[q].pc \notin CommitPCs
  BY <1>1, <1>5, <1>8 DEF OneCommitter, CommitPCs
<1>10. Installed' = Installed /\ Pending' = Pending
  BY <1>1, <1>5, SMTT(30) DEF Installed, Pending
<1>11. Recovering' /\ Held'
  BY <1>1, <1>4, <1>5, SMTT(30) DEF Recovering, Held, HoldPCs
<1>12. Committed'
  BY <1>1, <1>5, <1>9 DEF Committed, CommitPCs
<1>13. Clean' /\ Pinned'
  BY <1>1, <1>4, <1>5, <1>10, SMTT(30) DEF Clean, Pinned
<1> QED
  BY <1>1, <1>6, <1>7, <1>9, <1>11, <1>12, <1>13 DEF Once

LEMMA BrelseInv ==
  ASSUME IInv, NEW p \in Procs, brelse(p)
  PROVE  IInv'
<1> USE LogAssumption DEF LogAssumption, IInv
<1> DEFINE b == proc[p].buf
<1>1. /\ boot = "up" /\ proc[p].pc \in {"held", "logged", "read"}
      /\ b \in Blocks /\ bcache[b].lock = p
      /\ UNCHANGED <<disk, dhead, dlog, lh, outstanding, committing, tail, reads, boot>>
  BY DEF brelse, At, onDisk, inLog, Held, HoldPCs
<1>2. proc \in [Procs -> ProcRec] /\ bcache \in [Blocks -> CacheRec]
  BY DEF TypeOK, ProcRec, CacheRec
<1>3. /\ bcache' = [bcache EXCEPT ![b].lock = NoProc]
      /\ proc' = [proc EXCEPT ![p].buf = NoBlock,
                              ![p].pc = IF @ = "read" THEN "idle" ELSE "op"]
  BY DEF brelse
<1>4. /\ bcache' \in [Blocks -> CacheRec]
      /\ \A c \in Blocks : /\ bcache'[c].data = bcache[c].data
                           /\ bcache'[c].lock = IF c = b THEN NoProc ELSE bcache[c].lock
                           /\ bcache'[c].refcnt = bcache[c].refcnt
  BY <1>1, <1>2, <1>3, SMTT(30) DEF CacheRec
<1>5. /\ proc' \in [Procs -> ProcRec]
      /\ \A q \in Procs \ {p} : proc'[q] = proc[q]
      /\ proc'[p].pc = IF proc[p].pc = "read" THEN "idle" ELSE "op"
      /\ proc'[p].wrote = proc[p].wrote
  <2>1. "idle" \in PCs /\ "op" \in PCs
    BY DEF PCs, OpPCs
  <2> QED
    BY <1>2, <1>3, <2>1, ZenonT(60) DEF ProcRec
<1>6. TypeOK'
  BY <1>1, <1>4, <1>5 DEF TypeOK, ProcRec, CacheRec
<1>7. Counted'
  <2>1. InCall' = InCall
    BY <1>1, <1>5 DEF InCall, OpPCs
  <2> QED
    BY <1>1, <2>1, CountSame
<1>8. OneCommitter'
  BY <1>1, <1>5, SMTT(30) DEF OneCommitter, CommitPCs
<1>9. Installed' = Installed /\ Pending' = Pending
  BY <1>1, <1>5, SMTT(30) DEF Installed, Pending
<1>10. Recovering' /\ Held'
  BY <1>1, <1>4, <1>5, SMTT(30) DEF Recovering, Held, HoldPCs
<1>11. Committed'
  <2>1. \A q \in Procs : proc'[q].pc \in CommitPCs \/ proc[q].pc \in CommitPCs => proc'[q].pc = proc[q].pc
    BY <1>1, <1>5 DEF CommitPCs
  <2>2. \A c \in Blocks : Contents(c)' = Contents(c)
    BY <1>1, <1>4 DEF Contents
  <2> QED
    BY <1>1, <2>1, <2>2, KeepCommitted
<1>12. Clean' /\ Pinned'
  BY <1>1, <1>4, <1>5, <1>9, SMTT(30) DEF Clean, Pinned
<1> QED
  BY <1>1, <1>6, <1>7, <1>8, <1>10, <1>11, <1>12 DEF Once

\* The blocks waiting to be installed are blocks of the header.
LEMMA PendingInLog ==
  ASSUME TypeOK
  PROVE  /\ Len(lh) \in Nat /\ Installed \in Nat
         /\ Pending \subseteq {lh[i] : i \in 1..Len(lh)}
         /\ \A i \in 1..Len(lh) : lh[i] \in Blocks
<1>1. Len(lh) \in Nat /\ tail \in 1..(LOGSIZE + 1) /\ \A i \in 1..Len(lh) : lh[i] \in Blocks
  BY SMTT(30) DEF TypeOK
<1>2. Installed \in Nat
  BY <1>1, LogAssumption, SMTT(30) DEF LogAssumption, Installed
<1> QED
  BY <1>1, <1>2, SMTT(30) DEF Pending

\* What can be recycled is the same on the disk.
LEMMA UnusedClean ==
  ASSUME IInv, boot = "up", NEW b \in Blocks, Unused(b)
  PROVE  bcache[b].data \in {NoBuf, disk[b]} /\ b \notin Pending
<1>1. b \notin Pending
  BY SMTT(30) DEF IInv, Pinned, Unused
<1>2. ~ \E p \in Procs : proc[p].pc \in {"dirty", "panic"} /\ proc[p].buf = b
  BY LogAssumption DEF LogAssumption, IInv, Held, HoldPCs, Unused
<1> QED
  BY <1>1, <1>2 DEF IInv, Clean

LEMMA RecycleInv ==
  ASSUME IInv, NEW b \in Blocks, recycle(b)
  PROVE  IInv'
<1> USE LogAssumption DEF LogAssumption, IInv
<1>1. /\ boot = "up" /\ Unused(b) /\ bcache[b].data # NoBuf
      /\ UNCHANGED <<disk, dhead, dlog, lh, outstanding, committing, tail, proc, reads, boot>>
  BY DEF recycle, onDisk, inLog
<1>2. bcache \in [Blocks -> CacheRec]
  BY DEF TypeOK, CacheRec
<1>3. /\ bcache' \in [Blocks -> CacheRec]
      /\ \A c \in Blocks : /\ bcache'[c].data = IF c = b THEN NoBuf ELSE bcache[c].data
                           /\ bcache'[c].lock = bcache[c].lock
                           /\ bcache'[c].refcnt = bcache[c].refcnt
  BY <1>2 DEF CacheRec, recycle
<1>4. bcache[b].data = disk[b]
  BY <1>1, UnusedClean
<1>5. \A c \in Blocks : Contents(c)' = Contents(c)
  BY <1>1, <1>3, <1>4 DEF Contents
<1>6. TypeOK'
  BY <1>1, <1>3 DEF TypeOK, CacheRec
<1>7. Counted' /\ OneCommitter' /\ Recovering' /\ Held'
  BY <1>1, <1>3, SMTT(30) DEF Counted, InCall, OneCommitter, Recovering, Held
<1>8. Installed' = Installed /\ Pending' = Pending
  BY <1>1 DEF Installed, Pending
<1>9. Committed'
  BY <1>1, <1>5, KeepCommitted
<1>10. Clean' /\ Pinned'
  BY <1>1, <1>3, <1>8 DEF Clean, Pinned
<1> QED
  BY <1>1, <1>6, <1>7, <1>9, <1>10 DEF Once

LEMMA LogWriteInv ==
  ASSUME IInv, NEW p \in Procs, log_write(p)
  PROVE  IInv'
<1> USE LogAssumption DEF LogAssumption, IInv
<1> DEFINE b == proc[p].buf
<1>1. /\ boot = "up" /\ proc[p].pc = "dirty" /\ b \in Blocks /\ bcache[b].lock = p
      /\ UNCHANGED <<disk, dhead, dlog, outstanding, committing, tail, reads, boot>>
  BY DEF log_write, At, onDisk, Held, HoldPCs
<1>2. proc \in [Procs -> ProcRec] /\ bcache \in [Blocks -> CacheRec] /\ lh \in Seq(Blocks)
  BY DEF TypeOK, ProcRec, CacheRec
<1>3. p \in InCall /\ outstanding >= 1 /\ outstanding \in Nat
  <2>1. p \in InCall
    BY <1>1 DEF InCall, OpPCs
  <2> QED
    BY <2>1, ActiveCounted
<1>4. ~committing /\ \A q \in Procs : proc[q].pc \notin CommitPCs
  BY <1>3, SMTT(30) DEF OneCommitter
<1>5. PICK l \in {"panic", "logged"} :
         /\ Goto(p, l)
         /\ l = "panic" => UNCHANGED <<lh, bcache>>
         /\ l = "logged" =>
              /\ Len(lh) < LOGSIZE
              /\ IF \E i \in 1..Len(lh) : lh[i] = b THEN UNCHANGED <<lh, bcache>>
                 ELSE lh' = Append(lh, b) /\ bcache' = [bcache EXCEPT ![b].refcnt = @ + 1]
  <2>1. Len(lh) \in Nat
    BY <1>2, SMTT(30)
  <2> QED
    BY <2>1, SMTT(30) DEF log_write
<1>6. /\ proc' \in [Procs -> ProcRec]
      /\ \A q \in Procs : /\ proc'[q].pc = IF q = p THEN l ELSE proc[q].pc
                          /\ proc'[q].buf = proc[q].buf
  BY <1>2, <1>5, GotoProc DEF PCs, OpPCs
<1>7. Counted'
  <2>1. InCall' = InCall
    BY <1>3, <1>6, <1>5 DEF InCall, OpPCs
  <2> QED
    BY <1>1, <2>1, CountSame
<1>8. \A q \in Procs : proc'[q].pc \notin CommitPCs
  BY <1>4, <1>5, <1>6 DEF CommitPCs
<1>9. OneCommitter'
  BY <1>1, <1>8 DEF OneCommitter
<1>10. Committed'
  BY <1>1, <1>3, <1>4, <1>8, SMTT(30) DEF Committed, CommitPCs
<1>11. Installed = 0 /\ Installed' = 0
  BY <1>4, <1>8 DEF Installed, CommitPCs
<1>12. CASE UNCHANGED <<lh, bcache>>
  <2>1. Pending' = Pending
    BY <1>11, <1>12 DEF Pending
  <2>2. l = "logged" => b \in Pending
    BY <1>5, <1>2, <1>12, <1>11, SMTT(30) DEF Pending
  <2>3. TypeOK'
    BY <1>1, <1>6, <1>12 DEF TypeOK, ProcRec
  <2>4. Recovering' /\ Held'
    BY <1>1, <1>5, <1>6, <1>12 DEF Recovering, Held, HoldPCs
  <2>5. Clean' /\ Pinned'
    BY <1>1, <1>5, <1>6, <1>12, <2>1, <2>2, SMTT(30) DEF Clean, Pinned
  <2> QED
    BY <1>1, <1>7, <1>9, <1>10, <1>12, <2>3, <2>4, <2>5 DEF Once
<1>13. CASE ~UNCHANGED <<lh, bcache>>
  <2>1. /\ l = "logged" /\ Len(lh) < LOGSIZE /\ \A i \in 1..Len(lh) : lh[i] # b
        /\ lh' = Append(lh, b) /\ bcache' = [bcache EXCEPT ![b].refcnt = @ + 1]
    BY <1>5, <1>13
  <2>2. /\ lh' \in Seq(Blocks) /\ Len(lh) \in Nat /\ Len(lh') = Len(lh) + 1 /\ Len(lh') <= LOGSIZE
        /\ \A i \in 1..Len(lh) : lh'[i] = lh[i]
        /\ lh'[Len(lh) + 1] = b
    BY <1>1, <1>2, <2>1, SMTT(30)
  <2>3. /\ bcache' \in [Blocks -> CacheRec]
        /\ \A c \in Blocks : /\ bcache'[c].data = bcache[c].data
                             /\ bcache'[c].lock = bcache[c].lock
                             /\ bcache'[c].refcnt = IF c = b THEN bcache[c].refcnt + 1 ELSE bcache[c].refcnt
    <3>1. bcache[b].refcnt \in Nat /\ bcache[b].refcnt + 1 \in Nat
      BY <1>1, <1>2, SMTT(30) DEF CacheRec
    <3> QED
      BY <1>1, <1>2, <2>1, <3>1, ZenonT(60) DEF CacheRec
  <2>4. /\ Pending = {lh[i] : i \in 1..Len(lh)} /\ Pending' = {lh'[i] : i \in 1..Len(lh')}
        /\ Pending' = Pending \cup {b} /\ b \notin Pending
    <3>1. Pending = {lh[i] : i \in 1..Len(lh)} /\ Pending' = {lh'[i] : i \in 1..Len(lh')}
      BY <1>11, SMTT(30) DEF Pending
    <3> QED
      BY <2>1, <2>2, <3>1, SMTT(30)
  <2>5. TypeOK'
    BY <1>1, <1>6, <2>2, <2>3 DEF TypeOK, ProcRec, CacheRec
  <2>6. Recovering' /\ Held'
    BY <1>1, <1>6, <2>1, <2>3, SMTT(30) DEF Recovering, Held, HoldPCs
  <2>7. Once(lh)'
    BY <2>1, <2>2, SMTT(30) DEF Once
  <2>8. Clean'
    <3> SUFFICES ASSUME boot = "up", NEW c \in Blocks
                 PROVE  \/ bcache'[c].data \in {NoBuf, disk[c]}
                        \/ c \in Pending'
                        \/ \E q \in Procs : proc'[q].pc \in {"dirty", "panic"} /\ proc'[q].buf = c
      BY <1>1 DEF Clean
    <3>1. CASE c = b
      BY <2>4, <3>1
    <3>2. CASE c # b
      <4>1. bcache'[c].data = bcache[c].data /\ (c \in Pending => c \in Pending')
        BY <2>3, <2>4
      <4>2. \A q \in Procs : q # p => proc'[q].pc = proc[q].pc /\ proc'[q].buf = proc[q].buf
        BY <1>6
      <4> QED
        BY <1>1, <3>2, <4>1, <4>2, SMTT(30) DEF Clean
    <3> QED
      BY <3>1, <3>2
  <2>9. Pinned'
    <3>1. bcache[b].refcnt = 0
      BY <1>1, <2>4 DEF Pinned
    <3>2. bcache'[b].refcnt = 1
      BY <1>1, <2>3, <3>1, SMTT(30)
    <3>4. b \in Pending'
      BY <2>4
    <3>3. ASSUME NEW c \in Blocks, c # b
          PROVE  bcache'[c].refcnt = bcache[c].refcnt /\ (c \in Pending' <=> c \in Pending)
      BY <2>3, <2>4, <3>3
    <3>5. \A c \in Blocks : /\ c \in Pending => bcache[c].refcnt = 1
                            /\ c \notin Pending => bcache[c].refcnt = 0
      BY <1>1 DEF Pinned
    <3>6. \A c \in Blocks : /\ c \in Pending' => bcache'[c].refcnt = 1
                            /\ c \notin Pending' => bcache'[c].refcnt = 0
      BY <3>2, <3>3, <3>4, <3>5
    <3> QED
      BY <3>6 DEF Pinned
  <2> QED
    BY <1>1, <1>7, <1>9, <1>10, <2>5, <2>6, <2>7, <2>8, <2>9 DEF Once
<1> QED
  BY <1>12, <1>13

LEMMA EndOpInv ==
  ASSUME IInv, NEW p \in Procs, end_op(p)
  PROVE  IInv'
<1> USE LogAssumption DEF LogAssumption, IInv
<1>1. /\ boot = "up" /\ proc[p].pc = "op" /\ outstanding' = outstanding - 1
      /\ UNCHANGED <<disk, dhead, dlog, bcache, lh, tail, reads, boot>>
  BY DEF end_op, At, onDisk
<1>2. proc \in [Procs -> ProcRec]
  BY DEF TypeOK, ProcRec
<1>3. p \in InCall /\ outstanding >= 1 /\ outstanding \in Nat
  <2>1. p \in InCall
    BY <1>1 DEF InCall, OpPCs
  <2> QED
    BY <2>1, ActiveCounted
<1>4. ~committing /\ \A q \in Procs : proc[q].pc \notin CommitPCs
  BY <1>3, SMTT(30) DEF OneCommitter
<1>5. /\ proc' \in [Procs -> ProcRec]
      /\ \A q \in Procs : q # p => \/ proc'[q].pc = proc[q].pc
                                   \/ proc[q].pc = "sleep" /\ proc'[q].pc = "begin"
      /\ \A q \in Procs : proc'[q].buf = proc[q].buf
      /\ IF outstanding = 1 THEN proc'[p].pc = "commit" /\ committing' = TRUE
         ELSE proc'[p].pc = "idle" /\ committing' = FALSE
  <2>1. CASE outstanding = 1
    <3>1. Goto(p, "commit") /\ committing' = TRUE
      BY <1>4, <2>1 DEF end_op
    <3>2. "commit" \in PCs
      BY DEF PCs, CommitPCs
    <3> QED
      BY <1>2, <2>1, <3>1, <3>2, GotoProc
  <2>2. CASE outstanding # 1
    <3>1. WakeupAndGoto(p, "idle") /\ committing' = committing
      BY <1>4, <2>2 DEF end_op
    <3>2. "idle" \in PCs
      BY DEF PCs
    <3>3. committing' = FALSE
      BY <1>4, <3>1 DEF TypeOK
    <3> QED
      BY <1>2, <2>2, <3>1, <3>2, <3>3, WakeupProc
  <2> QED
    BY <2>1, <2>2
<1>6. TypeOK'
  <2>1. outstanding' \in Nat
    BY <1>1, <1>3, SMTT(30)
  <2>2. committing' \in BOOLEAN
    BY <1>5
  <2> QED
    BY <1>1, <1>5, <2>1, <2>2 DEF TypeOK, ProcRec
<1>7. Counted'
  <2>1. InCall' = InCall \ {p}
    BY <1>5 DEF InCall, OpPCs
  <2> QED
    BY <1>1, <1>3, <2>1, CountOut
<1>8. /\ committing' => outstanding' = 0
      /\ ~committing' => outstanding' # 0
  BY <1>1, <1>3, <1>5, SMTT(30)
<1>9. /\ \A q \in Procs : q # p => proc'[q].pc \notin CommitPCs
      /\ proc'[p].pc \in CommitPCs => proc'[p].pc = "commit" /\ committing'
  BY <1>4, <1>5 DEF CommitPCs
<1>10. OneCommitter'
  BY <1>1, <1>8, <1>9 DEF OneCommitter
<1>11. Installed = 0 /\ Installed' = 0 /\ Pending' = Pending
  <2>1. \A q \in Procs : /\ proc[q].pc \notin {"install", "clear"}
                         /\ proc'[q].pc \notin {"install", "clear"}
    BY <1>4, <1>9 DEF CommitPCs
  <2> QED
    BY <1>1, <2>1, NothingInstalled
<1>12. Recovering' /\ Held'
  BY <1>1, <1>5 DEF Recovering, Held, HoldPCs
<1>13. Committed'
  BY <1>1, <1>4, <1>8, <1>9 DEF Committed, CommitPCs
<1>14. Clean' /\ Pinned'
  <2>1. \A q \in Procs : proc[q].pc \in {"dirty", "panic"} =>
            proc'[q].pc = proc[q].pc /\ proc'[q].buf = proc[q].buf
    BY <1>1, <1>5
  <2> QED
    BY <1>1, <1>11, <2>1, KeepClean
<1> QED
  BY <1>1, <1>6, <1>7, <1>10, <1>12, <1>13, <1>14 DEF Once

\* While a process commits, no other does and no call is active.
LEMMA CommitterAlone ==
  ASSUME IInv, NEW p \in Procs, proc[p].pc \in CommitPCs
  PROVE  /\ committing /\ boot = "up" /\ outstanding = 0
         /\ \A q \in Procs : q # p => proc[q].pc \notin CommitPCs
         /\ \A q \in Procs : proc[q].pc \notin OpPCs \cup {"panic"}
<1>1. /\ committing /\ boot = "up" /\ outstanding = 0
      /\ \A q \in Procs : q # p => proc[q].pc \notin CommitPCs
  BY DEF IInv, OneCommitter
<1>2. InCall = {}
  BY <1>1, FS_EmptySet DEF IInv, Counted
<1> QED
  BY <1>1, <1>2 DEF InCall

LEMMA EndOpDoneInv ==
  ASSUME IInv, NEW p \in Procs, end_op_done(p)
  PROVE  IInv'
<1> USE LogAssumption DEF LogAssumption, IInv
<1>1. /\ proc[p].pc = "done" /\ committing' = FALSE /\ WakeupAndGoto(p, "idle")
      /\ UNCHANGED <<disk, dhead, dlog, bcache, lh, outstanding, tail, reads, boot>>
  BY DEF end_op_done, At, onDisk
<1>2. /\ boot = "up" /\ outstanding = 0 /\ proc[p].pc \in CommitPCs
      /\ \A q \in Procs : q # p => proc[q].pc \notin CommitPCs
  BY <1>1, CommitterAlone DEF CommitPCs
<1>3. /\ proc' \in [Procs -> ProcRec]
      /\ \A q \in Procs : q # p => \/ proc'[q].pc = proc[q].pc
                                   \/ proc[q].pc = "sleep" /\ proc'[q].pc = "begin"
      /\ \A q \in Procs : proc'[q].buf = proc[q].buf
      /\ proc'[p].pc = "idle"
  <2>1. "idle" \in PCs /\ proc \in [Procs -> ProcRec]
    BY DEF PCs, TypeOK, ProcRec
  <2> QED
    BY <1>1, <2>1, WakeupProc, SMTT(30)
<1>4. TypeOK'
  <2>1. committing' \in BOOLEAN
    BY <1>1
  <2> QED
    BY <1>1, <1>3, <2>1 DEF TypeOK, ProcRec
<1>5. Counted'
  <2>1. InCall' = InCall
    BY <1>1, <1>3 DEF InCall, OpPCs
  <2> QED
    BY <1>1, <2>1, CountSame
<1>6. \A q \in Procs : proc'[q].pc \notin CommitPCs
  BY <1>2, <1>3 DEF CommitPCs
<1>7. OneCommitter' /\ Recovering' /\ Held'
  BY <1>1, <1>2, <1>3, <1>6 DEF OneCommitter, Recovering, Held, HoldPCs
<1>8. lh = <<>> /\ dhead = <<>>
  BY <1>1, <1>2 DEF Committed, CommitPCs
<1>9. Committed'
  BY <1>1, <1>6, <1>8 DEF Committed, CommitPCs
<1>10. Pending = {} /\ Pending' = {}
  <2>1. \A q \in Procs : /\ proc[q].pc \notin {"install", "clear"}
                         /\ proc'[q].pc \notin {"install", "clear"}
    BY <1>1, <1>2, <1>6 DEF CommitPCs
  <2>2. Installed = 0 /\ Pending' = Pending
    BY <1>1, <2>1, NothingInstalled
  <2>3. Len(lh) = 0
    BY <1>8
  <2>4. (Installed + 1)..Len(lh) = {}
    BY <2>2, <2>3, SMTT(30)
  <2> QED
    BY <2>2, <2>4 DEF Pending
<1>11. Clean' /\ Pinned'
  <2>1. \A q \in Procs : proc[q].pc \in {"dirty", "panic"} =>
            proc'[q].pc = proc[q].pc /\ proc'[q].buf = proc[q].buf
    BY <1>1, <1>3
  <2> QED
    BY <1>1, <1>10, <2>1, KeepClean
<1> QED
  BY <1>1, <1>4, <1>5, <1>7, <1>9, <1>11 DEF Once

LEMMA CommitInv ==
  ASSUME IInv, NEW p \in Procs, commit(p)
  PROVE  IInv'
<1> USE LogAssumption DEF LogAssumption, IInv
<1>1. /\ proc[p].pc = "commit" /\ tail' = 1
      /\ UNCHANGED <<disk, dhead, dlog, bcache, lh, outstanding, committing, reads, boot>>
  BY DEF commit, At, onDisk, inLog
<1>2. /\ boot = "up" /\ outstanding = 0 /\ committing
      /\ \A q \in Procs : q # p => proc[q].pc \notin CommitPCs
  BY <1>1, CommitterAlone DEF CommitPCs
<1>3. PICK l \in {"write_log", "done"} : Goto(p, l) /\ (l = "done" => lh = <<>>)
  <2>1. lh \in Seq(Blocks)
    BY DEF TypeOK
  <2>2. Len(lh) > 0 \/ lh = <<>>
    BY <2>1, SMTT(30)
  <2> QED
    BY <2>2 DEF commit
<1>4. /\ proc' \in [Procs -> ProcRec]
      /\ \A q \in Procs : /\ proc'[q].pc = IF q = p THEN l ELSE proc[q].pc
                          /\ proc'[q].buf = proc[q].buf
  <2>1. proc \in [Procs -> ProcRec] /\ l \in PCs
    BY DEF TypeOK, ProcRec, PCs, CommitPCs
  <2> QED
    BY <1>3, <2>1, GotoProc
<1>5. TypeOK'
  <2>1. tail' \in 1..(LOGSIZE + 1)
    BY <1>1, SMTT(30)
  <2> QED
    BY <1>1, <1>4, <2>1 DEF TypeOK, ProcRec
<1>6. Counted'
  <2>1. InCall' = InCall
    BY <1>1, <1>4 DEF InCall, OpPCs
  <2> QED
    BY <1>1, <2>1, CountSame
<1>7. OneCommitter' /\ Recovering' /\ Held'
  BY <1>1, <1>2, <1>4, SMTT(30) DEF OneCommitter, Recovering, Held, HoldPCs
<1>8. Installed = 0 /\ Installed' = 0 /\ Pending' = Pending
  <2>1. \A q \in Procs : /\ proc[q].pc \notin {"install", "clear"}
                         /\ proc'[q].pc \notin {"install", "clear"}
    BY <1>1, <1>2, <1>4 DEF CommitPCs
  <2> QED
    BY <1>1, <2>1, NothingInstalled
<1>9. Committed'
  <2>1. dhead = <<>> /\ \A q \in Procs : q # p => proc'[q].pc \notin CommitPCs
    BY <1>1, <1>2, <1>4 DEF Committed, CommitPCs
  <2>2. tail' <= Len(lh') + 1 /\ 1..(tail' - 1) = {}
    BY <1>1, SMTT(30) DEF TypeOK
  <2> QED
    BY <1>1, <1>2, <1>3, <1>4, <2>1, <2>2 DEF Committed, CommitPCs
<1>10. Clean' /\ Pinned'
  <2>1. \A q \in Procs : proc[q].pc \in {"dirty", "panic"} =>
            proc'[q].pc = proc[q].pc /\ proc'[q].buf = proc[q].buf
    BY <1>1, <1>4
  <2> QED
    BY <1>1, <1>8, <2>1, KeepClean
<1> QED
  BY <1>1, <1>5, <1>6, <1>7, <1>9, <1>10 DEF Once

LEMMA WriteLogInv ==
  ASSUME IInv, NEW p \in Procs, write_log(p)
  PROVE  IInv'
<1> USE LogAssumption DEF LogAssumption, IInv
<1>1. /\ proc[p].pc = "write_log"
      /\ UNCHANGED <<disk, dhead, lh, outstanding, committing, reads, boot>>
  BY DEF write_log, At, inLog
<1>2. /\ boot = "up" /\ outstanding = 0 /\ committing
      /\ \A q \in Procs : q # p => proc[q].pc \notin CommitPCs
  BY <1>1, CommitterAlone DEF CommitPCs
<1>3. /\ proc \in [Procs -> ProcRec] /\ bcache \in [Blocks -> CacheRec] /\ disk \in [Blocks -> Values]
      /\ dlog \in [1..LOGSIZE -> Values]
      /\ Len(lh) \in Nat /\ Len(lh) <= LOGSIZE /\ \A i \in 1..Len(lh) : lh[i] \in Blocks
      /\ tail \in Nat /\ tail >= 1
  BY SMTT(30) DEF TypeOK, ProcRec, CacheRec
<1>4. /\ tail <= Len(lh) + 1 /\ dhead = <<>>
      /\ \A i \in 1..(tail - 1) : dlog[i] = Contents(lh[i])
  <2>1. \A q \in Procs : proc[q].pc \notin {"install", "clear"}
    BY <1>1, <1>2 DEF CommitPCs
  <2> QED
    BY <1>1, <1>2, <2>1 DEF Committed
<1>5. CASE tail > Len(lh)
  <2>1. Goto(p, "write_head") /\ UNCHANGED <<dlog, bcache, tail>>
    BY <1>5 DEF write_log
  <2>2. /\ proc' \in [Procs -> ProcRec]
        /\ \A q \in Procs : /\ proc'[q].pc = IF q = p THEN "write_head" ELSE proc[q].pc
                            /\ proc'[q].buf = proc[q].buf
    BY <1>3, <2>1, GotoProc, SMTT(30) DEF PCs, CommitPCs
  <2>3. TypeOK'
    BY <1>1, <2>1, <2>2 DEF TypeOK, ProcRec
  <2>4. Counted'
    <3>1. InCall' = InCall
      BY <1>1, <2>2 DEF InCall, OpPCs
    <3> QED
      BY <1>1, <3>1, CountSame
  <2>5. OneCommitter' /\ Recovering' /\ Held'
    BY <1>1, <1>2, <2>1, <2>2 DEF OneCommitter, Recovering, Held, HoldPCs
  <2>6. Installed = 0 /\ Installed' = 0 /\ Pending' = Pending
    <3>1. \A q \in Procs : /\ proc[q].pc \notin {"install", "clear"}
                           /\ proc'[q].pc \notin {"install", "clear"}
      BY <1>1, <1>2, <2>2 DEF CommitPCs
    <3> QED
      BY <1>1, <3>1, NothingInstalled
  <2>7. Committed'
    <3>1. tail - 1 = Len(lh)
      BY <1>3, <1>4, <1>5, SMTT(30)
    <3>2. \A i \in 1..Len(lh) : dlog[i] = Contents(lh[i])
      BY <1>4, <3>1
    <3>3. \A q \in Procs : q # p => proc'[q].pc \notin CommitPCs
      BY <1>2, <2>2
    <3> QED
      BY <1>1, <1>2, <1>4, <2>1, <2>2, <3>2, <3>3, SMTT(30) DEF Committed, CommitPCs, Contents
  <2>8. Clean' /\ Pinned'
    <3>1. \A q \in Procs : proc[q].pc \in {"dirty", "panic"} =>
              proc'[q].pc = proc[q].pc /\ proc'[q].buf = proc[q].buf
      BY <1>1, <2>2
    <3> QED
      BY <1>1, <2>1, <2>6, <3>1, KeepClean
  <2> QED
    BY <1>1, <2>3, <2>4, <2>5, <2>7, <2>8 DEF Once
<1>6. CASE ~(tail > Len(lh))
  <2> DEFINE b == lh[tail]
  <2>1. /\ bcache[b].lock = NoProc /\ tail' = tail + 1 /\ proc' = proc
        /\ bcache' = [bcache EXCEPT ![b].data = Contents(b)]
        /\ dlog' = [dlog EXCEPT ![tail] = Contents(b)]
    BY <1>6 DEF write_log
  <2>2. b \in Blocks /\ Contents(b) \in Values /\ tail \in 1..Len(lh) /\ tail \in 1..LOGSIZE
    BY <1>3, <1>6, SMTT(30) DEF Contents, CacheRec
  <2>3. /\ bcache' \in [Blocks -> CacheRec]
        /\ \A c \in Blocks : /\ bcache'[c].data = IF c = b THEN Contents(b) ELSE bcache[c].data
                             /\ bcache'[c].lock = bcache[c].lock
                             /\ bcache'[c].refcnt = bcache[c].refcnt
    BY <1>3, <2>1, <2>2, CacheData
  <2>4. \A c \in Blocks : Contents(c)' = Contents(c)
    BY <1>1, <2>2, <2>3 DEF Contents
  <2>5. TypeOK'
    <3>1. tail' \in 1..(LOGSIZE + 1)
      BY <2>1, <2>2, SMTT(30)
    <3>2. dlog' \in [1..LOGSIZE -> Values]
      BY <1>3, <2>1, <2>2
    <3> QED
      BY <1>1, <2>1, <2>3, <3>1, <3>2 DEF TypeOK, ProcRec, CacheRec
  <2>6. Counted' /\ OneCommitter' /\ Recovering' /\ Held'
    BY <1>1, <1>2, <2>1, <2>3, SMTT(30) DEF Counted, InCall, OneCommitter, Recovering, Held
  <2>7. Installed = 0 /\ Installed' = 0 /\ Pending' = Pending
    <3>1. \A q \in Procs : /\ proc[q].pc \notin {"install", "clear"}
                           /\ proc'[q].pc \notin {"install", "clear"}
      BY <1>1, <1>2, <2>1 DEF CommitPCs
    <3> QED
      BY <1>1, <3>1, NothingInstalled
  <2>8. Committed'
    <3>1. tail' <= Len(lh') + 1
      BY <1>1, <1>3, <2>1, <2>2, SMTT(30)
    <3>2. \A i \in 1..(tail' - 1) : i \in 1..Len(lh) /\ dlog'[i] = Contents(lh[i])
      <4> SUFFICES ASSUME NEW i \in 1..(tail' - 1) PROVE i \in 1..Len(lh) /\ dlog'[i] = Contents(lh[i])
        OBVIOUS
      <4>1. i = tail \/ i \in 1..(tail - 1)
        BY <1>3, <2>1, SMTT(30)
      <4>2. i \in 1..Len(lh) /\ i \in 1..LOGSIZE
        BY <1>3, <2>2, <4>1, SMTT(30)
      <4> QED
        BY <1>3, <1>4, <2>1, <4>1, <4>2
    <3>3. \A i \in 1..(tail' - 1) : dlog'[i] = Contents(lh[i])'
      BY <1>1, <1>3, <2>4, <3>2 DEF Contents
    <3> QED
      BY <1>1, <1>2, <1>4, <2>1, <3>1, <3>3 DEF Committed, CommitPCs
  <2>9. Clean' /\ Pinned'
    <3>1. Clean'
      BY <1>1, <2>1, <2>3, <2>7, SMTT(30) DEF Clean, Contents
    <3>2. Pinned'
      BY <1>1, <2>3, <2>7 DEF Pinned
    <3> QED
      BY <3>1, <3>2
  <2> QED
    BY <1>1, <2>5, <2>6, <2>8, <2>9 DEF Once
<1> QED
  BY <1>5, <1>6

LEMMA WriteHeadInv ==
  ASSUME IInv, NEW p \in Procs, write_head(p)
  PROVE  IInv'
<1> USE LogAssumption DEF LogAssumption, IInv
<1>1. /\ proc[p].pc = "write_head" /\ dhead' = lh /\ tail' = 1 /\ Goto(p, "install")
      /\ UNCHANGED <<disk, dlog, bcache, lh, outstanding, committing, reads, boot>>
  BY DEF write_head, At, inLog
<1>2. /\ boot = "up" /\ outstanding = 0 /\ committing
      /\ \A q \in Procs : q # p => proc[q].pc \notin CommitPCs
  BY <1>1, CommitterAlone DEF CommitPCs
<1>3. /\ proc' \in [Procs -> ProcRec]
      /\ \A q \in Procs : /\ proc'[q].pc = IF q = p THEN "install" ELSE proc[q].pc
                          /\ proc'[q].buf = proc[q].buf
  <2>1. proc \in [Procs -> ProcRec] /\ "install" \in PCs
    BY DEF TypeOK, ProcRec, PCs, CommitPCs
  <2> QED
    BY <1>1, <2>1, GotoProc
<1>4. TypeOK'
  <2>1. tail' \in 1..(LOGSIZE + 1)
    BY <1>1, SMTT(30)
  <2> QED
    BY <1>1, <1>3, <2>1 DEF TypeOK, ProcRec
<1>5. Counted'
  <2>1. InCall' = InCall
    BY <1>1, <1>3 DEF InCall, OpPCs
  <2> QED
    BY <1>1, <2>1, CountSame
<1>6. OneCommitter' /\ Recovering' /\ Held'
  <2>1. OneCommitter'
    BY <1>1, <1>2, <1>3 DEF OneCommitter
  <2>2. Recovering'
    BY <1>1, <1>2 DEF Recovering
  <2>3. Held'
    <3>1. \A q \in Procs : proc'[q].pc \in HoldPCs => proc[q].pc \in HoldPCs
      BY <1>3 DEF HoldPCs
    <3> QED
      BY <1>1, <1>3, <3>1 DEF Held
  <2> QED
    BY <2>1, <2>2, <2>3
<1>7. Installed = 0 /\ Installed' = 0 /\ Pending' = Pending
  <2>1. \A q \in Procs : proc[q].pc \notin {"install", "clear"}
    BY <1>1, <1>2 DEF CommitPCs
  <2>2. proc'[p].pc = "install" /\ tail' - 1 = 0
    BY <1>1, <1>3, SMTT(30)
  <2>3. Installed = 0 /\ Installed' = 0
    BY <2>1, <2>2 DEF Installed
  <2> QED
    BY <1>1, <2>3 DEF Pending
<1>8. Committed'
  <2>1. \A i \in 1..Len(lh) : dlog[i] = Contents(lh[i])
    BY <1>1, <1>2 DEF Committed
  <2>2. tail' <= Len(lh') + 1 /\ 1..(tail' - 1) = {}
    BY <1>1, SMTT(30) DEF TypeOK
  <2>3. \A q \in Procs : q # p => proc'[q].pc \notin CommitPCs
    BY <1>2, <1>3
  <2> QED
    BY <1>1, <1>2, <1>3, <2>1, <2>2, <2>3, SMTT(30) DEF Committed, CommitPCs, Contents
<1>9. Clean' /\ Pinned'
  <2>1. \A q \in Procs : proc[q].pc \in {"dirty", "panic"} =>
            proc'[q].pc = proc[q].pc /\ proc'[q].buf = proc[q].buf
    BY <1>1, <1>3
  <2> QED
    BY <1>1, <1>7, <2>1, KeepClean
<1> QED
  BY <1>1, <1>4, <1>5, <1>6, <1>8, <1>9 DEF Once

LEMMA InstallInv ==
  ASSUME IInv, NEW p \in Procs, install_trans(p)
  PROVE  IInv'
<1> USE LogAssumption DEF LogAssumption, IInv
<1>1. /\ proc[p].pc = "install"
      /\ UNCHANGED <<dhead, dlog, lh, outstanding, committing, reads, boot>>
  BY DEF install_trans, At, inLog
<1>2. /\ boot = "up" /\ outstanding = 0 /\ committing
      /\ \A q \in Procs : q # p => proc[q].pc \notin CommitPCs
  BY <1>1, CommitterAlone DEF CommitPCs
<1>3. /\ proc \in [Procs -> ProcRec] /\ bcache \in [Blocks -> CacheRec] /\ disk \in [Blocks -> Values]
      /\ dlog \in [1..LOGSIZE -> Values]
      /\ Len(lh) \in Nat /\ Len(lh) <= LOGSIZE /\ \A i \in 1..Len(lh) : lh[i] \in Blocks
      /\ tail \in Nat /\ tail >= 1
  BY SMTT(30) DEF TypeOK, ProcRec, CacheRec
<1>4. /\ tail <= Len(lh) + 1 /\ dhead = lh
      /\ \A i \in 1..Len(lh) : dlog[i] = Contents(lh[i])
      /\ \A i \in 1..(tail - 1) : disk[lh[i]] = dlog[i]
  BY <1>1, <1>2 DEF Committed
<1>5. Installed = tail - 1 /\ Pending = {lh[i] : i \in tail..Len(lh)}
  <2>1. Installed = tail - 1
    BY <1>1 DEF Installed
  <2>2. (tail - 1) + 1 = tail
    BY <1>3, SMTT(30)
  <2> QED
    BY <2>1, <2>2 DEF Pending
<1>6. CASE tail > Len(lh)
  <2>1. Goto(p, "clear") /\ UNCHANGED <<disk, bcache, tail>>
    BY <1>6 DEF install_trans
  <2>2. /\ proc' \in [Procs -> ProcRec]
        /\ \A q \in Procs : /\ proc'[q].pc = IF q = p THEN "clear" ELSE proc[q].pc
                            /\ proc'[q].buf = proc[q].buf
    BY <1>3, <2>1, GotoProc, SMTT(30) DEF PCs, CommitPCs
  <2>3. TypeOK'
    BY <1>1, <2>1, <2>2 DEF TypeOK, ProcRec
  <2>4. Counted'
    <3>1. InCall' = InCall
      BY <1>1, <2>2 DEF InCall, OpPCs
    <3> QED
      BY <1>1, <3>1, CountSame
  <2>5. OneCommitter' /\ Recovering' /\ Held'
    BY <1>1, <1>2, <2>1, <2>2 DEF OneCommitter, Recovering, Held, HoldPCs
  <2>6. tail - 1 = Len(lh)
    BY <1>3, <1>4, <1>6, SMTT(30)
  <2>7. Installed' = Installed /\ Pending' = Pending
    <3>1. Installed' = Len(lh)
      BY <1>1, <1>2, <2>2 DEF Installed, CommitPCs
    <3> QED
      BY <1>1, <1>5, <2>6, <3>1 DEF Pending
  <2>8. Committed'
    <3>1. \A i \in 1..Len(lh) : dlog[i] = Contents(lh[i]) /\ disk[lh[i]] = dlog[i]
      BY <1>4, <2>6
    <3>2. \A q \in Procs : q # p => proc'[q].pc \notin CommitPCs
      BY <1>2, <2>2
    <3> QED
      BY <1>1, <1>2, <1>4, <2>1, <2>2, <3>1, <3>2 DEF Committed, CommitPCs, Contents
  <2>9. Clean' /\ Pinned'
    <3>1. \A q \in Procs : proc[q].pc \in {"dirty", "panic"} =>
              proc'[q].pc = proc[q].pc /\ proc'[q].buf = proc[q].buf
      BY <1>1, <2>2
    <3> QED
      BY <1>1, <2>1, <2>7, <3>1, KeepClean
  <2> QED
    BY <1>1, <2>3, <2>4, <2>5, <2>8, <2>9 DEF Once
<1>7. CASE ~(tail > Len(lh))
  <2> DEFINE b == lh[tail]
             v == dlog[tail]
  <2>1. /\ bcache[b].lock = NoProc /\ tail' = tail + 1 /\ proc' = proc
        /\ disk' = [disk EXCEPT ![b] = v]
        /\ bcache' = [bcache EXCEPT ![b].data = v, ![b].refcnt = @ - 1]
    BY <1>7 DEF install_trans, Install
  <2>2. b \in Blocks /\ v \in Values /\ tail \in 1..Len(lh) /\ tail \in 1..LOGSIZE /\ v # NoBuf
    BY <1>3, <1>7, SMTT(30)
  <2>3. b \in Pending /\ bcache[b].refcnt = 1
    <3>1. b \in Pending
      BY <1>3, <1>5, <2>2, SMTT(30)
    <3> QED
      BY <1>2, <2>2, <3>1 DEF Pinned
  <2>4. /\ bcache' \in [Blocks -> CacheRec]
        /\ \A c \in Blocks : c # b => bcache'[c] = bcache[c]
        /\ bcache'[b].data = v /\ bcache'[b].refcnt = 0 /\ bcache'[b].lock = bcache[b].lock
    <3>1. bcache[b].refcnt - 1 = 0
      BY <2>3, SMTT(30)
    <3>2. bcache' = [bcache EXCEPT ![b].data = v, ![b].refcnt = 0]
      BY <2>1, <3>1
    <3> QED
      BY <1>3, <2>2, <3>2, ZenonT(60) DEF CacheRec
  <2>5. /\ disk' \in [Blocks -> Values]
        /\ \A c \in Blocks : disk'[c] = IF c = b THEN v ELSE disk[c]
    BY <1>3, <2>1, <2>2
  <2>6. \A c \in Blocks : Contents(c)' = Contents(c)
    <3>1. Contents(b) = v
      BY <1>4, <2>2
    <3> QED
      BY <2>2, <2>4, <2>5, <3>1 DEF Contents
  <2>7. TypeOK'
    <3>1. tail' \in 1..(LOGSIZE + 1)
      BY <2>1, <2>2, SMTT(30)
    <3> QED
      BY <1>1, <2>1, <2>4, <2>5, <3>1 DEF TypeOK, ProcRec, CacheRec
  <2>8. Counted' /\ OneCommitter' /\ Recovering' /\ Held'
    BY <1>1, <1>2, <2>1, <2>4, SMTT(30) DEF Counted, InCall, OneCommitter, Recovering, Held
  <2>9. Pending' = Pending \ {b}
    <3>1. Installed' = tail' - 1
      BY <1>1, <2>1 DEF Installed
    <3>2. Installed' + 1 = tail + 1
      BY <1>3, <2>1, <3>1, SMTT(30)
    <3>3. Pending' = {lh[i] : i \in (tail + 1)..Len(lh)}
      BY <1>1, <3>2 DEF Pending
    <3>4. \A i \in tail..Len(lh) : lh[i] = b => i = tail
      BY <1>3, <2>2, SMTT(30) DEF Once
    <3>5. tail..Len(lh) = {tail} \cup ((tail + 1)..Len(lh)) /\ tail \notin (tail + 1)..Len(lh)
      BY <1>3, <2>2, SMTT(30)
    <3> QED
      BY <1>5, <3>3, <3>4, <3>5
  <2>10. Committed'
    <3>1. tail' <= Len(lh') + 1
      BY <1>1, <1>3, <2>1, <2>2, SMTT(30)
    <3>2. \A i \in 1..(tail' - 1) : disk'[lh[i]] = dlog[i]
      <4> SUFFICES ASSUME NEW i \in 1..(tail' - 1) PROVE disk'[lh[i]] = dlog[i]
        OBVIOUS
      <4>1. i = tail \/ i \in 1..(tail - 1)
        BY <1>3, <2>1, SMTT(30)
      <4>2. i \in 1..Len(lh) /\ lh[i] \in Blocks
        BY <1>3, <2>2, <4>1, SMTT(30)
      <4>3. i # tail => lh[i] # b
        BY <2>2, <4>2 DEF Once
      <4> QED
        BY <1>4, <2>5, <4>1, <4>2, <4>3
    <3>3. \A i \in 1..Len(lh) : dlog[i] = Contents(lh[i])'
      BY <1>1, <1>3, <1>4, <2>6 DEF Contents
    <3> QED
      BY <1>1, <1>2, <1>4, <2>1, <3>1, <3>2, <3>3, SMTT(30) DEF Committed, CommitPCs
  <2>11. Clean'
    BY <1>1, <2>1, <2>4, <2>5, <2>9, SMTT(30) DEF Clean
  <2>12. Pinned'
    BY <1>1, <2>4, <2>9 DEF Pinned
  <2> QED
    BY <1>1, <2>7, <2>8, <2>10, <2>11, <2>12 DEF Once
<1> QED
  BY <1>6, <1>7

LEMMA ClearHeadInv ==
  ASSUME IInv, NEW p \in Procs, clear_head(p)
  PROVE  IInv'
<1> USE LogAssumption DEF LogAssumption, IInv
<1>1. /\ proc[p].pc = "clear" /\ lh' = <<>> /\ dhead' = <<>> /\ Goto(p, "done")
      /\ UNCHANGED <<disk, dlog, bcache, tail, outstanding, committing, reads, boot>>
  BY DEF clear_head, At
<1>2. /\ boot = "up" /\ outstanding = 0 /\ committing
      /\ \A q \in Procs : q # p => proc[q].pc \notin CommitPCs
  BY <1>1, CommitterAlone DEF CommitPCs
<1>3. /\ proc' \in [Procs -> ProcRec]
      /\ \A q \in Procs : /\ proc'[q].pc = IF q = p THEN "done" ELSE proc[q].pc
                          /\ proc'[q].buf = proc[q].buf
  <2>1. proc \in [Procs -> ProcRec] /\ "done" \in PCs
    BY DEF TypeOK, ProcRec, PCs, CommitPCs
  <2> QED
    BY <1>1, <2>1, GotoProc
<1>4. lh' \in Seq(Blocks) /\ Len(lh') = 0 /\ dhead' \in Seq(Blocks) /\ Len(dhead') = 0
  BY <1>1, SMTT(30)
<1>5. TypeOK'
  BY <1>1, <1>3, <1>4, SMTT(30) DEF TypeOK, ProcRec
<1>6. Counted'
  <2>1. InCall' = InCall
    BY <1>1, <1>3 DEF InCall, OpPCs
  <2> QED
    BY <1>1, <2>1, CountSame
<1>7. OneCommitter' /\ Recovering' /\ Held'
  BY <1>1, <1>2, <1>3 DEF OneCommitter, Recovering, Held, HoldPCs
<1>8. Pending = {} /\ Pending' = {}
  <2>1. Installed = Len(lh) /\ Len(lh) \in Nat
    BY <1>1, <1>2, SMTT(30) DEF Installed, CommitPCs, TypeOK
  <2>2. Installed' = 0
    BY <1>2, <1>3 DEF Installed, CommitPCs
  <2> QED
    BY <1>4, <2>1, <2>2, SMTT(30) DEF Pending
<1>9. Committed'
  <2>1. committing' /\ \A q \in Procs :
          proc'[q].pc \notin {"write_log", "write_head", "install", "clear"}
    BY <1>1, <1>2, <1>3 DEF CommitPCs
  <2> QED
    BY <1>1, <2>1 DEF Committed
<1>10. Clean' /\ Pinned'
  <2>1. \A q \in Procs : proc[q].pc \in {"dirty", "panic"} =>
            proc'[q].pc = proc[q].pc /\ proc'[q].buf = proc[q].buf
    BY <1>1, <1>3
  <2> QED
    BY <1>1, <1>8, <2>1, KeepClean
<1> QED
  BY <1>4, <1>5, <1>6, <1>7, <1>9, <1>10, SMTT(30) DEF Once

LEMMA ReadHeadInv ==
  ASSUME IInv, read_head
  PROVE  IInv'
<1> USE LogAssumption DEF LogAssumption, IInv
<1>1. /\ boot = "read_head" /\ lh' = dhead /\ boot' = "install" /\ boot # "up" /\ boot' # "up"
      /\ UNCHANGED <<disk, dhead, dlog, bcache, outstanding, committing, tail, proc, reads>>
  BY DEF read_head, onDisk
<1>2. TypeOK'
  BY <1>1 DEF TypeOK
<1>3. Counted'
  BY <1>1 DEF Counted, InCall
<1>4. OneCommitter' /\ Held' /\ Committed' /\ Clean' /\ Pinned'
  BY <1>1 DEF OneCommitter, Held, Committed, Clean, Pinned
<1>5. Recovering'
  <2>1. tail' <= Len(lh') + 1 /\ 1..(tail' - 1) = {}
    BY <1>1, SMTT(30) DEF Recovering, TypeOK
  <2> QED
    BY <1>1, <2>1 DEF Recovering
<1> QED
  BY <1>1, <1>2, <1>3, <1>4, <1>5 DEF Once

LEMMA RecoverInstallInv ==
  ASSUME IInv, recover_install
  PROVE  IInv'
<1> USE LogAssumption DEF LogAssumption, IInv
<1>1. /\ boot = "install"
      /\ UNCHANGED <<dhead, dlog, lh, outstanding, committing, proc, reads>>
  BY DEF recover_install, inLog
<1>2. /\ bcache \in [Blocks -> CacheRec] /\ disk \in [Blocks -> Values]
      /\ dlog \in [1..LOGSIZE -> Values]
      /\ Len(lh) \in Nat /\ Len(lh) <= LOGSIZE /\ \A i \in 1..Len(lh) : lh[i] \in Blocks
      /\ tail \in Nat /\ tail >= 1
  BY SMTT(30) DEF TypeOK, CacheRec
<1>3. /\ tail <= Len(lh) + 1 /\ lh = dhead
      /\ \A i \in 1..(tail - 1) : disk[lh[i]] = dlog[i]
  BY <1>1 DEF Recovering
<1>4. CASE tail > Len(lh)
  <2>1. boot' = "clear" /\ boot' # "up" /\ UNCHANGED <<disk, bcache, tail>>
    BY <1>4 DEF recover_install
  <2>2. tail - 1 = Len(lh)
    BY <1>2, <1>3, <1>4, SMTT(30)
  <2>3. TypeOK'
    BY <1>1, <2>1 DEF TypeOK
  <2>4. Counted' /\ OneCommitter' /\ Held' /\ Committed' /\ Clean' /\ Pinned'
    BY <1>1, <2>1 DEF Counted, InCall, OneCommitter, Held, Committed, Clean, Pinned
  <2>5. Recovering'
    BY <1>1, <1>3, <2>1, <2>2 DEF Recovering
  <2> QED
    BY <1>1, <2>3, <2>4, <2>5 DEF Once
<1>5. CASE ~(tail > Len(lh))
  <2> DEFINE b == lh[tail]
             v == dlog[tail]
  <2>1. /\ tail' = tail + 1 /\ boot' = boot /\ boot' # "up"
        /\ disk' = [disk EXCEPT ![b] = v]
        /\ bcache' = [bcache EXCEPT ![b].data = v, ![b].refcnt = @]
    BY <1>1, <1>5 DEF recover_install, Install
  <2>2. b \in Blocks /\ v \in Values /\ tail \in 1..Len(lh) /\ tail \in 1..LOGSIZE
    BY <1>2, <1>5, SMTT(30)
  <2>3. /\ bcache' \in [Blocks -> CacheRec]
        /\ \A c \in Blocks : c # b => bcache'[c] = bcache[c]
        /\ bcache'[b].data = v /\ bcache'[b].refcnt = bcache[b].refcnt /\ bcache'[b].lock = bcache[b].lock
    BY <1>2, <2>1, <2>2, ZenonT(60) DEF CacheRec
  <2>4. /\ disk' \in [Blocks -> Values]
        /\ \A c \in Blocks : disk'[c] = IF c = b THEN v ELSE disk[c]
    BY <1>2, <2>1, <2>2
  <2>5. TypeOK'
    <3>1. tail' \in 1..(LOGSIZE + 1)
      BY <2>1, <2>2, SMTT(30)
    <3> QED
      BY <1>1, <2>1, <2>3, <2>4, <3>1 DEF TypeOK, CacheRec
  <2>6. Counted'
    BY <1>1 DEF Counted, InCall
  <2>7. OneCommitter' /\ Held' /\ Committed' /\ Clean' /\ Pinned'
    <3>1. \A p \in Procs : proc'[p].pc = "idle"
      BY <1>1 DEF Recovering
    <3> QED
      BY <1>1, <2>1, <3>1 DEF OneCommitter, Held, Committed, Clean, Pinned, CommitPCs, HoldPCs
  <2>8. Recovering'
    <3>1. tail' <= Len(lh') + 1
      BY <1>1, <1>2, <2>1, <2>2, SMTT(30)
    <3>2. \A i \in 1..(tail' - 1) : disk'[lh[i]] = dlog[i]
      <4> SUFFICES ASSUME NEW i \in 1..(tail' - 1) PROVE disk'[lh[i]] = dlog[i]
        OBVIOUS
      <4>1. i = tail \/ i \in 1..(tail - 1)
        BY <1>2, <2>1, SMTT(30)
      <4>2. i \in 1..Len(lh) /\ lh[i] \in Blocks
        BY <1>2, <2>2, <4>1, SMTT(30)
      <4>3. i # tail => lh[i] # b
        BY <2>2, <4>2 DEF Once
      <4> QED
        BY <1>3, <2>4, <4>1, <4>2, <4>3
    <3>3. \A c \in Blocks : /\ bcache'[c].data \in {NoBuf, disk'[c]}
                            /\ bcache'[c].lock = NoProc /\ bcache'[c].refcnt = 0
      BY <1>1, <2>3, <2>4, SMTT(30) DEF Recovering
    <3>4. /\ \A p \in Procs : proc'[p].pc = "idle"
          /\ outstanding' = 0 /\ ~committing' /\ lh' = dhead' /\ boot' = "install"
      BY <1>1, <1>3, <2>1 DEF Recovering
    <3>5. \A i \in 1..(tail' - 1) : disk'[lh'[i]] = dlog'[i]
      BY <1>1, <3>2
    <3> HIDE DEF IInv
    <3> QED
      BY <3>1, <3>3, <3>4, <3>5 DEF Recovering
  <2> QED
    BY <1>1, <2>5, <2>6, <2>7, <2>8 DEF Once
<1> QED
  BY <1>4, <1>5

LEMMA RecoverClearInv ==
  ASSUME IInv, recover_clear
  PROVE  IInv'
<1> USE LogAssumption DEF LogAssumption, IInv
<1>1. /\ boot = "clear" /\ lh' = <<>> /\ dhead' = <<>> /\ boot' = "up"
      /\ UNCHANGED <<disk, dlog, bcache, outstanding, committing, tail, proc, reads>>
  BY DEF recover_clear
<1>2. /\ \A p \in Procs : proc[p].pc = "idle"
      /\ \A b \in Blocks : bcache[b].data \in {NoBuf, disk[b]} /\ bcache[b].refcnt = 0
      /\ outstanding = 0 /\ ~committing
  BY <1>1 DEF Recovering
<1>3. lh' \in Seq(Blocks) /\ Len(lh') = 0 /\ dhead' \in Seq(Blocks) /\ Len(dhead') = 0
  BY <1>1, SMTT(30)
<1>4. TypeOK'
  BY <1>1, <1>3, SMTT(30) DEF TypeOK
<1>5. Counted'
  BY <1>1 DEF Counted, InCall
<1>6. OneCommitter' /\ Held' /\ Recovering' /\ Committed'
  BY <1>1, <1>2 DEF OneCommitter, Held, Recovering, Committed, CommitPCs, HoldPCs
<1>7. Pending' = {}
  <2>1. Installed' = 0
    BY <1>1, <1>2 DEF Installed
  <2> QED
    BY <1>3, <2>1, SMTT(30) DEF Pending
<1>8. Clean' /\ Pinned'
  BY <1>1, <1>2, <1>7 DEF Clean, Pinned
<1> QED
  BY <1>3, <1>4, <1>5, <1>6, <1>8, SMTT(30) DEF Once

LEMMA CrashInv ==
  ASSUME IInv, crash
  PROVE  IInv'
<1> USE LogAssumption DEF LogAssumption, IInv
<1>1. /\ bcache' = EmptyCache /\ lh' = <<>> /\ outstanding' = 0 /\ committing' = FALSE
      /\ tail' = 1 /\ proc' = IdleProcs /\ reads' = 0 /\ boot' = "read_head" /\ boot' # "up"
      /\ UNCHANGED <<disk, dhead, dlog>>
  BY DEF crash, onDisk
<1>2. /\ \A p \in Procs : proc'[p].pc = "idle"
      /\ \A b \in Blocks : bcache'[b].data = NoBuf /\ bcache'[b].lock = NoProc /\ bcache'[b].refcnt = 0
  BY <1>1 DEF IdleProcs, EmptyCache
<1>3. TypeOK'
  <2>1. "idle" \in PCs
    BY DEF PCs
  <2>2. proc' \in [Procs -> ProcRec] /\ bcache' \in [Blocks -> CacheRec]
    BY <1>1, <2>1, SMTT(30) DEF IdleProcs, EmptyCache, ProcRec, CacheRec
  <2>3. lh' \in Seq(Blocks) /\ Len(lh') <= LOGSIZE
    BY <1>1, SMTT(30)
  <2>4. tail' \in 1..(LOGSIZE + 1) /\ reads' \in 0..IdleReads /\ outstanding' \in Nat
    BY <1>1, SMTT(30)
  <2>5. committing' \in BOOLEAN
    BY <1>1
  <2> QED
    BY <1>1, <2>2, <2>3, <2>4, <2>5 DEF TypeOK, ProcRec, CacheRec
<1>4. Counted'
  <2>1. InCall' = {}
    BY <1>2 DEF InCall, OpPCs
  <2> QED
    BY <1>1, <2>1, FS_EmptySet DEF Counted
<1>5. OneCommitter' /\ Held' /\ Recovering' /\ Committed' /\ Clean' /\ Pinned'
  BY <1>1, <1>2 DEF OneCommitter, Held, Recovering, Committed, Clean, Pinned, CommitPCs, HoldPCs
<1> QED
  BY <1>1, <1>3, <1>4, <1>5, SMTT(30) DEF Once

\* The invariant is inductive.
LEMMA StepInv ==
  ASSUME IInv, [Next]_vars
  PROVE  IInv'
<1>1. CASE Next
  <2>1. ASSUME NEW p \in Procs, Step(p) PROVE IInv'
    BY <2>1, BeginInv, BreadInv, ModifyInv, BrelseInv, LogWriteInv, EndOpInv, EndOpDoneInv,
       CommitInv, WriteLogInv, WriteHeadInv, InstallInv, ClearHeadInv DEF Step
  <2> QED
    BY <1>1, <2>1, RecycleInv, ReadHeadInv, RecoverInstallInv, RecoverClearInv, CrashInv
    DEF Next, recover_from_log
<1>2. CASE UNCHANGED vars
  <2>1. TypeOK' /\ Once(lh)' /\ Once(dhead)'
    BY <1>2 DEF IInv, vars, TypeOK, Once
  <2>2. Counted' /\ OneCommitter' /\ Held'
    BY <1>2 DEF IInv, vars, Counted, InCall, OneCommitter, Held
  <2>3. Recovering'
    BY <1>2 DEF IInv, vars, Recovering
  <2>4. Committed'
    BY <1>2 DEF IInv, vars, Committed, Contents
  <2>5. Pending' = Pending
    BY <1>2 DEF vars, Pending, Installed
  <2>6. Clean' /\ Pinned'
    BY <1>2, <2>5 DEF IInv, vars, Clean, Pinned
  <2> QED
    BY <2>1, <2>2, <2>3, <2>4, <2>6 DEF IInv
<1> QED
  BY <1>1, <1>2

LEMMA InvariantHolds == Spec => []IInv
BY InitInv, StepInv, PTL DEF Spec


-----------------------------------------------------------------------------
(* Durability, exact pins, and the refinement of AtomicDisk.               *)

\* What a reboot brings back: the logged contents of the blocks of the header
\* and the disk's contents of all the others.
LEMMA StableIs ==
  ASSUME NEW h, NEW L, NEW D, NEW S, Once(h),
         S = [b \in Blocks |-> IF \E i \in 1..Len(h) : h[i] = b
                               THEN L[CHOOSE i \in 1..Len(h) : h[i] = b] ELSE D[b]]
  PROVE  \A b \in Blocks : /\ \A i \in 1..Len(h) : h[i] = b => S[b] = L[i]
                           /\ (\A i \in 1..Len(h) : h[i] # b) => S[b] = D[b]
<1> SUFFICES ASSUME NEW b \in Blocks
             PROVE  /\ \A i \in 1..Len(h) : h[i] = b => S[b] = L[i]
                    /\ (\A i \in 1..Len(h) : h[i] # b) => S[b] = D[b]
  OBVIOUS
<1>1. ASSUME NEW i \in 1..Len(h), h[i] = b PROVE S[b] = L[i]
  <2>1. (CHOOSE j \in 1..Len(h) : h[j] = b) = i
    BY <1>1 DEF Once
  <2> QED
    BY <1>1, <2>1
<1>2. ASSUME \A i \in 1..Len(h) : h[i] # b PROVE S[b] = D[b]
  BY <1>2
<1> QED
  BY <1>1, <1>2

LEMMA StableNow ==
  ASSUME Once(dhead)
  PROVE  /\ Stable = [b \in Blocks |-> Stable[b]]
         /\ \A b \in Blocks : /\ \A i \in 1..Len(dhead) : dhead[i] = b => Stable[b] = dlog[i]
                              /\ (\A i \in 1..Len(dhead) : dhead[i] # b) => Stable[b] = disk[b]
<1>1. Stable = [b \in Blocks |-> Stable[b]]
  BY DEF Stable
<1> QED
  BY <1>1, StableIs, SMTT(30) DEF Stable, Once

LEMMA StableNext ==
  ASSUME Once(dhead)'
  PROVE  /\ Stable' = [b \in Blocks |-> Stable'[b]]
         /\ \A b \in Blocks : /\ \A i \in 1..Len(dhead') : dhead'[i] = b => Stable'[b] = dlog'[i]
                              /\ (\A i \in 1..Len(dhead') : dhead'[i] # b) => Stable'[b] = disk'[b]
<1>1. Stable' = [b \in Blocks |-> Stable'[b]]
  BY DEF Stable
<1> QED
  BY <1>1, StableIs, SMTT(30) DEF Stable, Once

\* With an empty header it is the disk.
LEMMA StableDisk ==
  ASSUME TypeOK, dhead = <<>>
  PROVE  Stable = disk
<1>1. Len(dhead) = 0 /\ Once(dhead)
  BY SMTT(30) DEF Once
<1>2. \A b \in Blocks : Stable[b] = disk[b]
  BY <1>1, StableNow, SMTT(30)
<1> QED
  BY <1>1, <1>2, StableNow DEF TypeOK

\* In every state of the invariant, a machine that neither commits nor has an
\* active call reads what it would read after a crash.
LEMMA InvDurable ==
  ASSUME IInv
  PROVE  Durable
<1> USE DEF IInv
<1> SUFFICES ASSUME ~committing, outstanding = 0, boot = "up" PROVE Stable = Current
  BY DEF Durable, Current
<1>1. lh = <<>> /\ \A p \in Procs : proc[p].pc \notin CommitPCs
  BY DEF Committed, OneCommitter
<1>2. dhead = <<>>
  BY <1>1 DEF Committed, CommitPCs
<1>3. InCall = {}
  BY FS_EmptySet DEF Counted
<1>4. Pending = {}
  <2>1. Installed = 0 /\ Len(lh) = 0
    BY <1>1 DEF Installed, CommitPCs
  <2> QED
    BY <2>1, SMTT(30) DEF Pending
<1>5. \A b \in Blocks : Contents(b) = disk[b]
  BY <1>3, <1>4 DEF Clean, InCall, Contents, OpPCs
<1>6. Current = [b \in Blocks |-> disk[b]]
  BY <1>5 DEF Current
<1> QED
  BY <1>2, <1>6, StableDisk DEF TypeOK

LEMMA InvPinExact ==
  ASSUME IInv
  PROVE  PinExact
<1> USE DEF IInv
<1> SUFFICES ASSUME boot = "up", NEW b \in Blocks
             PROVE  bcache[b].refcnt = Cardinality({i \in (Installed + 1)..Len(lh) : lh[i] = b})
  BY DEF PinExact
<1> DEFINE S == {i \in (Installed + 1)..Len(lh) : lh[i] = b}
<1>1. CASE b \in Pending
  <2>1. PICK i \in (Installed + 1)..Len(lh) : lh[i] = b
    BY <1>1 DEF Pending
  <2>2. Len(lh) \in Nat /\ Installed \in Nat
    BY PendingInLog
  <2>3. S = {i}
    BY <2>1, <2>2, SMTT(30) DEF Once
  <2> QED
    BY <1>1, <2>3, FS_Singleton DEF Pinned
<1>2. CASE b \notin Pending
  <2>1. S = {}
    BY <1>2 DEF Pending
  <2> QED
    BY <1>2, <2>1, FS_EmptySet DEF Pinned
<1> QED
  BY <1>1, <1>2

\* For any number of processes and blocks and any log size: once the last
\* active call has returned from end_op, what it and its companions wrote is
\* what a reboot would read back, at every later crash point.
THEOREM DurableHolds == Spec => []Durable
BY InvariantHolds, InvDurable, PTL

\* For any number of processes and blocks: the reference count log_write adds
\* to a buffer is there exactly while the block waits to be installed, and
\* bunpin never takes one that is not there.
THEOREM PinExactHolds == Spec => []PinExact
BY InvariantHolds, InvPinExact, PTL

\* The log takes no step of the atomic disk by changing neither what a reboot
\* brings back, nor what a read returns, nor who is in a call.
LEMMA SameRead ==
  ASSUME boot' = boot, Stable' = Stable, \A c \in Blocks : Contents(c)' = Contents(c)
  PROVE  Current' = Current
<1>1. [b \in Blocks |-> Contents(b)]' = [b \in Blocks |-> Contents(b)]
  OBVIOUS
<1> QED
  BY <1>1 DEF Current

LEMMA SameStable ==
  ASSUME UNCHANGED onDisk
  PROVE  Stable' = Stable
BY DEF Stable, onDisk

\* A step of p that changes neither what is stored nor what is read starts or
\* ends a call of p, or is invisible.
LEMMA CallStep ==
  ASSUME Stable' = Stable, boot' = boot, \A c \in Blocks : Contents(c)' = Contents(c),
         NEW p \in Procs,
         \A q \in Procs : q # p => (proc'[q].pc \in OpPCs <=> proc[q].pc \in OpPCs)
  PROVE  [AD!Next]_(AD!vars)
<1>1. Current' = Current
  BY SameRead
<1>2. CASE p \in Active <=> p \in Active'
  <2>1. Active' = Active
    BY <1>2 DEF Active
  <2> QED
    BY <1>1, <2>1 DEF AD!vars
<1>3. CASE p \in Active /\ p \notin Active'
  <2>1. Active' = Active \ {p}
    BY <1>3 DEF Active
  <2>2. AD!Finish(p)
    BY <1>1, <1>3, <2>1 DEF AD!Finish
  <2> QED
    BY <2>2 DEF AD!Next
<1>4. CASE p \notin Active /\ p \in Active'
  <2>1. Active' = Active \cup {p}
    BY <1>4 DEF Active
  <2>2. AD!Start(p)
    BY <1>1, <1>4, <2>1 DEF AD!Start
  <2> QED
    BY <2>2 DEF AD!Next
<1> QED
  BY <1>2, <1>3, <1>4

LEMMA BeginRefines ==
  ASSUME IInv, NEW p \in Procs, begin_op(p) \/ commit(p) \/ brelse(p) \/ log_write(p)
  PROVE  [AD!Next]_(AD!vars)
<1>1. UNCHANGED <<onDisk, boot>>
  <2>1. begin_op(p) \/ commit(p) => UNCHANGED <<onDisk, boot>>
    BY DEF begin_op, commit
  <2>2. brelse(p) => UNCHANGED <<onDisk, boot>>
    BY DEF brelse
  <2>3. log_write(p) => UNCHANGED <<onDisk, boot>>
    BY DEF log_write
  <2> QED
    BY <2>1, <2>2, <2>3
<1>2. \A c \in Blocks : bcache'[c].data = bcache[c].data
  <2>1. begin_op(p) \/ commit(p) => bcache' = bcache
    BY DEF begin_op, commit
  <2>2. bcache \in [Blocks -> CacheRec]
    BY DEF IInv, TypeOK, CacheRec
  <2>3. brelse(p) => bcache' = [bcache EXCEPT ![proc[p].buf].lock = NoProc]
    BY DEF brelse
  <2>4. log_write(p) => \/ bcache' = bcache
                        \/ bcache' = [bcache EXCEPT ![proc[p].buf].refcnt = @ + 1]
    BY DEF log_write
  <2> QED
    BY <2>1, <2>2, <2>3, <2>4, SMTT(30) DEF CacheRec
<1>3. \A q \in Procs : q # p => proc'[q] = proc[q]
  <2>1. proc \in [Procs -> ProcRec]
    BY DEF IInv, TypeOK, ProcRec
  <2> QED
    BY <2>1 DEF begin_op, commit, brelse, log_write, Goto
<1>4. \A c \in Blocks : Contents(c)' = Contents(c)
  BY <1>1, <1>2 DEF Contents, onDisk
<1> QED
  BY <1>1, <1>3, <1>4, SameStable, CallStep

LEMMA EndRefines ==
  ASSUME IInv, NEW p \in Procs, end_op(p) \/ end_op_done(p)
  PROVE  [AD!Next]_(AD!vars)
<1>1. UNCHANGED <<onDisk, bcache, boot>>
  BY DEF end_op, end_op_done
<1>2. \E l \in {"panic", "commit", "idle"} : Goto(p, l) \/ WakeupAndGoto(p, l)
  BY DEF end_op, end_op_done
<1>3. \A q \in Procs : q # p => (proc'[q].pc \in OpPCs <=> proc[q].pc \in OpPCs)
  <2>1. proc \in [Procs -> ProcRec] /\ "panic" \in PCs /\ "commit" \in PCs /\ "idle" \in PCs
    BY DEF IInv, TypeOK, ProcRec, PCs, CommitPCs
  <2>2. \A q \in Procs : q # p => \/ proc'[q].pc = proc[q].pc
                                  \/ proc[q].pc = "sleep" /\ proc'[q].pc = "begin"
    BY <1>2, <2>1, GotoProc, WakeupProc, SMTT(30)
  <2> QED
    BY <2>2 DEF OpPCs
<1>4. \A c \in Blocks : Contents(c)' = Contents(c)
  BY <1>1 DEF Contents, onDisk
<1> QED
  BY <1>1, <1>3, <1>4, SameStable, CallStep

LEMMA BreadRefines ==
  ASSUME IInv, NEW p \in Procs, NEW b \in Blocks, bread(p, b)
  PROVE  [AD!Next]_(AD!vars)
<1>1. /\ UNCHANGED <<onDisk, boot>>
      /\ bcache' = [bcache EXCEPT ![b].lock = p, ![b].data = Contents(b)]
  BY DEF bread
<1>2. bcache \in [Blocks -> CacheRec] /\ disk \in [Blocks -> Values] /\ NoBuf \notin Values
  BY LogAssumption DEF LogAssumption, IInv, TypeOK, CacheRec
<1>3. \A q \in Procs : q # p => proc'[q] = proc[q]
  <2>1. proc \in [Procs -> ProcRec]
    BY DEF IInv, TypeOK, ProcRec
  <2> QED
    BY <2>1 DEF bread
<1>4. \A c \in Blocks : Contents(c)' = Contents(c)
  <2>1. Contents(b) \in Values
    BY <1>2 DEF Contents, CacheRec
  <2>2. \A c \in Blocks : bcache'[c].data = IF c = b THEN Contents(b) ELSE bcache[c].data
    BY <1>1, <1>2 DEF CacheRec
  <2> QED
    BY <1>1, <1>2, <2>1, <2>2 DEF Contents, onDisk
<1> QED
  BY <1>1, <1>3, <1>4, SameStable, CallStep

LEMMA RecycleRefines ==
  ASSUME IInv, NEW b \in Blocks, recycle(b)
  PROVE  [AD!Next]_(AD!vars)
<1>1. UNCHANGED <<onDisk, proc, boot>> /\ boot = "up" /\ Unused(b) /\ bcache[b].data # NoBuf
  BY DEF recycle
<1>2. \A c \in Blocks : bcache'[c].data = IF c = b THEN NoBuf ELSE bcache[c].data
  BY DEF recycle, IInv, TypeOK
<1>3. bcache[b].data = disk[b]
  BY <1>1, UnusedClean
<1>4. \A c \in Blocks : Contents(c)' = Contents(c)
  BY <1>1, <1>2, <1>3 DEF Contents, onDisk
<1>5. Stable' = Stable /\ Current' = Current
  BY <1>1, <1>4, SameStable, SameRead
<1>6. Active' = Active
  BY <1>1 DEF Active
<1> QED
  BY <1>5, <1>6 DEF AD!vars

LEMMA ModifyRefines ==
  ASSUME IInv, NEW p \in Procs, NEW v \in Values, modify(p, v)
  PROVE  [AD!Next]_(AD!vars)
<1>1. PICK b \in Blocks : /\ boot = "up" /\ boot' = boot /\ UNCHANGED onDisk
                          /\ proc[p].pc = "held" /\ bcache' = [bcache EXCEPT ![b].data = v]
                          /\ proc' = [proc EXCEPT ![p].pc = "dirty", ![p].wrote = @ \cup {b}]
  BY DEF modify, At, IInv, Held, HoldPCs
<1>2. bcache \in [Blocks -> CacheRec] /\ NoBuf \notin Values
  BY LogAssumption DEF LogAssumption, IInv, TypeOK, CacheRec
<1>3. \A c \in Blocks : bcache'[c].data = IF c = b THEN v ELSE bcache[c].data
  BY <1>1, <1>2, CacheData, SMTT(30)
<1>4. p \in Active /\ Active' = Active
  <2>1. proc \in [Procs -> ProcRec]
    BY DEF IInv, TypeOK, ProcRec
  <2>2. \A q \in Procs : proc'[q].pc = IF q = p THEN "dirty" ELSE proc[q].pc
    BY <1>1, <2>1 DEF ProcRec
  <2> QED
    BY <1>1, <2>2 DEF Active, OpPCs
<1>5. Stable' = Stable
  BY <1>1, SameStable
<1>6. Current' = [Current EXCEPT ![b] = v]
  <2>1. Current = [c \in Blocks |-> Contents(c)] /\ Current' = [c \in Blocks |-> Contents(c)]'
    BY <1>1 DEF Current
  <2>2. \A c \in Blocks : Contents(c)' = IF c = b THEN v ELSE Contents(c)
    BY <1>1, <1>2, <1>3 DEF Contents, onDisk
  <2> QED
    BY <2>1, <2>2
<1>7. AD!Write(b, v)
  BY <1>4, <1>5, <1>6 DEF AD!Write
<1> QED
  BY <1>7 DEF AD!Next

\* Writing the log changes nothing a reboot would look at.
LEMMA WriteLogRefines ==
  ASSUME IInv, NEW p \in Procs, write_log(p)
  PROVE  [AD!Next]_(AD!vars)
<1>1. proc[p].pc = "write_log" /\ UNCHANGED <<disk, dhead, lh, boot>>
  BY DEF write_log, At, inLog
<1>2. /\ boot = "up" /\ \A q \in Procs : q # p => proc[q].pc \notin CommitPCs
  BY <1>1, CommitterAlone DEF CommitPCs
<1>3. dhead = <<>>
  <2>1. \A q \in Procs : proc[q].pc \notin {"install", "clear"}
    BY <1>1, <1>2 DEF CommitPCs
  <2> QED
    BY <1>2, <2>1 DEF IInv, Committed
<1>4. Stable' = Stable
  <2>1. TypeOK /\ TypeOK'
    BY WriteLogInv DEF IInv
  <2>2. Stable = disk
    BY <1>3, <2>1, StableDisk
  <2>3. Len(dhead') = 0 /\ Once(dhead)'
    BY <1>1, <1>3, SMTT(30) DEF Once
  <2>4. \A b \in Blocks : Stable'[b] = disk'[b]
    BY <2>3, StableNext, SMTT(30)
  <2> QED
    BY <1>1, <2>1, <2>2, <2>3, <2>4, StableNext, SMTT(30) DEF TypeOK
<1>5. \A c \in Blocks : Contents(c)' = Contents(c)
  <2>1. /\ bcache \in [Blocks -> CacheRec] /\ disk \in [Blocks -> Values] /\ NoBuf \notin Values
        /\ lh \in Seq(Blocks) /\ tail \in 1..(LOGSIZE + 1)
    BY LogAssumption DEF LogAssumption, IInv, TypeOK, CacheRec
  <2>2. CASE tail > Len(lh)
    BY <1>1, <2>2 DEF write_log, Contents
  <2>3. CASE ~(tail > Len(lh))
    <3>1. PICK b \in Blocks : bcache' = [bcache EXCEPT ![b].data = Contents(b)]
      <4>1. lh[tail] \in Blocks
        BY <2>1, <2>3, LogAssumption, SMTT(30) DEF LogAssumption
      <4> QED
        BY <2>3, <4>1 DEF write_log
    <3>2. Contents(b) \in Values
      BY <2>1 DEF Contents, CacheRec
    <3>3. \A c \in Blocks : bcache'[c].data = IF c = b THEN Contents(b) ELSE bcache[c].data
      BY <2>1, <3>1, <3>2, CacheData, SMTT(30)
    <3> QED
      BY <1>1, <2>1, <3>2, <3>3 DEF Contents
  <2> QED
    BY <2>2, <2>3
<1>6. \A q \in Procs : q # p => proc'[q] = proc[q]
  BY DEF write_log, Goto, IInv, TypeOK
<1> QED
  BY <1>1, <1>4, <1>5, <1>6, CallStep

\* Writing the header is the commit of the atomic disk.
LEMMA WriteHeadRefines ==
  ASSUME IInv, NEW p \in Procs, write_head(p)
  PROVE  [AD!Next]_(AD!vars)
<1>1. /\ proc[p].pc = "write_head" /\ dhead' = lh /\ Goto(p, "install")
      /\ UNCHANGED <<disk, dlog, bcache, boot>>
  BY DEF write_head, At
<1>2. /\ boot = "up" /\ \A q \in Procs : q # p => proc[q].pc \notin CommitPCs
      /\ \A q \in Procs : proc[q].pc \notin OpPCs \cup {"panic"}
  BY <1>1, CommitterAlone DEF CommitPCs
<1>3. Active = {} /\ Active' = {}
  <2>1. proc \in [Procs -> ProcRec] /\ "install" \in PCs
    BY DEF IInv, TypeOK, ProcRec, PCs, CommitPCs
  <2>2. \A q \in Procs : proc'[q].pc = IF q = p THEN "install" ELSE proc[q].pc
    BY <1>1, <2>1, GotoProc
  <2> QED
    BY <1>2, <2>2 DEF Active, OpPCs
<1>4. Pending = {lh[i] : i \in 1..Len(lh)}
  <2>1. Installed = 0
    BY <1>1, <1>2 DEF Installed, CommitPCs
  <2> QED
    BY <2>1, SMTT(30) DEF Pending
<1>5. \A b \in Blocks : (\A i \in 1..Len(lh) : lh[i] # b) => Contents(b) = disk[b]
  BY <1>2, <1>4 DEF IInv, Clean, Contents, OpPCs
<1>6. \A i \in 1..Len(lh) : dlog[i] = Contents(lh[i])
  BY <1>1, <1>2 DEF IInv, Committed
<1>7. \A b \in Blocks : Stable'[b] = Contents(b)
  <2>1. Once(dhead)'
    BY WriteHeadInv DEF IInv
  <2> QED
    BY <1>1, <1>5, <1>6, <2>1, StableNext, SMTT(30)
<1>8. Current = [b \in Blocks |-> Contents(b)] /\ Current' = Current
  <2>1. \A b \in Blocks : Contents(b)' = Contents(b)
    BY <1>1 DEF Contents
  <2>2. [b \in Blocks |-> Contents(b)]' = [b \in Blocks |-> Contents(b)]
    BY <2>1
  <2> QED
    BY <1>1, <1>2, <2>2 DEF Current
<1>9. Stable' = Current
  <2>1. Once(dhead)'
    BY WriteHeadInv DEF IInv
  <2> QED
    BY <1>7, <1>8, <2>1, StableNext
<1>10. AD!Commit
  BY <1>3, <1>8, <1>9 DEF AD!Commit
<1> QED
  BY <1>10 DEF AD!Next

\* Installing a committed block changes neither what a reboot brings back nor
\* what a read returns, when a process does it and when initlog does.
LEMMA InstallStable ==
  ASSUME Once(dhead), UNCHANGED <<dhead, dlog>>, disk \in [Blocks -> Values],
         NEW k \in 1..Len(dhead), dhead[k] \in Blocks,
         disk' = [disk EXCEPT ![dhead[k]] = dlog[k]]
  PROVE  Stable' = Stable
<1>1. Once(dhead)'
  BY DEF Once
<1>2. \A b \in Blocks : Stable'[b] = Stable[b]
  <2> SUFFICES ASSUME NEW b \in Blocks PROVE Stable'[b] = Stable[b]
    OBVIOUS
  <2>1. CASE \E i \in 1..Len(dhead) : dhead[i] = b
    BY <1>1, <2>1, StableNow, StableNext, SMTT(30)
  <2>2. CASE \A i \in 1..Len(dhead) : dhead[i] # b
    <3>1. disk'[b] = disk[b]
      BY <2>2
    <3> QED
      BY <1>1, <2>2, <3>1, StableNow, StableNext
  <2> QED
    BY <2>1, <2>2
<1> QED
  BY <1>1, <1>2, StableNow, StableNext

\* So does forgetting a transaction that is wholly installed.
LEMMA ClearStable ==
  ASSUME Once(dhead), dhead' = <<>>, disk' = disk, disk \in [Blocks -> Values],
         \A i \in 1..Len(dhead) : disk[dhead[i]] = dlog[i]
  PROVE  Stable' = Stable
<1>1. Once(dhead)' /\ Len(dhead') = 0
  BY SMTT(30) DEF Once
<1>2. \A b \in Blocks : Stable'[b] = disk[b]
  BY <1>1, StableNext, SMTT(30)
<1>3. \A b \in Blocks : Stable[b] = disk[b]
  <2> SUFFICES ASSUME NEW b \in Blocks PROVE Stable[b] = disk[b]
    OBVIOUS
  <2>1. CASE \E i \in 1..Len(dhead) : dhead[i] = b
    BY <2>1, StableNow
  <2>2. CASE \A i \in 1..Len(dhead) : dhead[i] # b
    BY <2>2, StableNow
  <2> QED
    BY <2>1, <2>2
<1> QED
  BY <1>1, <1>2, <1>3, StableNow, StableNext, SMTT(30)

LEMMA InstallRefines ==
  ASSUME IInv, NEW p \in Procs, install_trans(p)
  PROVE  [AD!Next]_(AD!vars)
<1>1. /\ proc[p].pc = "install" /\ UNCHANGED <<dhead, dlog, lh, boot>>
  BY DEF install_trans, At, inLog
<1>2. boot = "up" /\ dhead = lh /\ \A i \in 1..Len(lh) : dlog[i] = Contents(lh[i])
  <2>1. boot = "up"
    BY <1>1, CommitterAlone DEF CommitPCs
  <2> QED
    BY <1>1, <2>1 DEF IInv, Committed
<1>3. /\ bcache \in [Blocks -> CacheRec] /\ disk \in [Blocks -> Values] /\ NoBuf \notin Values
      /\ dlog \in [1..LOGSIZE -> Values] /\ Once(dhead)
      /\ Len(lh) \in Nat /\ Len(lh) <= LOGSIZE /\ \A i \in 1..Len(lh) : lh[i] \in Blocks
      /\ tail \in Nat /\ tail >= 1
  BY LogAssumption, SMTT(30) DEF LogAssumption, IInv, TypeOK, CacheRec
<1>4. \A q \in Procs : q # p => proc'[q] = proc[q]
  BY DEF install_trans, Goto, IInv, TypeOK
<1>5. CASE tail > Len(lh)
  <2>1. UNCHANGED <<disk, bcache>>
    BY <1>5 DEF install_trans
  <2>2. \A c \in Blocks : Contents(c)' = Contents(c)
    BY <2>1 DEF Contents
  <2> QED
    BY <1>1, <1>4, <2>1, <2>2, SameStable, CallStep DEF onDisk
<1>6. CASE ~(tail > Len(lh))
  <2>1. PICK k \in 1..Len(lh), b \in Blocks, v \in Values :
           /\ lh[k] = b /\ dlog[k] = v /\ disk' = [disk EXCEPT ![b] = v]
           /\ bcache' = [bcache EXCEPT ![b].data = v, ![b].refcnt = @ - 1]
    <3>1. tail \in 1..Len(lh) /\ lh[tail] \in Blocks /\ dlog[tail] \in Values
      BY <1>3, <1>6, LogAssumption, SMTT(30) DEF LogAssumption
    <3>2. /\ disk' = [disk EXCEPT ![lh[tail]] = dlog[tail]]
          /\ bcache' = [bcache EXCEPT ![lh[tail]].data = dlog[tail], ![lh[tail]].refcnt = @ - 1]
      BY <1>6 DEF install_trans, Install
    <3> QED
      BY <3>1, <3>2
  <2>2. Stable' = Stable
    BY <1>1, <1>2, <1>3, <2>1, InstallStable
  <2>3. \A c \in Blocks : bcache'[c].data = IF c = b THEN v ELSE bcache[c].data
    BY <1>3, <2>1 DEF CacheRec
  <2>4. \A c \in Blocks : disk'[c] = IF c = b THEN v ELSE disk[c]
    BY <1>3, <2>1
  <2>5. Contents(b) = v
    BY <1>2, <2>1
  <2>6. \A c \in Blocks : Contents(c)' = Contents(c)
    BY <1>3, <2>1, <2>3, <2>4, <2>5 DEF Contents
  <2> QED
    BY <1>1, <1>4, <2>2, <2>6, CallStep
<1> QED
  BY <1>5, <1>6

LEMMA ClearHeadRefines ==
  ASSUME IInv, NEW p \in Procs, clear_head(p)
  PROVE  [AD!Next]_(AD!vars)
<1>1. /\ proc[p].pc = "clear" /\ dhead' = <<>> /\ UNCHANGED <<disk, bcache, boot>>
  BY DEF clear_head, At
<1>2. dhead = lh /\ \A i \in 1..Len(lh) : disk[lh[i]] = dlog[i]
  <2>1. boot = "up"
    BY <1>1, CommitterAlone DEF CommitPCs
  <2> QED
    BY <1>1, <2>1 DEF IInv, Committed
<1>3. Stable' = Stable
  BY <1>1, <1>2, ClearStable DEF IInv, TypeOK
<1>4. \A c \in Blocks : Contents(c)' = Contents(c)
  BY <1>1 DEF Contents
<1>5. \A q \in Procs : q # p => proc'[q] = proc[q]
  BY DEF clear_head, Goto, IInv, TypeOK
<1> QED
  BY <1>1, <1>3, <1>4, <1>5, CallStep

\* Recovery changes nothing: the machine comes up with what the crash left.
LEMMA RecoverRefines ==
  ASSUME IInv, recover_from_log
  PROVE  [AD!Next]_(AD!vars)
<1>1. UNCHANGED proc /\ boot # "up"
  BY DEF recover_from_log, read_head, recover_install, recover_clear
<1>2. Active' = Active /\ Current = Stable
  BY <1>1 DEF Active, Current
<1>3. /\ disk \in [Blocks -> Values] /\ dlog \in [1..LOGSIZE -> Values] /\ Once(dhead)
      /\ Len(lh) \in Nat /\ Len(lh) <= LOGSIZE /\ \A i \in 1..Len(lh) : lh[i] \in Blocks
      /\ tail \in Nat /\ tail >= 1
  BY SMTT(30) DEF IInv, TypeOK
<1>4. CASE read_head
  <2>1. UNCHANGED onDisk /\ boot' # "up"
    BY <1>4 DEF read_head
  <2> QED
    BY <1>2, <2>1, SameStable DEF Current, AD!vars
<1>5. CASE recover_install
  <2>1. boot' # "up" /\ UNCHANGED <<dhead, dlog, lh>> /\ lh = dhead
    BY <1>5 DEF recover_install, inLog, IInv, Recovering
  <2>2. CASE tail > Len(lh)
    <3>1. UNCHANGED onDisk
      BY <1>5, <2>1, <2>2 DEF recover_install, onDisk
    <3> QED
      BY <1>2, <2>1, <3>1, SameStable DEF Current, AD!vars
  <2>3. CASE ~(tail > Len(lh))
    <3>1. tail \in 1..Len(dhead) /\ dhead[tail] \in Blocks
      BY <1>3, <2>1, <2>3, SMTT(30)
    <3>2. disk' = [disk EXCEPT ![dhead[tail]] = dlog[tail]]
      BY <1>5, <2>1, <2>3 DEF recover_install, Install
    <3>3. Stable' = Stable
      BY <1>3, <2>1, <3>1, <3>2, InstallStable
    <3> QED
      BY <1>2, <2>1, <3>3 DEF Current, AD!vars
  <2> QED
    BY <2>2, <2>3
<1>6. CASE recover_clear
  <2>1. boot = "clear" /\ dhead' = <<>> /\ boot' = "up" /\ UNCHANGED <<disk, bcache>>
    BY <1>6 DEF recover_clear
  <2>2. /\ lh = dhead /\ \A i \in 1..Len(lh) : disk[lh[i]] = dlog[i]
        /\ \A b \in Blocks : bcache[b].data \in {NoBuf, disk[b]}
    BY <2>1 DEF IInv, Recovering
  <2>3. Stable' = Stable
    BY <1>3, <2>1, <2>2, ClearStable
  <2>4. Durable'
    <3>1. IInv'
      BY <1>6, RecoverClearInv
    <3> QED
      BY <3>1, InvDurable, PTL
  <2>5. Current' = Stable'
    <3>1. ~committing' /\ outstanding' = 0
      BY <1>6, <2>1 DEF recover_clear, IInv, Recovering
    <3> QED
      BY <2>4, <3>1 DEF Durable
  <2> QED
    BY <1>2, <2>3, <2>5 DEF AD!vars
<1> QED
  BY <1>4, <1>5, <1>6 DEF recover_from_log

\* A power failure is the crash of the atomic disk.
LEMMA CrashRefines ==
  ASSUME IInv, crash
  PROVE  [AD!Next]_(AD!vars)
<1>1. UNCHANGED onDisk /\ boot' # "up" /\ proc' = IdleProcs
  BY DEF crash
<1>2. Active' = {}
  BY <1>1 DEF Active, IdleProcs, OpPCs
<1>3. Stable' = Stable /\ Current' = Stable
  BY <1>1, SameStable DEF Current
<1>4. AD!Crash
  BY <1>2, <1>3 DEF AD!Crash
<1> QED
  BY <1>4 DEF AD!Next

\* Switched on with mkfs' disk the machine is an atomic disk at rest.
LEMMA InitRefines == Init => AD!Init
<1> SUFFICES ASSUME Init PROVE AD!Init
  OBVIOUS
<1>1. TypeOK /\ dhead = <<>> /\ boot # "up" /\ proc = IdleProcs
  BY InitInv DEF Init, IInv
<1>2. Stable = disk /\ Current = Stable /\ disk \in [Blocks -> Values]
  BY <1>1, StableDisk DEF Current, TypeOK
<1>3. Active = {}
  BY <1>1 DEF Active, IdleProcs, OpPCs
<1> QED
  BY <1>2, <1>3 DEF AD!Init

\* Every step of the log is a step of the atomic disk or changes nothing of it.
LEMMA NextRefines ==
  ASSUME IInv, [Next]_vars
  PROVE  [AD!Next]_(AD!vars)
<1>1. CASE Next
  <2>1. ASSUME NEW p \in Procs, Step(p) PROVE [AD!Next]_(AD!vars)
    BY <2>1, BeginRefines, EndRefines, BreadRefines, ModifyRefines, WriteLogRefines,
       WriteHeadRefines, InstallRefines, ClearHeadRefines DEF Step
  <2> QED
    BY <1>1, <2>1, RecycleRefines, RecoverRefines, CrashRefines DEF Next
<1>2. CASE UNCHANGED vars
  <2>1. Stable' = Stable /\ Active' = Active /\ boot' = boot
    BY <1>2, SameStable DEF vars, onDisk, Active
  <2>2. \A c \in Blocks : Contents(c)' = Contents(c)
    BY <1>2 DEF vars, Contents
  <2> QED
    BY <2>1, <2>2, SameRead DEF AD!vars
<1> QED
  BY <1>1, <1>2

\* For any number of processes, blocks and log blocks and a crash at any step,
\* also during recovery: the log implements the atomic disk.  The calls that
\* were active together become durable together when the header is written,
\* or not at all, and nothing else a process or initlog does is visible.
THEOREM LogIsAtomic == Spec => Atomic
<1>1. Init => AD!Init
  BY InitRefines
<1>2. IInv /\ [Next]_vars => [AD!Next]_(AD!vars)
  BY NextRefines
<1> QED
  BY <1>1, <1>2, InvariantHolds, PTL DEF Spec, Atomic, AD!Spec

-----------------------------------------------------------------------------
(* log_write never panics.                                                 *)

\* The log blocks reserved for the active calls and not yet used by them.
Logged(p) == {b \in proc[p].wrote : \E i \in 1..Len(lh) : lh[i] = b}
Slots == {s \in Active \X (1..MAXOPBLOCKS) : s[2] > Cardinality(Logged(s[1]))}

Reserved ==
  /\ \A p \in Procs : /\ IsFiniteSet(proc[p].wrote)
                      /\ Cardinality(proc[p].wrote) <= OpBlocks
                      /\ proc[p].pc = "dirty" => proc[p].buf \in proc[p].wrote
  /\ ~committing /\ boot = "up" => Len(lh) + Cardinality(Slots) <= LOGSIZE

RInv == IInv /\ Reserved /\ NoLogPanic

\* The reserved blocks are finitely many, and at most MAXOPBLOCKS a call.
SlotsBound == /\ IsFiniteSet(Slots) /\ Cardinality(Slots) \in Nat
              /\ NoLogPanic => Cardinality(Slots) <= outstanding * MAXOPBLOCKS

LEMMA SlotsFinite == IInv => SlotsBound
<1> SUFFICES ASSUME IInv PROVE SlotsBound
  OBVIOUS
<1>1. Active \subseteq InCall /\ IsFiniteSet(InCall)
  BY DEF Active, InCall, IInv, Counted
<1>2. IsFiniteSet(Active)
  BY <1>1, FS_Subset
<1>3. IsFiniteSet(1..MAXOPBLOCKS) /\ Cardinality(1..MAXOPBLOCKS) = MAXOPBLOCKS
  BY LogAssumption, FS_Interval, SMTT(30) DEF LogAssumption
<1>4. /\ IsFiniteSet(Active \X (1..MAXOPBLOCKS))
      /\ Cardinality(Active \X (1..MAXOPBLOCKS)) = Cardinality(Active) * MAXOPBLOCKS
  BY <1>2, <1>3, FS_Product
<1>5. Slots \subseteq Active \X (1..MAXOPBLOCKS)
  BY DEF Slots
<1>6. IsFiniteSet(Slots) /\ Cardinality(Slots) <= Cardinality(Active) * MAXOPBLOCKS
  BY <1>4, <1>5, FS_Subset
<1>7. NoLogPanic => Active = InCall
  BY DEF NoLogPanic, Panicked, Active, InCall
<1>8. Cardinality(Slots) \in Nat
  BY <1>6, FS_CardinalityType
<1> QED
  BY <1>6, <1>7, <1>8 DEF IInv, Counted, SlotsBound

\* A step after which a call has used no less of its share takes no room.
LEMMA SlotsShrink ==
  ASSUME IInv, IInv', Active' \subseteq Active,
         \A q \in Active' : /\ Cardinality(Logged(q)) <= Cardinality(Logged(q))'
                            /\ Cardinality(Logged(q)) \in Nat /\ Cardinality(Logged(q))' \in Nat
  PROVE  Slots' \subseteq Slots /\ Cardinality(Slots') <= Cardinality(Slots)
<1>1. Slots' \subseteq Slots
  <2> SUFFICES ASSUME NEW s \in Slots' PROVE s \in Slots
    OBVIOUS
  <2>1. /\ s \in Active' \X (1..MAXOPBLOCKS) /\ s[1] \in Active' /\ s[2] \in 1..MAXOPBLOCKS
        /\ s[2] > Cardinality(Logged(s[1]))'
    BY DEF Slots
  <2>2. s[2] > Cardinality(Logged(s[1]))
    BY <2>1, LogAssumption, SMTT(30) DEF LogAssumption
  <2>3. s \in Active \X (1..MAXOPBLOCKS)
    BY <2>1
  <2> QED
    BY <2>2, <2>3 DEF Slots
<1> QED
  BY <1>1, SlotsFinite, FS_Subset DEF SlotsBound

\* What a call has written and logged is part of what it has written.
LEMMA LoggedFinite ==
  ASSUME Reserved, NEW p \in Procs
  PROVE  /\ IsFiniteSet(Logged(p)) /\ Cardinality(Logged(p)) \in Nat
         /\ Cardinality(Logged(p)) <= Cardinality(proc[p].wrote)
         /\ Cardinality(Logged(p)) <= OpBlocks
<1>1. Logged(p) \subseteq proc[p].wrote
  BY DEF Logged
<1>2. /\ IsFiniteSet(proc[p].wrote) /\ Cardinality(proc[p].wrote) <= OpBlocks
  BY DEF Reserved
<1>3. /\ IsFiniteSet(Logged(p)) /\ Cardinality(Logged(p)) <= Cardinality(proc[p].wrote)
  BY <1>1, <1>2, FS_Subset
<1>4. Cardinality(Logged(p)) \in Nat /\ Cardinality(proc[p].wrote) \in Nat
  BY <1>2, <1>3, FS_CardinalityType
<1> QED
  BY <1>2, <1>3, <1>4, LogAssumption, SMTT(30) DEF LogAssumption

\* An active call has at least MAXOPBLOCKS - OpBlocks blocks left, so the log
\* has that much room.
LEMMA RoomLeft ==
  ASSUME LogRoom, RInv, NEW p \in Active, ~committing, boot = "up"
  PROVE  Len(lh) < LOGSIZE /\ Len(lh) < NLOG - 1
<1> DEFINE T == {p} \X ((OpBlocks + 1)..MAXOPBLOCKS)
<1>1. p \in Procs
  BY DEF Active
<1>2. /\ OpBlocks \in Nat /\ MAXOPBLOCKS \in Nat /\ OpBlocks < MAXOPBLOCKS /\ LOGSIZE \in Nat /\ NLOG \in Nat
      /\ LOGSIZE - (MAXOPBLOCKS - OpBlocks) < NLOG - 1
  BY LogAssumption DEF LogAssumption, LogRoom
<1>3. T \subseteq Slots
  <2>1. Cardinality(Logged(p)) \in Nat /\ Cardinality(Logged(p)) <= OpBlocks
    BY <1>1, LoggedFinite DEF RInv
  <2>2. \A i \in (OpBlocks + 1)..MAXOPBLOCKS : i \in 1..MAXOPBLOCKS /\ i > Cardinality(Logged(p))
    BY <1>2, <2>1, SMTT(30)
  <2> QED
    BY <2>2 DEF Slots
<1>4. Cardinality(T) = MAXOPBLOCKS - OpBlocks
  <2>1. /\ IsFiniteSet((OpBlocks + 1)..MAXOPBLOCKS)
        /\ Cardinality((OpBlocks + 1)..MAXOPBLOCKS) = MAXOPBLOCKS - OpBlocks
    BY <1>2, FS_Interval, SMTT(30)
  <2>2. IsFiniteSet({p}) /\ Cardinality({p}) = 1
    BY FS_Singleton
  <2>3. Cardinality(T) = 1 * (MAXOPBLOCKS - OpBlocks)
    BY <2>1, <2>2, FS_Product, ZenonT(60)
  <2> QED
    BY <1>2, <2>3, SMTT(30)
<1>5. Cardinality(T) <= Cardinality(Slots) /\ Cardinality(Slots) \in Nat
  BY <1>3, SlotsFinite, FS_Subset DEF RInv, SlotsBound
<1>6. Len(lh) + Cardinality(Slots) <= LOGSIZE /\ Len(lh) \in Nat
  BY SMTT(30) DEF RInv, Reserved, IInv, TypeOK
<1> QED
  BY <1>2, <1>4, <1>5, <1>6, SMTT(30)

\* A step that neither starts a call nor records a block keeps the room.
LEMMA KeepReserved ==
  ASSUME RInv, IInv',
         \/ committing' \/ boot' # "up"
         \/ lh' = lh /\ ~committing /\ boot = "up",
         \A q \in Procs : /\ proc'[q].wrote = proc[q].wrote
                          /\ proc'[q].pc \in OpPCs => proc[q].pc \in OpPCs
                          /\ proc'[q].pc = "dirty" => proc[q].pc = "dirty" /\ proc'[q].buf = proc[q].buf
  PROVE  Reserved'
<1>1. \A q \in Procs : /\ IsFiniteSet(proc'[q].wrote)
                       /\ Cardinality(proc'[q].wrote) <= OpBlocks
                       /\ proc'[q].pc = "dirty" => proc'[q].buf \in proc'[q].wrote
  BY DEF RInv, Reserved
<1>2. ASSUME ~committing', boot' = "up" PROVE Len(lh') + Cardinality(Slots') <= LOGSIZE
  <2>1. lh' = lh /\ Len(lh) + Cardinality(Slots) <= LOGSIZE
    BY <1>2 DEF RInv, Reserved
  <2>2. Active' \subseteq Active /\ \A q \in Active' : q \in Procs
    BY DEF Active
  <2>3. \A q \in Procs : Logged(q)' = Logged(q)
    BY <2>1 DEF Logged
  <2>4. \A q \in Procs : Cardinality(Logged(q)) \in Nat /\ Cardinality(Logged(q))' = Cardinality(Logged(q))
    BY <2>3, LoggedFinite DEF RInv
  <2>5. Cardinality(Slots') <= Cardinality(Slots)
    BY <2>2, <2>4, SlotsShrink, SMTT(30) DEF RInv
  <2>6. /\ Cardinality(Slots') \in Nat /\ Cardinality(Slots) \in Nat
    <3>1. SlotsBound /\ SlotsBound'
      BY SlotsFinite, PTL DEF RInv
    <3> QED
      BY <3>1 DEF SlotsBound
  <2>7. Len(lh) \in Nat /\ LOGSIZE \in Nat
    BY LogAssumption, SMTT(30) DEF LogAssumption, RInv, IInv, TypeOK
  <2> QED
    BY <2>1, <2>5, <2>6, <2>7, SMTT(30)
<1> QED
  BY <1>1, <1>2 DEF Reserved

\* An empty log without calls has all its room.
LEMMA ResetReserved ==
  ASSUME lh' = <<>>,
         \A q \in Procs : /\ proc'[q].pc \notin OpPCs
                          /\ IsFiniteSet(proc'[q].wrote) /\ Cardinality(proc'[q].wrote) <= OpBlocks
  PROVE  Reserved'
<1>1. Active' = {}
  BY DEF Active
<1>2. Slots' = {}
  BY <1>1 DEF Slots
<1>3. Len(lh') = 0 /\ Cardinality(Slots') = 0
  BY <1>2, FS_EmptySet
<1> QED
  BY <1>3, LogAssumption, SMTT(30) DEF LogAssumption, Reserved, OpPCs

LEMMA BeginReserved ==
  ASSUME LogRoom, RInv, NEW p \in Procs, begin_op(p)
  PROVE  Reserved' /\ NoLogPanic'
<1>1. /\ boot = "up" /\ proc[p].pc \in {"idle", "begin"}
      /\ UNCHANGED <<lh, committing, boot>>
  BY DEF begin_op, At
<1>2. proc \in [Procs -> ProcRec] /\ IInv'
  BY BeginInv DEF RInv, IInv, TypeOK, ProcRec
<1>3. CASE committing \/ ~Fits
  <2>1. Goto(p, "sleep")
    BY <1>3 DEF begin_op
  <2>2. \A q \in Procs : /\ proc'[q].pc = IF q = p THEN "sleep" ELSE proc[q].pc
                         /\ proc'[q].buf = proc[q].buf /\ proc'[q].wrote = proc[q].wrote
    BY <1>2, <2>1, GotoProc DEF PCs
  <2>3. NoLogPanic'
    BY <2>2 DEF RInv, NoLogPanic, Panicked
  <2>4. \/ committing' \/ boot' # "up"
        \/ lh' = lh /\ ~committing /\ boot = "up"
    BY <1>1
  <2>5. Reserved'
    BY <1>2, <2>2, <2>4, KeepReserved DEF OpPCs
  <2> QED
    BY <2>3, <2>5
<1>4. CASE ~(committing \/ ~Fits)
  <2>1. /\ outstanding' = outstanding + 1
        /\ proc' = [proc EXCEPT ![p].pc = "op", ![p].wrote = {}, ![p].left = OpReads]
    BY <1>4 DEF begin_op
  <2>2. /\ \A q \in Procs : q # p => proc'[q] = proc[q]
        /\ proc'[p].pc = "op" /\ proc'[p].wrote = {}
    BY <1>2, <2>1 DEF ProcRec
  <2>3. NoLogPanic'
    BY <2>2 DEF RInv, NoLogPanic, Panicked
  <2>4. \A q \in Procs : /\ IsFiniteSet(proc'[q].wrote) /\ Cardinality(proc'[q].wrote) <= OpBlocks
                         /\ proc'[q].pc = "dirty" => proc'[q].buf \in proc'[q].wrote
    <3>1. IsFiniteSet({}) /\ Cardinality({}) <= OpBlocks
      BY FS_EmptySet, LogAssumption, SMTT(30) DEF LogAssumption
    <3> QED
      BY <2>2, <3>1 DEF RInv, Reserved
  <2>5. Len(lh') + Cardinality(Slots') <= LOGSIZE
    <3>1. SlotsBound'
      BY <1>2, SlotsFinite, PTL
    <3>2. Cardinality(Slots') \in Nat /\ Cardinality(Slots') <= (outstanding + 1) * MAXOPBLOCKS
      BY <2>1, <2>3, <3>1 DEF SlotsBound
    <3>3. Len(lh) + (outstanding + 1) * MAXOPBLOCKS <= LOGSIZE
      BY <1>4 DEF Fits
    <3>4. Len(lh) \in Nat /\ LOGSIZE \in Nat /\ (outstanding + 1) * MAXOPBLOCKS \in Nat
      BY LogAssumption, SMTT(30) DEF LogAssumption, RInv, IInv, TypeOK
    <3> QED
      BY <1>1, <3>2, <3>3, <3>4, SMTT(30)
  <2> QED
    BY <2>3, <2>4, <2>5 DEF Reserved
<1> QED
  BY <1>3, <1>4

LEMMA ModifyReserved ==
  ASSUME LogRoom, RInv, NEW p \in Procs, NEW v \in Values, modify(p, v)
  PROVE  Reserved' /\ NoLogPanic'
<1> DEFINE w == proc[p].wrote \cup {proc[p].buf}
<1>1. /\ proc[p].pc = "held" /\ Cardinality(w) <= OpBlocks /\ UNCHANGED <<lh, committing, boot>>
      /\ proc' = [proc EXCEPT ![p].pc = "dirty", ![p].wrote = w]
  BY DEF modify, At, inLog
<1>2. proc \in [Procs -> ProcRec] /\ IInv'
  BY ModifyInv DEF RInv, IInv, TypeOK, ProcRec
<1>3. /\ \A q \in Procs : q # p => proc'[q] = proc[q]
      /\ proc'[p].pc = "dirty" /\ proc'[p].wrote = w /\ proc'[p].buf = proc[p].buf
  BY <1>1, <1>2 DEF ProcRec
<1>4. IsFiniteSet(w)
  BY FS_AddElement DEF RInv, Reserved
<1>5. NoLogPanic'
  BY <1>3 DEF RInv, NoLogPanic, Panicked
<1>6. \A q \in Procs : /\ IsFiniteSet(proc'[q].wrote) /\ Cardinality(proc'[q].wrote) <= OpBlocks
                       /\ proc'[q].pc = "dirty" => proc'[q].buf \in proc'[q].wrote
  BY <1>1, <1>3, <1>4 DEF RInv, Reserved
<1>7. ASSUME ~committing', boot' = "up" PROVE Len(lh') + Cardinality(Slots') <= LOGSIZE
  <2>1. Len(lh) + Cardinality(Slots) <= LOGSIZE
    BY <1>1, <1>7 DEF RInv, Reserved
  <2>2. Active' = Active /\ \A q \in Active' : q \in Procs
    BY <1>1, <1>3 DEF Active, OpPCs
  <2>3. ASSUME NEW q \in Procs
        PROVE  /\ Cardinality(Logged(q)) <= Cardinality(Logged(q))'
               /\ Cardinality(Logged(q)) \in Nat /\ Cardinality(Logged(q))' \in Nat
    <3>1. Logged(q) \subseteq Logged(q)' /\ Logged(q)' \subseteq proc'[q].wrote
      BY <1>1, <1>3 DEF Logged
    <3>2. IsFiniteSet(Logged(q)')
      BY <1>6, <3>1, FS_Subset
    <3> QED
      BY <3>1, <3>2, FS_Subset, FS_CardinalityType
  <2>4. Cardinality(Slots') <= Cardinality(Slots)
    BY <1>2, <2>2, <2>3, SlotsShrink DEF RInv
  <2>5. /\ Cardinality(Slots') \in Nat /\ Cardinality(Slots) \in Nat
    <3>1. SlotsBound /\ SlotsBound'
      BY <1>2, SlotsFinite, PTL DEF RInv
    <3> QED
      BY <3>1 DEF SlotsBound
  <2>6. Len(lh) \in Nat /\ LOGSIZE \in Nat
    BY LogAssumption, SMTT(30) DEF LogAssumption, RInv, IInv, TypeOK
  <2> QED
    BY <1>1, <2>1, <2>4, <2>5, <2>6, SMTT(30)
<1> QED
  BY <1>5, <1>6, <1>7 DEF Reserved

LEMMA LogWriteReserved ==
  ASSUME LogRoom, RInv, NEW p \in Procs, log_write(p)
  PROVE  Reserved' /\ NoLogPanic'
<1> DEFINE b == proc[p].buf
<1>1. /\ boot = "up" /\ proc[p].pc = "dirty" /\ UNCHANGED <<committing, boot>>
  BY DEF log_write, At
<1>2. proc \in [Procs -> ProcRec] /\ IInv' /\ lh \in Seq(Blocks) /\ b \in Blocks
  BY <1>1, LogWriteInv DEF RInv, IInv, TypeOK, ProcRec, Held, HoldPCs
<1>3. p \in Active /\ p \in InCall
  BY <1>1 DEF Active, InCall, OpPCs
<1>4. outstanding >= 1 /\ outstanding \in Nat /\ ~committing
  BY <1>3, ActiveCounted, SMTT(30) DEF RInv, IInv, OneCommitter
<1>5. Len(lh) < LOGSIZE /\ Len(lh) < NLOG - 1 /\ Len(lh) \in Nat /\ NLOG \in Nat /\ LOGSIZE \in Nat
  BY <1>1, <1>2, <1>3, <1>4, RoomLeft, LogAssumption, SMTT(30) DEF LogAssumption
<1>6. ~(Len(lh) >= LOGSIZE \/ Len(lh) >= NLOG - 1 \/ outstanding < 1)
  BY <1>4, <1>5, SMTT(30)
<1>7. /\ Goto(p, "logged")
      /\ IF \E i \in 1..Len(lh) : lh[i] = b THEN lh' = lh ELSE lh' = Append(lh, b)
  BY <1>6 DEF log_write
<1>8. \A q \in Procs : /\ proc'[q].pc = IF q = p THEN "logged" ELSE proc[q].pc
                       /\ proc'[q].buf = proc[q].buf /\ proc'[q].wrote = proc[q].wrote
  BY <1>2, <1>7, GotoProc DEF PCs, OpPCs
<1>9. NoLogPanic'
  BY <1>8 DEF RInv, NoLogPanic, Panicked
<1>10. CASE lh' = lh
  <2>1. \/ committing' \/ boot' # "up"
        \/ lh' = lh /\ ~committing /\ boot = "up"
    BY <1>1, <1>4, <1>10
  <2>2. \A q \in Procs : /\ proc'[q].wrote = proc[q].wrote
                         /\ proc'[q].pc \in OpPCs => proc[q].pc \in OpPCs
                         /\ proc'[q].pc = "dirty" => proc[q].pc = "dirty" /\ proc'[q].buf = proc[q].buf
    BY <1>1, <1>8 DEF OpPCs
  <2> QED
    BY <1>2, <1>9, <2>1, <2>2, KeepReserved
<1>11. CASE lh' # lh
  <2>1. lh' = Append(lh, b) /\ \A i \in 1..Len(lh) : lh[i] # b
    BY <1>7, <1>11
  <2>2. /\ Len(lh') = Len(lh) + 1 /\ lh'[Len(lh) + 1] = b
        /\ \A i \in 1..Len(lh) : lh'[i] = lh[i]
    BY <1>2, <2>1, SMTT(30)
  <2>3. \A q \in Procs : Logged(q) \subseteq Logged(q)' /\ Logged(q)' \subseteq proc[q].wrote
    BY <1>5, <1>8, <2>2, SMTT(30) DEF Logged
  <2>4. b \in Logged(p)' /\ b \notin Logged(p)
    <3>1. b \in proc[p].wrote
      BY <1>1 DEF RInv, Reserved
    <3>2. Len(lh) + 1 \in 1..Len(lh')
      BY <1>5, <2>2, SMTT(30)
    <3>3. b \in {c \in proc'[p].wrote : \E i \in 1..Len(lh') : lh'[i] = c}
      BY <1>8, <2>2, <3>1, <3>2
    <3> QED
      BY <2>1, <3>3 DEF Logged
  <2>5. ASSUME NEW q \in Procs
        PROVE  /\ IsFiniteSet(Logged(q)) /\ IsFiniteSet(Logged(q)')
               /\ Cardinality(Logged(q)) <= Cardinality(Logged(q))'
               /\ Cardinality(Logged(q)) \in Nat /\ Cardinality(Logged(q))' \in Nat
               /\ Cardinality(Logged(q))' <= OpBlocks
    <3>1. IsFiniteSet(proc[q].wrote) /\ Cardinality(proc[q].wrote) <= OpBlocks /\ OpBlocks \in Nat
      BY LogAssumption DEF LogAssumption, RInv, Reserved
    <3>2. /\ IsFiniteSet(Logged(q)') /\ Cardinality(Logged(q)') <= Cardinality(proc[q].wrote)
      BY <2>3, <3>1, FS_Subset
    <3>3. IsFiniteSet(Logged(q)) /\ Cardinality(Logged(q)) <= Cardinality(Logged(q)')
      BY <2>3, <3>2, FS_Subset
    <3>4. /\ Cardinality(Logged(q)) \in Nat /\ Cardinality(Logged(q)') \in Nat
          /\ Cardinality(proc[q].wrote) \in Nat
      BY <3>1, <3>2, <3>3, FS_CardinalityType
    <3> QED
      BY <3>1, <3>2, <3>3, <3>4, SMTT(30)
  <2>6. Active' = Active /\ \A q \in Active' : q \in Procs
    BY <1>1, <1>8 DEF Active, OpPCs
  <2>7. Slots' \subseteq Slots
    BY <1>2, <2>5, <2>6, SlotsShrink DEF RInv
  <2> DEFINE n == Cardinality(Logged(p)) + 1
             s == <<p, n>>
  <2>8. n <= Cardinality(Logged(p)') /\ n \in 1..MAXOPBLOCKS
    <3>1. /\ Cardinality(Logged(p) \cup {b}) = Cardinality(Logged(p)) + 1
          /\ Logged(p) \cup {b} \subseteq Logged(p)'
      BY <2>3, <2>4, <2>5, FS_AddElement
    <3>2. Cardinality(Logged(p) \cup {b}) <= Cardinality(Logged(p)')
      BY <2>5, <3>1, FS_Subset
    <3> QED
      BY <2>5, <3>1, <3>2, LogAssumption, SMTT(30) DEF LogAssumption, LogRoom
  <2>9. s \in Slots /\ s \notin Slots'
    <3>1. s \in Active \X (1..MAXOPBLOCKS) /\ s[2] > Cardinality(Logged(s[1]))
      BY <1>3, <2>5, <2>8, SMTT(30)
    <3>2. s \in Slots
      BY <3>1 DEF Slots
    <3>3. ASSUME NEW t \in Slots', t[1] = p PROVE t[2] > Cardinality(Logged(p)')
      <4>1. t[2] > Cardinality(Logged(t[1])')
        BY DEF Slots
      <4> QED
        BY <3>3, <4>1 DEF Logged
    <3>4. ASSUME s \in Slots' PROVE FALSE
      <4> DEFINE m == Cardinality(Logged(p)')
      <4>1. n > m
        BY <3>3, <3>4
      <4>2. m \in Nat /\ n \in Nat /\ n <= m
        BY <2>5, <2>8, SMTT(30)
      <4> HIDE DEF n, m
      <4> QED
        BY <4>1, <4>2, SMTT(30)
    <3> QED
      BY <3>2, <3>4
  <2>10. Cardinality(Slots') <= Cardinality(Slots) - 1
    <3>1. IsFiniteSet(Slots) /\ Cardinality(Slots) \in Nat
      BY SlotsFinite DEF RInv, SlotsBound
    <3>2. IsFiniteSet(Slots \ {s}) /\ Cardinality(Slots \ {s}) = Cardinality(Slots) - 1
      BY <2>9, <3>1, FS_RemoveElement, SMTT(30)
    <3>3. Slots' \subseteq Slots \ {s}
      BY <2>7, <2>9
    <3> QED
      BY <3>2, <3>3, FS_Subset, SMTT(30)
  <2>11. Len(lh') + Cardinality(Slots') <= LOGSIZE
    <3>1. SlotsBound /\ SlotsBound'
      BY <1>2, SlotsFinite, PTL DEF RInv
    <3>2. Cardinality(Slots') \in Nat /\ Cardinality(Slots) \in Nat
      BY <3>1 DEF SlotsBound
    <3>3. Len(lh) + Cardinality(Slots) <= LOGSIZE
      BY <1>1, <1>4 DEF RInv, Reserved
    <3> QED
      BY <1>5, <2>2, <2>10, <3>2, <3>3, SMTT(30)
  <2>12. \A q \in Procs : /\ IsFiniteSet(proc'[q].wrote) /\ Cardinality(proc'[q].wrote) <= OpBlocks
                          /\ proc'[q].pc = "dirty" => proc'[q].buf \in proc'[q].wrote
    BY <1>8 DEF RInv, Reserved
  <2> QED
    BY <1>9, <2>11, <2>12 DEF Reserved
<1> QED
  BY <1>10, <1>11

LEMMA EndReserved ==
  ASSUME LogRoom, RInv, NEW p \in Procs, end_op(p)
  PROVE  Reserved' /\ NoLogPanic'
<1>1. boot = "up" /\ proc[p].pc = "op" /\ UNCHANGED <<lh, boot>>
  BY DEF end_op, At
<1>2. proc \in [Procs -> ProcRec] /\ IInv'
  BY EndOpInv DEF RInv, IInv, TypeOK, ProcRec
<1>3. ~committing
  <2>1. p \in InCall
    BY <1>1 DEF InCall, OpPCs
  <2> QED
    BY <2>1, ActiveCounted, SMTT(30) DEF RInv, IInv, OneCommitter
<1>4. \E l \in {"commit", "idle"} : Goto(p, l) \/ WakeupAndGoto(p, l)
  BY <1>3 DEF end_op
<1>5. \A q \in Procs : /\ proc'[q].wrote = proc[q].wrote /\ proc'[q].buf = proc[q].buf
                       /\ q # p => \/ proc'[q].pc = proc[q].pc
                                   \/ proc[q].pc = "sleep" /\ proc'[q].pc = "begin"
                       /\ q = p => proc'[q].pc \in {"commit", "idle"}
  <2>1. "commit" \in PCs /\ "idle" \in PCs
    BY DEF PCs, CommitPCs
  <2> QED
    BY <1>2, <1>4, <2>1, GotoProc, WakeupProc, SMTT(30)
<1>6. NoLogPanic'
  BY <1>5 DEF RInv, NoLogPanic, Panicked
<1>7. \A q \in Procs : /\ proc'[q].wrote = proc[q].wrote
                       /\ proc'[q].pc \in OpPCs => proc[q].pc \in OpPCs
                       /\ proc'[q].pc = "dirty" => proc[q].pc = "dirty" /\ proc'[q].buf = proc[q].buf
  BY <1>5 DEF OpPCs
<1> QED
  BY <1>1, <1>2, <1>3, <1>6, <1>7, KeepReserved

LEMMA DoneReserved ==
  ASSUME LogRoom, RInv, NEW p \in Procs, end_op_done(p)
  PROVE  Reserved' /\ NoLogPanic'
<1>1. proc[p].pc = "done" /\ UNCHANGED <<lh, boot>> /\ WakeupAndGoto(p, "idle")
  BY DEF end_op_done, At
<1>2. proc \in [Procs -> ProcRec]
  BY DEF RInv, IInv, TypeOK, ProcRec
<1>3. boot = "up" /\ \A q \in Procs : proc[q].pc \notin OpPCs
  BY <1>1, CommitterAlone DEF RInv, CommitPCs
<1>4. lh' = <<>>
  BY <1>1, <1>3 DEF RInv, IInv, Committed
<1>5. \A q \in Procs : /\ proc'[q].wrote = proc[q].wrote
                       /\ q # p => \/ proc'[q].pc = proc[q].pc
                                   \/ proc[q].pc = "sleep" /\ proc'[q].pc = "begin"
                       /\ q = p => proc'[q].pc = "idle"
  <2>1. "idle" \in PCs
    BY DEF PCs
  <2> QED
    BY <1>1, <1>2, <2>1, WakeupProc, SMTT(30)
<1>6. NoLogPanic'
  BY <1>5 DEF RInv, NoLogPanic, Panicked
<1>7. \A q \in Procs : /\ proc'[q].pc \notin OpPCs
                       /\ IsFiniteSet(proc'[q].wrote) /\ Cardinality(proc'[q].wrote) <= OpBlocks
  BY <1>3, <1>5 DEF OpPCs, RInv, Reserved
<1> QED
  BY <1>4, <1>6, <1>7, ResetReserved

\* The remaining steps of a process hold a buffer, or commit.
LEMMA OtherReserved ==
  ASSUME LogRoom, RInv, NEW p \in Procs,
         \/ \E b \in Blocks : bread(p, b)
         \/ brelse(p) \/ commit(p) \/ write_log(p) \/ write_head(p)
         \/ install_trans(p) \/ clear_head(p)
  PROVE  Reserved' /\ NoLogPanic'
<1>1. IInv'
  BY BreadInv, BrelseInv, CommitInv, WriteLogInv, WriteHeadInv, InstallInv, ClearHeadInv DEF RInv
<1>2. proc \in [Procs -> ProcRec]
  BY DEF RInv, IInv, TypeOK, ProcRec
<1>3. /\ \A q \in Procs : q # p => proc'[q] = proc[q]
      /\ proc'[p].wrote = proc[p].wrote
      /\ proc'[p].pc \in OpPCs => proc[p].pc \in OpPCs
      /\ proc'[p].pc \notin {"panic", "dirty"}
  <2>1. ASSUME NEW b \in Blocks, bread(p, b)
        PROVE  \/ proc' = [proc EXCEPT ![p].pc = "held", ![p].buf = b, ![p].left = @ - 1] /\ proc[p].pc = "op"
               \/ proc' = [proc EXCEPT ![p].pc = "read", ![p].buf = b]
    BY <2>1 DEF bread, At
  <2>2. CASE \E b \in Blocks : bread(p, b)
    <3>1. PICK b \in Blocks : bread(p, b)
      BY <2>2
    <3>2. CASE proc' = [proc EXCEPT ![p].pc = "held", ![p].buf = b, ![p].left = @ - 1] /\ proc[p].pc = "op"
      BY <1>2, <3>2 DEF ProcRec, OpPCs
    <3>3. CASE proc' = [proc EXCEPT ![p].pc = "read", ![p].buf = b]
      BY <1>2, <3>3 DEF ProcRec, OpPCs
    <3> QED
      BY <2>1, <3>1, <3>2, <3>3
  <2>3. CASE brelse(p)
    <3>1. /\ proc[p].pc \in {"held", "logged", "read"}
          /\ proc' = [proc EXCEPT ![p].buf = NoBlock, ![p].pc = IF @ = "read" THEN "idle" ELSE "op"]
      BY <2>3 DEF brelse, At
    <3> QED
      BY <1>2, <3>1 DEF ProcRec, OpPCs
  <2>4. CASE commit(p) \/ write_log(p) \/ write_head(p) \/ install_trans(p) \/ clear_head(p)
    <3>1. \/ \E l \in CommitPCs : Goto(p, l)
          \/ proc' = proc /\ proc[p].pc \in CommitPCs
      BY <2>4 DEF commit, write_log, write_head, install_trans, clear_head, At, CommitPCs
    <3>2. CASE proc' = proc /\ proc[p].pc \in CommitPCs
      BY <3>2 DEF CommitPCs
    <3>3. CASE \E l \in CommitPCs : Goto(p, l)
      BY <1>2, <3>3 DEF ProcRec, Goto, CommitPCs, OpPCs
    <3> QED
      BY <3>1, <3>2, <3>3
  <2> QED
    BY <2>2, <2>3, <2>4
<1>4. NoLogPanic'
  BY <1>3 DEF RInv, NoLogPanic, Panicked
<1>5. \/ committing' \/ boot' # "up"
      \/ lh' = lh /\ ~committing /\ boot = "up"
  <2>1. CASE (\E b \in Blocks : bread(p, b)) \/ brelse(p)
    <3>1. lh' = lh /\ boot = "up" /\ committing' = committing
      BY <2>1 DEF bread, brelse, At, inLog
    <3> QED
      BY <3>1
  <2>2. CASE commit(p) \/ write_log(p) \/ write_head(p) \/ install_trans(p) \/ clear_head(p)
    <3>1. committing' = committing /\ proc[p].pc \in CommitPCs
      BY <2>2 DEF commit, write_log, write_head, install_trans, clear_head, At, inLog, CommitPCs
    <3> QED
      BY <3>1, CommitterAlone DEF RInv
  <2> QED
    BY <2>1, <2>2
<1>6. \A q \in Procs : /\ proc'[q].wrote = proc[q].wrote
                       /\ proc'[q].pc \in OpPCs => proc[q].pc \in OpPCs
                       /\ proc'[q].pc = "dirty" => proc[q].pc = "dirty" /\ proc'[q].buf = proc[q].buf
  BY <1>3
<1> QED
  BY <1>1, <1>4, <1>5, <1>6, KeepReserved

\* Neither recycling nor a reboot touches the room.
LEMMA BootReserved ==
  ASSUME LogRoom, RInv, (\E b \in Blocks : recycle(b)) \/ recover_from_log \/ crash \/ UNCHANGED vars
  PROVE  Reserved' /\ NoLogPanic'
<1>1. IInv'
  BY RecycleInv, ReadHeadInv, RecoverInstallInv, RecoverClearInv, CrashInv, StepInv
  DEF RInv, recover_from_log
<1>2. CASE (\E b \in Blocks : recycle(b)) \/ UNCHANGED vars
  <2>1. UNCHANGED <<proc, lh, committing, boot>>
    BY <1>2 DEF recycle, inLog, vars
  <2>2. Active' = Active /\ Slots' = Slots
    BY <2>1 DEF Active, Slots, Logged
  <2> QED
    BY <2>1, <2>2 DEF RInv, NoLogPanic, Panicked, Reserved
<1>3. CASE recover_from_log
  <2>1. UNCHANGED proc /\ boot # "up"
    BY <1>3 DEF recover_from_log, read_head, recover_install, recover_clear
  <2>2. \A q \in Procs : proc[q].pc \notin OpPCs
    BY <2>1 DEF RInv, IInv, Recovering, OpPCs
  <2>3. boot' # "up" \/ lh' = <<>>
    BY <1>3 DEF recover_from_log, read_head, recover_install, recover_clear
  <2>4. CASE lh' = <<>>
    <3>1. \A q \in Procs : /\ proc'[q].pc \notin OpPCs
                           /\ IsFiniteSet(proc'[q].wrote) /\ Cardinality(proc'[q].wrote) <= OpBlocks
      BY <2>1, <2>2 DEF RInv, Reserved
    <3> QED
      BY <2>1, <2>4, <3>1, ResetReserved DEF RInv, NoLogPanic, Panicked
  <2>5. CASE boot' # "up"
    BY <2>1, <2>5 DEF RInv, NoLogPanic, Panicked, Reserved
  <2> QED
    BY <2>3, <2>4, <2>5
<1>4. CASE crash
  <2>1. lh' = <<>> /\ proc' = IdleProcs
    BY <1>4 DEF crash
  <2>2. IsFiniteSet({}) /\ Cardinality({}) <= OpBlocks
    BY FS_EmptySet, LogAssumption, SMTT(30) DEF LogAssumption
  <2>3. \A q \in Procs : proc'[q].pc = "idle" /\ proc'[q].wrote = {}
    BY <2>1 DEF IdleProcs
  <2>4. Reserved'
    BY <2>1, <2>2, <2>3, ResetReserved DEF OpPCs
  <2> QED
    BY <2>3, <2>4 DEF NoLogPanic, Panicked
<1> QED
  BY <1>2, <1>3, <1>4

LEMMA InitReserved == Init => RInv
<1> SUFFICES ASSUME Init PROVE RInv
  OBVIOUS
<1>1. \A q \in Procs : proc[q].pc = "idle" /\ proc[q].wrote = {}
  BY DEF Init, IdleProcs
<1>2. IsFiniteSet({}) /\ Cardinality({}) <= OpBlocks
  BY FS_EmptySet, LogAssumption, SMTT(30) DEF LogAssumption
<1>3. Reserved
  BY <1>1, <1>2 DEF Reserved, Init
<1>4. NoLogPanic
  BY <1>1 DEF NoLogPanic, Panicked
<1> QED
  BY <1>3, <1>4, InitInv DEF RInv

LEMMA StepReserved ==
  ASSUME LogRoom, RInv, [Next]_vars
  PROVE  RInv'
<1>1. IInv'
  BY StepInv DEF RInv
<1>2. ASSUME NEW p \in Procs, Step(p) PROVE Reserved' /\ NoLogPanic'
  BY <1>2, BeginReserved, ModifyReserved, LogWriteReserved, EndReserved, DoneReserved, OtherReserved
  DEF Step
<1>3. Reserved' /\ NoLogPanic'
  BY <1>2, BootReserved DEF Next
<1> QED
  BY <1>1, <1>3 DEF RInv

\* For any number of processes, any log size and any mix of calls that overlap:
\* when a call writes fewer than MAXOPBLOCKS blocks, neither "too big a
\* transaction" nor "log_write outside of trans" nor the panic of end_op is
\* reached, because the blocks in the log and the ones begin_op still holds
\* for the active calls never exceed LOGSIZE.
THEOREM NoLogPanicHolds ==
  ASSUME LogRoom
  PROVE  Spec => []NoLogPanic
<1>1. RInv /\ [Next]_vars => RInv'
  BY StepReserved
<1>2. RInv => NoLogPanic
  BY DEF RInv
<1> QED
  BY <1>1, <1>2, InitReserved, PTL DEF Spec
=============================================================================
