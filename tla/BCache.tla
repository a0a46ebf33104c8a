------------------------------- MODULE BCache -------------------------------
(***************************************************************************)
(* The buffer cache (kernel/bio.c) on top of the disk driver: NBUF buffers *)
(* shared by processes that read, modify, write, pin and release blocks    *)
(* the way log.c and fs.c do.  A step is what happens under bcache.lock,   *)
(* or between taking a buffer's sleep lock and giving it up.               *)
(***************************************************************************)
EXTENDS VirtioDisk

CONSTANT MaxPins    \* the most blocks the log keeps pinned

VARIABLES
  lru,      \* the list from head.next, the most recently released, on
  pins      \* the buffers the log has pinned

vars == <<diskVars, lru, pins>>

Init == DiskInit /\ lru = [n \in 1..NBUF |-> NBUF - n] /\ pins = {}

Goto(p, l) == proc' = [proc EXCEPT ![p].pc = l]
At(p, l) == proc[p].pc = l

\* Mutation of Unused: only the least recently used buffer is looked at.
Unused_tail(n) == n = NBUF /\ buf[lru[n]].refcnt = 0

\* The buffers of the list that bget may recycle.
Unused(n) == buf[lru[n]].refcnt = 0

Recycled(i, b) == [buf EXCEPT ![i].blockno = b, ![i].valid = FALSE, ![i].refcnt = 1]

\* The use NBUF is meant for: the blocks pinned and the processes that have a
\* buffer leave one for the process that asks.
Active == {p \in Procs : ~At(p, "idle")}
Room == Cardinality(pins) + Cardinality(Active) < NBUF

\* bget up to the release of bcache.lock: the buffer that caches b, or else
\* the least recently used one that is unused.
bget(p, b) ==
  /\ At(p, "idle") /\ Room
  /\ LET Hits == {i \in Bufs : buf[i].blockno = b}
         Idle == {n \in 1..NBUF : Unused(n)}
         Found(i) == proc' = [proc EXCEPT ![p].pc = "lock", ![p].blk = b, ![p].b = i] IN
       \/ \E i \in Hits : Found(i) /\ buf' = [buf EXCEPT ![i].refcnt = @ + 1] /\ UNCHANGED panic
       \/ /\ Hits = {}
          /\ \E n \in Idle : /\ \A m \in Idle : m <= n
                            /\ Found(lru[n]) /\ buf' = Recycled(lru[n], b) /\ UNCHANGED panic
       \/ /\ Hits = {} /\ Idle = {}
          /\ panic' = "bget: no buffers" /\ UNCHANGED <<buf, proc>>
  /\ UNCHANGED <<vdisk, vdisk_lock, lru, pins>>

\* acquiresleep of the buffer, and bread's look at valid.
bread(p) ==
  LET i == proc[p].b IN
  /\ At(p, "lock") /\ buf[i].lock = NoProc
  /\ buf' = [buf EXCEPT ![i].lock = p]
  /\ proc' = [proc EXCEPT ![p].pc = IF buf[i].valid THEN "have" ELSE "rw", ![p].write = FALSE]
  /\ UNCHANGED <<vdisk, vdisk_lock, panic, lru, pins>>

\* bwrite, of what write_log, write_head and install_trans put in the buffer.
bwrite(p, v) ==
  LET i == proc[p].b IN
  /\ At(p, "have")
  /\ panic' = IF buf[i].lock # p THEN "bwrite" ELSE panic
  /\ buf' = [buf EXCEPT ![i].data = v]
  /\ proc' = [proc EXCEPT ![p].pc = "rw", ![p].write = TRUE]
  /\ UNCHANGED <<vdisk, vdisk_lock, lru, pins>>

\* releasesleep.
brelse(p) ==
  LET i == proc[p].b IN
  /\ At(p, "have")
  /\ panic' = IF buf[i].lock # p THEN "brelse" ELSE panic
  /\ buf' = [buf EXCEPT ![i].lock = NoProc]
  /\ Goto(p, "put")
  /\ UNCHANGED <<vdisk, vdisk_lock, lru, pins>>

\* The list with buffer i unlinked and put behind the head.
ToFront(i) ==
  LET at == CHOOSE n \in 1..NBUF : lru[n] = i IN
  [n \in 1..NBUF |-> IF n = 1 THEN i ELSE IF n <= at THEN lru[n - 1] ELSE lru[n]]

\* Mutation of brelse_put: the reference is kept while others wait for the lock.
brelse_put_late(p) ==
  LET i == proc[p].b
      busy == buf[i].refcnt > 1 IN
  /\ At(p, "put")
  /\ buf' = [buf EXCEPT ![i].refcnt = IF busy THEN @ ELSE @ - 1]
  /\ lru' = IF busy THEN lru ELSE ToFront(i)
  /\ proc' = [proc EXCEPT ![p] = IdlePs[p]]
  /\ UNCHANGED <<vdisk, vdisk_lock, panic, pins>>

\* The rest of brelse, under bcache.lock.
brelse_put(p) ==
  LET i == proc[p].b
      last == buf[i].refcnt = 1 IN
  /\ At(p, "put")
  /\ buf' = [buf EXCEPT ![i].refcnt = @ - 1]
  /\ lru' = IF last THEN ToFront(i) ELSE lru
  /\ proc' = [proc EXCEPT ![p] = IdlePs[p]]
  /\ UNCHANGED <<vdisk, vdisk_lock, panic, pins>>

\* bpin: log_write keeps what its caller put in the buffer.
bpin(p, v) ==
  LET i == proc[p].b
      new == i \notin pins IN
  /\ At(p, "have") /\ (new => Cardinality(pins) < MaxPins)
  /\ buf' = [buf EXCEPT ![i].data = v, ![i].refcnt = IF new THEN @ + 1 ELSE @]
  /\ pins' = pins \cup {i}
  /\ UNCHANGED <<vdisk, vdisk_lock, panic, proc, lru>>

\* bunpin: install_trans has written the buffer.
bunpin(p) ==
  LET i == proc[p].b IN
  /\ At(p, "have") /\ i \in pins /\ buf[i].data = blocks[buf[i].blockno]
  /\ buf' = [buf EXCEPT ![i].refcnt = @ - 1]
  /\ pins' = pins \ {i}
  /\ UNCHANGED <<vdisk, vdisk_lock, panic, proc, lru>>

Step(p) ==
  \/ \E b \in Blocks : bget(p, b)
  \/ bread(p) \/ brelse(p) \/ brelse_put(p) \/ bunpin(p)
  \/ \E v \in Values : bwrite(p, v) \/ bpin(p, v)
  \/ RwStep(p) /\ UNCHANGED <<lru, pins>>

Next == /\ \/ \E p \in Procs : Step(p)
           \/ (DeviceStep \/ IntrStep) /\ UNCHANGED <<lru, pins>>
        /\ UNCHANGED NUM

Spec == Init /\ [][Next]_vars

(***************************************************************************)
(* Properties.                                                             *)
(***************************************************************************)
\* Every variable has its type; lru is a permutation of the buffers.
TypeOK ==
  /\ \A i \in Bufs : buf[i].refcnt \in Nat /\ buf[i].blockno \in Blocks \cup {NoBlock}
  /\ {lru[n] : n \in 1..NBUF} = Bufs /\ Len(lru) = NBUF
  /\ blocks \in [Blocks -> Values] /\ free \subseteq Descs /\ pins \subseteq Bufs
  /\ avail.idx \in 0..(IdxMod - 1) /\ used_idx \in 0..(IdxMod - 1)

\* The buffer that has the content of a block, if there is one.
Cached(b) == {i \in Bufs : buf[i].blockno = b /\ buf[i].valid}
Content ==
  [b \in Blocks |-> IF Cached(b) = {} THEN blocks[b] ELSE buf[CHOOSE i \in Cached(b) : TRUE].data]
Owner ==
  [b \in Blocks |-> IF Cached(b) = {} THEN NoProc ELSE buf[CHOOSE i \in Cached(b) : TRUE].lock]

BS == INSTANCE BlockStore WITH content <- Content, owner <- Owner

\* The cache, the driver and the device together are one exclusive copy of each
\* block: what a process finds in a block after bread is what the last holder
\* left there, through recycling, pinning, and transfers out of order.
CacheIsStore == BS!Spec

\* No panic of bio.c or virtio_disk.c happens: every buffer is in use only if
\* more blocks are pinned and held than there are buffers; bwrite and brelse
\* are called by the holder; no descriptor is freed twice.
NoDiskPanic == panic = "none"

\* A reference counts exactly the pin, the holder and the processes on their
\* way to or from the buffer, so a buffer somebody found is not recycled.
RefcntExact ==
  \A i \in Bufs : buf[i].refcnt =
    Cardinality({p \in Procs : proc[p].b = i}) + (IF i \in pins THEN 1 ELSE 0)

\* bget, bpin, bunpin and brelse keep the table of buffers sound: the counts are
\* exact and nothing panics.
BuffersExact == TypeOK /\ NoDiskPanic /\ RefcntExact
====
