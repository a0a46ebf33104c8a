----------------------------- MODULE VirtioDisk -----------------------------
(***************************************************************************)
(* The disk driver (kernel/virtio_disk.c) and the device it drives:        *)
(* processes queue chains of three descriptors in the avail ring, the      *)
(* device serves them in any order and reports in the used ring, and the   *)
(* interrupt handler wakes the processes.  A step is what happens under    *)
(* vdisk_lock between two points where the device or another process can   *)
(* see it; sleep gives the lock up and sleeps in one step (module Proc).   *)
(***************************************************************************)
EXTENDS Integers, Sequences, FiniteSets

CONSTANTS
  Procs, NoProc,
  Intr,             \* the interrupt handler, as a holder of vdisk_lock
  Blocks, NoBlock,
  Values,           \* contents of a block
  NBUF,
  Nums,             \* values of NUM, the number of descriptors
  Turns             \* 2^16 / NUM: the rounds after which a ring's uint16 index wraps

ASSUME DiskAssumption ==
  /\ IsFiniteSet(Procs) /\ NoProc \notin Procs /\ Intr # NoProc
  /\ NoBlock \notin Blocks
  /\ NBUF \in Nat \ {0} /\ Nums \subseteq Nat
  /\ Turns \in Nat \ {0} /\ \A n \in Nums : n >= 3

Bufs == 0..(NBUF - 1)
NoBuf == -1

VARIABLES
  NUM,      \* fixed from the start
  buf,      \* struct buf: block number, valid, refcnt, lock, disk, data
  blocks,   \* the medium: the contents of each block
  free,     \* the descriptors that are free
  desc,     \* struct virtq_desc: addr, next, and VRING_DESC_F_NEXT as "more"
  info,     \* info[] and ops[] of each chain head: b, status; type, sector
  avail, used,  \* the rings, ring and idx
  used_idx, \* how far the handler has looked in the used ring
  device,   \* how far it has looked in avail, the heads it works on, and
            \* whether an interrupt is pending
  vdisk_lock,  \* held by the handler, or by nobody between two steps
  panic,    \* the message of the panic, if one happened
  proc      \* where each process is; its block, its buffer, its chain

Descs == 0..(NUM - 1)

vdisk == <<free, desc, info, avail, used, used_idx, device, blocks>>
diskVars == <<NUM, vdisk, buf, vdisk_lock, panic, proc>>

NoDesc == [addr |-> 0, next |-> 0, more |-> FALSE]
NoInfo == [b |-> NoBuf, status |-> 0, type |-> "in", sector |-> NoBlock]
IdlePs == [p \in Procs |-> [pc |-> "idle", blk |-> NoBlock, b |-> NoBuf, write |-> FALSE, head |-> 0]]

\* virtio_disk_init, and the buffers as binit finds them.
DiskInit ==
  /\ NUM \in Nums
  /\ buf = [i \in Bufs |-> [blockno |-> NoBlock, valid |-> FALSE, refcnt |-> 0,
                            lock |-> NoProc, disk |-> FALSE, data |-> NoBlock]]
  /\ blocks \in [Blocks -> Values]
  /\ free = Descs
  /\ desc = [i \in Descs |-> NoDesc]
  /\ info = [i \in Descs |-> NoInfo]
  /\ avail = [ring |-> [i \in Descs |-> 0], idx |-> 0]
  /\ used = [ring |-> [i \in Descs |-> 0], idx |-> 0]
  /\ used_idx = 0
  /\ device = [seen |-> 0, taken |-> {}, irq |-> FALSE]
  /\ vdisk_lock = NoProc
  /\ panic = "none"
  /\ proc = IdlePs

IdxMod == Turns * NUM
Next16(n) == (n + 1) % IdxMod

\* wakeup(&disk.free[0]), by p, on the process records ps.
WakeDesc(p, ps) ==
  [q \in Procs |-> IF q # p /\ ps[q].pc = "dsleep" THEN [ps[q] EXCEPT !.pc = "dwoken"] ELSE ps[q]]

(***************************************************************************)
(* virtio_disk_rw.                                                         *)
(***************************************************************************)
\* Fewer than three descriptors are free: alloc3_desc gives back the ones it
\* got, each free_desc waking whoever sleeps for descriptors, and p sleeps.
rw_nodesc(p) ==
  /\ proc[p].pc \in {"rw", "dwoken"} /\ vdisk_lock = NoProc
  /\ Cardinality(free) < 3
  /\ LET ps == [proc EXCEPT ![p].pc = "dsleep"] IN
       proc' = IF free = {} THEN ps ELSE WakeDesc(p, ps)
  /\ UNCHANGED <<vdisk, buf, vdisk_lock, panic>>

\* Mutation of Publish: idx is advanced before it is used.
Publish_next(i) == [ring |-> [avail.ring EXCEPT ![Next16(avail.idx) % NUM] = i], idx |-> Next16(avail.idx)]

\* The head goes in the avail ring, and idx past it.
Publish(i) == [ring |-> [avail.ring EXCEPT ![avail.idx % NUM] = i], idx |-> Next16(avail.idx)]

\* The descriptors alloc3_desc finds: the first three that are free.
FirstFree(i, j, k) ==
  /\ {i, j, k} \subseteq free /\ i < j /\ j < k
  /\ \A d \in free : d < k => d \in {i, j}

\* Three descriptors are allocated and formatted, the chain is published, and p
\* sleeps until the disk no longer owns the buffer.
virtio_disk_rw(p) ==
  /\ proc[p].pc \in {"rw", "dwoken"} /\ vdisk_lock = NoProc
  /\ Cardinality(free) >= 3
  /\ \E i, j, k \in free :
       LET b == proc[p].b IN
       /\ FirstFree(i, j, k)
       /\ free' = free \ {i, j, k}
       /\ desc' = [desc EXCEPT ![i] = [addr |-> i, next |-> j, more |-> TRUE],
                               ![j] = [addr |-> b, next |-> k, more |-> TRUE],
                               ![k] = [addr |-> i, next |-> 0, more |-> FALSE]]
       /\ info' = [info EXCEPT ![i] = [b |-> b, status |-> 255, sector |-> buf[b].blockno,
                                       type |-> IF proc[p].write THEN "out" ELSE "in"]]
       /\ buf' = [buf EXCEPT ![b].disk = TRUE]
       /\ avail' = Publish(i)
       /\ proc' = [proc EXCEPT ![p].pc = "iosleep", ![p].head = i]
  /\ UNCHANGED <<used, used_idx, device, blocks, vdisk_lock, panic>>

\* The descriptors free_chain visits from i on: after a descriptor with
\* VRING_DESC_F_NEXT the one it names.  The chains of the driver have three,
\* so the walk is over after two steps (DescsPartition says so of each).
Follow(S) == S \cup {desc[d].next : d \in {e \in S : desc[e].more}}
Chain(i) == Follow(Follow({i}))

\* Mutation of free_chain: free_desc does not wake up.
free_chain_quiet(p, i) ==
  /\ free' = free \cup Chain(i)
  /\ desc' = [d \in Descs |-> IF d \in Chain(i) THEN NoDesc ELSE desc[d]]
  /\ panic' = IF Chain(i) \cap free # {} THEN "free_desc 2" ELSE panic
  /\ proc' = [proc EXCEPT ![p].pc = "have", ![p].head = 0, ![p].write = FALSE]

\* Mutation of free_chain: the last descriptor of the chain stays in use.
free_chain_leak(p, i) ==
  LET C == {i, desc[i].next} IN
  /\ free' = free \cup C
  /\ desc' = [d \in Descs |-> IF d \in C THEN NoDesc ELSE desc[d]]
  /\ panic' = IF C \cap free # {} THEN "free_desc 2" ELSE panic
  /\ proc' = WakeDesc(p, [proc EXCEPT ![p].pc = "have", ![p].head = 0, ![p].write = FALSE])

\* free_chain, with free_desc of each descriptor.
free_chain(p, i) ==
  /\ free' = free \cup Chain(i)
  /\ desc' = [d \in Descs |-> IF d \in Chain(i) THEN NoDesc ELSE desc[d]]
  /\ panic' = IF Chain(i) \cap free # {} THEN "free_desc 2" ELSE panic
  /\ proc' = WakeDesc(p, [proc EXCEPT ![p].pc = "have", ![p].head = 0, ![p].write = FALSE])

\* Mutation of rw_resume: b->disk is tested once, before the sleep.
rw_resume_once(p) ==
  /\ proc[p].pc = "iowoken" /\ vdisk_lock = NoProc
  /\ buf' = [buf EXCEPT ![proc[p].b].valid = TRUE]
  /\ info' = [info EXCEPT ![proc[p].head] = NoInfo]
  /\ free_chain(p, proc[p].head)
  /\ UNCHANGED <<avail, used, used_idx, device, blocks, vdisk_lock>>

\* Woken, p looks at b->disk: it sleeps again, or it gives the chain back and
\* returns, to bread (which sets valid) or to bwrite (where valid is set).
rw_resume(p) ==
  /\ proc[p].pc = "iowoken" /\ vdisk_lock = NoProc
  /\ IF buf[proc[p].b].disk
       THEN proc' = [proc EXCEPT ![p].pc = "iosleep"] /\ UNCHANGED <<buf, free, desc, info, panic>>
       ELSE /\ buf' = [buf EXCEPT ![proc[p].b].valid = TRUE]
            /\ info' = [info EXCEPT ![proc[p].head] = NoInfo]
            /\ free_chain(p, proc[p].head)
  /\ UNCHANGED <<avail, used, used_idx, device, blocks, vdisk_lock>>

\* kill wakes a process that sleeps, whatever it sleeps for.
kill(p) ==
  /\ proc[p].pc \in {"iosleep", "dsleep"}
  /\ proc' = [proc EXCEPT ![p].pc = IF @ = "iosleep" THEN "iowoken" ELSE "dwoken"]
  /\ UNCHANGED <<vdisk, buf, vdisk_lock, panic>>

(***************************************************************************)
(* The device.                                                             *)
(***************************************************************************)
\* It takes the next entry of the avail ring.  Nobody reads the entry again;
\* clearing it keeps states that differ in nothing else from being told apart.
dev_take ==
  /\ device.seen # avail.idx
  /\ LET n == device.seen % NUM IN
       /\ device' = [device EXCEPT !.seen = Next16(@), !.taken = @ \cup {avail.ring[n]}]
       /\ avail' = [avail EXCEPT !.ring[n] = 0]
  /\ UNCHANGED <<buf, free, desc, info, used, used_idx, blocks, vdisk_lock, panic, proc>>

\* It transfers the data of a request it has taken, writes the status and adds
\* the head of the chain to the used ring, with an interrupt.
dev_serve(i) ==
  /\ i \in device.taken
  /\ LET data == desc[desc[i].next]
         op == info[desc[i].addr]
         status == desc[data.next].addr IN
       /\ IF op.type = "in"
            THEN buf' = [buf EXCEPT ![data.addr].data = blocks[op.sector]] /\ UNCHANGED blocks
            ELSE blocks' = [blocks EXCEPT ![op.sector] = buf[data.addr].data] /\ UNCHANGED buf
       /\ info' = [info EXCEPT ![status].status = 0]
  /\ used' = [ring |-> [used.ring EXCEPT ![used.idx % NUM] = i], idx |-> Next16(used.idx)]
  /\ device' = [device EXCEPT !.taken = @ \ {i}, !.irq = TRUE]
  /\ UNCHANGED <<free, desc, avail, used_idx, vdisk_lock, panic, proc>>

(***************************************************************************)
(* virtio_disk_intr.                                                       *)
(***************************************************************************)
\* The lock is taken and the interrupt acknowledged.
virtio_disk_intr ==
  /\ device.irq /\ vdisk_lock = NoProc
  /\ vdisk_lock' = Intr
  /\ device' = [device EXCEPT !.irq = FALSE]
  /\ UNCHANGED <<buf, free, desc, info, avail, used, used_idx, blocks, panic, proc>>

\* One turn: the request of a used entry is over and its process woken.
intr_entry ==
  /\ vdisk_lock = Intr /\ used_idx # used.idx
  /\ LET n == used_idx % NUM
         id == used.ring[n]
         b == info[id].b IN
       /\ panic' = IF info[id].status # 0 THEN "virtio_disk_intr status" ELSE panic
       /\ buf' = [buf EXCEPT ![b].disk = FALSE]
       /\ proc' = [q \in Procs |-> IF proc[q].pc = "iosleep" /\ proc[q].b = b
                                     THEN [proc[q] EXCEPT !.pc = "iowoken"] ELSE proc[q]]
       /\ used' = [used EXCEPT !.ring[n] = 0]
  /\ used_idx' = Next16(used_idx)
  /\ UNCHANGED <<free, desc, info, avail, device, blocks, vdisk_lock>>

\* Mutation of intr_exit: the handler may leave before it has seen every entry.
intr_exit_early ==
  /\ vdisk_lock = Intr
  /\ vdisk_lock' = NoProc
  /\ UNCHANGED <<vdisk, buf, panic, proc>>

intr_exit ==
  /\ vdisk_lock = Intr /\ used_idx = used.idx
  /\ vdisk_lock' = NoProc
  /\ UNCHANGED <<vdisk, buf, panic, proc>>

DeviceStep == dev_take \/ (\E i \in Descs : dev_serve(i))
IntrStep == virtio_disk_intr \/ intr_entry \/ intr_exit
RwStep(p) == rw_nodesc(p) \/ virtio_disk_rw(p) \/ rw_resume(p) \/ kill(p)

(***************************************************************************)
(* Properties.                                                             *)
(***************************************************************************)
\* A completed request is never forgotten: while the used ring holds an entry
\* the handler has not seen, the handler is in its loop or an interrupt
\* is pending (virtio_disk_intr acknowledges before it looks).
CompletionSignalled ==
  used_idx # used.idx => vdisk_lock = Intr \/ device.irq

\* Nobody sleeps for descriptors that are there: with three of them free,
\* some process that was woken for them has yet to look (free_desc wakes).
DescWaitersWoken ==
  (\E p \in Procs : proc[p].pc = "dsleep") /\ Cardinality(free) >= 3 =>
    \E q \in Procs : proc[q].pc = "dwoken"

\* No wakeup of the driver is lost: neither that of a completed request, from the
\* device through virtio_disk_intr, nor that of free_desc.
DiskSleepers == CompletionSignalled /\ DescWaitersWoken

\* The chains of the requests under way and the free descriptors partition the
\* descriptors: none is lost and no two requests share one (alloc3_desc's roll
\* back and free_chain, however the requests complete).
DescsPartition ==
  LET Busy == {p \in Procs : proc[p].pc \in {"iosleep", "iowoken"}} IN
  /\ \A p \in Busy : LET C == Chain(proc[p].head) IN
       Cardinality(C) = 3 /\ Follow(C) = C /\ C \cap free = {}
  /\ Cardinality(free) + 3 * Cardinality(Busy) = NUM
  /\ \A p, q \in Busy : p # q => Chain(proc[p].head) \cap Chain(proc[q].head) = {}

Dist(from, to) == (to - from) % IdxMod
Window(ring, from, to) == {ring[(from + n) % NUM] : n \in 0..(Dist(from, to) - 1)}

\* A process that sleeps for its transfer is never left behind: the disk still
\* owns its buffer, and its chain is in the avail ring, with the device or in
\* the part of the used ring the handler has yet to look at.
RequestTracked ==
  \A p \in Procs : proc[p].pc = "iosleep" =>
    /\ buf[proc[p].b].disk /\ info[proc[p].head].b = proc[p].b
    /\ proc[p].head \in Window(avail.ring, device.seen, avail.idx)
                          \cup device.taken \cup Window(used.ring, used_idx, used.idx)

\* What virtio_disk_rw handed to the device is accounted for: every descriptor, and
\* every request somebody waits for.
RequestsExact == DescsPartition /\ RequestTracked
====
