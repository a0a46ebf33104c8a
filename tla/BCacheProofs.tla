---------------------------- MODULE BCacheProofs ----------------------------
(***************************************************************************)
(* Proofs about the buffer cache and the disk driver under it, modules     *)
(* BCache and VirtioDisk, for every number of processes, blocks, buffers   *)
(* and descriptors and wherever the rings' indices wrap: no panic and      *)
(* exact reference counts, no lost wakeup, no lost descriptor or request,  *)
(* and that all of it implements the store of module BlockStore.           *)
(***************************************************************************)
EXTENDS BCache, WrapLemmas

\* The prover of a leaf that names none.
USE ZenonT(20)

-----------------------------------------------------------------------------
(* The inductive invariant.                                                *)

\* From acquiresleep to releasesleep of the buffer; inside virtio_disk_rw; and
\* from the publication of the chain to its return.
InRw == {"rw", "dsleep", "dwoken", "iosleep", "iowoken"}
Holding == InRw \cup {"have"}
InIo == {"iosleep", "iowoken"}

Busy == {p \in Procs : proc[p].pc \in InIo}
Waiting == {p \in Busy : buf[proc[p].b].disk}

PCs == Holding \cup {"idle", "lock", "put"}
Idx == 0..(IdxMod - 1)
ProcRec == [pc : PCs, blk : Blocks \cup {NoBlock}, b : Bufs \cup {NoBuf}, write : BOOLEAN, head : Descs]
BufRec == [blockno : Blocks \cup {NoBlock}, valid : BOOLEAN, refcnt : Nat,
           lock : Procs \cup {NoProc}, disk : BOOLEAN, data : Values \cup {NoBlock}]
DescRec == [addr : Descs \cup Bufs, next : Descs, more : BOOLEAN]
InfoRec == [b : Bufs \cup {NoBuf}, status : {0, 255}, type : {"in", "out"}, sector : Blocks \cup {NoBlock}]
Ring == [ring : [Descs -> Descs], idx : Idx]

ProcTypes == proc \in [Procs -> ProcRec]
BufTypes == buf \in [Bufs -> BufRec] /\ blocks \in [Blocks -> Values]
DiskTypes ==
  /\ NUM \in Nat /\ NUM >= 3
  /\ free \subseteq Descs /\ desc \in [Descs -> DescRec] /\ info \in [Descs -> InfoRec]
  /\ avail \in Ring /\ used \in Ring /\ used_idx \in Idx
  /\ device \in [seen : Idx, taken : SUBSET Descs, irq : BOOLEAN]
  /\ vdisk_lock \in {NoProc, Intr}
TableTypes ==
  /\ pins \subseteq Bufs
  /\ lru \in [1..NBUF -> Bufs] /\ \A i \in Bufs : \E n \in 1..NBUF : lru[n] = i
Types == ProcTypes /\ BufTypes /\ DiskTypes /\ TableTypes

\* The table of buffers: a process refers to a buffer exactly while it has one, the
\* lock is held by the process that is between bread and brelse, and no two
\* buffers cache the same block.
Placed == \A p \in Procs : /\ proc[p].b \in Bufs <=> proc[p].pc # "idle"
                           /\ proc[p].b \in Bufs => buf[proc[p].b].blockno \in Blocks
Locked == \A i \in Bufs, p \in Procs : buf[i].lock = p <=> proc[p].b = i /\ proc[p].pc \in Holding
Single == \A i, j \in Bufs : i # j /\ buf[i].blockno = buf[j].blockno => buf[i].blockno = NoBlock
Table == Placed /\ Locked /\ Single /\ RefcntExact

\* What a buffer holds: it is valid from the end of the first transfer on, and then
\* differs from its block only while it is pinned or being written.
Written(i) == \E p \in Procs : proc[p].b = i /\ proc[p].pc \in InRw /\ proc[p].write
Same(i) == buf[i].data = blocks[buf[i].blockno]
Filled ==
  /\ \A p \in Procs : /\ proc[p].pc = "have" => buf[proc[p].b].valid
                      /\ proc[p].pc \in InRw => (buf[proc[p].b].valid <=> proc[p].write)
  /\ \A i \in pins : buf[i].valid
  /\ \A i \in Bufs : buf[i].valid =>
       /\ buf[i].blockno \in Blocks /\ buf[i].data \in Values
       /\ Same(i) \/ i \in pins \/ Written(i)

\* The chains of the requests under way.
Second(p) == desc[proc[p].head].next
Third(p) == desc[Second(p)].next
Trio(p) == {proc[p].head, Second(p), Third(p)}
Formed(p) ==
  LET h == proc[p].head
      b == proc[p].b IN
  /\ desc[h] = [addr |-> h, next |-> Second(p), more |-> TRUE]
  /\ desc[Second(p)] = [addr |-> b, next |-> Third(p), more |-> TRUE]
  /\ desc[Third(p)] = [addr |-> h, next |-> 0, more |-> FALSE]
  /\ h # Second(p) /\ h # Third(p) /\ Second(p) # Third(p)
  /\ info[h].b = b /\ info[h].sector = buf[b].blockno
  /\ info[h].type = IF proc[p].write THEN "out" ELSE "in"
Chains ==
  /\ \A p \in Busy : Formed(p) /\ Trio(p) \cap free = {}
  /\ \A p, q \in Busy : p # q => Trio(p) \cap Trio(q) = {}
  /\ Cardinality(free) + 3 * Cardinality(Busy) = NUM

\* The requests that wait are in one place each: in the part of the avail ring the
\* device has not looked at, with the device, or in the part of the used ring
\* the handler has not looked at, and those are served.
Once(ring, from, to) ==
  \A m, n \in 0..(Dist(from, to) - 1) : ring[(from + m) % NUM] = ring[(from + n) % NUM] => m = n
Asked == Window(avail.ring, device.seen, avail.idx)
Done == Window(used.ring, used_idx, used.idx)
Heads == {proc[p].head : p \in Waiting}
Queues ==
  /\ Once(avail.ring, device.seen, avail.idx) /\ Once(used.ring, used_idx, used.idx)
  /\ Asked \cap device.taken = {} /\ Asked \cap Done = {} /\ device.taken \cap Done = {}
  /\ Asked \cup device.taken \cup Done = Heads
Served ==
  /\ \A p \in Procs : proc[p].pc = "iosleep" => buf[proc[p].b].disk
  /\ \A p \in Busy : p \notin Waiting \/ proc[p].head \in Done => Same(proc[p].b)
  /\ \A i \in Done : info[i].status = 0

\* The wakeups; free_desc wakes all, so nobody sleeps while three are free.
Wakeups ==
  /\ CompletionSignalled
  /\ (\E p \in Procs : proc[p].pc = "dsleep") => Cardinality(free) < 3

IInv == Types /\ Table /\ Filled /\ Chains /\ Queues /\ Served /\ Wakeups /\ NoDiskPanic

-----------------------------------------------------------------------------
(* What the steps use of finite sets.  The facts are proved at the end of  *)
(* the module from FiniteSetTheorems, which is out of the way until then.  *)

FinType == \A S : IsFiniteSet(S) => Cardinality(S) \in Nat
FinEmpty == /\ IsFiniteSet({}) /\ Cardinality({}) = 0
            /\ \A S : IsFiniteSet(S) => (Cardinality(S) = 0 <=> S = {})
FinSubset == \A S : \A T \in SUBSET S :
               IsFiniteSet(S) => IsFiniteSet(T) /\ Cardinality(T) <= Cardinality(S)
FinAdd == \A S, x : IsFiniteSet(S) /\ x \notin S =>
            IsFiniteSet(S \cup {x}) /\ Cardinality(S \cup {x}) = Cardinality(S) + 1
FinRemove == \A S, x : IsFiniteSet(S) /\ x \in S =>
               IsFiniteSet(S \ {x}) /\ Cardinality(S \ {x}) = Cardinality(S) - 1
FinUnion == \A S, T : IsFiniteSet(S) /\ IsFiniteSet(T) =>
              /\ IsFiniteSet(S \cup T)
              /\ Cardinality(S \cup T) = Cardinality(S) + Cardinality(T) - Cardinality(S \cap T)
FinInterval == \A a, b \in Int :
                 IsFiniteSet(a..b) /\ Cardinality(a..b) = IF a > b THEN 0 ELSE b - a + 1
FinInjects == \A S, T : \A f \in [S -> T] :
                IsFiniteSet(T) /\ (\A x, y \in S : f[x] = f[y] => x = y) => Cardinality(S) <= Cardinality(T)
FinOnto == \A S, T : \A f \in [S -> T] :
             IsFiniteSet(S) /\ (\A y \in T : \E x \in S : f[x] = y) =>
               IsFiniteSet(T) /\ Cardinality(T) <= Cardinality(S)
FiniteFacts == /\ FinType /\ FinEmpty /\ FinSubset /\ FinAdd /\ FinRemove /\ FinUnion
               /\ FinInterval /\ FinInjects /\ FinOnto

-----------------------------------------------------------------------------
(* Facts of the state.                                                     *)

\* NUM is fixed, and with it all that depends on nothing else.
LEMMA NumSame ==
  ASSUME NUM' = NUM
  PROVE  /\ Descs' = Descs /\ Idx' = Idx
         /\ ProcRec' = ProcRec /\ DescRec' = DescRec /\ InfoRec' = InfoRec /\ Ring' = Ring
         /\ Asked' = Window(avail'.ring, device'.seen, avail'.idx)
         /\ Done' = Window(used'.ring, used_idx', used'.idx)
         /\ Once(avail.ring, device.seen, avail.idx)' <=> Once(avail'.ring, device'.seen, avail'.idx)
         /\ Once(used.ring, used_idx, used.idx)' <=> Once(used'.ring, used_idx', used'.idx)
<1>1. Descs' = Descs BY DEF Descs
<1>2. IdxMod' = IdxMod BY DEF IdxMod
<1>3. Idx' = Idx BY <1>2 DEF Idx
<1>4. ProcRec' = ProcRec /\ DescRec' = DescRec /\ InfoRec' = InfoRec /\ Ring' = Ring
  BY <1>1, <1>3 DEF ProcRec, DescRec, InfoRec, Ring
<1>5. Asked' = Window(avail'.ring, device'.seen, avail'.idx) BY <1>2 DEF Asked, Window, Dist
<1>6. Done' = Window(used'.ring, used_idx', used'.idx) BY <1>2 DEF Done, Window, Dist
<1>7. Once(avail.ring, device.seen, avail.idx)' <=> Once(avail'.ring, device'.seen, avail'.idx)
  BY <1>2 DEF Once, Dist
<1>8. Once(used.ring, used_idx, used.idx)' <=> Once(used'.ring, used_idx', used'.idx)
  BY <1>2 DEF Once, Dist
<1> QED BY <1>1, <1>3, <1>4, <1>5, <1>6, <1>7, <1>8

LEMMA UsersFinite ==
  ASSUME FiniteFacts, NEW i
  PROVE  IsFiniteSet({p \in Procs : proc[p].b = i})
<1>1. {p \in Procs : proc[p].b = i} \in SUBSET Procs OBVIOUS
<1> QED BY <1>1, DiskAssumption DEF FiniteFacts, FinSubset

\* A buffer without references is neither pinned nor on anybody's way.
LEMMA Unreferenced ==
  ASSUME FiniteFacts, IInv, NEW i \in Bufs, buf[i].refcnt = 0
  PROVE  i \notin pins /\ \A q \in Procs : proc[q].b # i
<1> DEFINE U == {q \in Procs : proc[q].b = i}
<1>1. IsFiniteSet(U) BY UsersFinite
<1>2. Cardinality(U) \in Nat BY <1>1 DEF FiniteFacts, FinType
<1>3. Cardinality(U) + (IF i \in pins THEN 1 ELSE 0) = 0 BY DEF IInv, Table, RefcntExact
<1>4. Cardinality(U) = 0 /\ i \notin pins BY <1>2, <1>3, SMT
<1>5. U = {} BY <1>1, <1>4 DEF FiniteFacts, FinEmpty
<1> QED BY <1>4, <1>5

\* The processes that have a buffer: a process in virtio_disk_rw has the lock of its own.
LEMMA Holds ==
  ASSUME ProcTypes, Table, NEW p \in Procs, proc[p].pc \in Holding
  PROVE  /\ proc[p].b \in Bufs /\ buf[proc[p].b].lock = p /\ buf[proc[p].b].blockno \in Blocks
         /\ \A q \in Procs : q # p /\ proc[q].pc \in Holding => proc[q].b # proc[p].b
<1>1. proc[p].pc # "idle" BY DEF Holding, InRw
<1>2. proc[p].b \in Bufs /\ buf[proc[p].b].blockno \in Blocks BY <1>1 DEF Table, Placed
<1>3. buf[proc[p].b].lock = p BY <1>2 DEF Table, Locked
<1> QED BY <1>2, <1>3 DEF Table, Locked

LEMMA PCSets ==
  /\ InIo \subseteq InRw /\ InRw \subseteq Holding /\ Holding \subseteq PCs
  /\ "have" \in Holding /\ "have" \notin InRw /\ "idle" \notin Holding /\ "lock" \notin Holding
  /\ "put" \notin Holding /\ {"rw", "dsleep", "dwoken"} \subseteq InRw \ InIo
  /\ {"idle", "lock", "put"} \subseteq PCs /\ "iosleep" \in InIo /\ "iowoken" \in InIo
  /\ "iosleep" # "iowoken" /\ "dsleep" # "dwoken"
BY DEF InIo, InRw, Holding, PCs

\* The process behind an entry of the rings.
LEMMA HeadHas ==
  ASSUME IInv, NEW i \in Heads
  PROVE  \E p \in Waiting : /\ proc[p].head = i /\ p \in Busy /\ p \in Procs /\ proc[p].b \in Bufs
                            /\ buf[proc[p].b].blockno \in Blocks /\ i \in Descs
                            /\ \A q \in Busy : q # p => proc[q].b # proc[p].b
<1>1. PICK p \in Waiting : proc[p].head = i BY DEF Heads
<1>2. p \in Busy /\ p \in Procs /\ proc[p].pc \in InIo BY DEF Waiting, Busy
<1>3. proc[p].pc \in Holding /\ \A q \in Busy : q \in Procs /\ proc[q].pc \in Holding BY <1>2, PCSets DEF Busy
<1>4. /\ proc[p].b \in Bufs /\ buf[proc[p].b].blockno \in Blocks
      /\ \A q \in Procs : q # p /\ proc[q].pc \in Holding => proc[q].b # proc[p].b
  BY <1>2, <1>3, Holds DEF IInv, Types
<1>5. i \in Descs BY <1>1, <1>2 DEF IInv, Types, ProcTypes, ProcRec
<1> QED BY <1>1, <1>2, <1>3, <1>4, <1>5

-----------------------------------------------------------------------------
(* A step of the cache is a step of the store or none.                     *)

\* What a block is: the valid buffer that caches it, which is the only one, or
\* else the medium.
LEMMA View ==
  ASSUME Single, NEW b \in Blocks
  PROVE  /\ \A i \in Bufs : buf[i].blockno = b /\ buf[i].valid => Content[b] = buf[i].data /\ Owner[b] = buf[i].lock
         /\ (\A i \in Bufs : ~(buf[i].blockno = b /\ buf[i].valid)) => Content[b] = blocks[b] /\ Owner[b] = NoProc
<1>1. b # NoBlock BY DiskAssumption
<1>2. /\ Content[b] = IF Cached(b) = {} THEN blocks[b] ELSE buf[CHOOSE i \in Cached(b) : TRUE].data
      /\ Owner[b] = IF Cached(b) = {} THEN NoProc ELSE buf[CHOOSE i \in Cached(b) : TRUE].lock
  BY DEF Content, Owner, Cached
<1>3. \A i \in Bufs : i \in Cached(b) <=> buf[i].blockno = b /\ buf[i].valid BY DEF Cached
<1>4. ASSUME NEW i \in Bufs, buf[i].blockno = b, buf[i].valid
      PROVE  Content[b] = buf[i].data /\ Owner[b] = buf[i].lock
  <2>1. i \in Cached(b) BY <1>3, <1>4
  <2>2. \A j \in Cached(b) : j = i BY <1>1, <1>4 DEF Cached, Single
  <2>3. (CHOOSE j \in Cached(b) : TRUE) \in Cached(b) BY <2>1
  <2>4. (CHOOSE j \in Cached(b) : TRUE) = i BY <2>2, <2>3
  <2> QED BY <1>2, <2>1, <2>4
<1>5. ASSUME \A i \in Bufs : ~(buf[i].blockno = b /\ buf[i].valid)
      PROVE  Content[b] = blocks[b] /\ Owner[b] = NoProc
  <2>1. Cached(b) = {} BY <1>5 DEF Cached
  <2> QED BY <1>2, <2>1
<1> QED BY <1>4, <1>5

LEMMA ViewNext ==
  ASSUME Single', NEW b \in Blocks
  PROVE  /\ \A i \in Bufs : buf'[i].blockno = b /\ buf'[i].valid => Content'[b] = buf'[i].data /\ Owner'[b] = buf'[i].lock
         /\ (\A i \in Bufs : ~(buf'[i].blockno = b /\ buf'[i].valid)) => Content'[b] = blocks'[b] /\ Owner'[b] = NoProc
<1> DEFINE C == {i \in Bufs : buf'[i].blockno = b /\ buf'[i].valid}
<1>1. b # NoBlock BY DiskAssumption
<1>2. /\ Content'[b] = IF C = {} THEN blocks'[b] ELSE buf'[CHOOSE i \in C : TRUE].data
      /\ Owner'[b] = IF C = {} THEN NoProc ELSE buf'[CHOOSE i \in C : TRUE].lock
  BY DEF Content, Owner, Cached
<1>3. \A i \in Bufs : i \in C <=> buf'[i].blockno = b /\ buf'[i].valid OBVIOUS
<1>4. ASSUME NEW i \in Bufs, buf'[i].blockno = b, buf'[i].valid
      PROVE  Content'[b] = buf'[i].data /\ Owner'[b] = buf'[i].lock
  <2>1. i \in C BY <1>3, <1>4
  <2>2. \A j \in C : j = i BY <1>1, <1>4 DEF Single
  <2>3. (CHOOSE j \in C : TRUE) \in C BY <2>1
  <2>4. (CHOOSE j \in C : TRUE) = i BY <2>2, <2>3
  <2> QED BY <1>2, <2>1, <2>4
<1>5. ASSUME \A i \in Bufs : ~(buf'[i].blockno = b /\ buf'[i].valid)
      PROVE  Content'[b] = blocks'[b] /\ Owner'[b] = NoProc
  <2>1. C = {} BY <1>5
  <2> QED BY <1>2, <2>1
<1> QED BY <1>4, <1>5

LEMMA ViewFunctions ==
  /\ Content = [b \in Blocks |-> Content[b]] /\ Owner = [b \in Blocks |-> Owner[b]]
  /\ Content' = [b \in Blocks |-> Content'[b]] /\ Owner' = [b \in Blocks |-> Owner'[b]]
<1>1. Content = [b \in Blocks |-> Content[b]] BY SMT DEF Content, Cached
<1>2. Owner = [b \in Blocks |-> Owner[b]] BY SMT DEF Owner, Cached
<1>3. Content' = [b \in Blocks |-> Content'[b]] BY SMT DEF Content, Cached
<1>4. Owner' = [b \in Blocks |-> Owner'[b]] BY SMT DEF Owner, Cached
<1> QED BY <1>1, <1>2, <1>3, <1>4

\* A block whose buffer keeps what counts, or that has none before and after.
LEMMA ViewKept ==
  ASSUME Single, Single', NEW b \in Blocks,
         \/ \E i \in Bufs : /\ buf[i].blockno = b /\ buf'[i].blockno = b /\ buf[i].valid /\ buf'[i].valid
                            /\ buf'[i].data = buf[i].data /\ buf'[i].lock = buf[i].lock
         \/ /\ \A i \in Bufs : ~(buf[i].blockno = b /\ buf[i].valid) /\ ~(buf'[i].blockno = b /\ buf'[i].valid)
            /\ blocks'[b] = blocks[b]
  PROVE  Content'[b] = Content[b] /\ Owner'[b] = Owner[b]
<1>1. CASE \E i \in Bufs : /\ buf[i].blockno = b /\ buf'[i].blockno = b /\ buf[i].valid /\ buf'[i].valid
                           /\ buf'[i].data = buf[i].data /\ buf'[i].lock = buf[i].lock
  <2>1. PICK i \in Bufs : /\ buf[i].blockno = b /\ buf'[i].blockno = b /\ buf[i].valid /\ buf'[i].valid
                          /\ buf'[i].data = buf[i].data /\ buf'[i].lock = buf[i].lock
    BY <1>1
  <2>2. Content[b] = buf[i].data /\ Owner[b] = buf[i].lock BY <2>1, View
  <2>3. Content'[b] = buf'[i].data /\ Owner'[b] = buf'[i].lock BY <2>1, ViewNext
  <2> QED BY <2>1, <2>2, <2>3
<1>2. CASE /\ \A i \in Bufs : ~(buf[i].blockno = b /\ buf[i].valid) /\ ~(buf'[i].blockno = b /\ buf'[i].valid)
           /\ blocks'[b] = blocks[b]
  <2>1. Content[b] = blocks[b] /\ Owner[b] = NoProc BY <1>2, View
  <2>2. Content'[b] = blocks'[b] /\ Owner'[b] = NoProc BY <1>2, ViewNext
  <2> QED BY <1>2, <2>1, <2>2
<1> QED BY <1>1, <1>2

\* A step that leaves the lock and the content of the valid buffers alone, and
\* writes only blocks that are cached, is invisible.
LEMMA Hidden ==
  ASSUME Single, Single',
         \A i \in Bufs : /\ buf'[i].valid = buf[i].valid /\ buf'[i].blockno = buf[i].blockno
                         /\ buf'[i].lock = buf[i].lock /\ (buf[i].valid => buf'[i].data = buf[i].data),
         \A b \in Blocks : \/ blocks'[b] = blocks[b]
                           \/ \E i \in Bufs : buf[i].blockno = b /\ buf[i].valid
  PROVE  Content' = Content /\ Owner' = Owner
<1>1. ASSUME NEW b \in Blocks PROVE Content'[b] = Content[b] /\ Owner'[b] = Owner[b]
  <2>1. CASE \E i \in Bufs : buf[i].blockno = b /\ buf[i].valid
    <3>1. PICK i \in Bufs : buf[i].blockno = b /\ buf[i].valid BY <2>1
    <3>2. /\ buf'[i].blockno = b /\ buf'[i].valid /\ buf'[i].data = buf[i].data /\ buf'[i].lock = buf[i].lock
      BY <3>1
    <3> QED BY <3>1, <3>2, ViewKept
  <2>2. CASE ~\E i \in Bufs : buf[i].blockno = b /\ buf[i].valid
    <3>1. \A i \in Bufs : ~(buf[i].blockno = b /\ buf[i].valid) /\ ~(buf'[i].blockno = b /\ buf'[i].valid)
      BY <2>2
    <3>2. blocks'[b] = blocks[b] BY <2>2
    <3> QED BY <3>1, <3>2, ViewKept
  <2> QED BY <2>1, <2>2
<1> QED BY <1>1, ViewFunctions

\* A step that changes one buffer concerns its block only.
LEMMA OneBlock ==
  ASSUME Single, Single', blocks' = blocks, NEW i \in Bufs, buf[i].blockno \in Blocks,
         buf'[i].blockno = buf[i].blockno, \A j \in Bufs : j # i => buf'[j] = buf[j]
  PROVE  LET k == buf[i].blockno IN
         /\ Content' = [Content EXCEPT ![k] = Content'[k]] /\ Owner' = [Owner EXCEPT ![k] = Owner'[k]]
         /\ buf[i].valid => Content[k] = buf[i].data /\ Owner[k] = buf[i].lock
         /\ ~buf[i].valid => Content[k] = blocks[k] /\ Owner[k] = NoProc
         /\ buf'[i].valid => Content'[k] = buf'[i].data /\ Owner'[k] = buf'[i].lock
         /\ ~buf'[i].valid => Content'[k] = blocks[k] /\ Owner'[k] = NoProc
<1> DEFINE k == buf[i].blockno
<1>1. k # NoBlock BY DiskAssumption
<1>2. \A j \in Bufs : j # i => buf[j].blockno # k /\ buf'[j].blockno # k BY <1>1 DEF Single
<1>3. ASSUME NEW b \in Blocks, b # k PROVE Content'[b] = Content[b] /\ Owner'[b] = Owner[b]
  <2>1. CASE \E j \in Bufs : buf[j].blockno = b /\ buf[j].valid
    <3>1. PICK j \in Bufs : buf[j].blockno = b /\ buf[j].valid BY <2>1
    <3>2. buf'[j] = buf[j] BY <1>3, <3>1
    <3> QED BY <3>1, <3>2, ViewKept
  <2>2. CASE ~\E j \in Bufs : buf[j].blockno = b /\ buf[j].valid
    <3>1. ASSUME NEW j \in Bufs
          PROVE  ~(buf[j].blockno = b /\ buf[j].valid) /\ ~(buf'[j].blockno = b /\ buf'[j].valid)
      BY <1>3, <2>2
    <3> QED BY <3>1, ViewKept
  <2> QED BY <2>1, <2>2
<1>4. /\ buf[i].valid => Content[k] = buf[i].data /\ Owner[k] = buf[i].lock
      /\ ~buf[i].valid => Content[k] = blocks[k] /\ Owner[k] = NoProc
  <2>1. CASE buf[i].valid
    <3>1. Content[k] = buf[i].data /\ Owner[k] = buf[i].lock BY <2>1, View
    <3> QED BY <2>1, <3>1
  <2>2. CASE ~buf[i].valid
    <3>1. \A j \in Bufs : ~(buf[j].blockno = k /\ buf[j].valid) BY <1>2, <2>2
    <3>2. Content[k] = blocks[k] /\ Owner[k] = NoProc BY <3>1, View
    <3> QED BY <2>2, <3>2
  <2> QED BY <2>1, <2>2
<1>5. /\ buf'[i].valid => Content'[k] = buf'[i].data /\ Owner'[k] = buf'[i].lock
      /\ ~buf'[i].valid => Content'[k] = blocks[k] /\ Owner'[k] = NoProc
  <2>1. CASE buf'[i].valid
    <3>1. buf'[i].blockno = k OBVIOUS
    <3>2. Content'[k] = buf'[i].data /\ Owner'[k] = buf'[i].lock BY <2>1, <3>1, ViewNext, SMT
    <3> QED BY <2>1, <3>2
  <2>2. CASE ~buf'[i].valid
    <3>1. \A j \in Bufs : ~(buf'[j].blockno = k /\ buf'[j].valid) BY <1>2, <2>2
    <3>2. Content'[k] = blocks'[k] /\ Owner'[k] = NoProc BY <3>1, ViewNext
    <3> QED BY <2>2, <3>2
  <2> QED BY <2>1, <2>2
<1> HIDE DEF k
<1>6. k \in Blocks BY DEF k
<1>7. /\ \A b \in Blocks : Content'[b] = [Content EXCEPT ![k] = Content'[k]][b]
      /\ \A b \in Blocks : Owner'[b] = [Owner EXCEPT ![k] = Owner'[k]][b]
  BY <1>3, <1>6, ViewFunctions
<1>8. /\ Content' = [Content EXCEPT ![k] = Content'[k]] /\ Owner' = [Owner EXCEPT ![k] = Owner'[k]]
  BY <1>3, <1>6, <1>7, ViewFunctions
<1> QED BY <1>4, <1>5, <1>8 DEF k

LEMMA OwnerStep ==
  ASSUME NEW k \in Blocks, Content' = [Content EXCEPT ![k] = Content'[k]],
         Owner' = [Owner EXCEPT ![k] = Owner'[k]], Content'[k] = Content[k],
         Owner[k] = NoProc \/ Owner'[k] = NoProc
  PROVE  [BS!Next]_(BS!vars)
<1>1. Content' = Content BY ViewFunctions
<1>2. CASE Owner'[k] = Owner[k]
  <2>1. Owner' = Owner BY <1>2, ViewFunctions
  <2> QED BY <1>1, <2>1 DEF BS!vars
<1>3. CASE Owner'[k] # Owner[k]
  <2>1. BS!Brelse(k) \/ BS!Bread(k, Owner'[k]) BY <1>3 DEF BS!Brelse, BS!Bread
  <2> QED BY <1>1, <1>3, <2>1 DEF BS!Next
<1> QED BY <1>2, <1>3

LEMMA ContentStep ==
  ASSUME NEW k \in Blocks, Content' = [Content EXCEPT ![k] = Content'[k]],
         Owner' = [Owner EXCEPT ![k] = Owner'[k]], Owner'[k] = Owner[k], Owner[k] # NoProc
  PROVE  [BS!Next]_(BS!vars)
<1>1. Owner' = Owner BY ViewFunctions
<1>2. CASE Content'[k] = Content[k]
  <2>1. Content' = Content BY <1>2, ViewFunctions
  <2> QED BY <1>1, <2>1 DEF BS!vars
<1>3. CASE Content'[k] # Content[k]
  <2>1. BS!Modify(k, Content'[k]) BY <1>3 DEF BS!Modify
  <2> QED BY <1>1, <1>3, <2>1 DEF BS!Next
<1> QED BY <1>2, <1>3

LEMMA HiddenStep == ASSUME Content' = Content, Owner' = Owner PROVE [BS!Next]_(BS!vars)
BY DEF BS!vars

\* bread and brelse change the owner, bwrite and bpin the content.
LEMMA HolderMaps ==
  ASSUME IInv, IInv', NEW p \in Procs, NEW v \in Values,
         bread(p) \/ brelse(p) \/ bwrite(p, v) \/ bpin(p, v)
  PROVE  [BS!Next]_(BS!vars)
<1> DEFINE i == proc[p].b
           k == buf[i].blockno
<1>1. Single /\ Single' BY DEF IInv, Table
<1>2. buf \in [Bufs -> BufRec] BY DEF IInv, Types, BufTypes
<1>3. proc[p].pc # "idle" BY DEF bread, brelse, bwrite, bpin, At
<1>4. i \in Bufs /\ k \in Blocks BY <1>3 DEF IInv, Table, Placed
<1>5. blocks' = blocks BY DEF bread, brelse, bwrite, bpin, vdisk
<1>6. p # NoProc BY DiskAssumption
<1>7. ASSUME proc[p].pc = "have" PROVE buf[i].valid /\ buf[i].lock = p
  <2>1. proc[p].pc \in Holding BY <1>7, PCSets
  <2>2. buf[i].valid BY <1>7 DEF IInv, Filled
  <2>3. buf[i].lock = p BY <2>1, Holds DEF IInv, Types
  <2> QED BY <2>2, <2>3
<1> HIDE DEF i
<1>8. CASE bread(p)
  <2>1. buf[i].lock = NoProc /\ buf' = [buf EXCEPT ![i].lock = p] BY <1>8 DEF bread, i
  <2>2. /\ \A j \in Bufs : j # i => buf'[j] = buf[j]
        /\ buf'[i].blockno = k /\ buf'[i].valid = buf[i].valid /\ buf'[i].data = buf[i].data
    BY <1>2, <1>4, <2>1 DEF BufRec
  <2> HIDE DEF k
  <2>3. /\ Content' = [Content EXCEPT ![k] = Content'[k]] /\ Owner' = [Owner EXCEPT ![k] = Owner'[k]]
        /\ buf[i].valid => Content[k] = buf[i].data /\ Owner[k] = buf[i].lock
        /\ ~buf[i].valid => Content[k] = blocks[k] /\ Owner[k] = NoProc
        /\ buf'[i].valid => Content'[k] = buf'[i].data /\ Owner'[k] = buf'[i].lock
        /\ ~buf'[i].valid => Content'[k] = blocks[k] /\ Owner'[k] = NoProc
    BY <1>1, <1>4, <1>5, <2>2, OneBlock DEF k
  <2>4. Content'[k] = Content[k] /\ Owner[k] = NoProc BY <2>1, <2>2, <2>3
  <2> QED BY <1>4, <2>3, <2>4, OwnerStep
<1>9. CASE brelse(p)
  <2>1. buf' = [buf EXCEPT ![i].lock = NoProc] BY <1>9 DEF brelse, i
  <2>2. /\ \A j \in Bufs : j # i => buf'[j] = buf[j]
        /\ buf'[i].blockno = k /\ buf'[i].valid = buf[i].valid /\ buf'[i].data = buf[i].data
        /\ buf'[i].lock = NoProc
    BY <1>2, <1>4, <2>1 DEF BufRec
  <2> HIDE DEF k
  <2>3. /\ Content' = [Content EXCEPT ![k] = Content'[k]] /\ Owner' = [Owner EXCEPT ![k] = Owner'[k]]
        /\ buf[i].valid => Content[k] = buf[i].data /\ Owner[k] = buf[i].lock
        /\ buf'[i].valid => Content'[k] = buf'[i].data /\ Owner'[k] = buf'[i].lock
    BY <1>1, <1>4, <1>5, <2>2, OneBlock DEF k
  <2>4. buf[i].valid BY <1>7, <1>9 DEF brelse, At
  <2>5. Content'[k] = Content[k] /\ Owner'[k] = NoProc BY <2>2, <2>3, <2>4
  <2> QED BY <1>4, <2>3, <2>5, OwnerStep
<1>10. CASE bwrite(p, v) \/ bpin(p, v)
  <2>1. /\ proc[p].pc = "have"
        /\ \/ buf' = [buf EXCEPT ![i].data = v]
           \/ buf' = [buf EXCEPT ![i].data = v, ![i].refcnt = IF i \notin pins THEN @ + 1 ELSE @]
    BY <1>10 DEF bwrite, bpin, i, At
  <2>2. /\ \A j \in Bufs : j # i => buf'[j] = buf[j]
        /\ buf'[i].blockno = k /\ buf'[i].valid = buf[i].valid /\ buf'[i].lock = buf[i].lock
    <3>1. CASE buf' = [buf EXCEPT ![i].data = v] BY <1>2, <1>4, <3>1 DEF BufRec
    <3>2. CASE buf' = [buf EXCEPT ![i].data = v, ![i].refcnt = IF i \notin pins THEN @ + 1 ELSE @]
      BY <1>2, <1>4, <3>2 DEF BufRec
    <3> QED BY <2>1, <3>1, <3>2
  <2> HIDE DEF k
  <2>3. /\ Content' = [Content EXCEPT ![k] = Content'[k]] /\ Owner' = [Owner EXCEPT ![k] = Owner'[k]]
        /\ buf[i].valid => Content[k] = buf[i].data /\ Owner[k] = buf[i].lock
        /\ buf'[i].valid => Content'[k] = buf'[i].data /\ Owner'[k] = buf'[i].lock
    BY <1>1, <1>4, <1>5, <2>2, OneBlock DEF k
  <2>4. buf[i].valid /\ buf[i].lock = p BY <1>7, <2>1
  <2>5. Owner'[k] = Owner[k] /\ Owner[k] # NoProc BY <1>6, <2>2, <2>3, <2>4
  <2> QED BY <1>4, <2>3, <2>5, ContentStep
<1> QED BY <1>8, <1>9, <1>10

\* The buffer bget recycles holds what its block holds, and nobody has it.
LEMMA BgetMaps ==
  ASSUME FiniteFacts, IInv, IInv', NEW p \in Procs, NEW b \in Blocks, bget(p, b)
  PROVE  [BS!Next]_(BS!vars)
<1>1. Single /\ Single' BY DEF IInv, Table
<1>2. buf \in [Bufs -> BufRec] BY DEF IInv, Types, BufTypes
<1>3. blocks' = blocks BY DEF bget, vdisk
<1>4. ASSUME NEW i \in Bufs, buf' = [buf EXCEPT ![i].refcnt = @ + 1] PROVE [BS!Next]_(BS!vars)
  <2>1. \A j \in Bufs : /\ buf'[j].valid = buf[j].valid /\ buf'[j].blockno = buf[j].blockno
                        /\ buf'[j].lock = buf[j].lock /\ buf'[j].data = buf[j].data
    BY <1>2, <1>4 DEF BufRec
  <2>2. Content' = Content /\ Owner' = Owner BY <1>1, <1>3, <2>1, Hidden
  <2> QED BY <2>2, HiddenStep
<1>5. ASSUME NEW i \in Bufs, buf[i].refcnt = 0, \A j \in Bufs : buf[j].blockno # b, buf' = Recycled(i, b)
      PROVE  [BS!Next]_(BS!vars)
  <2>1. i \notin pins /\ \A q \in Procs : proc[q].b # i BY <1>5, Unreferenced
  <2>2. buf[i].lock = NoProc
    <3>1. buf[i].lock \in Procs \cup {NoProc} BY <1>2 DEF BufRec
    <3>2. ASSUME NEW q \in Procs PROVE buf[i].lock # q BY <2>1, SMT DEF IInv, Table, Locked
    <3> QED BY <3>1, <3>2
  <2>3. buf[i].valid => Same(i) BY <2>1 DEF IInv, Filled, Written
  <2>4. /\ \A j \in Bufs : j # i => buf'[j] = buf[j]
        /\ buf'[i].blockno = b /\ buf'[i].valid = FALSE
    BY <1>2, <1>5 DEF BufRec, Recycled
  <2>5. ASSUME NEW k \in Blocks PROVE Content'[k] = Content[k] /\ Owner'[k] = Owner[k]
    <3>1. CASE buf[i].blockno = k /\ buf[i].valid
      <4>1. Content[k] = buf[i].data /\ Owner[k] = buf[i].lock BY <1>1, <3>1, View
      <4>2. k # NoBlock BY DiskAssumption
      <4>3. \A j \in Bufs : j # i => buf[j].blockno # k BY <1>1, <3>1, <4>2 DEF Single
      <4>4. \A j \in Bufs : ~(buf'[j].blockno = k /\ buf'[j].valid) BY <2>4, <4>3
      <4>5. Content'[k] = blocks'[k] /\ Owner'[k] = NoProc BY <1>1, <4>4, ViewNext
      <4> QED BY <1>3, <2>2, <2>3, <3>1, <4>1, <4>5 DEF Same
    <3>2. CASE ~(buf[i].blockno = k /\ buf[i].valid)
      <4>1. CASE \E j \in Bufs : buf[j].blockno = k /\ buf[j].valid
        <5>1. PICK j \in Bufs : buf[j].blockno = k /\ buf[j].valid BY <4>1
        <5>2. buf'[j] = buf[j] BY <2>4, <3>2, <5>1
        <5> QED BY <1>1, <5>1, <5>2, ViewKept
      <4>2. CASE ~\E j \in Bufs : buf[j].blockno = k /\ buf[j].valid
        <5>1. ASSUME NEW j \in Bufs
              PROVE  ~(buf[j].blockno = k /\ buf[j].valid) /\ ~(buf'[j].blockno = k /\ buf'[j].valid)
          BY <2>4, <4>2
        <5> QED BY <1>1, <1>3, <5>1, ViewKept
      <4> QED BY <4>1, <4>2
    <3> QED BY <3>1, <3>2
  <2>6. Content' = Content /\ Owner' = Owner BY <2>5, ViewFunctions
  <2> QED BY <2>6, HiddenStep
<1>6. CASE buf' = buf
  <2>1. \A j \in Bufs : /\ buf'[j].valid = buf[j].valid /\ buf'[j].blockno = buf[j].blockno
                        /\ buf'[j].lock = buf[j].lock /\ buf'[j].data = buf[j].data
    BY <1>6
  <2>2. Content' = Content /\ Owner' = Owner BY <1>1, <1>3, <2>1, Hidden
  <2> QED BY <2>2, HiddenStep
<1>7. \A n \in 1..NBUF : lru[n] \in Bufs BY DEF IInv, Types, TableTypes
<1>8. \/ \E i \in Bufs : buf' = [buf EXCEPT ![i].refcnt = @ + 1]
      \/ \E i \in Bufs : buf[i].refcnt = 0 /\ (\A j \in Bufs : buf[j].blockno # b) /\ buf' = Recycled(i, b)
      \/ buf' = buf
  BY <1>7 DEF bget, Unused
<1> QED BY <1>4, <1>5, <1>6, <1>8

\* The end of a read takes the block; the end of a write is not seen.
LEMMA ResumeMaps ==
  ASSUME IInv, IInv', NEW p \in Procs, rw_resume(p)
  PROVE  [BS!Next]_(BS!vars)
<1> DEFINE i == proc[p].b
           k == buf[i].blockno
<1>1. Single /\ Single' BY DEF IInv, Table
<1>2. buf \in [Bufs -> BufRec] BY DEF IInv, Types, BufTypes
<1>3. proc[p].pc = "iowoken" /\ blocks' = blocks BY DEF rw_resume
<1>4. proc[p].pc \in InIo /\ proc[p].pc \in Holding /\ p \in Busy BY <1>3, PCSets DEF Busy
<1>5. i \in Bufs /\ k \in Blocks /\ buf[i].lock = p BY <1>4, Holds DEF IInv, Types
<1>6. CASE buf' = buf
  <2>1. \A j \in Bufs : /\ buf'[j].valid = buf[j].valid /\ buf'[j].blockno = buf[j].blockno
                        /\ buf'[j].lock = buf[j].lock /\ buf'[j].data = buf[j].data
    BY <1>6
  <2>2. Content' = Content /\ Owner' = Owner BY <1>1, <1>3, <2>1, Hidden
  <2> QED BY <2>2, HiddenStep
<1>7. CASE ~buf[i].disk /\ buf' = [buf EXCEPT ![i].valid = TRUE]
  <2>1. p \notin Waiting BY <1>7 DEF Waiting
  <2>2. Same(i) BY <1>4, <2>1 DEF IInv, Served
  <2> HIDE DEF i
  <2>3. /\ \A j \in Bufs : j # i => buf'[j] = buf[j]
        /\ buf'[i].blockno = k /\ buf'[i].valid = TRUE /\ buf'[i].data = buf[i].data
        /\ buf'[i].lock = buf[i].lock
    BY <1>2, <1>5, <1>7 DEF BufRec
  <2>4. buf[i].data = blocks[k] BY <2>2 DEF Same
  <2> HIDE DEF k
  <2>5. /\ Content' = [Content EXCEPT ![k] = Content'[k]] /\ Owner' = [Owner EXCEPT ![k] = Owner'[k]]
        /\ buf[i].valid => Content[k] = buf[i].data /\ Owner[k] = buf[i].lock
        /\ ~buf[i].valid => Content[k] = blocks[k] /\ Owner[k] = NoProc
        /\ buf'[i].valid => Content'[k] = buf'[i].data /\ Owner'[k] = buf'[i].lock
    BY <1>1, <1>3, <1>5, <2>3, OneBlock DEF k
  <2>6. CASE buf[i].valid
    <3>1. Content'[k] = Content[k] /\ Owner'[k] = Owner[k] BY <2>3, <2>5, <2>6
    <3>2. Content' = Content /\ Owner' = Owner BY <1>5, <2>5, <3>1, ViewFunctions
    <3> QED BY <3>2, HiddenStep
  <2>7. CASE ~buf[i].valid
    <3>1. Content'[k] = Content[k] /\ Owner[k] = NoProc BY <2>3, <2>4, <2>5, <2>7
    <3> QED BY <1>5, <2>5, <3>1, OwnerStep
  <2> QED BY <2>6, <2>7
<1> QED BY <1>6, <1>7 DEF rw_resume

\* The device writes buffers that are not valid yet, or blocks that are cached.
LEMMA ServeMaps ==
  ASSUME IInv, IInv', NEW i \in Descs, dev_serve(i)
  PROVE  [BS!Next]_(BS!vars)
<1>1. Single /\ Single' BY DEF IInv, Table
<1>2. buf \in [Bufs -> BufRec] /\ blocks \in [Blocks -> Values] BY DEF IInv, Types, BufTypes
<1>3. i \in Heads BY DEF IInv, Queues, dev_serve
<1>4. PICK p \in Waiting : /\ proc[p].head = i /\ p \in Busy /\ p \in Procs /\ proc[p].b \in Bufs
                           /\ buf[proc[p].b].blockno \in Blocks
  BY <1>3, HeadHas
<1> DEFINE b == proc[p].b
           k == buf[b].blockno
<1>5. Formed(p) BY <1>4 DEF IInv, Chains
<1>6. /\ desc[i] = [addr |-> i, next |-> Second(p), more |-> TRUE]
      /\ desc[Second(p)] = [addr |-> b, next |-> Third(p), more |-> TRUE]
      /\ info[i].sector = k /\ info[i].type = (IF proc[p].write THEN "out" ELSE "in")
  BY <1>4, <1>5 DEF Formed
<1> HIDE DEF b, k
<1>7. desc[i].next = Second(p) /\ desc[i].addr = i BY <1>6, SMT
<1>8. desc[Second(p)].addr = b BY <1>6, SMT
<1>9. \/ info[i].type = "in" /\ buf' = [buf EXCEPT ![b].data = blocks[k]] /\ blocks' = blocks
      \/ info[i].type # "in" /\ blocks' = [blocks EXCEPT ![k] = buf[b].data] /\ buf' = buf
  <2>1. \/ /\ info[desc[i].addr].type = "in" /\ blocks' = blocks
           /\ buf' = [buf EXCEPT ![desc[desc[i].next].addr].data = blocks[info[desc[i].addr].sector]]
        \/ /\ info[desc[i].addr].type # "in" /\ buf' = buf
           /\ blocks' = [blocks EXCEPT ![info[desc[i].addr].sector] = buf[desc[desc[i].next].addr].data]
    BY DEF dev_serve
  <2> QED BY <1>6, <1>7, <1>8, <2>1
<1>10. b \in Bufs /\ k \in Blocks /\ k = buf[b].blockno BY <1>4 DEF b, k
<1>11. buf[b].valid <=> proc[p].write
  <2>1. proc[p].pc \in InRw BY <1>4, PCSets DEF Busy
  <2> QED BY <1>4, <2>1 DEF IInv, Filled, b
<1>12. CASE info[i].type = "in" /\ buf' = [buf EXCEPT ![b].data = blocks[k]] /\ blocks' = blocks
  <2>1. ~buf[b].valid BY <1>6, <1>11, <1>12
  <2>2. ASSUME NEW j \in Bufs
        PROVE  /\ buf'[j].valid = buf[j].valid /\ buf'[j].blockno = buf[j].blockno
               /\ buf'[j].lock = buf[j].lock /\ (buf[j].valid => buf'[j].data = buf[j].data)
    <3>1. CASE j = b BY <1>2, <1>10, <1>12, <2>1, <3>1 DEF BufRec
    <3>2. CASE j # b
      <4>1. buf'[j] = buf[j] BY <1>2, <1>12, <3>2
      <4> QED BY <4>1
    <3> QED BY <3>1, <3>2
  <2>3. Content' = Content /\ Owner' = Owner BY <1>1, <1>12, <2>2, Hidden
  <2> QED BY <2>3, HiddenStep
<1>13. CASE info[i].type # "in" /\ blocks' = [blocks EXCEPT ![k] = buf[b].data] /\ buf' = buf
  <2>1. buf[b].valid BY <1>6, <1>11, <1>13
  <2>2. \A m \in Blocks : blocks'[m] = blocks[m] \/ \E j \in Bufs : buf[j].blockno = m /\ buf[j].valid
    <3>1. \A m \in Blocks : m # k => blocks'[m] = blocks[m] BY <1>2, <1>13
    <3> QED BY <1>10, <2>1, <3>1
  <2>3. \A j \in Bufs : /\ buf'[j].valid = buf[j].valid /\ buf'[j].blockno = buf[j].blockno
                        /\ buf'[j].lock = buf[j].lock /\ (buf[j].valid => buf'[j].data = buf[j].data)
    BY <1>13
  <2>4. Content' = Content /\ Owner' = Owner BY <1>1, <2>2, <2>3, Hidden
  <2> QED BY <2>4, HiddenStep
<1> QED BY <1>9, <1>12, <1>13

\* The rest changes at most a reference count or b->disk.
LEMMA QuietMaps ==
  ASSUME IInv, IInv', blocks' = blocks,
         \/ buf' = buf
         \/ \E i, n : buf' = [buf EXCEPT ![i].refcnt = n]
         \/ \E i, n : buf' = [buf EXCEPT ![i].disk = n]
  PROVE  [BS!Next]_(BS!vars)
<1>1. Single /\ Single' BY DEF IInv, Table
<1>2. buf \in [Bufs -> BufRec] BY DEF IInv, Types, BufTypes
<1>3. \A j \in Bufs : /\ buf'[j].valid = buf[j].valid /\ buf'[j].blockno = buf[j].blockno
                      /\ buf'[j].lock = buf[j].lock /\ (buf[j].valid => buf'[j].data = buf[j].data)
  <2>1. CASE buf' = buf BY <2>1
  <2>2. CASE \E i, n : buf' = [buf EXCEPT ![i].refcnt = n]
    <3>1. PICK i, n : buf' = [buf EXCEPT ![i].refcnt = n] BY <2>2
    <3>2. ASSUME i \in Bufs
          PROVE  /\ buf'[i].valid = buf[i].valid /\ buf'[i].blockno = buf[i].blockno
                 /\ buf'[i].lock = buf[i].lock /\ buf'[i].data = buf[i].data
      <4>1. buf[i] \in BufRec BY <1>2, <3>2
      <4>2. buf'[i] = [buf[i] EXCEPT !.refcnt = n] BY <1>2, <3>1, <3>2
      <4> QED BY <4>1, <4>2 DEF BufRec
    <3>3. \A j \in Bufs : j # i => buf'[j] = buf[j] BY <1>2, <3>1
    <3> QED BY <3>2, <3>3
  <2>3. CASE \E i, n : buf' = [buf EXCEPT ![i].disk = n]
    <3>1. PICK i, n : buf' = [buf EXCEPT ![i].disk = n] BY <2>3
    <3>2. ASSUME i \in Bufs
          PROVE  /\ buf'[i].valid = buf[i].valid /\ buf'[i].blockno = buf[i].blockno
                 /\ buf'[i].lock = buf[i].lock /\ buf'[i].data = buf[i].data
      <4>1. buf[i] \in BufRec BY <1>2, <3>2
      <4>2. buf'[i] = [buf[i] EXCEPT !.disk = n] BY <1>2, <3>1, <3>2
      <4> QED BY <4>1, <4>2 DEF BufRec
    <3>3. \A j \in Bufs : j # i => buf'[j] = buf[j] BY <1>2, <3>1
    <3> QED BY <3>2, <3>3
  <2> QED BY <2>1, <2>2, <2>3
<1>4. Content' = Content /\ Owner' = Owner BY <1>1, <1>3, Hidden
<1> QED BY <1>4, HiddenStep

LEMMA StepMaps == ASSUME FiniteFacts, IInv, IInv', [Next]_vars PROVE [BS!Next]_(BS!vars)
<1>1. CASE UNCHANGED vars
  <2>1. buf' = buf /\ blocks' = blocks BY <1>1 DEF vars, diskVars, vdisk
  <2> QED BY <2>1, QuietMaps
<1>2. CASE Next
  <2>1. ASSUME NEW p \in Procs, Step(p) PROVE [BS!Next]_(BS!vars)
    <3>1. CASE \E b \in Blocks : bget(p, b) BY <3>1, BgetMaps
    <3>2. CASE bread(p) \/ brelse(p) \/ \E v \in Values : bwrite(p, v) \/ bpin(p, v)
      <4>1. CASE \E v \in Values : bwrite(p, v) \/ bpin(p, v) BY <4>1, HolderMaps
      <4>2. CASE bread(p) \/ brelse(p)
        <5>1. CASE Values # {} BY <4>2, <5>1, HolderMaps
        <5>2. CASE Values = {}
          <6>1. proc[p].b \in Bufs /\ buf[proc[p].b].blockno \in Blocks
            <7>1. proc[p].pc # "idle" BY <4>2 DEF bread, brelse, At
            <7> QED BY <7>1 DEF IInv, Table, Placed
          <6>2. blocks \in [Blocks -> Values] BY DEF IInv, Types, BufTypes
          <6> QED BY <5>2, <6>1, <6>2
        <5> QED BY <5>1, <5>2
      <4> QED BY <3>2, <4>1, <4>2
    <3>3. CASE brelse_put(p)
      <4>1. /\ buf' = [buf EXCEPT ![proc[p].b].refcnt = buf[proc[p].b].refcnt - 1] /\ blocks' = blocks
            /\ proc[p].pc # "idle"
        BY <3>3 DEF brelse_put, vdisk, At
      <4>2. proc[p].b \in Bufs BY <4>1 DEF IInv, Table, Placed
      <4> QED BY <4>1, <4>2, QuietMaps
    <3>4. CASE bunpin(p)
      <4>1. /\ buf' = [buf EXCEPT ![proc[p].b].refcnt = buf[proc[p].b].refcnt - 1] /\ blocks' = blocks
            /\ proc[p].pc # "idle"
        BY <3>4 DEF bunpin, vdisk, At
      <4>2. proc[p].b \in Bufs BY <4>1 DEF IInv, Table, Placed
      <4> QED BY <4>1, <4>2, QuietMaps
    <3>5. CASE RwStep(p)
      <4>1. CASE rw_nodesc(p) \/ kill(p)
        <5>1. buf' = buf /\ blocks' = blocks BY <4>1 DEF rw_nodesc, kill, vdisk
        <5> QED BY <5>1, QuietMaps
      <4>2. CASE virtio_disk_rw(p)
        <5>1. buf' = [buf EXCEPT ![proc[p].b].disk = TRUE] /\ blocks' = blocks BY <4>2 DEF virtio_disk_rw
        <5> QED BY <5>1, QuietMaps
      <4>3. CASE rw_resume(p) BY <4>3, ResumeMaps
      <4> QED BY <3>5, <4>1, <4>2, <4>3 DEF RwStep
    <3> QED BY <2>1, <3>1, <3>2, <3>3, <3>4, <3>5 DEF Step
  <2>2. ASSUME DeviceStep PROVE [BS!Next]_(BS!vars)
    <3>1. CASE dev_take
      <4>1. buf' = buf /\ blocks' = blocks BY <3>1 DEF dev_take
      <4> QED BY <4>1, QuietMaps
    <3>2. CASE \E i \in Descs : dev_serve(i) BY <3>2, ServeMaps
    <3> QED BY <2>2, <3>1, <3>2 DEF DeviceStep
  <2>3. ASSUME IntrStep PROVE [BS!Next]_(BS!vars)
    <3>1. CASE intr_entry
      <4>1. (\E i, n : buf' = [buf EXCEPT ![i].disk = n]) /\ blocks' = blocks BY <3>1 DEF intr_entry
      <4> QED BY <4>1, QuietMaps
    <3>2. CASE virtio_disk_intr \/ intr_exit
      <4>1. buf' = buf /\ blocks' = blocks BY <3>2 DEF virtio_disk_intr, intr_exit, vdisk
      <4> QED BY <4>1, QuietMaps
    <3> QED BY <2>3, <3>1, <3>2 DEF IntrStep
  <2> QED BY <1>2, <2>1, <2>2, <2>3 DEF Next
<1> QED BY <1>1, <1>2

-----------------------------------------------------------------------------
(* The rings.                                                              *)

LEMMA IdxFacts ==
  ASSUME DiskTypes
  PROVE  /\ IdxMod \in Nat \ {0} /\ IdxMod >= NUM /\ IdxMod % NUM = 0
         /\ NUM \in Nat \ {0} /\ NUM >= 3
<1>1. Turns \in Nat \ {0} /\ NUM \in Nat \ {0} /\ NUM >= 3 BY DiskAssumption, SMT DEF DiskTypes
<1>2. Turns * NUM = NUM * Turns BY <1>1, SMT
<1>3. NUM * Turns >= NUM
  <2>1. Turns \in Int /\ Turns # 0 BY <1>1, SMT
  <2>2. NUM * Turns >= NUM \/ NUM * Turns <= -NUM BY <1>1, <2>1, Multiple
  <2>3. NUM * Turns >= 0 BY <1>1, SMT
  <2>4. NUM * Turns \in Int BY <1>1, SMT
  <2> QED BY <1>1, <2>2, <2>3, <2>4, SMT
<1>4. (NUM * Turns) % NUM = 0
  <2> DEFINE x == NUM * Turns
  <2>1. x \in Int BY <1>1, SMT
  <2>2. x = NUM * (x \div NUM) + (x % NUM) /\ x \div NUM \in Int /\ x % NUM \in 0..(NUM - 1)
    BY <1>1, <2>1, DivMod
  <2>3. NUM * Turns + 0 = NUM * (x \div NUM) + (x % NUM) BY <2>1, <2>2, SMT
  <2>4. 0 \in 0..(NUM - 1) /\ Turns \in Int BY <1>1, SMT
  <2>5. 0 = x % NUM BY <1>1, <2>2, <2>3, <2>4, UniqueMod
  <2> QED BY <2>5
<1>5. IdxMod = NUM * Turns BY <1>2 DEF IdxMod
<1>6. NUM * Turns \in Nat \ {0} BY <1>1, <1>3, SMT
<1> QED BY <1>1, <1>3, <1>4, <1>5, <1>6

\* The slot of an entry does not depend on where the index wrapped.
LEMMA SlotNext ==
  ASSUME DiskTypes, NEW f \in Idx, NEW n \in Nat
  PROVE  Next16(f) \in Idx /\ (Next16(f) + n) % NUM = (f + (n + 1)) % NUM
<1>1. /\ IdxMod \in Nat \ {0} /\ IdxMod >= NUM /\ IdxMod % NUM = 0
      /\ NUM \in Nat \ {0} /\ NUM >= 3
  BY IdxFacts
<1>2. f \in 0..(IdxMod - 1) BY DEF Idx
<1>3. Next16(f) = IF f = IdxMod - 1 THEN 0 ELSE f + 1 BY <1>1, <1>2, Successor DEF Next16
<1>4. Next16(f) \in Idx BY <1>1, <1>2, <1>3, SMT DEF Idx
<1>5. CASE f = IdxMod - 1
  <2>1. n \in Int /\ IdxMod \in Int BY <1>1, SMT
  <2>2. (n + IdxMod) % NUM = n % NUM BY <1>1, <2>1, ModAdd
  <2>3. f + (n + 1) = n + IdxMod /\ Next16(f) + n = n BY <1>1, <1>3, <1>5, SMT
  <2> QED BY <1>4, <2>2, <2>3
<1>6. CASE f # IdxMod - 1
  <2>1. Next16(f) + n = f + (n + 1) BY <1>1, <1>2, <1>3, <1>6, SMT
  <2> QED BY <1>4, <2>1
<1> QED BY <1>5, <1>6

LEMMA SlotEnd ==
  ASSUME DiskTypes, NEW f \in Idx, NEW t \in Idx
  PROVE  /\ Dist(f, t) \in Nat /\ Dist(f, t) < IdxMod /\ (f + Dist(f, t)) % NUM = t % NUM
         /\ Dist(f, t) = 0 <=> f = t
<1>1. /\ IdxMod \in Nat \ {0} /\ IdxMod >= NUM /\ IdxMod % NUM = 0
      /\ NUM \in Nat \ {0} /\ NUM >= 3
  BY IdxFacts
<1>2. f \in 0..(IdxMod - 1) /\ t \in 0..(IdxMod - 1) BY DEF Idx
<1>3. Dist(f, t) = IF t >= f THEN t - f ELSE t - f + IdxMod
  <2>1. (t - f) % IdxMod = IF t >= f THEN t - f ELSE t - f + IdxMod BY <1>1, <1>2, Difference, SMT
  <2> QED BY <2>1 DEF Dist
<1>4. /\ Dist(f, t) \in Nat /\ Dist(f, t) < IdxMod
      /\ Dist(f, t) = 0 <=> f = t
  BY <1>1, <1>2, <1>3, SMT
<1>5. CASE t >= f
  <2>1. f + Dist(f, t) = t BY <1>2, <1>3, <1>5, SMT
  <2> QED BY <1>4, <2>1
<1>6. CASE ~(t >= f)
  <2>1. f + Dist(f, t) = t + IdxMod BY <1>1, <1>2, <1>3, <1>6, SMT
  <2>2. t \in Int /\ IdxMod \in Int BY <1>1, <1>2, SMT
  <2>3. (t + IdxMod) % NUM = t % NUM BY <1>1, <2>2, ModAdd
  <2> QED BY <1>4, <2>1, <2>3
<1> QED BY <1>5, <1>6

\* Entries less than NUM apart are in different slots.
LEMMA SlotsApart ==
  ASSUME DiskTypes, NEW f \in Idx, NEW m \in Nat, NEW n \in Nat, m < n, n - m < NUM
  PROVE  (f + m) % NUM # (f + n) % NUM /\ (f + m) % NUM \in Descs /\ (f + n) % NUM \in Descs
<1>1. NUM \in Nat \ {0} BY IdxFacts
<1>2. f \in Int BY IdxFacts, SMT DEF Idx
<1>3. f + m \in Int /\ n - m \in 1..(NUM - 1) /\ (f + m) + (n - m) = f + n /\ f + n \in Int
  BY <1>1, <1>2, SMT
<1>4. ((f + m) + (n - m)) % NUM # (f + m) % NUM BY <1>1, <1>3, ModApart
<1>5. (f + m) % NUM \in Descs /\ (f + n) % NUM \in Descs BY <1>1, <1>3, ModRange DEF Descs
<1> QED BY <1>3, <1>4, <1>5

LEMMA SlotIn ==
  ASSUME DiskTypes, NEW f \in Idx, NEW m \in Nat
  PROVE  (f + m) % NUM \in Descs /\ f + m \in Int
<1>1. NUM \in Nat \ {0} /\ f \in Int BY IdxFacts, SMT DEF Idx
<1>2. f + m \in Int BY <1>1, SMT
<1> QED BY <1>1, <1>2, ModRange DEF Descs

\* An entry is appended: the window gains it, and nothing it showed is overwritten.
LEMMA WindowGrow ==
  ASSUME DiskTypes, NEW r \in [Descs -> Descs], NEW f \in Idx, NEW t \in Idx, NEW i \in Descs,
         Once(r, f, t), i \notin Window(r, f, t), Dist(f, t) < NUM - 1
  PROVE  LET r2 == [r EXCEPT ![t % NUM] = i] IN
         /\ Window(r2, f, Next16(t)) = Window(r, f, t) \cup {i}
         /\ Once(r2, f, Next16(t)) /\ r2 \in [Descs -> Descs] /\ Next16(t) \in Idx
<1> DEFINE d == Dist(f, t)
           r2 == [r EXCEPT ![t % NUM] = i]
           Ent(q, n) == q[(f + n) % NUM]
<1>1. d \in Nat /\ d < IdxMod /\ (f + d) % NUM = t % NUM BY SlotEnd
<1>2. NUM \in Nat \ {0} /\ IdxMod \in Nat \ {0} /\ IdxMod >= NUM BY IdxFacts
<1>3. Dist(f, Next16(t)) = d + 1
  <2>1. f \in 0..(IdxMod - 1) /\ t \in 0..(IdxMod - 1) BY DEF Idx
  <2>2. (t - f) % IdxMod < IdxMod - 1 BY <1>1, <1>2, SMT DEF Dist
  <2>3. (((t + 1) % IdxMod) - f) % IdxMod = ((t - f) % IdxMod) + 1 BY <1>2, <2>1, <2>2, DifferenceUp
  <2> QED BY <2>3 DEF Dist, Next16
<1>4. r2 \in [Descs -> Descs] OBVIOUS
<1>5. Next16(t) \in Idx BY SlotNext, SMT
<1>6. Ent(r2, d) = i
  <2>1. t % NUM \in Descs BY <1>1, SlotIn
  <2> QED BY <1>1, <2>1
<1>7. ASSUME NEW n \in 0..(d - 1) PROVE Ent(r2, n) = Ent(r, n)
  <2>1. n \in Nat /\ n < d /\ d - n < NUM BY <1>1, <1>2, SMT
  <2>2. (f + n) % NUM # (f + d) % NUM /\ (f + n) % NUM \in Descs BY <1>1, <2>1, SlotsApart
  <2> QED BY <1>1, <2>2
<1> HIDE DEF d, r2
<1>8. 0..((d + 1) - 1) = 0..(d - 1) \cup {d} BY <1>1, SMT
<1>9. Window(r, f, t) = {Ent(r, n) : n \in 0..(d - 1)} BY DEF Window, d
<1>10. Window(r2, f, Next16(t)) = {Ent(r2, n) : n \in 0..(d - 1) \cup {d}} BY <1>3, <1>8 DEF Window
<1>11. Window(r2, f, Next16(t)) = Window(r, f, t) \cup {i} BY <1>6, <1>7, <1>9, <1>10
<1>12. Once(r2, f, Next16(t))
  <2>1. \A m, n \in 0..(d - 1) : Ent(r, m) = Ent(r, n) => m = n BY DEF Once, d
  <2>2. \A n \in 0..(d - 1) : Ent(r2, n) # Ent(r2, d) BY <1>6, <1>7, <1>9
  <2>3. \A m, n \in 0..(d - 1) \cup {d} : Ent(r2, m) = Ent(r2, n) => m = n BY <1>7, <2>1, <2>2
  <2> QED BY <1>3, <1>8, <2>3 DEF Once
<1> QED BY <1>4, <1>5, <1>11, <1>12 DEF r2

\* The first entry is consumed and its slot cleared: the window loses just that one.
LEMMA WindowShrink ==
  ASSUME DiskTypes, NEW r \in [Descs -> Descs], NEW f \in Idx, NEW t \in Idx,
         Once(r, f, t), f # t, Dist(f, t) <= NUM
  PROVE  LET r2 == [r EXCEPT ![f % NUM] = 0] IN
         /\ r[f % NUM] \in Window(r, f, t) /\ r[f % NUM] \in Descs
         /\ Window(r2, Next16(f), t) = Window(r, f, t) \ {r[f % NUM]}
         /\ Once(r2, Next16(f), t) /\ r2 \in [Descs -> Descs] /\ Next16(f) \in Idx
<1> DEFINE d == Dist(f, t)
           g == Next16(f)
           r2 == [r EXCEPT ![f % NUM] = 0]
           Ent(n) == r[(f + n) % NUM]
           Ent2(n) == r2[(g + n) % NUM]
<1>1. d \in Nat /\ d # 0 BY SlotEnd
<1>2. NUM \in Nat \ {0} /\ IdxMod \in Nat \ {0} /\ IdxMod >= NUM BY IdxFacts
<1>3. Dist(g, t) = d - 1
  <2>1. f \in 0..(IdxMod - 1) /\ t \in 0..(IdxMod - 1) BY DEF Idx
  <2>2. (t - ((f + 1) % IdxMod)) % IdxMod = ((t - f) % IdxMod) - 1 BY <1>2, <2>1, DifferenceDown
  <2> QED BY <2>2 DEF Dist, Next16
<1>4. 0 \in Descs BY <1>2, SMT DEF Descs
<1>5. r2 \in [Descs -> Descs] BY <1>4
<1>6. g \in Idx BY SlotNext, SMT
<1>7. f % NUM \in Descs /\ Ent(0) = r[f % NUM] /\ (f + 0) % NUM = f % NUM
  <2>1. 0 \in Nat BY SMT
  <2>2. (f + 0) % NUM \in Descs /\ f + 0 \in Int BY <2>1, SlotIn
  <2>3. f \in Int BY <1>2, SMT DEF Idx
  <2>4. f + 0 = f BY <2>3, SMT
  <2> QED BY <2>2, <2>4
<1>8. ASSUME NEW n \in 0..(d - 2) PROVE Ent2(n) = Ent(n + 1)
  <2>1. n \in Nat /\ 0 < n + 1 /\ n + 1 \in Nat /\ (n + 1) - 0 < NUM BY <1>1, <1>2, SMT
  <2>2. (g + n) % NUM = (f + (n + 1)) % NUM BY <2>1, SlotNext
  <2>3. 0 \in Nat BY SMT
  <2>4. (f + 0) % NUM # (f + (n + 1)) % NUM /\ (f + (n + 1)) % NUM \in Descs BY <2>1, <2>3, SlotsApart
  <2> QED BY <1>7, <2>2, <2>4
<1>9. Window(r, f, t) = {Ent(n) : n \in 0..(d - 1)} /\ \A m, n \in 0..(d - 1) : Ent(m) = Ent(n) => m = n
  BY DEF Window, Once
<1>10. Window(r2, g, t) = {Ent2(n) : n \in 0..((d - 1) - 1)} BY <1>3 DEF Window
<1>11. /\ 0 \in 0..(d - 1) /\ (d - 1) - 1 = d - 2
       /\ \A n \in 0..(d - 2) : n + 1 \in 0..(d - 1) /\ n + 1 # 0
       /\ \A n \in 0..(d - 1) : n # 0 => n - 1 \in 0..(d - 2) /\ (n - 1) + 1 = n
       /\ \A m, n \in 0..(d - 2) : m + 1 = n + 1 => m = n
  BY <1>1, SMT
<1> HIDE DEF d, g, r2, Ent, Ent2
<1>12. Window(r2, g, t) = {Ent2(n) : n \in 0..(d - 2)} BY <1>10, <1>11
<1>13. Ent(0) \in Window(r, f, t) BY <1>9, <1>11, SMT
<1>14. ASSUME NEW x PROVE x \in Window(r2, g, t) <=> x \in Window(r, f, t) \ {Ent(0)}
  <2>1. ASSUME x \in Window(r2, g, t) PROVE x \in Window(r, f, t) \ {Ent(0)}
    <3>1. PICK n \in 0..(d - 2) : x = Ent2(n) BY <1>12, <2>1
    <3>2. x = Ent(n + 1) /\ n + 1 \in 0..(d - 1) /\ n + 1 # 0 BY <1>8, <1>11, <3>1
    <3>3. x \in Window(r, f, t) BY <1>9, <3>2
    <3>4. x # Ent(0) BY <1>9, <1>11, <3>2
    <3> QED BY <3>3, <3>4
  <2>2. ASSUME x \in Window(r, f, t), x # Ent(0) PROVE x \in Window(r2, g, t)
    <3>1. PICK n \in 0..(d - 1) : x = Ent(n) BY <1>9, <2>2
    <3>2. n - 1 \in 0..(d - 2) /\ (n - 1) + 1 = n BY <1>11, <2>2, <3>1
    <3>3. x = Ent2(n - 1) BY <1>8, <3>1, <3>2
    <3> QED BY <1>12, <3>2, <3>3
  <2> QED BY <2>1, <2>2
<1>15. ASSUME NEW m \in 0..(d - 2), NEW n \in 0..(d - 2), Ent2(m) = Ent2(n) PROVE m = n
  <2>1. Ent(m + 1) = Ent(n + 1) BY <1>8, <1>15
  <2>2. m + 1 = n + 1 BY <1>9, <1>11, <2>1
  <2> QED BY <1>11, <2>2
<1>16. Once(r2, g, t) BY <1>3, <1>11, <1>15 DEF Once, Ent2
<1>17. r[f % NUM] = Ent(0) /\ Ent(0) \in Descs BY <1>7
<1>18. Window(r2, g, t) = Window(r, f, t) \ {Ent(0)} BY <1>14
<1> QED BY <1>5, <1>6, <1>13, <1>16, <1>17, <1>18 DEF r2, g

\* Different entries: no more than there are things to put there.
LEMMA WindowSize ==
  ASSUME FiniteFacts, DiskTypes, NEW r \in [Descs -> Descs], NEW f \in Idx, NEW t \in Idx,
         Once(r, f, t), NEW T, IsFiniteSet(T), Window(r, f, t) \subseteq T
  PROVE  Dist(f, t) <= Cardinality(T)
<1> DEFINE d == Dist(f, t)
           g == [n \in 1..d |-> r[(f + (n - 1)) % NUM]]
<1>1. d \in Nat BY SlotEnd
<1>2. ASSUME NEW n \in 1..d PROVE n - 1 \in 0..(d - 1) BY <1>1, SMT
<1>3. g \in [1..d -> T]
  <2>1. ASSUME NEW n \in 1..d PROVE r[(f + (n - 1)) % NUM] \in T BY <1>2 DEF Window
  <2> QED BY <2>1
<1>4. ASSUME NEW m \in 1..d, NEW n \in 1..d, g[m] = g[n] PROVE m = n
  <2>1. r[(f + (m - 1)) % NUM] = r[(f + (n - 1)) % NUM] BY <1>4
  <2>2. m - 1 \in 0..(d - 1) /\ n - 1 \in 0..(d - 1) BY <1>2
  <2>3. m - 1 = n - 1 BY <2>1, <2>2 DEF Once
  <2> QED BY <1>1, <2>3, SMT
<1> HIDE DEF g
<1>6. IsFiniteSet(1..d) /\ Cardinality(1..d) = d
  <2>1. 1 \in Int /\ d \in Int BY <1>1, SMT
  <2>2. IsFiniteSet(1..d) /\ Cardinality(1..d) = IF 1 > d THEN 0 ELSE d - 1 + 1 BY <2>1 DEF FiniteFacts, FinInterval
  <2> QED BY <1>1, <2>2, SMT
<1>7. Cardinality(1..d) <= Cardinality(T) BY <1>3, <1>4 DEF FiniteFacts, FinInjects
<1> QED BY <1>6, <1>7 DEF d

-----------------------------------------------------------------------------
(* What does not change.                                                   *)

LEMMA Counted ==
  ASSUME FiniteFacts, DiskTypes
  PROVE  /\ IsFiniteSet(Busy) /\ Cardinality(Busy) \in Nat
         /\ IsFiniteSet(free) /\ Cardinality(free) \in Nat /\ IsFiniteSet(Descs)
<1>1. Busy \in SUBSET Procs BY DEF Busy
<1>2. IsFiniteSet(Procs) BY DiskAssumption
<1>3. IsFiniteSet(Busy) BY <1>1, <1>2 DEF FiniteFacts, FinSubset
<1>4. IsFiniteSet(Descs)
  <2>1. 0 \in Int /\ NUM - 1 \in Int BY SMT DEF DiskTypes
  <2> QED BY <2>1 DEF FiniteFacts, FinInterval, Descs
<1>5. free \in SUBSET Descs BY DEF DiskTypes
<1>6. IsFiniteSet(free) BY <1>4, <1>5 DEF FiniteFacts, FinSubset
<1> QED BY <1>3, <1>4, <1>6 DEF FiniteFacts, FinType

\* A step of the driver or the device leaves the table of buffers alone.
LEMMA TableFrame ==
  ASSUME Table, pins' = pins,
         \A q \in Procs : /\ proc'[q].b = proc[q].b
                          /\ proc'[q].pc = "idle" <=> proc[q].pc = "idle"
                          /\ proc'[q].pc \in Holding <=> proc[q].pc \in Holding,
         \A i \in Bufs : /\ buf'[i].lock = buf[i].lock /\ buf'[i].refcnt = buf[i].refcnt
                         /\ buf'[i].blockno = buf[i].blockno
  PROVE  Table'
<1>1. Placed' BY DEF Table, Placed
<1>2. Locked'
  <2>1. ASSUME NEW i \in Bufs, NEW p \in Procs
        PROVE  buf'[i].lock = p <=> proc'[p].b = i /\ proc'[p].pc \in Holding
    <3>1. buf[i].lock = p <=> proc[p].b = i /\ proc[p].pc \in Holding BY DEF Table, Locked
    <3>2. buf'[i].lock = buf[i].lock /\ proc'[p].b = proc[p].b /\ (proc'[p].pc \in Holding <=> proc[p].pc \in Holding)
      OBVIOUS
    <3> QED BY <3>1, <3>2
  <2> QED BY <2>1 DEF Locked
<1>3. Single' BY DEF Table, Single
<1>4. RefcntExact'
  <2>1. ASSUME NEW i \in Bufs PROVE {p \in Procs : proc'[p].b = i} = {p \in Procs : proc[p].b = i} OBVIOUS
  <2> QED BY <2>1 DEF Table, RefcntExact
<1> QED BY <1>1, <1>2, <1>3, <1>4 DEF Table

LEMMA FilledFrame ==
  ASSUME Filled, pins' = pins, blocks' = blocks,
         \A q \in Procs : /\ proc'[q].b = proc[q].b /\ proc'[q].write = proc[q].write
                          /\ proc'[q].pc \in InRw <=> proc[q].pc \in InRw
                          /\ proc'[q].pc = "have" => proc[q].pc = "have",
         \A i \in Bufs : /\ buf'[i].valid = buf[i].valid /\ buf'[i].data = buf[i].data
                         /\ buf'[i].blockno = buf[i].blockno,
         Table, pins \subseteq Bufs
  PROVE  Filled'
<1>1. ASSUME NEW q \in Procs
      PROVE  /\ proc'[q].pc = "have" => buf'[proc'[q].b].valid
             /\ proc'[q].pc \in InRw => (buf'[proc'[q].b].valid <=> proc'[q].write)
  <2>1. proc[q].pc = "have" \/ proc[q].pc \in InRw => proc[q].b \in Bufs
    BY DEF Table, Placed, InRw
  <2> QED BY <2>1 DEF Filled
<1>2. \A i \in pins : buf'[i].valid BY DEF Filled
<1>3. \A i \in Bufs : Written(i)' <=> Written(i) BY DEF Written
<1>4. \A i \in Bufs : Same(i)' <=> Same(i) BY DEF Same
<1>5. \A i \in Bufs : buf'[i].valid =>
       /\ buf'[i].blockno \in Blocks /\ buf'[i].data \in Values
       /\ Same(i)' \/ i \in pins' \/ Written(i)'
  BY <1>3, <1>4 DEF Filled
<1> QED BY <1>1, <1>2, <1>5 DEF Filled

\* A step that changes no descriptor and no request leaves the chains alone.
LEMMA ChainsFrame ==
  ASSUME Chains, NUM' = NUM, free' = free, desc' = desc,
         \A q \in Procs : /\ proc'[q].pc \in InIo <=> proc[q].pc \in InIo
                          /\ proc[q].pc \in InIo => /\ proc'[q].b = proc[q].b /\ proc'[q].write = proc[q].write
                                                    /\ proc'[q].head = proc[q].head
                                                    /\ buf'[proc[q].b].blockno = buf[proc[q].b].blockno,
         \A i \in Descs : /\ info'[i].b = info[i].b /\ info'[i].sector = info[i].sector
                          /\ info'[i].type = info[i].type,
         ProcTypes
  PROVE  Chains' /\ Busy' = Busy
<1>1. Busy' = Busy BY DEF Busy
<1>2. ASSUME NEW q \in Busy PROVE (Formed(q)' <=> Formed(q)) /\ Trio(q)' = Trio(q)
  <2>1. /\ proc'[q].b = proc[q].b /\ proc'[q].write = proc[q].write /\ proc'[q].head = proc[q].head
        /\ buf'[proc[q].b].blockno = buf[proc[q].b].blockno /\ proc[q].head \in Descs
    BY DEF Busy, ProcTypes, ProcRec
  <2>2. Second(q)' = Second(q) BY <2>1 DEF Second
  <2>3. Third(q)' = Third(q) BY <2>2 DEF Third
  <2>4. Trio(q)' = Trio(q) BY <2>1, <2>2, <2>3 DEF Trio
  <2>5. Formed(q)' <=> Formed(q) BY <2>1, <2>2, <2>3 DEF Formed
  <2> QED BY <2>4, <2>5
<1> QED BY <1>1, <1>2 DEF Chains

\* A step of the cache leaves the driver, and the buffers it works on, alone.
LEMMA DriverFrame ==
  ASSUME ProcTypes, Chains, Queues, Served, Wakeups, NUM' = NUM, UNCHANGED <<vdisk, vdisk_lock>>,
         \A q \in Procs : /\ proc'[q].pc \in InIo <=> proc[q].pc \in InIo
                          /\ proc[q].pc \in InIo =>
                               /\ proc'[q] = proc[q]
                               /\ buf'[proc[q].b].disk = buf[proc[q].b].disk
                               /\ buf'[proc[q].b].blockno = buf[proc[q].b].blockno
                               /\ buf'[proc[q].b].data = buf[proc[q].b].data
                          /\ proc'[q].pc = "dsleep" => proc[q].pc = "dsleep"
  PROVE  Chains' /\ Queues' /\ Served' /\ Wakeups'
<1>1. /\ free' = free /\ desc' = desc /\ info' = info /\ avail' = avail /\ used' = used
      /\ used_idx' = used_idx /\ device' = device /\ blocks' = blocks /\ vdisk_lock' = vdisk_lock
  BY DEF vdisk
<1>2. Chains' /\ Busy' = Busy BY <1>1, ChainsFrame
<1>3. \A q \in Busy : /\ proc'[q] = proc[q] /\ buf'[proc[q].b].disk = buf[proc[q].b].disk
                      /\ Same(proc[q].b)' <=> Same(proc[q].b)
  BY <1>1 DEF Busy, Same
<1>4. Waiting' = Waiting BY <1>2, <1>3 DEF Waiting
<1>5. Heads' = Heads
  <2>1. \A q \in Waiting : proc'[q] = proc[q] BY <1>3 DEF Waiting
  <2> QED BY <1>4, <2>1 DEF Heads
<1>6. Asked' = Asked /\ Done' = Done BY <1>1, NumSame DEF Asked, Done
<1>7. Queues' BY <1>1, <1>5, <1>6, NumSame DEF Queues
<1>8. Served'
  <2>1. \A q \in Procs : proc'[q].pc = "iosleep" => buf'[proc'[q].b].disk
    <3> SUFFICES ASSUME NEW q \in Procs, proc'[q].pc = "iosleep" PROVE buf'[proc'[q].b].disk OBVIOUS
    <3>1. proc[q].pc \in InIo /\ proc'[q] = proc[q] BY PCSets
    <3> QED BY <3>1 DEF Served
  <2>2. \A q \in Busy' : q \notin Waiting' \/ proc'[q].head \in Done' => Same(proc[q].b)'
    <3> SUFFICES ASSUME NEW q \in Busy, q \notin Waiting \/ proc'[q].head \in Done PROVE Same(proc[q].b)'
      BY <1>2, <1>4, <1>6
    <3>1. proc'[q] = proc[q] /\ (Same(proc[q].b)' <=> Same(proc[q].b)) BY <1>3
    <3> QED BY <3>1 DEF Served
  <2>3. \A i \in Done' : info'[i].status = 0 BY <1>1, <1>6 DEF Served
  <2> QED BY <2>1, <2>2, <2>3 DEF Served
<1>9. Wakeups' BY <1>1 DEF Wakeups, CompletionSignalled
<1> QED BY <1>2, <1>7, <1>8, <1>9

-----------------------------------------------------------------------------
(* The steps of the cache: bget, bread, bwrite, brelse, bpin and bunpin.   *)

LEMMA DiskTypesFrame ==
  ASSUME DiskTypes, NUM' = NUM, UNCHANGED <<vdisk, vdisk_lock>>
  PROVE  DiskTypes'
BY NumSame DEF DiskTypes, vdisk

\* One process and one buffer change; the driver works on other buffers, or does
\* not see the difference.
LEMMA CacheStep ==
  ASSUME IInv, NUM' = NUM, UNCHANGED <<vdisk, vdisk_lock>>, panic' = "none",
         NEW p \in Procs, NEW t \in ProcRec, NEW i \in Bufs, NEW c \in BufRec,
         proc' = [proc EXCEPT ![p] = t], buf' = [buf EXCEPT ![i] = c],
         proc[p].pc \notin InIo, t.pc \notin InIo, t.pc # "dsleep",
         \/ \A q \in Busy : proc[q].b # i
         \/ c.disk = buf[i].disk /\ c.blockno = buf[i].blockno /\ c.data = buf[i].data,
         TableTypes', Table', Filled'
  PROVE  IInv'
<1>1. proc \in [Procs -> ProcRec] /\ buf \in [Bufs -> BufRec] BY DEF IInv, Types, ProcTypes, BufTypes
<1>2. proc' \in [Procs -> ProcRec] /\ buf' \in [Bufs -> BufRec] BY <1>1
<1>3. Types'
  <2>1. ProcTypes' BY <1>2, NumSame DEF ProcTypes
  <2>2. blocks' = blocks BY DEF vdisk
  <2>3. BufTypes' BY <1>2, <2>2 DEF BufTypes, BufRec, IInv, Types
  <2>4. DiskTypes' BY DiskTypesFrame DEF IInv, Types
  <2> QED BY <2>1, <2>3, <2>4 DEF Types
<1>4. ASSUME NEW q \in Procs
      PROVE  /\ proc'[q].pc \in InIo <=> proc[q].pc \in InIo
             /\ proc[q].pc \in InIo =>
                  /\ proc'[q] = proc[q]
                  /\ buf'[proc[q].b].disk = buf[proc[q].b].disk
                  /\ buf'[proc[q].b].blockno = buf[proc[q].b].blockno
                  /\ buf'[proc[q].b].data = buf[proc[q].b].data
             /\ proc'[q].pc = "dsleep" => proc[q].pc = "dsleep"
  <2>1. CASE q = p BY <1>1, <2>1
  <2>2. CASE q # p
    <3>1. proc'[q] = proc[q] BY <1>1, <2>2
    <3>2. proc[q].pc \in InIo => q \in Busy BY DEF Busy
    <3>3. \A j \in Bufs : j # i => buf'[j] = buf[j] BY <1>1
    <3>4. proc[q].pc \in InIo => proc[q].b \in Bufs BY PCSets, Holds DEF IInv, Types
    <3>5. buf'[i] = c BY <1>1
    <3> QED BY <3>1, <3>2, <3>3, <3>4, <3>5
  <2> QED BY <2>1, <2>2
<1>5. Chains' /\ Queues' /\ Served' /\ Wakeups' BY <1>4, DriverFrame DEF IInv, Types
<1> QED BY <1>3, <1>5 DEF IInv, NoDiskPanic

\* Validity of the buffer a process is at, carried over by a step that leaves both alone.
LEMMA FilledOne ==
  ASSUME Filled, NEW q \in Procs, proc'[q] = proc[q],
         proc[q].pc = "have" \/ proc[q].pc \in InRw => buf'[proc[q].b].valid = buf[proc[q].b].valid
  PROVE  /\ proc'[q].pc = "have" => buf'[proc'[q].b].valid
         /\ proc'[q].pc \in InRw => (buf'[proc'[q].b].valid <=> proc'[q].write)
BY DEF Filled

\* bget has found a buffer, cached or recycled.
LEMMA Found ==
  ASSUME FiniteFacts, IInv, NUM' = NUM, UNCHANGED <<vdisk, vdisk_lock, pins, lru, panic>>,
         NEW p \in Procs, NEW b \in Blocks, NEW i \in Bufs, NEW c \in BufRec, proc[p].pc = "idle",
         proc' = [proc EXCEPT ![p].pc = "lock", ![p].blk = b, ![p].b = i],
         buf' = [buf EXCEPT ![i] = c],
         c.blockno = b, c.refcnt = buf[i].refcnt + 1,
         c.lock = buf[i].lock, c.disk = buf[i].disk, c.data = buf[i].data,
         \/ c.blockno = buf[i].blockno /\ c.valid = buf[i].valid
         \/ buf[i].refcnt = 0 /\ ~c.valid,
         \A j \in Bufs \ {i} : buf[j].blockno # b
  PROVE  IInv'
<1> DEFINE t == [proc[p] EXCEPT !.pc = "lock", !.blk = b, !.b = i]
<1>1. proc \in [Procs -> ProcRec] /\ buf \in [Bufs -> BufRec] BY DEF IInv, Types, ProcTypes, BufTypes
<1>2. proc' = [proc EXCEPT ![p] = t] BY <1>1 DEF ProcRec
<1>3. t \in ProcRec /\ t.pc = "lock" /\ t.b = i /\ t.write = proc[p].write /\ t.head = proc[p].head
  BY <1>1, PCSets DEF ProcRec
<1> HIDE DEF t
<1>4. /\ \A q \in Procs : q # p => proc'[q] = proc[q]
      /\ \A j \in Bufs : j # i => buf'[j] = buf[j]
      /\ proc'[p] = t /\ buf'[i] = c
  BY <1>1, <1>2
<1>5. proc[p].b \notin Bufs BY DEF IInv, Table, Placed
<1>6. buf[i].refcnt = 0 => i \notin pins /\ \A q \in Procs : proc[q].b # i BY Unreferenced
<1>7. t.pc \notin Holding /\ t.pc # "idle" /\ t.pc \notin InRw /\ t.pc # "have" /\ t.pc # "dsleep"
  BY <1>3 DEF Holding, InRw
<1>8. Placed'
  <2>1. ASSUME NEW q \in Procs
        PROVE  /\ proc'[q].b \in Bufs <=> proc'[q].pc # "idle"
               /\ proc'[q].b \in Bufs => buf'[proc'[q].b].blockno \in Blocks
    <3>1. CASE q = p
      <4>1. proc'[q].b = i /\ proc'[q].pc = "lock" /\ buf'[i].blockno = b BY <1>3, <1>4, <3>1
      <4> QED BY <4>1
    <3>2. CASE q # p
      <4>1. proc'[q] = proc[q] BY <1>4, <3>2
      <4>2. CASE proc[q].b = i BY <1>4, <4>1, <4>2 DEF IInv, Table, Placed
      <4>3. CASE proc[q].b # i BY <1>4, <4>1, <4>3 DEF IInv, Table, Placed
      <4> QED BY <4>2, <4>3
    <3> QED BY <3>1, <3>2
  <2> QED BY <2>1 DEF Placed
<1>9. Locked'
  <2>1. ASSUME NEW j \in Bufs, NEW q \in Procs
        PROVE  buf'[j].lock = q <=> proc'[q].b = j /\ proc'[q].pc \in Holding
    <3>1. buf[j].lock = q <=> proc[q].b = j /\ proc[q].pc \in Holding BY DEF IInv, Table, Locked
    <3>2. buf'[j].lock = buf[j].lock BY <1>4
    <3>3. CASE q = p BY <1>4, <1>5, <1>7, <3>1, <3>2, <3>3
    <3>4. CASE q # p BY <1>4, <3>1, <3>2, <3>4
    <3> QED BY <3>3, <3>4
  <2> QED BY <2>1 DEF Locked
<1>10. Single'
  <2>1. ASSUME NEW j \in Bufs, NEW k \in Bufs, j # k, buf'[j].blockno = buf'[k].blockno
        PROVE  buf'[j].blockno = NoBlock
    <3>1. CASE j = i
      <4>1. buf'[j].blockno = b /\ buf'[k].blockno = buf[k].blockno BY <1>4, <2>1, <3>1
      <4>2. buf[k].blockno # b BY <2>1, <3>1
      <4> QED BY <2>1, <4>1, <4>2
    <3>2. CASE k = i
      <4>1. buf'[k].blockno = b /\ buf'[j].blockno = buf[j].blockno BY <1>4, <2>1, <3>2
      <4>2. buf[j].blockno # b BY <2>1, <3>2
      <4> QED BY <2>1, <4>1, <4>2
    <3>3. CASE j # i /\ k # i
      <4>1. buf'[j] = buf[j] /\ buf'[k] = buf[k] BY <1>4, <3>3
      <4>2. buf[j].blockno = buf[k].blockno BY <2>1, <4>1
      <4>3. buf[j].blockno = NoBlock BY <2>1, <4>2 DEF IInv, Table, Single
      <4> QED BY <4>1, <4>3
    <3> QED BY <3>1, <3>2, <3>3
  <2> QED BY <2>1 DEF Single
<1>11. RefcntExact'
  <2>1. ASSUME NEW j \in Bufs
        PROVE  buf'[j].refcnt = Cardinality({q \in Procs : proc'[q].b = j}) + (IF j \in pins' THEN 1 ELSE 0)
    <3> DEFINE U == {q \in Procs : proc[q].b = j}
               V == {q \in Procs : proc'[q].b = j}
    <3>1. buf[j].refcnt = Cardinality(U) + (IF j \in pins THEN 1 ELSE 0) BY DEF IInv, Table, RefcntExact
    <3>2. CASE j = i
      <4>1. V = U \cup {p} BY <1>3, <1>4, <3>2
      <4>2. p \notin U BY <1>5
      <4>3. IsFiniteSet(U) BY UsersFinite
      <4>4. Cardinality(V) = Cardinality(U) + 1 BY <4>1, <4>2, <4>3 DEF FiniteFacts, FinAdd
      <4>5. Cardinality(U) \in Nat BY <4>3 DEF FiniteFacts, FinType
      <4>6. buf'[j].refcnt = buf[j].refcnt + 1 BY <1>4, <3>2
      <4> HIDE DEF U, V
      <4>7. buf'[j].refcnt = Cardinality(V) + (IF j \in pins THEN 1 ELSE 0)
        BY <3>1, <4>4, <4>5, <4>6, SMT
      <4> QED BY <4>7 DEF V
    <3>3. CASE j # i
      <4>1. proc'[p].b # j /\ proc[p].b # j BY <1>3, <1>4, <1>5, <3>3
      <4>2. \A q \in Procs : proc'[q].b = j <=> proc[q].b = j BY <1>4, <4>1
      <4>3. V = U BY <4>2
      <4> QED BY <1>4, <3>1, <3>3, <4>3
    <3> QED BY <3>2, <3>3
  <2> QED BY <2>1 DEF RefcntExact
<1>12. Filled'
  <2>1. ASSUME NEW q \in Procs
        PROVE  /\ proc'[q].pc = "have" => buf'[proc'[q].b].valid
               /\ proc'[q].pc \in InRw => (buf'[proc'[q].b].valid <=> proc'[q].write)
    <3>1. CASE q = p BY <1>4, <1>7, <3>1
    <3>2. CASE q # p
      <4>1. proc'[q] = proc[q] BY <1>4, <3>2
      <4>2. proc[q].pc = "have" \/ proc[q].pc \in InRw => proc[q].b \in Bufs
        BY DEF IInv, Table, Placed, InRw
      <4>3. CASE proc[q].b = i
        <5>1. buf'[i].valid = buf[i].valid BY <1>4, <1>6, <4>3
        <5> QED BY <4>1, <4>3, <5>1, FilledOne DEF IInv
      <4>4. CASE proc[q].b # i
        <5>1. proc[q].b \in Bufs => buf'[proc[q].b] = buf[proc[q].b] BY <1>4, <4>4
        <5> QED BY <4>1, <4>2, <5>1, FilledOne DEF IInv
      <4> QED BY <4>3, <4>4
    <3> QED BY <3>1, <3>2
  <2>2. ASSUME NEW j \in pins PROVE buf'[j].valid
    <3>1. j \in Bufs BY DEF IInv, Types, TableTypes
    <3>2. CASE j = i BY <1>4, <1>6, <3>2 DEF IInv, Filled
    <3>3. CASE j # i BY <1>4, <3>1, <3>3 DEF IInv, Filled
    <3> QED BY <3>2, <3>3
  <2>3. ASSUME NEW j \in Bufs, buf'[j].valid
        PROVE  /\ buf'[j].blockno \in Blocks /\ buf'[j].data \in Values
               /\ Same(j)' \/ j \in pins' \/ Written(j)'
    <3>1. buf'[j].valid = buf[j].valid /\ buf'[j].blockno = buf[j].blockno /\ buf'[j].data = buf[j].data
      BY <1>4, <2>3
    <3>2. blocks' = blocks BY DEF vdisk
    <3>3. Written(j) => Written(j)'
      <4> SUFFICES ASSUME NEW q \in Procs, proc[q].b = j, proc[q].pc \in InRw, proc[q].write
                   PROVE  Written(j)'
        BY DEF Written
      <4>1. q # p BY <1>5
      <4>2. proc'[q] = proc[q] BY <1>4, <4>1
      <4> QED BY <4>2 DEF Written
    <3> QED BY <2>3, <3>1, <3>2, <3>3 DEF IInv, Filled, Same
  <2> QED BY <2>1, <2>2, <2>3 DEF Filled
<1>13. \/ \A q \in Busy : proc[q].b # i
       \/ c.disk = buf[i].disk /\ c.blockno = buf[i].blockno /\ c.data = buf[i].data
  BY <1>6 DEF Busy
<1>14. Table' BY <1>8, <1>9, <1>10, <1>11 DEF Table
<1>15. TableTypes' BY DEF IInv, Types, TableTypes
<1>16. panic' = "none" BY DEF IInv, NoDiskPanic
<1>17. proc[p].pc \notin InIo /\ t.pc \notin InIo BY <1>7, PCSets
<1> QED BY <1>2, <1>3, <1>4, <1>7, <1>12, <1>13, <1>14, <1>15, <1>16, <1>17, CacheStep

\* With Room, bget finds a buffer: those in use are pinned or have a process.
LEMMA RoomForOne ==
  ASSUME FiniteFacts, IInv, Room, \A i \in Bufs : buf[i].refcnt # 0
  PROVE  FALSE
<1> DEFINE f == [q \in Active |-> proc[q].b]
           I == {proc[q].b : q \in Active}
<1>1. NBUF \in Nat \ {0} BY DiskAssumption
<1>2. IsFiniteSet(Bufs) /\ Cardinality(Bufs) = NBUF
  <2>1. 0 \in Int /\ NBUF - 1 \in Int BY <1>1, SMT
  <2>2. IsFiniteSet(0..(NBUF - 1)) /\ Cardinality(0..(NBUF - 1)) = IF 0 > NBUF - 1 THEN 0 ELSE (NBUF - 1) - 0 + 1
    BY <2>1 DEF FiniteFacts, FinInterval
  <2>3. (IF 0 > NBUF - 1 THEN 0 ELSE (NBUF - 1) - 0 + 1) = NBUF BY <1>1, SMT
  <2> QED BY <2>2, <2>3, SMT DEF Bufs
<1>3. IsFiniteSet(pins) /\ Cardinality(pins) \in Nat
  <2>1. pins \in SUBSET Bufs BY DEF IInv, Types, TableTypes
  <2> QED BY <1>2, <2>1 DEF FiniteFacts, FinSubset, FinType
<1>4. IsFiniteSet(Active) /\ Cardinality(Active) \in Nat
  <2>1. Active \in SUBSET Procs BY DEF Active
  <2> QED BY <2>1, DiskAssumption DEF FiniteFacts, FinSubset, FinType
<1>5. IsFiniteSet(I) /\ Cardinality(I) <= Cardinality(Active) /\ Cardinality(I) \in Nat
  <2>1. f \in [Active -> I] /\ \A x \in I : \E q \in Active : f[q] = x OBVIOUS
  <2> HIDE DEF f, I
  <2> QED BY <1>4, <2>1 DEF FiniteFacts, FinOnto, FinType
<1>6. Bufs \subseteq pins \cup I
  <2> SUFFICES ASSUME NEW i \in Bufs, i \notin pins PROVE i \in I OBVIOUS
  <2> DEFINE U == {q \in Procs : proc[q].b = i}
  <2>1. buf[i].refcnt = Cardinality(U) + 0 BY DEF IInv, Table, RefcntExact
  <2>2. IsFiniteSet(U) /\ Cardinality(U) \in Nat BY UsersFinite DEF FiniteFacts, FinType
  <2>3. U # {}
    <3>1. Cardinality(U) # 0 BY <2>1, <2>2, SMT
    <3> QED BY <3>1 DEF FiniteFacts, FinEmpty
  <2>4. PICK q \in Procs : proc[q].b = i BY <2>3
  <2>5. q \in Active BY <2>4 DEF Active, At, IInv, Table, Placed
  <2> QED BY <2>4, <2>5
<1> HIDE DEF I, f
<1>7. IsFiniteSet(pins \cup I) /\ Cardinality(pins \cup I) = Cardinality(pins) + Cardinality(I) - Cardinality(pins \cap I)
  BY <1>3, <1>5 DEF FiniteFacts, FinUnion
<1>8. Cardinality(pins \cap I) \in Nat
  <2>1. pins \cap I \in SUBSET pins OBVIOUS
  <2> QED BY <1>3, <2>1 DEF FiniteFacts, FinSubset, FinType
<1>9. Cardinality(Bufs) <= Cardinality(pins \cup I)
  <2>1. Bufs \in SUBSET (pins \cup I) BY <1>6
  <2> QED BY <1>7, <2>1 DEF FiniteFacts, FinSubset
<1>10. Cardinality(pins) + Cardinality(Active) < NBUF BY DEF Room
<1> QED BY <1>1, <1>2, <1>3, <1>4, <1>5, <1>7, <1>8, <1>9, <1>10, SMT

LEMMA BgetStep ==
  ASSUME FiniteFacts, IInv, NUM' = NUM, NEW p \in Procs, NEW b \in Blocks, bget(p, b)
  PROVE  IInv'
<1>1. buf \in [Bufs -> BufRec] BY DEF IInv, Types, BufTypes
<1>2. proc[p].pc = "idle" /\ Room /\ UNCHANGED <<vdisk, vdisk_lock, pins, lru>> BY DEF bget, At
<1>3. ASSUME NEW i \in Bufs, buf[i].blockno = b, panic' = panic,
             proc' = [proc EXCEPT ![p].pc = "lock", ![p].blk = b, ![p].b = i],
             buf' = [buf EXCEPT ![i].refcnt = @ + 1]
      PROVE  IInv'
  <2> DEFINE c == [buf[i] EXCEPT !.refcnt = buf[i].refcnt + 1]
  <2>1. buf[i].refcnt + 1 \in Nat
    <3>1. buf[i].refcnt \in Nat BY <1>1 DEF BufRec
    <3> QED BY <3>1, SMT
  <2>2. /\ c \in BufRec /\ c.blockno = b /\ c.refcnt = buf[i].refcnt + 1 /\ c.lock = buf[i].lock
        /\ c.disk = buf[i].disk /\ c.data = buf[i].data /\ c.valid = buf[i].valid
    BY <1>1, <1>3, <2>1 DEF BufRec
  <2>3. buf' = [buf EXCEPT ![i] = c] BY <1>1, <1>3
  <2>4. \A j \in Bufs \ {i} : buf[j].blockno # b
    <3>1. b # NoBlock BY DiskAssumption
    <3> QED BY <1>3, <3>1 DEF IInv, Table, Single
  <2>5. c.blockno = buf[i].blockno BY <1>3, <2>2
  <2> HIDE DEF c
  <2>6. UNCHANGED <<vdisk, vdisk_lock, pins, lru, panic>> BY <1>2, <1>3
  <2>7. proc' = [proc EXCEPT ![p].pc = "lock", ![p].blk = b, ![p].b = i] BY <1>3
  <2>8. \/ c.blockno = buf[i].blockno /\ c.valid = buf[i].valid
        \/ buf[i].refcnt = 0 /\ ~c.valid
    BY <2>2, <2>5
  <2> QED BY <1>2, <2>2, <2>3, <2>4, <2>6, <2>7, <2>8, Found
<1>4. ASSUME NEW n \in 1..NBUF, buf[lru[n]].refcnt = 0, {i \in Bufs : buf[i].blockno = b} = {}, panic' = panic,
             proc' = [proc EXCEPT ![p].pc = "lock", ![p].blk = b, ![p].b = lru[n]],
             buf' = [buf EXCEPT ![lru[n]].blockno = b, ![lru[n]].valid = FALSE, ![lru[n]].refcnt = 1]
      PROVE  IInv'
  <2> DEFINE i == lru[n]
             c == [buf[i] EXCEPT !.blockno = b, !.valid = FALSE, !.refcnt = 1]
  <2>1. i \in Bufs BY DEF IInv, Types, TableTypes
  <2>2. 1 \in Nat /\ 0 + 1 = 1 BY SMT
  <2> HIDE DEF i
  <2>3. /\ c \in BufRec /\ c.blockno = b /\ c.refcnt = 1 /\ c.lock = buf[i].lock
        /\ c.disk = buf[i].disk /\ c.data = buf[i].data /\ c.valid = FALSE
    BY <1>1, <2>1, <2>2 DEF BufRec
  <2>4. buf' = [buf EXCEPT ![i] = c] BY <1>1, <1>4, <2>1 DEF BufRec, i
  <2> HIDE DEF c
  <2>5. buf[i].refcnt = 0 /\ c.refcnt = buf[i].refcnt + 1 BY <1>4, <2>2, <2>3 DEF i
  <2>6. \A j \in Bufs \ {i} : buf[j].blockno # b BY <1>4
  <2>7. proc' = [proc EXCEPT ![p].pc = "lock", ![p].blk = b, ![p].b = i] BY <1>4 DEF i
  <2>8. UNCHANGED <<vdisk, vdisk_lock, pins, lru, panic>> BY <1>2, <1>4
  <2> QED BY <1>2, <2>1, <2>3, <2>4, <2>5, <2>6, <2>7, <2>8, Found
<1>5. ASSUME {n \in 1..NBUF : Unused(n)} = {} PROVE FALSE
  <2>1. ASSUME NEW i \in Bufs PROVE buf[i].refcnt # 0
    <3>1. PICK n \in 1..NBUF : lru[n] = i BY DEF IInv, Types, TableTypes
    <3> QED BY <1>5, <3>1 DEF Unused
  <2> QED BY <1>2, <2>1, RoomForOne
<1> QED BY <1>3, <1>4, <1>5 DEF bget, Recycled, Unused

\* The table, when a process that keeps its buffer takes or gives up the lock, pins
\* or unpins.
LEMMA TableStep ==
  ASSUME FiniteFacts, IInv, NEW p \in Procs, NEW t \in ProcRec, NEW i \in Bufs, NEW c \in BufRec,
         proc' = [proc EXCEPT ![p] = t], buf' = [buf EXCEPT ![i] = c],
         proc[p].b = i, t.b = i, t.pc # "idle", c.blockno = buf[i].blockno,
         \/ c.lock = buf[i].lock /\ (t.pc \in Holding <=> proc[p].pc \in Holding)
         \/ c.lock = p /\ buf[i].lock = NoProc /\ t.pc \in Holding
         \/ c.lock = NoProc /\ buf[i].lock = p /\ t.pc \notin Holding,
         \/ pins' = pins /\ c.refcnt = buf[i].refcnt
         \/ i \notin pins /\ pins' = pins \cup {i} /\ c.refcnt = buf[i].refcnt + 1
         \/ i \in pins /\ pins' = pins \ {i} /\ c.refcnt = buf[i].refcnt - 1
  PROVE  Table'
<1>1. proc \in [Procs -> ProcRec] /\ buf \in [Bufs -> BufRec] BY DEF IInv, Types, ProcTypes, BufTypes
<1>2. /\ \A q \in Procs : q # p => proc'[q] = proc[q]
      /\ \A j \in Bufs : j # i => buf'[j] = buf[j]
      /\ proc'[p] = t /\ buf'[i] = c
  BY <1>1
<1>3. /\ \A q \in Procs : proc'[q].b = proc[q].b
      /\ \A j \in Bufs : buf'[j].blockno = buf[j].blockno
  BY <1>2
<1>4. Placed'
  <2>1. proc[p].pc # "idle" BY DEF IInv, Table, Placed
  <2>2. \A q \in Procs : proc'[q].pc # "idle" <=> proc[q].pc # "idle" BY <1>2, <2>1
  <2> QED BY <1>3, <2>2 DEF IInv, Table, Placed
<1>5. Locked'
  <2>1. NoProc \notin Procs BY DiskAssumption
  <2>2. ASSUME NEW j \in Bufs, NEW q \in Procs
        PROVE  buf'[j].lock = q <=> proc'[q].b = j /\ proc'[q].pc \in Holding
    <3>1. buf[j].lock = q <=> proc[q].b = j /\ proc[q].pc \in Holding BY DEF IInv, Table, Locked
    <3>2. CASE j # i /\ q # p BY <1>2, <3>1, <3>2
    <3>3. CASE j # i /\ q = p BY <1>2, <3>1, <3>3
    <3>4. CASE j = i /\ q = p
      <4>1. buf[i].lock = p <=> proc[p].pc \in Holding BY <3>1, <3>4
      <4>2. c.lock = p <=> t.pc \in Holding BY <2>1, <4>1
      <4> QED BY <1>2, <3>4, <4>2
    <3>5. CASE j = i /\ q # p
      <4>1. buf[i].lock = q <=> proc[q].b = i /\ proc[q].pc \in Holding BY <3>1, <3>5
      <4>2. c.lock = q <=> buf[i].lock = q
        <5>1. q # NoProc /\ p # q BY <2>1, <3>5
        <5> QED BY <5>1, SMT
      <4>3. buf'[i].lock = q <=> proc'[q].b = i /\ proc'[q].pc \in Holding BY <1>2, <3>5, <4>1, <4>2
      <4> QED BY <3>5, <4>3
    <3> QED BY <3>2, <3>3, <3>4, <3>5
  <2> QED BY <2>2 DEF Locked
<1>6. Single' BY <1>3 DEF IInv, Table, Single
<1>7. RefcntExact'
  <2>1. ASSUME NEW j \in Bufs
        PROVE  buf'[j].refcnt = Cardinality({q \in Procs : proc'[q].b = j}) + (IF j \in pins' THEN 1 ELSE 0)
    <3> DEFINE U == {q \in Procs : proc[q].b = j}
    <3>1. buf[j].refcnt = Cardinality(U) + (IF j \in pins THEN 1 ELSE 0) BY DEF IInv, Table, RefcntExact
    <3>2. {q \in Procs : proc'[q].b = j} = U BY <1>3
    <3>3. Cardinality(U) \in Nat BY UsersFinite DEF FiniteFacts, FinType
    <3> HIDE DEF U
    <3>4. buf'[j].refcnt = Cardinality(U) + (IF j \in pins' THEN 1 ELSE 0)
      <4>1. CASE j # i
        <5>1. buf'[j].refcnt = buf[j].refcnt /\ (j \in pins' <=> j \in pins) BY <1>2, <4>1
        <5> QED BY <3>1, <5>1
      <4>2. CASE j = i /\ pins' = pins /\ c.refcnt = buf[i].refcnt BY <1>2, <3>1, <4>2
      <4>3. CASE j = i /\ i \notin pins /\ pins' = pins \cup {i} /\ c.refcnt = buf[i].refcnt + 1
        <5>1. buf'[j].refcnt = buf[j].refcnt + 1 /\ j \in pins' /\ j \notin pins BY <1>2, <4>3
        <5> QED BY <3>1, <3>3, <5>1, SMT
      <4>4. CASE j = i /\ i \in pins /\ pins' = pins \ {i} /\ c.refcnt = buf[i].refcnt - 1
        <5>1. buf'[j].refcnt = buf[j].refcnt - 1 /\ j \notin pins' /\ j \in pins BY <1>2, <4>4
        <5> QED BY <3>1, <3>3, <5>1, SMT
      <4> QED BY <4>1, <4>2, <4>3, <4>4
    <3> QED BY <3>2, <3>4
  <2> QED BY <2>1 DEF RefcntExact
<1> QED BY <1>4, <1>5, <1>6, <1>7 DEF Table

\* What the buffers hold, when a process that is not in virtio_disk_rw takes a step.
LEMMA FilledStep ==
  ASSUME IInv, NEW p \in Procs, NEW t \in ProcRec, NEW i \in Bufs, NEW c \in BufRec,
         proc' = [proc EXCEPT ![p] = t], buf' = [buf EXCEPT ![i] = c], blocks' = blocks,
         proc[p].pc \notin InRw, c.valid = buf[i].valid, c.blockno = buf[i].blockno,
         t.pc = "have" => t.b = i /\ c.valid,
         t.pc \in InRw => t.b = i /\ (c.valid <=> t.write),
         pins \ {i} \subseteq pins', pins' \subseteq pins \cup {i}, i \in pins' => c.valid,
         \/ c.data = buf[i].data /\ (i \in pins => i \in pins')
         \/ c.data \in Values /\ (c.data = blocks[c.blockno] \/ i \in pins')
         \/ c.data \in Values /\ t.b = i /\ t.pc \in InRw /\ t.write
  PROVE  Filled'
<1>1. proc \in [Procs -> ProcRec] /\ buf \in [Bufs -> BufRec] BY DEF IInv, Types, ProcTypes, BufTypes
<1>2. /\ \A q \in Procs : q # p => proc'[q] = proc[q]
      /\ \A j \in Bufs : j # i => buf'[j] = buf[j]
      /\ proc'[p] = t /\ buf'[i] = c
  BY <1>1
<1>3. \A j \in Bufs : buf'[j].valid = buf[j].valid /\ buf'[j].blockno = buf[j].blockno BY <1>2
<1>4. ASSUME NEW q \in Procs
      PROVE  /\ proc'[q].pc = "have" => buf'[proc'[q].b].valid
             /\ proc'[q].pc \in InRw => (buf'[proc'[q].b].valid <=> proc'[q].write)
  <2>1. CASE q = p
    <3>1. proc'[q] = t /\ (t.b = i => buf'[proc'[q].b] = c) BY <1>2, <2>1
    <3>2. t.pc = "have" \/ t.pc \in InRw => buf'[proc'[q].b] = c BY <3>1
    <3> QED BY <3>1, <3>2, SMT
  <2>2. CASE q # p
    <3>1. proc'[q] = proc[q] BY <1>2, <2>2
    <3>2. proc[q].pc = "have" \/ proc[q].pc \in InRw => proc[q].b \in Bufs
      BY DEF IInv, Table, Placed, InRw
    <3>3. /\ proc[q].pc = "have" => buf[proc[q].b].valid
          /\ proc[q].pc \in InRw => (buf[proc[q].b].valid <=> proc[q].write)
      BY DEF IInv, Filled
    <3>4. proc[q].b \in Bufs => buf'[proc[q].b].valid = buf[proc[q].b].valid BY <1>3
    <3> QED BY <3>1, <3>2, <3>3, <3>4
  <2> QED BY <2>1, <2>2
<1>5. ASSUME NEW j \in pins' PROVE buf'[j].valid
  <2>1. CASE j = i BY <1>2, <2>1
  <2>2. CASE j # i
    <3>1. j \in pins /\ j \in Bufs BY <2>2 DEF IInv, Types, TableTypes
    <3> QED BY <1>3, <3>1 DEF IInv, Filled
  <2> QED BY <2>1, <2>2
<1>6. ASSUME NEW j \in Bufs PROVE Written(j) => Written(j)'
  <2> SUFFICES ASSUME NEW q \in Procs, proc[q].b = j, proc[q].pc \in InRw, proc[q].write
               PROVE  Written(j)'
    BY DEF Written
  <2>1. proc'[q] = proc[q] BY <1>2
  <2> QED BY <2>1 DEF Written
<1>7. ASSUME NEW j \in Bufs, buf'[j].valid
      PROVE  /\ buf'[j].blockno \in Blocks /\ buf'[j].data \in Values
             /\ Same(j)' \/ j \in pins' \/ Written(j)'
  <2>1. /\ buf[j].blockno \in Blocks /\ buf[j].data \in Values
        /\ Same(j) \/ j \in pins \/ Written(j)
    BY <1>3, <1>7 DEF IInv, Filled
  <2>2. CASE buf'[j].data = buf[j].data /\ (j \in pins => j \in pins')
    BY <1>3, <1>6, <2>1, <2>2 DEF Same
  <2>3. CASE j # i BY <1>2, <2>2, <2>3
  <2>4. CASE j = i
    <3>1. CASE c.data = buf[i].data /\ (i \in pins => i \in pins') BY <1>2, <2>2, <2>4, <3>1
    <3>2. CASE c.data \in Values /\ (c.data = blocks[c.blockno] \/ i \in pins')
      BY <1>2, <1>3, <2>1, <2>4, <3>2 DEF Same
    <3>3. CASE c.data \in Values /\ t.b = i /\ t.pc \in InRw /\ t.write
      <4>1. Written(j)' BY <1>2, <2>4, <3>3 DEF Written
      <4> QED BY <1>2, <1>3, <2>1, <2>4, <3>3, <4>1
    <3> QED BY <3>1, <3>2, <3>3
  <2> QED BY <2>3, <2>4
<1> QED BY <1>4, <1>5, <1>7 DEF Filled

LEMMA BreadStep ==
  ASSUME FiniteFacts, IInv, NUM' = NUM, NEW p \in Procs, bread(p)
  PROVE  IInv'
<1> DEFINE i == proc[p].b
           t == [proc[p] EXCEPT !.pc = IF buf[i].valid THEN "have" ELSE "rw", !.write = FALSE]
           c == [buf[i] EXCEPT !.lock = p]
<1>1. proc \in [Procs -> ProcRec] /\ buf \in [Bufs -> BufRec] BY DEF IInv, Types, ProcTypes, BufTypes
<1>2. /\ proc[p].pc = "lock" /\ buf[i].lock = NoProc
      /\ UNCHANGED <<vdisk, vdisk_lock, panic, lru, pins>> BY DEF bread, At
<1>3. i \in Bufs BY <1>2 DEF IInv, Table, Placed
<1>4. proc' = [proc EXCEPT ![p] = t] BY <1>1 DEF bread, ProcRec
<1>5. buf' = [buf EXCEPT ![i] = c] BY <1>1, <1>3 DEF bread, BufRec
<1> HIDE DEF i
<1>6. t \in ProcRec /\ t.pc = (IF buf[i].valid THEN "have" ELSE "rw") /\ t.b = i /\ t.write = FALSE
  BY <1>1, PCSets DEF ProcRec, i
<1>7. /\ c \in BufRec /\ c.lock = p /\ c.refcnt = buf[i].refcnt /\ c.blockno = buf[i].blockno
      /\ c.valid = buf[i].valid /\ c.disk = buf[i].disk /\ c.data = buf[i].data
  BY <1>1, <1>3 DEF BufRec
<1> HIDE DEF t, c
<1>8. /\ t.pc \in Holding /\ t.pc # "idle" /\ t.pc \notin InIo /\ t.pc # "dsleep"
      /\ t.pc = "have" => c.valid
      /\ t.pc \in InRw => (c.valid <=> t.write)
      /\ proc[p].pc \notin InIo /\ proc[p].pc \notin InRw /\ buf[i].valid \in BOOLEAN
  BY <1>1, <1>2, <1>3, <1>6, <1>7 DEF Holding, InRw, InIo, BufRec
<1>9. proc[p].b = i /\ blocks' = blocks BY <1>2 DEF vdisk, i
<1>10. Table' BY <1>2, <1>3, <1>4, <1>5, <1>6, <1>7, <1>8, <1>9, TableStep
<1>11. i \in pins => c.valid BY <1>7 DEF IInv, Filled
<1>12. Filled' BY <1>2, <1>3, <1>4, <1>5, <1>6, <1>7, <1>8, <1>9, <1>11, FilledStep
<1>13. TableTypes' BY <1>2 DEF IInv, Types, TableTypes
<1>14. panic' = "none" BY <1>2 DEF IInv, NoDiskPanic
<1> QED BY <1>2, <1>3, <1>4, <1>5, <1>6, <1>7, <1>8, <1>10, <1>12, <1>13, <1>14, CacheStep

\* The processes that call bwrite, brelse, bpin and bunpin.
LEMMA HaveIt ==
  ASSUME IInv, NEW p \in Procs, proc[p].pc = "have"
  PROVE  /\ proc[p].b \in Bufs /\ buf[proc[p].b].lock = p /\ buf[proc[p].b].valid
         /\ \A q \in Busy : proc[q].b # proc[p].b
         /\ proc[p].pc \notin InIo /\ proc[p].pc \notin InRw /\ proc[p].pc \in Holding
<1>1. proc[p].pc \notin InIo /\ proc[p].pc \notin InRw /\ proc[p].pc \in Holding BY DEF InIo, InRw, Holding
<1>2. /\ proc[p].b \in Bufs /\ buf[proc[p].b].lock = p
      /\ \A q \in Procs : q # p /\ proc[q].pc \in Holding => proc[q].b # proc[p].b
  BY <1>1, Holds DEF IInv, Types
<1>3. buf[proc[p].b].valid BY DEF IInv, Filled
<1>4. \A q \in Busy : q \in Procs /\ q # p /\ proc[q].pc \in Holding BY <1>1, PCSets DEF Busy
<1> QED BY <1>1, <1>2, <1>3, <1>4

LEMMA BwriteStep ==
  ASSUME FiniteFacts, IInv, NUM' = NUM, NEW p \in Procs, NEW v \in Values, bwrite(p, v)
  PROVE  IInv'
<1> DEFINE i == proc[p].b
           t == [proc[p] EXCEPT !.pc = "rw", !.write = TRUE]
           c == [buf[i] EXCEPT !.data = v]
<1>1. proc \in [Procs -> ProcRec] /\ buf \in [Bufs -> BufRec] BY DEF IInv, Types, ProcTypes, BufTypes
<1>2. proc[p].pc = "have" /\ UNCHANGED <<vdisk, vdisk_lock, lru, pins>> BY DEF bwrite, At
<1>3. /\ i \in Bufs /\ buf[i].lock = p /\ buf[i].valid /\ \A q \in Busy : proc[q].b # i
      /\ proc[p].pc \notin InIo /\ proc[p].pc \notin InRw /\ proc[p].pc \in Holding
  BY <1>2, HaveIt
<1>4. proc' = [proc EXCEPT ![p] = t] BY <1>1 DEF bwrite, ProcRec
<1>5. buf' = [buf EXCEPT ![i] = c] BY <1>1, <1>3 DEF bwrite, BufRec
<1>6. panic' = "none" BY <1>3 DEF bwrite, IInv, NoDiskPanic
<1> HIDE DEF i
<1>7. t \in ProcRec /\ t.pc = "rw" /\ t.b = i /\ t.write = TRUE BY <1>1, PCSets DEF ProcRec, i
<1>8. /\ c \in BufRec /\ c.lock = buf[i].lock /\ c.refcnt = buf[i].refcnt /\ c.blockno = buf[i].blockno
      /\ c.valid = buf[i].valid /\ c.data = v
  BY <1>1, <1>3 DEF BufRec
<1> HIDE DEF t, c
<1>9. t.pc \in Holding /\ t.pc \in InRw /\ t.pc # "idle" /\ t.pc \notin InIo /\ t.pc # "dsleep" /\ t.pc # "have"
  BY <1>7 DEF Holding, InRw, InIo
<1>10. proc[p].b = i /\ blocks' = blocks BY <1>2 DEF vdisk, i
<1>11. Table' BY <1>2, <1>3, <1>4, <1>5, <1>7, <1>8, <1>9, <1>10, TableStep
<1>12. Filled' BY <1>2, <1>3, <1>4, <1>5, <1>7, <1>8, <1>9, <1>10, FilledStep
<1>13. TableTypes' BY <1>2 DEF IInv, Types, TableTypes
<1> QED BY <1>2, <1>3, <1>4, <1>5, <1>6, <1>7, <1>8, <1>9, <1>11, <1>12, <1>13, CacheStep

LEMMA BrelseStep ==
  ASSUME FiniteFacts, IInv, NUM' = NUM, NEW p \in Procs, brelse(p)
  PROVE  IInv'
<1> DEFINE i == proc[p].b
           t == [proc[p] EXCEPT !.pc = "put"]
           c == [buf[i] EXCEPT !.lock = NoProc]
<1>1. proc \in [Procs -> ProcRec] /\ buf \in [Bufs -> BufRec] BY DEF IInv, Types, ProcTypes, BufTypes
<1>2. proc[p].pc = "have" /\ UNCHANGED <<vdisk, vdisk_lock, lru, pins>> BY DEF brelse, At
<1>3. /\ i \in Bufs /\ buf[i].lock = p /\ buf[i].valid /\ \A q \in Busy : proc[q].b # i
      /\ proc[p].pc \notin InIo /\ proc[p].pc \notin InRw /\ proc[p].pc \in Holding
  BY <1>2, HaveIt
<1>4. proc' = [proc EXCEPT ![p] = t] BY <1>1 DEF brelse, Goto, ProcRec
<1>5. buf' = [buf EXCEPT ![i] = c] BY <1>1, <1>3 DEF brelse, BufRec
<1>6. panic' = "none" BY <1>3 DEF brelse, IInv, NoDiskPanic
<1> HIDE DEF i
<1>7. t \in ProcRec /\ t.pc = "put" /\ t.b = i BY <1>1, PCSets DEF ProcRec, i
<1>8. /\ c \in BufRec /\ c.lock = NoProc /\ c.refcnt = buf[i].refcnt /\ c.blockno = buf[i].blockno
      /\ c.valid = buf[i].valid /\ c.data = buf[i].data
  BY <1>1, <1>3 DEF BufRec
<1> HIDE DEF t, c
<1>9. t.pc \notin Holding /\ t.pc \notin InRw /\ t.pc # "idle" /\ t.pc \notin InIo /\ t.pc # "dsleep" /\ t.pc # "have"
  BY <1>7 DEF Holding, InRw, InIo
<1>10. proc[p].b = i /\ blocks' = blocks BY <1>2 DEF vdisk, i
<1>11. Table' BY <1>2, <1>3, <1>4, <1>5, <1>7, <1>8, <1>9, <1>10, TableStep
<1>12. Filled' BY <1>2, <1>3, <1>4, <1>5, <1>7, <1>8, <1>9, <1>10, FilledStep
<1>13. TableTypes' BY <1>2 DEF IInv, Types, TableTypes
<1> QED BY <1>2, <1>3, <1>4, <1>5, <1>6, <1>7, <1>8, <1>9, <1>11, <1>12, <1>13, CacheStep

LEMMA BpinStep ==
  ASSUME FiniteFacts, IInv, NUM' = NUM, NEW p \in Procs, NEW v \in Values, bpin(p, v)
  PROVE  IInv'
<1> DEFINE i == proc[p].b
           t == proc[p]
           n == IF i \notin pins THEN buf[i].refcnt + 1 ELSE buf[i].refcnt
           c == [buf[i] EXCEPT !.data = v, !.refcnt = n]
<1>1. proc \in [Procs -> ProcRec] /\ buf \in [Bufs -> BufRec] BY DEF IInv, Types, ProcTypes, BufTypes
<1>2. proc[p].pc = "have" /\ UNCHANGED <<vdisk, vdisk_lock, panic, proc, lru>> BY DEF bpin, At
<1>3. /\ i \in Bufs /\ buf[i].lock = p /\ buf[i].valid /\ \A q \in Busy : proc[q].b # i
      /\ proc[p].pc \notin InIo /\ proc[p].pc \notin InRw /\ proc[p].pc \in Holding
  BY <1>2, HaveIt
<1>4. proc' = [proc EXCEPT ![p] = t] BY <1>1, <1>2
<1>5. buf' = [buf EXCEPT ![i] = c] BY <1>1, <1>3 DEF bpin, BufRec
<1>6. pins' = pins \cup {i} BY DEF bpin
<1> HIDE DEF i
<1>7. t \in ProcRec /\ t.pc = "have" /\ t.b = i BY <1>1, <1>2 DEF i
<1>8. n \in Nat
  <2>1. buf[i].refcnt \in Nat BY <1>1, <1>3 DEF BufRec
  <2> QED BY <2>1, SMT
<1> HIDE DEF n
<1>9. /\ c \in BufRec /\ c.lock = buf[i].lock /\ c.refcnt = n /\ c.blockno = buf[i].blockno
      /\ c.valid = buf[i].valid /\ c.data = v
  BY <1>1, <1>3, <1>8 DEF BufRec
<1> HIDE DEF t, c
<1>10. t.pc \in Holding /\ t.pc \notin InRw /\ t.pc # "idle" /\ t.pc \notin InIo /\ t.pc # "dsleep"
  BY <1>7 DEF Holding, InRw, InIo
<1>11. proc[p].b = i /\ blocks' = blocks BY <1>2 DEF vdisk, i
<1>12. \/ pins' = pins /\ c.refcnt = buf[i].refcnt
       \/ i \notin pins /\ pins' = pins \cup {i} /\ c.refcnt = buf[i].refcnt + 1
  BY <1>6, <1>9 DEF n
<1>13. Table' BY <1>3, <1>4, <1>5, <1>7, <1>9, <1>10, <1>11, <1>12, TableStep
<1>14. Filled' BY <1>3, <1>4, <1>5, <1>6, <1>7, <1>9, <1>10, <1>11, FilledStep
<1>15. TableTypes' BY <1>2, <1>3, <1>6 DEF IInv, Types, TableTypes
<1>16. panic' = "none" BY <1>2 DEF IInv, NoDiskPanic
<1> QED BY <1>2, <1>3, <1>4, <1>5, <1>7, <1>9, <1>10, <1>13, <1>14, <1>15, <1>16, CacheStep

LEMMA BunpinStep ==
  ASSUME FiniteFacts, IInv, NUM' = NUM, NEW p \in Procs, bunpin(p)
  PROVE  IInv'
<1> DEFINE i == proc[p].b
           t == proc[p]
           c == [buf[i] EXCEPT !.refcnt = buf[i].refcnt - 1]
<1>1. proc \in [Procs -> ProcRec] /\ buf \in [Bufs -> BufRec] BY DEF IInv, Types, ProcTypes, BufTypes
<1>2. /\ proc[p].pc = "have" /\ UNCHANGED <<vdisk, vdisk_lock, panic, proc, lru>>
      /\ i \in pins /\ pins' = pins \ {i} /\ buf[i].data = blocks[buf[i].blockno]
  BY DEF bunpin, At
<1>3. /\ i \in Bufs /\ buf[i].lock = p /\ buf[i].valid /\ \A q \in Busy : proc[q].b # i
      /\ proc[p].pc \notin InIo /\ proc[p].pc \notin InRw /\ proc[p].pc \in Holding
  BY <1>2, HaveIt
<1>4. proc' = [proc EXCEPT ![p] = t] BY <1>1, <1>2
<1>5. buf' = [buf EXCEPT ![i] = c] BY <1>1, <1>3 DEF bunpin, BufRec
<1> HIDE DEF i
<1>6. t \in ProcRec /\ t.pc = "have" /\ t.b = i BY <1>1, <1>2 DEF i
<1>7. buf[i].refcnt - 1 \in Nat
  <2> DEFINE U == {q \in Procs : proc[q].b = i}
  <2>1. buf[i].refcnt = Cardinality(U) + 1 BY <1>2, <1>3 DEF IInv, Table, RefcntExact
  <2>2. Cardinality(U) \in Nat BY UsersFinite DEF FiniteFacts, FinType
  <2> HIDE DEF U
  <2> QED BY <2>1, <2>2, SMT
<1>8. /\ c \in BufRec /\ c.lock = buf[i].lock /\ c.refcnt = buf[i].refcnt - 1 /\ c.blockno = buf[i].blockno
      /\ c.valid = buf[i].valid /\ c.data = buf[i].data
  BY <1>1, <1>3, <1>7 DEF BufRec
<1> HIDE DEF t, c
<1>9. t.pc \in Holding /\ t.pc \notin InRw /\ t.pc # "idle" /\ t.pc \notin InIo /\ t.pc # "dsleep"
  BY <1>6 DEF Holding, InRw, InIo
<1>10. proc[p].b = i /\ blocks' = blocks BY <1>2 DEF vdisk, i
<1>11. c.data \in Values /\ c.data = blocks[c.blockno] BY <1>2, <1>3, <1>8 DEF IInv, Filled
<1>12. Table' BY <1>2, <1>3, <1>4, <1>5, <1>6, <1>8, <1>9, <1>10, TableStep
<1>13. Filled' BY <1>2, <1>3, <1>4, <1>5, <1>6, <1>8, <1>9, <1>10, <1>11, FilledStep
<1>14. TableTypes' BY <1>2 DEF IInv, Types, TableTypes
<1>15. panic' = "none" BY <1>2 DEF IInv, NoDiskPanic
<1> QED BY <1>2, <1>3, <1>4, <1>5, <1>6, <1>8, <1>9, <1>12, <1>13, <1>14, <1>15, CacheStep

\* The list stays a list of all buffers.
LEMMA FrontKeeps ==
  ASSUME TableTypes, NEW i \in Bufs
  PROVE  ToFront(i) \in [1..NBUF -> Bufs] /\ \A j \in Bufs : \E n \in 1..NBUF : ToFront(i)[n] = j
<1> DEFINE at == CHOOSE n \in 1..NBUF : lru[n] = i
<1>1. NBUF \in Nat \ {0} BY DiskAssumption
<1>2. lru \in [1..NBUF -> Bufs] /\ \A j \in Bufs : \E n \in 1..NBUF : lru[n] = j BY DEF TableTypes
<1>3. at \in 1..NBUF /\ lru[at] = i BY <1>2
<1> HIDE DEF at
<1> DEFINE F == [n \in 1..NBUF |-> IF n = 1 THEN i ELSE IF n <= at THEN lru[n - 1] ELSE lru[n]]
<1>4. ToFront(i) = F BY DEF ToFront, at
<1>5. ASSUME NEW n \in 1..NBUF, n # 1 PROVE n - 1 \in 1..NBUF BY <1>1, <1>5, SMT
<1>6. F \in [1..NBUF -> Bufs] BY <1>2, <1>5
<1>7. ASSUME NEW j \in Bufs PROVE \E n \in 1..NBUF : F[n] = j
  <2>1. 1 \in 1..NBUF BY <1>1, SMT
  <2>2. CASE j = i BY <2>1, <2>2
  <2>3. CASE j # i
    <3>1. PICK m \in 1..NBUF : lru[m] = j BY <1>2
    <3>2. CASE m < at
      <4>1. m + 1 \in 1..NBUF /\ m + 1 # 1 /\ m + 1 <= at /\ (m + 1) - 1 = m BY <1>1, <1>3, <3>2, SMT
      <4>2. F[m + 1] = lru[(m + 1) - 1] BY <4>1
      <4>3. F[m + 1] = j BY <3>1, <4>1, <4>2
      <4> HIDE DEF F
      <4> QED BY <4>1, <4>3
    <3>3. CASE ~(m < at)
      <4>1. m # at BY <1>3, <2>3, <3>1
      <4>2. m # 1 /\ ~(m <= at) BY <1>1, <1>3, <3>3, <4>1, SMT
      <4>3. F[m] = j BY <3>1, <4>2
      <4> HIDE DEF F
      <4> QED BY <4>3
    <3> QED BY <3>2, <3>3
  <2> QED BY <2>2, <2>3
<1> HIDE DEF F
<1> QED BY <1>4, <1>6, <1>7

LEMMA BrelsePutStep ==
  ASSUME FiniteFacts, IInv, NUM' = NUM, NEW p \in Procs, brelse_put(p)
  PROVE  IInv'
<1> DEFINE i == proc[p].b
           t == IdlePs[p]
           c == [buf[i] EXCEPT !.refcnt = buf[i].refcnt - 1]
           U == {q \in Procs : proc[q].b = i}
<1>1. proc \in [Procs -> ProcRec] /\ buf \in [Bufs -> BufRec] BY DEF IInv, Types, ProcTypes, BufTypes
<1>2. /\ proc[p].pc = "put" /\ UNCHANGED <<vdisk, vdisk_lock, panic, pins>>
      /\ lru' = IF buf[i].refcnt = 1 THEN ToFront(i) ELSE lru
  BY DEF brelse_put, At
<1>3. i \in Bufs BY <1>2 DEF IInv, Table, Placed
<1>4. proc' = [proc EXCEPT ![p] = t] BY DEF brelse_put
<1>5. buf' = [buf EXCEPT ![i] = c] BY <1>1, <1>3 DEF brelse_put, BufRec
<1>6. t \in ProcRec /\ t.pc = "idle" /\ t.b \notin Bufs
  <2>1. NoBuf \notin Bufs BY DiskAssumption, SMT DEF NoBuf, Bufs
  <2>2. 0 \in Descs BY IdxFacts, SMT DEF Descs, IInv, Types
  <2>3. t = [pc |-> "idle", blk |-> NoBlock, b |-> NoBuf, write |-> FALSE, head |-> 0] BY DEF IdlePs
  <2> HIDE DEF t
  <2> QED BY <2>1, <2>2, <2>3, PCSets DEF ProcRec
<1>7. buf[i].refcnt = Cardinality(U) + (IF i \in pins THEN 1 ELSE 0) BY <1>3 DEF IInv, Table, RefcntExact
<1>8. IsFiniteSet(U) /\ p \in U BY UsersFinite
<1>9. Cardinality(U \ {p}) = Cardinality(U) - 1 /\ Cardinality(U \ {p}) \in Nat /\ Cardinality(U) \in Nat
  BY <1>8 DEF FiniteFacts, FinRemove, FinType
<1>10. \A j \in Bufs, q \in Procs : buf[j].lock = q <=> proc[q].b = j /\ proc[q].pc \in Holding
  BY DEF IInv, Table, Locked
<1> HIDE DEF i
<1>11. buf[i].refcnt - 1 \in Nat /\ buf[i].refcnt - 1 = Cardinality(U \ {p}) + (IF i \in pins THEN 1 ELSE 0)
  <2> HIDE DEF U
  <2> QED BY <1>7, <1>9, SMT
<1>12. /\ c \in BufRec /\ c.lock = buf[i].lock /\ c.refcnt = buf[i].refcnt - 1 /\ c.blockno = buf[i].blockno
       /\ c.valid = buf[i].valid /\ c.data = buf[i].data /\ c.disk = buf[i].disk
  BY <1>1, <1>3, <1>11 DEF BufRec
<1> HIDE DEF t, c
<1>13. /\ \A q \in Procs : q # p => proc'[q] = proc[q]
       /\ \A j \in Bufs : j # i => buf'[j] = buf[j]
       /\ proc'[p] = t /\ buf'[i] = c
  BY <1>1, <1>3, <1>4, <1>5
<1>14. \A j \in Bufs : buf'[j].blockno = buf[j].blockno /\ buf'[j].lock = buf[j].lock BY <1>12, <1>13
<1>15. Placed'
  <2>1. ASSUME NEW q \in Procs
        PROVE  /\ proc'[q].b \in Bufs <=> proc'[q].pc # "idle"
               /\ proc'[q].b \in Bufs => buf'[proc'[q].b].blockno \in Blocks
    <3>1. CASE q = p BY <1>6, <1>13, <3>1
    <3>2. CASE q # p
      <4>1. proc'[q] = proc[q] BY <1>13, <3>2
      <4> QED BY <1>14, <4>1 DEF IInv, Table, Placed
    <3> QED BY <3>1, <3>2
  <2> QED BY <2>1 DEF Placed
<1>16. t.pc \notin Holding /\ t.pc \notin InIo /\ t.pc \notin InRw /\ t.pc # "dsleep" /\ t.pc # "have"
  BY <1>6 DEF Holding, InRw, InIo
<1>17. proc[p].pc \notin Holding /\ proc[p].pc \notin InIo /\ proc[p].pc \notin InRw
  BY <1>2 DEF Holding, InRw, InIo
<1>18. Locked'
  <2>1. ASSUME NEW j \in Bufs, NEW q \in Procs
        PROVE  buf'[j].lock = q <=> proc'[q].b = j /\ proc'[q].pc \in Holding
    <3>1. CASE q = p BY <1>10, <1>13, <1>14, <1>16, <1>17, <3>1
    <3>2. CASE q # p
      <4>1. proc'[q] = proc[q] BY <1>13, <3>2
      <4>2. buf[j].lock = q <=> proc[q].b = j /\ proc[q].pc \in Holding BY <1>10
      <4>3. buf'[j].lock = buf[j].lock BY <1>14
      <4> QED BY <4>1, <4>2, <4>3
    <3> QED BY <3>1, <3>2
  <2> QED BY <2>1 DEF Locked
<1>19. Single' BY <1>14 DEF IInv, Table, Single
<1>20. RefcntExact'
  <2>1. ASSUME NEW j \in Bufs
        PROVE  buf'[j].refcnt = Cardinality({q \in Procs : proc'[q].b = j}) + (IF j \in pins' THEN 1 ELSE 0)
    <3>1. CASE j = i
      <4>1. {q \in Procs : proc'[q].b = j} = U \ {p} BY <1>6, <1>13, <3>1
      <4> HIDE DEF U
      <4> QED BY <1>2, <1>11, <1>12, <1>13, <3>1, <4>1
    <3>2. CASE j # i
      <4>1. {q \in Procs : proc'[q].b = j} = {q \in Procs : proc[q].b = j}
        BY <1>6, <1>13, <3>2 DEF i
      <4>2. buf[j].refcnt = Cardinality({q \in Procs : proc[q].b = j}) + (IF j \in pins THEN 1 ELSE 0)
        BY DEF IInv, Table, RefcntExact
      <4> QED BY <1>2, <1>13, <3>2, <4>1, <4>2
    <3> QED BY <3>1, <3>2
  <2> QED BY <2>1 DEF RefcntExact
<1>21. Table' BY <1>15, <1>18, <1>19, <1>20 DEF Table
<1>22. blocks' = blocks /\ (i \in pins => c.valid) BY <1>2, <1>12 DEF vdisk, IInv, Filled
<1>23. Filled' BY <1>2, <1>3, <1>4, <1>5, <1>6, <1>12, <1>16, <1>17, <1>22, FilledStep
<1>24. TableTypes'
  <2>1. ToFront(i) \in [1..NBUF -> Bufs] /\ \A j \in Bufs : \E n \in 1..NBUF : ToFront(i)[n] = j
    BY <1>3, FrontKeeps DEF IInv, Types
  <2>2. /\ lru \in [1..NBUF -> Bufs] /\ \A j \in Bufs : \E n \in 1..NBUF : lru[n] = j
        /\ pins' \subseteq Bufs
    BY <1>2 DEF IInv, Types, TableTypes
  <2>3. CASE lru' = ToFront(i) BY <2>1, <2>2, <2>3 DEF TableTypes
  <2>4. CASE lru' = lru BY <2>2, <2>4 DEF TableTypes
  <2> QED BY <1>2, <2>3, <2>4
<1>25. panic' = "none" BY <1>2 DEF IInv, NoDiskPanic
<1> QED BY <1>2, <1>3, <1>4, <1>5, <1>6, <1>12, <1>16, <1>17, <1>21, <1>23, <1>24, <1>25, CacheStep

-----------------------------------------------------------------------------
(* The steps of virtio_disk_rw that only sleep and wake.                   *)

LEMMA QuietStep ==
  ASSUME IInv, NUM' = NUM, UNCHANGED <<vdisk, vdisk_lock, buf, panic, lru, pins>>,
         proc' \in [Procs -> ProcRec],
         \A q \in Procs : /\ proc'[q].b = proc[q].b /\ proc'[q].write = proc[q].write
                          /\ proc'[q].head = proc[q].head
                          /\ \/ proc'[q].pc = proc[q].pc
                             \/ proc[q].pc \in InIo /\ proc'[q].pc \in InIo
                             \/ proc[q].pc \in InRw \ InIo /\ proc'[q].pc \in InRw \ InIo
                          /\ proc'[q].pc = "iosleep" => buf[proc[q].b].disk
                          /\ proc'[q].pc = "dsleep" => Cardinality(free) < 3
  PROVE  IInv'
<1>1. /\ free' = free /\ desc' = desc /\ info' = info /\ avail' = avail /\ used' = used
      /\ used_idx' = used_idx /\ device' = device /\ blocks' = blocks /\ vdisk_lock' = vdisk_lock
      /\ buf' = buf /\ panic' = panic /\ lru' = lru /\ pins' = pins
  BY DEF vdisk
<1>2. Types'
  <2>1. ProcTypes' BY NumSame DEF ProcTypes
  <2>2. BufTypes' BY <1>1 DEF IInv, Types, BufTypes, BufRec
  <2>3. DiskTypes' BY DiskTypesFrame DEF IInv, Types
  <2>4. TableTypes' BY <1>1 DEF IInv, Types, TableTypes
  <2> QED BY <2>1, <2>2, <2>3, <2>4 DEF Types
<1>3. ASSUME NEW q \in Procs
      PROVE  /\ proc'[q].pc = "idle" <=> proc[q].pc = "idle"
             /\ proc'[q].pc \in Holding <=> proc[q].pc \in Holding
             /\ proc'[q].pc \in InRw <=> proc[q].pc \in InRw
             /\ proc'[q].pc \in InIo <=> proc[q].pc \in InIo
             /\ proc'[q].pc = "have" => proc[q].pc = "have"
  <2>1. CASE proc'[q].pc = proc[q].pc BY <2>1
  <2>2. CASE proc[q].pc \in InIo /\ proc'[q].pc \in InIo BY <2>2, PCSets
  <2>3. CASE proc[q].pc \in InRw \ InIo /\ proc'[q].pc \in InRw \ InIo BY <2>3, PCSets
  <2> QED BY <2>1, <2>2, <2>3
<1>4. Table' BY <1>1, <1>3, TableFrame DEF IInv
<1>5. Filled' BY <1>1, <1>3, FilledFrame DEF IInv, Types, TableTypes
<1>6. Chains' /\ Busy' = Busy BY <1>1, <1>3, ChainsFrame DEF IInv, Types
<1>7. Waiting' = Waiting /\ \A q \in Procs : proc'[q].b = proc[q].b /\ proc'[q].head = proc[q].head
  BY <1>1, <1>6 DEF Waiting, Busy
<1>8. Heads' = Heads
  <2>1. \A q \in Waiting : proc'[q].head = proc[q].head BY <1>7 DEF Waiting, Busy
  <2> QED BY <1>7, <2>1 DEF Heads
<1>9. Asked' = Asked /\ Done' = Done BY <1>1, NumSame DEF Asked, Done
<1>10. Queues' BY <1>1, <1>8, <1>9, NumSame DEF IInv, Queues
<1>11. Served'
  <2>1. \A q \in Procs : proc'[q].pc = "iosleep" => buf'[proc'[q].b].disk BY <1>1
  <2>2. \A q \in Busy : q \notin Waiting \/ proc'[q].head \in Done => Same(proc[q].b)'
    <3> SUFFICES ASSUME NEW q \in Busy, q \notin Waiting \/ proc'[q].head \in Done PROVE Same(proc[q].b)'
      OBVIOUS
    <3>1. proc'[q].head = proc[q].head /\ proc'[q].b = proc[q].b BY <1>7 DEF Busy
    <3>2. Same(proc[q].b) BY <3>1 DEF IInv, Served
    <3> QED BY <1>1, <3>1, <3>2 DEF Same
  <2>3. \A i \in Done : info'[i].status = 0 BY <1>1 DEF IInv, Served
  <2> QED BY <1>6, <1>7, <1>9, <2>1, <2>2, <2>3 DEF Served
<1>12. Wakeups' BY <1>1 DEF IInv, Wakeups, CompletionSignalled
<1>13. NoDiskPanic' BY <1>1 DEF IInv, NoDiskPanic
<1> QED BY <1>2, <1>4, <1>5, <1>6, <1>10, <1>11, <1>12, <1>13 DEF IInv

\* A change of pc only.
LEMMA SetPc ==
  ASSUME NEW r \in ProcRec, NEW l \in PCs
  PROVE  LET t == [r EXCEPT !.pc = l] IN
         t \in ProcRec /\ t.pc = l /\ t.b = r.b /\ t.write = r.write /\ t.head = r.head
BY DEF ProcRec

LEMMA NodescStep ==
  ASSUME IInv, NUM' = NUM, NEW p \in Procs, rw_nodesc(p), UNCHANGED <<lru, pins>>
  PROVE  IInv'
<1>1. proc \in [Procs -> ProcRec] BY DEF IInv, Types, ProcTypes
<1>2. /\ proc[p].pc \in {"rw", "dwoken"} /\ Cardinality(free) < 3
      /\ UNCHANGED <<vdisk, vdisk_lock, buf, panic, lru, pins>>
  BY DEF rw_nodesc
<1> DEFINE t == [proc[p] EXCEPT !.pc = "dsleep"]
           ps == [proc EXCEPT ![p].pc = "dsleep"]
<1>3. {"dsleep", "dwoken", "rw"} \subseteq PCs /\ ps = [proc EXCEPT ![p] = t] BY <1>1, PCSets
<1>4. /\ t \in ProcRec /\ t.pc = "dsleep" /\ t.b = proc[p].b /\ t.write = proc[p].write
      /\ t.head = proc[p].head
  BY <1>1, <1>3, SetPc
<1>5. proc' = ps \/ proc' = WakeDesc(p, ps) BY DEF rw_nodesc
<1> HIDE DEF ps, t
<1>6. /\ ps \in [Procs -> ProcRec]
      /\ \A q \in Procs : ps[q] = IF q = p THEN t ELSE proc[q]
  BY <1>1, <1>3, <1>4
<1>7. ASSUME NEW q \in Procs
      PROVE  /\ ps[q] \in ProcRec /\ ps[q].b = proc[q].b /\ ps[q].write = proc[q].write
             /\ ps[q].head = proc[q].head /\ ps[q].pc = IF q = p THEN "dsleep" ELSE proc[q].pc
  <2>1. CASE q = p BY <1>4, <1>6, <2>1
  <2>2. CASE q # p BY <1>1, <1>6, <2>2
  <2> QED BY <2>1, <2>2
<1>8. ASSUME NEW q \in Procs
      PROVE  /\ proc'[q] \in ProcRec /\ proc'[q].b = proc[q].b /\ proc'[q].write = proc[q].write
             /\ proc'[q].head = proc[q].head
             /\ \/ proc'[q].pc = ps[q].pc
                \/ ps[q].pc = "dsleep" /\ proc'[q].pc = "dwoken"
  <2>1. CASE proc' = ps BY <1>7, <2>1
  <2>2. CASE proc' = WakeDesc(p, ps)
    <3>1. proc'[q] = IF q # p /\ ps[q].pc = "dsleep" THEN [ps[q] EXCEPT !.pc = "dwoken"] ELSE ps[q]
      BY <2>2 DEF WakeDesc
    <3>2. CASE proc'[q] = ps[q] BY <1>7, <3>2
    <3>3. CASE ps[q].pc = "dsleep" /\ proc'[q] = [ps[q] EXCEPT !.pc = "dwoken"]
      <4> DEFINE u == [ps[q] EXCEPT !.pc = "dwoken"]
      <4>1. ps[q] \in ProcRec /\ "dwoken" \in PCs BY <1>3, <1>7
      <4>2. u \in ProcRec /\ u.pc = "dwoken" /\ u.b = ps[q].b /\ u.write = ps[q].write /\ u.head = ps[q].head
        BY <4>1, SetPc
      <4>3. proc'[q] = u BY <3>3
      <4> HIDE DEF u
      <4> QED BY <1>7, <3>3, <4>2, <4>3
    <3> QED BY <3>1, <3>2, <3>3
  <2> QED BY <1>5, <2>1, <2>2
<1>9. proc' \in [Procs -> ProcRec]
  <2>1. CASE proc' = ps BY <1>6, <2>1
  <2>2. CASE proc' = WakeDesc(p, ps) BY <1>8, <2>2 DEF WakeDesc
  <2> QED BY <1>5, <2>1, <2>2
<1>10. ASSUME NEW q \in Procs
      PROVE  /\ proc'[q].b = proc[q].b /\ proc'[q].write = proc[q].write
             /\ proc'[q].head = proc[q].head
             /\ \/ proc'[q].pc = proc[q].pc
                \/ proc[q].pc \in InIo /\ proc'[q].pc \in InIo
                \/ proc[q].pc \in InRw \ InIo /\ proc'[q].pc \in InRw \ InIo
             /\ proc'[q].pc = "iosleep" => buf[proc[q].b].disk
             /\ proc'[q].pc = "dsleep" => Cardinality(free) < 3
  <2>1. proc[q].pc = "iosleep" => buf[proc[q].b].disk BY DEF IInv, Served
  <2>2. CASE proc'[q].pc = proc[q].pc BY <1>2, <1>8, <2>1, <2>2
  <2>3. CASE proc'[q].pc # proc[q].pc
    <3>1. proc[q].pc \in {"rw", "dsleep", "dwoken"} /\ proc'[q].pc \in {"dsleep", "dwoken"}
      BY <1>2, <1>7, <1>8, <2>3
    <3>2. proc'[q].pc # "iosleep" /\ proc[q].pc \in InRw \ InIo /\ proc'[q].pc \in InRw \ InIo
      BY <3>1 DEF InRw, InIo
    <3> QED BY <1>2, <1>8, <3>2
  <2> QED BY <2>2, <2>3
<1> QED BY <1>2, <1>9, <1>10, QuietStep

LEMMA KillStep ==
  ASSUME IInv, NUM' = NUM, NEW p \in Procs, kill(p), UNCHANGED <<lru, pins>>
  PROVE  IInv'
<1> DEFINE l == IF proc[p].pc = "iosleep" THEN "iowoken" ELSE "dwoken"
           t == [proc[p] EXCEPT !.pc = l]
<1>1. proc \in [Procs -> ProcRec] BY DEF IInv, Types, ProcTypes
<1>2. proc[p].pc \in {"iosleep", "dsleep"} /\ UNCHANGED <<vdisk, vdisk_lock, buf, panic, lru, pins>>
  BY DEF kill
<1>3. proc' = [proc EXCEPT ![p] = t] BY <1>1 DEF kill
<1>4. l \in PCs /\ l # "iosleep" /\ l # "dsleep" BY PCSets
<1>5. \/ proc[p].pc \in InIo /\ l \in InIo
      \/ proc[p].pc \in InRw \ InIo /\ l \in InRw \ InIo
  BY <1>2 DEF InRw, InIo
<1> HIDE DEF l
<1>6. t \in ProcRec /\ t.pc = l /\ t.b = proc[p].b /\ t.write = proc[p].write /\ t.head = proc[p].head
  BY <1>1, <1>4, SetPc
<1> HIDE DEF t
<1>7. proc' \in [Procs -> ProcRec] BY <1>1, <1>3, <1>6
<1>8. ASSUME NEW q \in Procs
      PROVE  /\ proc'[q].b = proc[q].b /\ proc'[q].write = proc[q].write
             /\ proc'[q].head = proc[q].head
             /\ \/ proc'[q].pc = proc[q].pc
                \/ proc[q].pc \in InIo /\ proc'[q].pc \in InIo
                \/ proc[q].pc \in InRw \ InIo /\ proc'[q].pc \in InRw \ InIo
             /\ proc'[q].pc = "iosleep" => buf[proc[q].b].disk
             /\ proc'[q].pc = "dsleep" => Cardinality(free) < 3
  <2>1. CASE q = p
    <3>1. proc'[q] = t BY <1>1, <1>3, <2>1
    <3> QED BY <1>4, <1>5, <1>6, <2>1, <3>1
  <2>2. CASE q # p
    <3>1. proc'[q] = proc[q] BY <1>1, <1>3, <2>2
    <3> QED BY <3>1 DEF IInv, Served, Wakeups
  <2> QED BY <2>1, <2>2
<1> QED BY <1>2, <1>7, <1>8, QuietStep

\* Woken for nothing (kill, or another process of the same buffer), p sleeps again.
LEMMA ResumeAgain ==
  ASSUME IInv, NUM' = NUM, NEW p \in Procs, proc[p].pc = "iowoken", buf[proc[p].b].disk,
         proc' = [proc EXCEPT ![p].pc = "iosleep"],
         UNCHANGED <<vdisk, vdisk_lock, buf, panic, lru, pins>>
  PROVE  IInv'
<1> DEFINE t == [proc[p] EXCEPT !.pc = "iosleep"]
<1>1. proc \in [Procs -> ProcRec] BY DEF IInv, Types, ProcTypes
<1>2. proc' = [proc EXCEPT ![p] = t] BY <1>1
<1>3. "iosleep" \in PCs /\ "iosleep" \in InIo /\ proc[p].pc \in InIo /\ "iosleep" # "dsleep" BY PCSets
<1>4. t \in ProcRec /\ t.pc = "iosleep" /\ t.b = proc[p].b /\ t.write = proc[p].write /\ t.head = proc[p].head
  BY <1>1, <1>3, SetPc
<1> HIDE DEF t
<1>5. proc' \in [Procs -> ProcRec] BY <1>1, <1>2, <1>4
<1>6. ASSUME NEW q \in Procs
      PROVE  /\ proc'[q].b = proc[q].b /\ proc'[q].write = proc[q].write
             /\ proc'[q].head = proc[q].head
             /\ \/ proc'[q].pc = proc[q].pc
                \/ proc[q].pc \in InIo /\ proc'[q].pc \in InIo
                \/ proc[q].pc \in InRw \ InIo /\ proc'[q].pc \in InRw \ InIo
             /\ proc'[q].pc = "iosleep" => buf[proc[q].b].disk
             /\ proc'[q].pc = "dsleep" => Cardinality(free) < 3
  <2>1. CASE q = p
    <3>1. proc'[q] = t BY <1>1, <1>2, <2>1
    <3> QED BY <1>3, <1>4, <2>1, <3>1
  <2>2. CASE q # p
    <3>1. proc'[q] = proc[q] BY <1>1, <1>2, <2>2
    <3> QED BY <3>1 DEF IInv, Served, Wakeups
  <2> QED BY <2>1, <2>2
<1> QED BY <1>5, <1>6, QuietStep

-----------------------------------------------------------------------------
(* The rings: the device takes and serves, the handler looks.              *)

\* No two requests under way have the same head.
LEMMA HeadOf ==
  ASSUME IInv, NEW p \in Busy, NEW q \in Busy, proc[p].head = proc[q].head
  PROVE  p = q
<1>1. proc[p].head \in Trio(p) /\ proc[p].head \in Trio(q) BY DEF Trio
<1> QED BY <1>1 DEF IInv, Chains

\* The rings never hold more than the requests under way, three descriptors each.
LEMMA Lengths ==
  ASSUME FiniteFacts, IInv
  PROVE  /\ Dist(device.seen, avail.idx) <= Cardinality(Busy)
         /\ Dist(used_idx, used.idx) <= Cardinality(Busy)
         /\ device.taken # {} => Dist(used_idx, used.idx) < Cardinality(Busy)
         /\ 3 * Cardinality(Busy) <= NUM /\ Cardinality(Busy) \in Nat /\ NUM \in Nat /\ NUM >= 3
         /\ Dist(device.seen, avail.idx) \in Nat /\ Dist(used_idx, used.idx) \in Nat
<1> DEFINE f == [p \in Waiting |-> proc[p].head]
<1>1. DiskTypes BY DEF IInv, Types
<1>2. /\ IsFiniteSet(Busy) /\ Cardinality(Busy) \in Nat
      /\ IsFiniteSet(free) /\ Cardinality(free) \in Nat
  BY <1>1, Counted
<1>3. IsFiniteSet(Waiting) /\ Cardinality(Waiting) <= Cardinality(Busy) /\ Cardinality(Waiting) \in Nat
  <2>1. Waiting \in SUBSET Busy BY DEF Waiting
  <2> QED BY <1>2, <2>1 DEF FiniteFacts, FinSubset, FinType
<1>4. IsFiniteSet(Heads) /\ Cardinality(Heads) <= Cardinality(Waiting) /\ Cardinality(Heads) \in Nat
  <2>1. f \in [Waiting -> Heads] /\ \A x \in Heads : \E q \in Waiting : f[q] = x BY DEF Heads
  <2> HIDE DEF f
  <2> QED BY <1>3, <2>1 DEF FiniteFacts, FinOnto, FinType
<1>5. Asked \cup device.taken \cup Done = Heads /\ device.taken \cap Done = {} BY DEF IInv, Queues
<1>6. /\ avail.ring \in [Descs -> Descs] /\ avail.idx \in Idx /\ device.seen \in Idx
      /\ used.ring \in [Descs -> Descs] /\ used.idx \in Idx /\ used_idx \in Idx
  BY <1>1 DEF DiskTypes, Ring
<1>7. Dist(device.seen, avail.idx) <= Cardinality(Heads)
  <2>1. Once(avail.ring, device.seen, avail.idx) /\ Window(avail.ring, device.seen, avail.idx) \subseteq Heads
    BY <1>5 DEF IInv, Queues, Asked
  <2> QED BY <1>1, <1>4, <1>6, <2>1, WindowSize
<1>8. ASSUME NEW T, IsFiniteSet(T), Done \subseteq T PROVE Dist(used_idx, used.idx) <= Cardinality(T)
  <2>1. Once(used.ring, used_idx, used.idx) /\ Window(used.ring, used_idx, used.idx) \subseteq T
    BY <1>8 DEF IInv, Queues, Done
  <2> QED BY <1>1, <1>6, <1>8, <2>1, WindowSize
<1>9. Dist(used_idx, used.idx) <= Cardinality(Heads) BY <1>4, <1>5, <1>8
<1>10. Dist(device.seen, avail.idx) \in Nat /\ Dist(used_idx, used.idx) \in Nat BY <1>1, <1>6, SlotEnd
<1>11. ASSUME device.taken # {} PROVE Dist(used_idx, used.idx) < Cardinality(Busy)
  <2>1. PICK i : i \in device.taken BY <1>11
  <2>2. Done \subseteq Heads \ {i} /\ i \in Heads BY <1>5, <2>1
  <2>3. IsFiniteSet(Heads \ {i}) /\ Cardinality(Heads \ {i}) = Cardinality(Heads) - 1
    BY <1>4, <2>2 DEF FiniteFacts, FinRemove
  <2>4. Dist(used_idx, used.idx) <= Cardinality(Heads \ {i}) BY <1>8, <2>2, <2>3
  <2> QED BY <1>2, <1>3, <1>4, <1>10, <2>3, <2>4, SMT
<1>12. NUM \in Nat /\ NUM >= 3 BY <1>1 DEF DiskTypes
<1>13. 3 * Cardinality(Busy) <= NUM
  <2>1. Cardinality(free) + 3 * Cardinality(Busy) = NUM BY DEF IInv, Chains
  <2> QED BY <1>2, <2>1, SMT
<1>14. Dist(device.seen, avail.idx) <= Cardinality(Busy) /\ Dist(used_idx, used.idx) <= Cardinality(Busy)
  BY <1>2, <1>3, <1>4, <1>7, <1>9, <1>10, SMT
<1> QED BY <1>2, <1>10, <1>11, <1>12, <1>13, <1>14

\* A step of which the processes and the buffers see nothing.
LEMMA RingStep ==
  ASSUME IInv, NUM' = NUM, UNCHANGED <<buf, free, desc, info, blocks, panic, proc, lru, pins>>,
         DiskTypes', Queues', Done' = Done, CompletionSignalled'
  PROVE  IInv'
<1>1. /\ buf' = buf /\ free' = free /\ desc' = desc /\ info' = info /\ blocks' = blocks
      /\ panic' = panic /\ proc' = proc /\ lru' = lru /\ pins' = pins
  OBVIOUS
<1>2. Types'
  <2>1. ProcTypes' BY <1>1, NumSame DEF ProcTypes, IInv, Types
  <2>2. BufTypes' BY <1>1 DEF IInv, Types, BufTypes, BufRec
  <2>3. TableTypes' BY <1>1 DEF IInv, Types, TableTypes
  <2> QED BY <2>1, <2>2, <2>3 DEF Types
<1>3. Table' BY <1>1, TableFrame DEF IInv
<1>4. Filled' BY <1>1, FilledFrame DEF IInv, Types, TableTypes
<1>5. Chains' /\ Busy' = Busy BY <1>1, ChainsFrame DEF IInv, Types
<1>6. Waiting' = Waiting BY <1>1, <1>5 DEF Waiting
<1>7. Served'
  <2>1. \A q \in Procs : proc'[q].pc = "iosleep" => buf'[proc'[q].b].disk BY <1>1 DEF IInv, Served
  <2>2. \A q \in Busy : q \notin Waiting \/ proc'[q].head \in Done => Same(proc[q].b)'
    BY <1>1 DEF IInv, Served, Same
  <2>3. \A i \in Done : info'[i].status = 0 BY <1>1 DEF IInv, Served
  <2> QED BY <1>5, <1>6, <2>1, <2>2, <2>3 DEF Served
<1>8. Wakeups' BY <1>1 DEF IInv, Wakeups
<1>9. NoDiskPanic' BY <1>1 DEF IInv, NoDiskPanic
<1> QED BY <1>2, <1>3, <1>4, <1>5, <1>7, <1>8, <1>9 DEF IInv

LEMMA HeadsFrame ==
  ASSUME proc' = proc, buf' = buf
  PROVE  Heads' = Heads /\ Busy' = Busy /\ Waiting' = Waiting
<1>1. Busy' = Busy BY DEF Busy
<1>2. Waiting' = Waiting BY <1>1 DEF Waiting
<1> QED BY <1>1, <1>2 DEF Heads

LEMMA TakeStep ==
  ASSUME FiniteFacts, IInv, NUM' = NUM, dev_take, UNCHANGED <<lru, pins>>
  PROVE  IInv'
<1> DEFINE n == device.seen % NUM
           h == avail.ring[n]
<1>1. DiskTypes BY DEF IInv, Types
<1>2. /\ device.seen # avail.idx
      /\ device' = [device EXCEPT !.seen = Next16(device.seen), !.taken = device.taken \cup {h}]
      /\ avail' = [avail EXCEPT !.ring = [avail.ring EXCEPT ![n] = 0]]
      /\ UNCHANGED <<buf, free, desc, info, used, used_idx, blocks, vdisk_lock, panic, proc>>
  BY <1>1 DEF dev_take, DiskTypes, Ring
<1>3. avail.ring \in [Descs -> Descs] /\ avail.idx \in Idx /\ device.seen \in Idx /\ device.taken \subseteq Descs
  BY <1>1 DEF DiskTypes, Ring
<1>4. Dist(device.seen, avail.idx) <= NUM
  BY Lengths, SMT
<1>5. Once(avail.ring, device.seen, avail.idx) /\ Asked = Window(avail.ring, device.seen, avail.idx)
  BY DEF IInv, Queues, Asked
<1> DEFINE r2 == [avail.ring EXCEPT ![n] = 0]
           s2 == Next16(device.seen)
<1>6. /\ h \in Asked /\ h \in Descs /\ Window(r2, s2, avail.idx) = Asked \ {h}
      /\ Once(r2, s2, avail.idx) /\ r2 \in [Descs -> Descs] /\ s2 \in Idx
  BY <1>1, <1>2, <1>3, <1>4, <1>5, WindowShrink
<1> HIDE DEF n, h, r2, s2
<1>7. avail' \in Ring /\ avail'.ring = r2 /\ avail'.idx = avail.idx
  <2>1. avail' = [avail EXCEPT !.ring = r2] BY <1>2 DEF r2
  <2> QED BY <1>1, <1>6, <2>1 DEF DiskTypes, Ring
<1>8. /\ device' \in [seen : Idx, taken : SUBSET Descs, irq : BOOLEAN]
      /\ device'.seen = s2 /\ device'.taken = device.taken \cup {h} /\ device'.irq = device.irq
  <2>1. device' = [device EXCEPT !.seen = s2, !.taken = device.taken \cup {h}] BY <1>2 DEF s2
  <2>2. device.taken \cup {h} \in SUBSET Descs BY <1>3, <1>6
  <2> QED BY <1>1, <1>6, <2>1, <2>2 DEF DiskTypes
<1>9. DiskTypes' BY <1>1, <1>2, <1>7, <1>8, NumSame DEF DiskTypes
<1>10. Asked' = Asked \ {h} BY <1>6, <1>7, <1>8, NumSame
<1>11. Done' = Done BY <1>2, NumSame DEF Done
<1>12. Heads' = Heads BY <1>2, HeadsFrame
<1>13. Queues'
  <2>1. /\ Asked \cap device.taken = {} /\ Asked \cap Done = {} /\ device.taken \cap Done = {}
        /\ Asked \cup device.taken \cup Done = Heads /\ Once(used.ring, used_idx, used.idx)
    BY DEF IInv, Queues
  <2>2. Once(avail.ring, device.seen, avail.idx)' BY <1>6, <1>7, <1>8, NumSame
  <2>3. Once(used.ring, used_idx, used.idx)' BY <1>2, <2>1, NumSame
  <2>4. Asked' \cap device'.taken = {} BY <1>8, <1>10, <2>1
  <2>5. Asked' \cap Done' = {} BY <1>10, <1>11, <2>1
  <2>6. device'.taken \cap Done' = {} BY <1>6, <1>8, <1>11, <2>1
  <2>7. Asked' \cup device'.taken \cup Done' = Heads' BY <1>6, <1>8, <1>10, <1>11, <1>12, <2>1
  <2> QED BY <2>2, <2>3, <2>4, <2>5, <2>6, <2>7 DEF Queues
<1>14. CompletionSignalled' BY <1>2, <1>8 DEF IInv, Wakeups, CompletionSignalled
<1> QED BY <1>2, <1>9, <1>11, <1>13, <1>14, RingStep

LEMMA IntrStepInv ==
  ASSUME IInv, NUM' = NUM, virtio_disk_intr \/ intr_exit, UNCHANGED <<lru, pins>>
  PROVE  IInv'
<1>1. DiskTypes BY DEF IInv, Types
<1>2. UNCHANGED <<buf, free, desc, info, avail, used, used_idx, blocks, panic, proc>>
  BY DEF virtio_disk_intr, intr_exit, vdisk
<1>3. /\ device' \in [seen : Idx, taken : SUBSET Descs, irq : BOOLEAN]
      /\ device'.seen = device.seen /\ device'.taken = device.taken
      /\ vdisk_lock' \in {NoProc, Intr}
  <2>1. CASE virtio_disk_intr BY <1>1, <2>1 DEF virtio_disk_intr, DiskTypes
  <2>2. CASE intr_exit BY <1>1, <2>2 DEF intr_exit, vdisk, DiskTypes
  <2> QED BY <2>1, <2>2
<1>4. DiskTypes' BY <1>1, <1>2, <1>3, NumSame DEF DiskTypes
<1>5. Asked' = Asked /\ Done' = Done BY <1>2, <1>3, NumSame DEF Asked, Done
<1>6. Heads' = Heads BY <1>2, HeadsFrame
<1>7. Queues' BY <1>2, <1>3, <1>5, <1>6, NumSame DEF IInv, Queues
<1>8. CompletionSignalled'
  <2>1. CASE virtio_disk_intr BY <2>1 DEF virtio_disk_intr, CompletionSignalled
  <2>2. CASE intr_exit BY <1>2, <2>2 DEF intr_exit, CompletionSignalled
  <2> QED BY <2>1, <2>2
<1> QED BY <1>2, <1>4, <1>5, <1>7, <1>8, RingStep

LEMMA ServeStep ==
  ASSUME FiniteFacts, IInv, NUM' = NUM, NEW i \in Descs, dev_serve(i), UNCHANGED <<lru, pins>>
  PROVE  IInv'
<1>1. /\ i \in device.taken
      /\ used' = [ring |-> [used.ring EXCEPT ![used.idx % NUM] = i], idx |-> Next16(used.idx)]
      /\ device' = [device EXCEPT !.taken = device.taken \ {i}, !.irq = TRUE]
      /\ UNCHANGED <<free, desc, avail, used_idx, vdisk_lock, panic, proc>>
  BY DEF dev_serve, IInv, Types, DiskTypes
<1>2. DiskTypes BY DEF IInv, Types
<1>3. proc \in [Procs -> ProcRec] /\ buf \in [Bufs -> BufRec] /\ blocks \in [Blocks -> Values]
  BY DEF IInv, Types, ProcTypes, BufTypes
<1>4. /\ Asked \cap device.taken = {} /\ Asked \cap Done = {} /\ device.taken \cap Done = {}
      /\ Asked \cup device.taken \cup Done = Heads
      /\ Once(used.ring, used_idx, used.idx) /\ Once(avail.ring, device.seen, avail.idx)
  BY DEF IInv, Queues
<1>5. i \in Heads BY <1>1, <1>4
<1>6. PICK p \in Waiting : /\ proc[p].head = i /\ p \in Busy /\ p \in Procs /\ proc[p].b \in Bufs
                           /\ buf[proc[p].b].blockno \in Blocks /\ i \in Descs
                           /\ \A q \in Busy : q # p => proc[q].b # proc[p].b
  BY <1>5, HeadHas
<1> DEFINE b == proc[p].b
           k == buf[b].blockno
<1>7. /\ desc[i].next = Second(p) /\ desc[Second(p)].addr = b /\ desc[Second(p)].next = Third(p)
      /\ desc[i].addr = i /\ desc[Third(p)].addr = i
      /\ info[i].type = (IF proc[p].write THEN "out" ELSE "in") /\ info[i].sector = k
  <2>1. Formed(p) BY <1>6 DEF IInv, Chains
  <2>2. /\ desc[i] = [addr |-> i, next |-> Second(p), more |-> TRUE]
        /\ desc[Second(p)] = [addr |-> b, next |-> Third(p), more |-> TRUE]
        /\ desc[Third(p)] = [addr |-> i, next |-> 0, more |-> FALSE]
    BY <1>6, <2>1 DEF Formed
  <2>3. info[i].sector = k /\ info[i].type = (IF proc[p].write THEN "out" ELSE "in")
    BY <1>6, <2>1 DEF Formed
  <2> HIDE DEF b, k
  <2>4. desc[i].next = Second(p) /\ desc[i].addr = i BY <2>2, SMT
  <2>5. desc[Second(p)].addr = b /\ desc[Second(p)].next = Third(p) BY <2>2, SMT
  <2>6. desc[Third(p)].addr = i BY <2>2, SMT
  <2> QED BY <2>3, <2>4, <2>5, <2>6
<1>8. /\ IF info[i].type = "in" THEN buf' = [buf EXCEPT ![b].data = blocks[k]] /\ blocks' = blocks
                                ELSE blocks' = [blocks EXCEPT ![k] = buf[b].data] /\ buf' = buf
      /\ info' = [info EXCEPT ![i].status = 0]
  <2>1. dev_serve(i) OBVIOUS
  <2>2. /\ IF info[desc[i].addr].type = "in"
             THEN /\ buf' = [buf EXCEPT ![desc[desc[i].next].addr].data = blocks[info[desc[i].addr].sector]]
                  /\ blocks' = blocks
             ELSE /\ blocks' = [blocks EXCEPT ![info[desc[i].addr].sector] = buf[desc[desc[i].next].addr].data]
                  /\ buf' = buf
        /\ info' = [info EXCEPT ![desc[desc[desc[i].next].next].addr].status = 0]
    BY DEF dev_serve
  <2> QED BY <1>7, <2>2
<1> HIDE DEF b, k
<1>9. b \in Bufs /\ k \in Blocks /\ k = buf[b].blockno /\ b = proc[p].b BY <1>6 DEF b, k
<1>10. proc[p].write \in BOOLEAN /\ (buf[b].valid <=> proc[p].write) /\ buf[b].data \in Values \cup {NoBlock}
  <2>1. proc[p].pc \in InRw BY <1>6, PCSets DEF Busy
  <2> QED BY <1>3, <1>6, <1>9, <2>1 DEF IInv, Filled, ProcRec, BufRec
\* The buffer and its block agree afterwards; no other buffer and no other block changes.
<1>11. /\ buf' \in [Bufs -> BufRec] /\ blocks' \in [Blocks -> Values]
       /\ \A j \in Bufs : /\ buf'[j].valid = buf[j].valid /\ buf'[j].blockno = buf[j].blockno
                          /\ buf'[j].lock = buf[j].lock /\ buf'[j].refcnt = buf[j].refcnt
                          /\ buf'[j].disk = buf[j].disk
                          /\ j # b \/ buf[j].valid => buf'[j].data = buf[j].data
       /\ buf'[b].data = blocks'[k]
       /\ \A m \in Blocks : m # k => blocks'[m] = blocks[m]
  <2>1. CASE ~proc[p].write
    <3> DEFINE c == [buf[b] EXCEPT !.data = blocks[k]]
    <3>1. info[i].type = "in" BY <1>7, <2>1
    <3>2. buf' = [buf EXCEPT ![b] = c] /\ blocks' = blocks BY <1>3, <1>8, <1>9, <3>1
    <3>3. /\ c \in BufRec /\ c.data = blocks[k] /\ c.valid = buf[b].valid /\ c.blockno = buf[b].blockno
          /\ c.lock = buf[b].lock /\ c.refcnt = buf[b].refcnt /\ c.disk = buf[b].disk
      BY <1>3, <1>9 DEF BufRec
    <3> HIDE DEF c
    <3>4. buf' \in [Bufs -> BufRec] /\ \A j \in Bufs : buf'[j] = IF j = b THEN c ELSE buf[j]
      BY <1>3, <1>9, <3>2, <3>3
    <3>5. ~buf[b].valid BY <1>10, <2>1
    <3>6. ASSUME NEW j \in Bufs
          PROVE  /\ buf'[j].valid = buf[j].valid /\ buf'[j].blockno = buf[j].blockno
                 /\ buf'[j].lock = buf[j].lock /\ buf'[j].refcnt = buf[j].refcnt
                 /\ buf'[j].disk = buf[j].disk
                 /\ j # b \/ buf[j].valid => buf'[j].data = buf[j].data
      <4>1. CASE j = b BY <3>3, <3>4, <3>5, <4>1
      <4>2. CASE j # b BY <3>4, <4>2
      <4> QED BY <4>1, <4>2
    <3> QED BY <1>3, <1>9, <3>2, <3>3, <3>4, <3>6
  <2>2. CASE proc[p].write
    <3>1. info[i].type # "in" BY <1>7, <2>2
    <3>2. blocks' = [blocks EXCEPT ![k] = buf[b].data] /\ buf' = buf BY <1>8, <3>1
    <3>3. buf[b].data \in Values BY <1>9, <1>10, <2>2 DEF IInv, Filled
    <3> QED BY <1>3, <1>9, <3>2, <3>3
  <2> QED BY <1>10, <2>1, <2>2
<1>12. ASSUME NEW j \in Bufs, j # b, buf[j].blockno \in Blocks
       PROVE  buf'[j].data = buf[j].data /\ blocks'[buf[j].blockno] = blocks[buf[j].blockno]
  <2>1. buf[j].blockno # k
    <3>1. buf[j].blockno # NoBlock BY <1>12, DiskAssumption
    <3> QED BY <1>9, <1>12, <3>1 DEF IInv, Table, Single
  <2> QED BY <1>11, <1>12, <2>1
<1>13. Table' BY <1>1, <1>11, TableFrame DEF IInv
<1>14. Filled'
  <2>1. ASSUME NEW q \in Procs
        PROVE  /\ proc'[q].pc = "have" => buf'[proc'[q].b].valid
               /\ proc'[q].pc \in InRw => (buf'[proc'[q].b].valid <=> proc'[q].write)
    <3>1. proc[q].pc = "have" \/ proc[q].pc \in InRw => proc[q].b \in Bufs
      BY DEF IInv, Table, Placed, InRw
    <3> QED BY <1>1, <1>11, <3>1 DEF IInv, Filled
  <2>2. \A j \in pins : buf'[j].valid BY <1>11 DEF IInv, Filled, Types, TableTypes
  <2>3. ASSUME NEW j \in Bufs, buf'[j].valid
        PROVE  /\ buf'[j].blockno \in Blocks /\ buf'[j].data \in Values
               /\ Same(j)' \/ j \in pins' \/ Written(j)'
    <3>1. /\ buf[j].blockno \in Blocks /\ buf[j].data \in Values
          /\ Same(j) \/ j \in pins \/ Written(j)
      BY <1>11, <2>3 DEF IInv, Filled
    <3>2. Written(j)' <=> Written(j) BY <1>1 DEF Written
    <3>3. buf'[j].blockno = buf[j].blockno /\ buf'[j].data = buf[j].data BY <1>11, <2>3
    <3>4. CASE j = b BY <1>9, <1>11, <3>1, <3>3, <3>4 DEF Same
    <3>5. CASE j # b
      <4>1. blocks'[buf[j].blockno] = blocks[buf[j].blockno] BY <1>12, <3>1, <3>5
      <4> QED BY <3>1, <3>2, <3>3, <4>1 DEF Same
    <3> QED BY <3>4, <3>5
  <2> QED BY <1>1, <2>1, <2>2, <2>3 DEF Filled
<1>15. /\ info' \in [Descs -> InfoRec] /\ info'[i].status = 0
       /\ \A j \in Descs : /\ info'[j].b = info[j].b /\ info'[j].sector = info[j].sector
                           /\ info'[j].type = info[j].type
                           /\ j # i => info'[j] = info[j]
  <2> DEFINE e == [info[i] EXCEPT !.status = 0]
  <2>1. info \in [Descs -> InfoRec] BY <1>2 DEF DiskTypes
  <2>2. info' = [info EXCEPT ![i] = e] BY <1>8, <2>1
  <2>3. e \in InfoRec /\ e.status = 0 /\ e.b = info[i].b /\ e.sector = info[i].sector /\ e.type = info[i].type
    <3>1. info[i] \in InfoRec BY <2>1
    <3>2. e = [b |-> info[i].b, status |-> 0, type |-> info[i].type, sector |-> info[i].sector]
      BY <3>1, SMT DEF InfoRec
    <3> HIDE DEF e
    <3>3. e.status = 0 /\ e.b = info[i].b /\ e.sector = info[i].sector /\ e.type = info[i].type
      BY <3>2
    <3>4. e \in InfoRec BY <3>1, <3>2 DEF InfoRec
    <3> QED BY <3>3, <3>4
  <2> HIDE DEF e
  <2>4. \A j \in Descs : info'[j] = IF j = i THEN e ELSE info[j] BY <2>1, <2>2
  <2>5. info' \in [Descs -> InfoRec] BY <2>1, <2>2, <2>3
  <2> QED BY <2>3, <2>4, <2>5
<1>16. Chains' /\ Busy' = Busy
  <2>1. \A q \in Procs : proc[q].pc \in InIo => proc[q].b \in Bufs BY PCSets, Holds DEF IInv, Types
  <2>2. ASSUME NEW q \in Procs
        PROVE  /\ proc'[q].pc \in InIo <=> proc[q].pc \in InIo
               /\ proc[q].pc \in InIo => /\ proc'[q].b = proc[q].b /\ proc'[q].write = proc[q].write
                                         /\ proc'[q].head = proc[q].head
                                         /\ buf'[proc[q].b].blockno = buf[proc[q].b].blockno
    BY <1>1, <1>11, <2>1
  <2> QED BY <1>1, <1>15, <2>2, ChainsFrame DEF IInv, Types
<1>17. Waiting' = Waiting
  <2>1. \A q \in Busy : proc[q].b \in Bufs BY PCSets, Holds DEF IInv, Types, Busy
  <2> QED BY <1>1, <1>11, <1>16, <2>1 DEF Waiting
<1>18. Heads' = Heads BY <1>1, <1>17 DEF Heads
<1> DEFINE r2 == [used.ring EXCEPT ![used.idx % NUM] = i]
<1>19. used.ring \in [Descs -> Descs] /\ used.idx \in Idx /\ used_idx \in Idx BY <1>2 DEF DiskTypes, Ring
<1>20. /\ Window(r2, used_idx, Next16(used.idx)) = Done \cup {i} /\ Once(r2, used_idx, Next16(used.idx))
       /\ r2 \in [Descs -> Descs] /\ Next16(used.idx) \in Idx
  <2>1. Dist(used_idx, used.idx) < NUM - 1
    <3>1. device.taken # {} BY <1>1
    <3> QED BY <3>1, Lengths, SMT
  <2>2. i \notin Window(used.ring, used_idx, used.idx) /\ Done = Window(used.ring, used_idx, used.idx)
    BY <1>1, <1>4 DEF Done
  <2>3. Once(used.ring, used_idx, used.idx) BY <1>4
  <2>4. i \notin Window(used.ring, used_idx, used.idx) BY <2>2
  <2>5. /\ Window(r2, used_idx, Next16(used.idx)) = Window(used.ring, used_idx, used.idx) \cup {i}
        /\ Once(r2, used_idx, Next16(used.idx)) /\ r2 \in [Descs -> Descs] /\ Next16(used.idx) \in Idx
    BY <1>2, <1>19, <2>1, <2>3, <2>4, WindowGrow
  <2> HIDE DEF r2
  <2> QED BY <2>2, <2>5
<1>21. used' \in Ring /\ used'.ring = r2 /\ used'.idx = Next16(used.idx)
  <2> HIDE DEF r2
  <2>1. used' = [ring |-> r2, idx |-> Next16(used.idx)] BY <1>1 DEF r2
  <2> QED BY <1>20, <2>1 DEF Ring
<1>22. /\ device' \in [seen : Idx, taken : SUBSET Descs, irq : BOOLEAN]
       /\ device'.seen = device.seen /\ device'.taken = device.taken \ {i} /\ device'.irq = TRUE
  <2>1. device.taken \ {i} \in SUBSET Descs BY <1>2 DEF DiskTypes
  <2> QED BY <1>1, <1>2, <2>1 DEF DiskTypes
<1>23. Types'
  <2>1. DiskTypes' BY <1>1, <1>2, <1>15, <1>21, <1>22, NumSame DEF DiskTypes
  <2>2. ProcTypes' BY <1>1, <1>3, NumSame DEF ProcTypes
  <2>3. BufTypes' BY <1>11 DEF BufTypes, BufRec
  <2>4. TableTypes' BY DEF IInv, Types, TableTypes
  <2> QED BY <2>1, <2>2, <2>3, <2>4 DEF Types
<1>24. Done' = Done \cup {i} BY <1>1, <1>20, <1>21, NumSame
<1>25. Asked' = Asked BY <1>1, <1>22, NumSame DEF Asked
<1>26. Queues'
  <2>1. Once(avail.ring, device.seen, avail.idx)' BY <1>1, <1>4, <1>22, NumSame
  <2>2. Once(used.ring, used_idx, used.idx)' BY <1>1, <1>20, <1>21, NumSame
  <2>3. Asked' \cap device'.taken = {} /\ Asked' \cap Done' = {} BY <1>1, <1>4, <1>22, <1>24, <1>25
  <2>4. device'.taken \cap Done' = {} BY <1>4, <1>22, <1>24
  <2>5. Asked' \cup device'.taken \cup Done' = Heads' BY <1>1, <1>4, <1>18, <1>22, <1>24, <1>25
  <2> QED BY <2>1, <2>2, <2>3, <2>4, <2>5 DEF Queues
<1>27. Served'
  <2>1. ASSUME NEW q \in Procs, proc'[q].pc = "iosleep" PROVE buf'[proc'[q].b].disk
    <3>1. proc[q].pc = "iosleep" /\ proc'[q].b = proc[q].b BY <1>1, <2>1
    <3>2. proc[q].b \in Bufs BY <3>1, PCSets, Holds DEF IInv, Types
    <3> QED BY <1>11, <3>1, <3>2 DEF IInv, Served
  <2>2. ASSUME NEW q \in Busy, q \notin Waiting \/ proc[q].head \in Done \cup {i} PROVE Same(proc[q].b)'
    <3>1. CASE q = p BY <1>1, <1>9, <1>11, <3>1 DEF Same
    <3>2. CASE q # p
      <4>1. proc[q].head # i BY <1>6, <3>2, HeadOf
      <4>2. Same(proc[q].b) BY <2>2, <4>1 DEF IInv, Served
      <4>3. proc[q].b \in Bufs /\ buf[proc[q].b].blockno \in Blocks BY PCSets, Holds DEF IInv, Types, Busy
      <4>4. proc[q].b # b BY <1>6, <1>9, <3>2
      <4>5. /\ buf'[proc[q].b].data = buf[proc[q].b].data
            /\ blocks'[buf[proc[q].b].blockno] = blocks[buf[proc[q].b].blockno]
            /\ buf'[proc[q].b].blockno = buf[proc[q].b].blockno
        BY <1>11, <1>12, <4>3, <4>4
      <4> QED BY <1>1, <4>2, <4>5 DEF Same
    <3> QED BY <3>1, <3>2
  <2>3. ASSUME NEW j \in Done \cup {i} PROVE info'[j].status = 0
    <3>1. CASE j = i BY <1>15, <3>1
    <3>2. CASE j # i
      <4>1. j \in Done /\ j \in Heads BY <1>4, <3>2
      <4>2. j \in Descs BY <4>1, HeadHas
      <4> QED BY <1>15, <3>2, <4>1, <4>2 DEF IInv, Served
    <3> QED BY <3>1, <3>2
  <2> QED BY <1>1, <1>16, <1>17, <1>24, <2>1, <2>2, <2>3 DEF Served
<1>28. Wakeups' BY <1>1, <1>22 DEF IInv, Wakeups, CompletionSignalled
<1>29. NoDiskPanic' BY <1>1 DEF IInv, NoDiskPanic
<1> QED BY <1>13, <1>14, <1>16, <1>23, <1>26, <1>27, <1>28, <1>29 DEF IInv

LEMMA EntryStep ==
  ASSUME FiniteFacts, IInv, NUM' = NUM, intr_entry, UNCHANGED <<lru, pins>>
  PROVE  IInv'
<1> DEFINE n == used_idx % NUM
           id == used.ring[n]
<1>1. /\ vdisk_lock = Intr /\ used_idx # used.idx
      /\ panic' = IF info[id].status # 0 THEN "virtio_disk_intr status" ELSE panic
      /\ buf' = [buf EXCEPT ![info[id].b].disk = FALSE]
      /\ proc' = [q \in Procs |-> IF proc[q].pc = "iosleep" /\ proc[q].b = info[id].b
                                    THEN [proc[q] EXCEPT !.pc = "iowoken"] ELSE proc[q]]
      /\ used' = [used EXCEPT !.ring[n] = 0] /\ used_idx' = Next16(used_idx)
      /\ UNCHANGED <<free, desc, info, avail, device, blocks, vdisk_lock>>
  BY DEF intr_entry
<1>2. DiskTypes BY DEF IInv, Types
<1>3. proc \in [Procs -> ProcRec] /\ buf \in [Bufs -> BufRec] /\ blocks \in [Blocks -> Values]
  BY DEF IInv, Types, ProcTypes, BufTypes
<1>4. /\ Asked \cap device.taken = {} /\ Asked \cap Done = {} /\ device.taken \cap Done = {}
      /\ Asked \cup device.taken \cup Done = Heads
      /\ Once(used.ring, used_idx, used.idx) /\ Once(avail.ring, device.seen, avail.idx)
  BY DEF IInv, Queues
<1>5. used.ring \in [Descs -> Descs] /\ used.idx \in Idx /\ used_idx \in Idx BY <1>2 DEF DiskTypes, Ring
<1> DEFINE r2 == [used.ring EXCEPT ![n] = 0]
           s2 == Next16(used_idx)
<1>6. /\ id \in Done /\ id \in Descs /\ Window(r2, s2, used.idx) = Done \ {id}
      /\ Once(r2, s2, used.idx) /\ r2 \in [Descs -> Descs] /\ s2 \in Idx
  <2>1. Dist(used_idx, used.idx) <= NUM BY Lengths, IdxFacts, <1>2, SMT
  <2>2. Done = Window(used.ring, used_idx, used.idx) BY DEF Done
  <2> QED BY <1>1, <1>2, <1>4, <1>5, <2>1, <2>2, WindowShrink
<1> HIDE DEF n, id, r2, s2
<1>7. id \in Heads BY <1>4, <1>6
<1>8. PICK p \in Waiting : /\ proc[p].head = id /\ p \in Busy /\ p \in Procs /\ proc[p].b \in Bufs
                           /\ buf[proc[p].b].blockno \in Blocks /\ id \in Descs
                           /\ \A q \in Busy : q # p => proc[q].b # proc[p].b
  BY <1>7, HeadHas
<1> DEFINE b == proc[p].b
<1>9. info[id].b = b
  <2>1. Formed(p) BY <1>8 DEF IInv, Chains
  <2> QED BY <1>8, <2>1 DEF Formed
<1>10. info[id].status = 0 BY <1>6 DEF IInv, Served
<1> DEFINE c == [buf[b] EXCEPT !.disk = FALSE]
<1>11. buf' = [buf EXCEPT ![b] = c] BY <1>1, <1>3, <1>8, <1>9
<1>12. /\ c \in BufRec /\ c.data = buf[b].data /\ c.valid = buf[b].valid /\ c.blockno = buf[b].blockno
       /\ c.lock = buf[b].lock /\ c.refcnt = buf[b].refcnt /\ c.disk = FALSE
  BY <1>3, <1>8 DEF BufRec
<1> HIDE DEF b, c
<1>13. b \in Bufs /\ b = proc[p].b /\ buf[b].disk BY <1>8 DEF b, Waiting
<1>14. buf' \in [Bufs -> BufRec] /\ \A j \in Bufs : buf'[j] = IF j = b THEN c ELSE buf[j]
  BY <1>3, <1>11, <1>12, <1>13
<1>15. \A j \in Bufs : /\ buf'[j].valid = buf[j].valid /\ buf'[j].blockno = buf[j].blockno
                       /\ buf'[j].lock = buf[j].lock /\ buf'[j].refcnt = buf[j].refcnt
                       /\ buf'[j].data = buf[j].data
                       /\ j # b => buf'[j].disk = buf[j].disk
                       /\ j = b => buf'[j].disk = FALSE
  BY <1>12, <1>14
\* Of the processes only p can sleep for this buffer.
<1>16. /\ proc' \in [Procs -> ProcRec]
       /\ \A q \in Procs : /\ proc'[q].b = proc[q].b /\ proc'[q].blk = proc[q].blk
                           /\ proc'[q].write = proc[q].write /\ proc'[q].head = proc[q].head
                           /\ q # p => proc'[q].pc = proc[q].pc
       /\ proc[p].pc \in InIo /\ proc'[p].pc = "iowoken"
  <2>1. \A q \in Procs : proc'[q] = IF proc[q].pc = "iosleep" /\ proc[q].b = b
                                       THEN [proc[q] EXCEPT !.pc = "iowoken"] ELSE proc[q]
    BY <1>1, <1>9
  <2>2. ASSUME NEW q \in Procs
        PROVE  /\ [proc[q] EXCEPT !.pc = "iowoken"] \in ProcRec
               /\ [proc[q] EXCEPT !.pc = "iowoken"].pc = "iowoken"
               /\ [proc[q] EXCEPT !.pc = "iowoken"].b = proc[q].b
               /\ [proc[q] EXCEPT !.pc = "iowoken"].blk = proc[q].blk
               /\ [proc[q] EXCEPT !.pc = "iowoken"].write = proc[q].write
               /\ [proc[q] EXCEPT !.pc = "iowoken"].head = proc[q].head
    BY <1>3, PCSets DEF ProcRec
  <2>3. DOMAIN proc' = Procs /\ proc' = [q \in Procs |-> proc'[q]] BY <1>1
  <2>4. \A q \in Procs : proc'[q] \in ProcRec BY <1>3, <2>1, <2>2
  <2>5. proc' \in [Procs -> ProcRec] BY <2>3, <2>4
  <2>6. ASSUME NEW q \in Procs, proc[q].pc = "iosleep", proc[q].b = b PROVE q = p
    <3>1. q \in Busy BY <2>6 DEF Busy, InIo
    <3> QED BY <1>8, <1>13, <2>6, <3>1
  <2>7. proc[p].pc \in InIo BY <1>8 DEF Busy
  <2>8. proc'[p].pc = "iowoken" BY <1>8, <1>13, <2>1, <2>2, <2>7 DEF InIo
  <2>9. ASSUME NEW q \in Procs
        PROVE  /\ proc'[q].b = proc[q].b /\ proc'[q].blk = proc[q].blk
               /\ proc'[q].write = proc[q].write /\ proc'[q].head = proc[q].head
               /\ q # p => proc'[q].pc = proc[q].pc
    <3>1. CASE proc[q].pc = "iosleep" /\ proc[q].b = b BY <2>1, <2>2, <2>6, <3>1
    <3>2. CASE ~(proc[q].pc = "iosleep" /\ proc[q].b = b)
      <4>1. proc'[q] = proc[q] BY <2>1, <3>2
      <4> QED BY <4>1
    <3> QED BY <3>1, <3>2
  <2> QED BY <2>5, <2>7, <2>8, <2>9
<1>17. \A q \in Procs : /\ proc'[q].pc \in InIo <=> proc[q].pc \in InIo
                        /\ proc'[q].pc \in InRw <=> proc[q].pc \in InRw
                        /\ proc'[q].pc \in Holding <=> proc[q].pc \in Holding
                        /\ proc'[q].pc = "have" <=> proc[q].pc = "have"
                        /\ proc'[q].pc = "idle" <=> proc[q].pc = "idle"
                        /\ proc'[q].pc = "dsleep" <=> proc[q].pc = "dsleep"
                        /\ proc'[q].pc = "iosleep" => proc[q].pc = "iosleep" /\ q # p
  BY <1>16 DEF Holding, InRw, InIo
<1>18. Types'
  <2>1. used' \in Ring /\ used'.ring = r2 /\ used'.idx = used.idx
    <3>1. used' = [used EXCEPT !.ring = r2] BY <1>1 DEF r2
    <3> QED BY <1>2, <1>6, <3>1 DEF DiskTypes, Ring
  <2>2. used_idx' \in Idx BY <1>1, <1>6 DEF s2
  <2>3. DiskTypes' BY <1>1, <1>2, <2>1, <2>2, NumSame DEF DiskTypes
  <2>4. ProcTypes' BY <1>16, NumSame DEF ProcTypes
  <2>5. BufTypes' BY <1>1, <1>3, <1>14 DEF BufTypes, BufRec
  <2>6. TableTypes' BY DEF IInv, Types, TableTypes
  <2> QED BY <2>3, <2>4, <2>5, <2>6 DEF Types
<1>19. used'.ring = r2 /\ used'.idx = used.idx
  <2>1. used' = [used EXCEPT !.ring = r2] BY <1>1 DEF r2
  <2> QED BY <1>2, <2>1 DEF DiskTypes, Ring
<1>20. Done' = Done \ {id} BY <1>1, <1>6, <1>19, NumSame DEF s2
<1>21. Once(used.ring, used_idx, used.idx)' BY <1>1, <1>6, <1>19, NumSame DEF s2
<1>22. Busy' = Busy BY <1>17 DEF Busy
<1>23. Waiting' = Waiting \ {p}
  <2>1. \A q \in Busy : q \in Procs /\ proc[q].b \in Bufs BY PCSets, Holds DEF IInv, Types, Busy
  <2>2. ASSUME NEW q \in Busy
        PROVE  buf'[proc'[q].b].disk <=> buf[proc[q].b].disk /\ q # p
    <3>1. CASE q = p BY <1>13, <1>15, <1>16, <2>1, <3>1
    <3>2. CASE q # p
      <4>1. proc[q].b # b /\ proc[q].b \in Bufs BY <1>8, <1>13, <2>1, <3>2
      <4> QED BY <1>15, <1>16, <2>1, <3>2, <4>1
    <3> QED BY <3>1, <3>2
  <2> QED BY <1>22, <2>2 DEF Waiting
<1>24. Heads' = Heads \ {id}
  <2>1. ASSUME NEW h \in Heads' PROVE h \in Heads /\ h # id
    <3>1. PICK q \in Waiting' : proc'[q].head = h BY <2>1 DEF Heads
    <3>2. q \in Waiting /\ q # p /\ q \in Busy /\ q \in Procs BY <1>23, <3>1 DEF Waiting, Busy
    <3>3. proc[q].head = h BY <1>16, <3>1, <3>2
    <3>4. proc[q].head # proc[p].head BY <1>8, <3>2, HeadOf
    <3> QED BY <1>8, <3>2, <3>3, <3>4 DEF Heads
  <2>2. ASSUME NEW h \in Heads, h # id PROVE h \in Heads'
    <3>1. PICK q \in Waiting : proc[q].head = h BY DEF Heads
    <3>2. q # p BY <1>8, <2>2, <3>1
    <3>3. q \in Waiting' /\ q \in Procs BY <1>23, <3>1, <3>2 DEF Waiting, Busy
    <3>4. proc'[q].head = h BY <1>16, <3>1, <3>3
    <3> QED BY <3>3, <3>4 DEF Heads
  <2> QED BY <2>1, <2>2
<1>25. Queues'
  <2>1. Asked' = Asked BY <1>1, NumSame DEF Asked
  <2>2. Once(avail.ring, device.seen, avail.idx)' BY <1>1, <1>4, NumSame
  <2>3. device'.taken = device.taken BY <1>1
  <2>4. Asked' \cap device'.taken = {} /\ Asked' \cap Done' = {} /\ device'.taken \cap Done' = {}
    BY <1>4, <1>20, <2>1, <2>3
  <2>5. Asked' \cup device'.taken \cup Done' = Heads' BY <1>4, <1>6, <1>20, <1>24, <2>1, <2>3
  <2> QED BY <1>21, <2>2, <2>4, <2>5 DEF Queues
<1>26. Served'
  <2>1. ASSUME NEW q \in Procs, proc'[q].pc = "iosleep" PROVE buf'[proc'[q].b].disk
    <3>1. proc[q].pc = "iosleep" /\ q # p /\ proc'[q].b = proc[q].b BY <1>16, <1>17, <2>1
    <3>2. proc[q].b \in Bufs BY <3>1, PCSets, Holds DEF IInv, Types
    <3>3. q \in Busy BY <3>1 DEF Busy, InIo
    <3>4. proc[q].b # b BY <1>8, <1>13, <3>1, <3>3
    <3> QED BY <1>15, <3>1, <3>2, <3>4 DEF IInv, Served
  <2>2. ASSUME NEW q \in Busy, q \notin Waiting' \/ proc'[q].head \in Done' PROVE Same(proc[q].b)'
    <3>1. q \notin Waiting \/ proc[q].head \in Done
      BY <1>6, <1>8, <1>16, <1>20, <1>23, <2>2 DEF Busy
    <3>2. Same(proc[q].b) BY <3>1 DEF IInv, Served
    <3>3. proc[q].b \in Bufs /\ proc'[q].b = proc[q].b BY <1>16, PCSets, Holds DEF IInv, Types, Busy
    <3> QED BY <1>1, <1>15, <3>2, <3>3 DEF Same
  <2>3. \A j \in Done' : info'[j].status = 0 BY <1>1, <1>20 DEF IInv, Served
  <2> QED BY <1>22, <2>1, <2>2, <2>3 DEF Served
<1>27. Chains'
  <2>1. \A q \in Procs : proc[q].pc \in InIo => proc[q].b \in Bufs BY PCSets, Holds DEF IInv, Types
  <2>2. ASSUME NEW q \in Procs
        PROVE  /\ proc'[q].pc \in InIo <=> proc[q].pc \in InIo
               /\ proc[q].pc \in InIo => /\ proc'[q].b = proc[q].b /\ proc'[q].write = proc[q].write
                                         /\ proc'[q].head = proc[q].head
                                         /\ buf'[proc[q].b].blockno = buf[proc[q].b].blockno
    BY <1>15, <1>16, <1>17, <2>1
  <2> QED BY <1>1, <2>2, ChainsFrame DEF IInv, Types
<1>28. Table' BY <1>15, <1>16, <1>17, TableFrame DEF IInv
<1>29. Filled' BY <1>1, <1>15, <1>16, <1>17, FilledFrame DEF IInv, Types, TableTypes
<1>30. Wakeups' /\ NoDiskPanic'
  <2>1. (\E q \in Procs : proc'[q].pc = "dsleep") => Cardinality(free') < 3
    BY <1>1, <1>17 DEF IInv, Wakeups
  <2>2. CompletionSignalled' BY <1>1 DEF CompletionSignalled
  <2>3. NoDiskPanic' BY <1>1, <1>10 DEF IInv, NoDiskPanic
  <2> QED BY <2>1, <2>2, <2>3 DEF Wakeups
<1> QED BY <1>18, <1>25, <1>26, <1>27, <1>28, <1>29, <1>30 DEF IInv

LEMMA ThreeLess ==
  ASSUME FiniteFacts, NEW S, IsFiniteSet(S), NEW i \in S, NEW j \in S, NEW k \in S, i # j, j # k, i # k
  PROVE  IsFiniteSet(S \ {i, j, k}) /\ Cardinality(S \ {i, j, k}) = Cardinality(S) - 3
<1>1. IsFiniteSet(S \ {i}) /\ Cardinality(S \ {i}) = Cardinality(S) - 1 BY DEF FiniteFacts, FinRemove
<1>2. j \in S \ {i} OBVIOUS
<1>3. IsFiniteSet((S \ {i}) \ {j}) /\ Cardinality((S \ {i}) \ {j}) = Cardinality(S \ {i}) - 1
  BY <1>1, <1>2 DEF FiniteFacts, FinRemove
<1>4. k \in (S \ {i}) \ {j} OBVIOUS
<1>5. /\ IsFiniteSet(((S \ {i}) \ {j}) \ {k})
      /\ Cardinality(((S \ {i}) \ {j}) \ {k}) = Cardinality((S \ {i}) \ {j}) - 1
  BY <1>3, <1>4 DEF FiniteFacts, FinRemove
<1>6. ((S \ {i}) \ {j}) \ {k} = S \ {i, j, k} OBVIOUS
<1>7. Cardinality(S) \in Nat BY DEF FiniteFacts, FinType
<1>8. Cardinality(S \ {i, j, k}) = Cardinality(S) - 1 - 1 - 1 BY <1>1, <1>3, <1>5, <1>6
<1>9. Cardinality(S) - 1 - 1 - 1 = Cardinality(S) - 3 BY <1>7, SMT
<1> QED BY <1>5, <1>6, <1>8, <1>9

LEMMA PublishStep ==
  ASSUME FiniteFacts, IInv, NUM' = NUM, NEW p \in Procs, virtio_disk_rw(p), UNCHANGED <<lru, pins>>
  PROVE  IInv'
<1> DEFINE b == proc[p].b
<1>1. /\ proc[p].pc \in {"rw", "dwoken"} /\ Cardinality(free) >= 3
      /\ UNCHANGED <<used, used_idx, device, blocks, vdisk_lock, panic>>
  BY DEF virtio_disk_rw
<1>2. PICK i \in free, j \in free, k \in free :
        /\ FirstFree(i, j, k)
        /\ free' = free \ {i, j, k}
        /\ desc' = [desc EXCEPT ![i] = [addr |-> i, next |-> j, more |-> TRUE],
                                ![j] = [addr |-> b, next |-> k, more |-> TRUE],
                                ![k] = [addr |-> i, next |-> 0, more |-> FALSE]]
        /\ info' = [info EXCEPT ![i] = [b |-> b, status |-> 255, sector |-> buf[b].blockno,
                                        type |-> IF proc[p].write THEN "out" ELSE "in"]]
        /\ buf' = [buf EXCEPT ![b].disk = TRUE]
        /\ avail' = Publish(i)
        /\ proc' = [proc EXCEPT ![p].pc = "iosleep", ![p].head = i]
  BY DEF virtio_disk_rw
<1>3. DiskTypes BY DEF IInv, Types
<1>4. proc \in [Procs -> ProcRec] /\ buf \in [Bufs -> BufRec] /\ blocks \in [Blocks -> Values]
  BY DEF IInv, Types, ProcTypes, BufTypes
<1>5. /\ i \in Descs /\ j \in Descs /\ k \in Descs /\ 0 \in Descs
      /\ i # j /\ j # k /\ i # k
  <2>1. free \subseteq 0..(NUM - 1) /\ NUM \in Nat /\ NUM >= 3 BY <1>3 DEF DiskTypes, Descs
  <2>2. i < j /\ j < k BY <1>2 DEF FirstFree
  <2>3. i \in 0..(NUM - 1) /\ j \in 0..(NUM - 1) /\ k \in 0..(NUM - 1) BY <2>1
  <2> QED BY <2>1, <2>2, <2>3, SMT DEF Descs
<1>6. /\ proc[p].pc \in InRw /\ proc[p].pc \in Holding /\ proc[p].pc \notin InIo /\ p \notin Busy
  BY <1>1, PCSets DEF Busy
<1>7. /\ b \in Bufs /\ buf[b].blockno \in Blocks
      /\ \A q \in Procs : q # p /\ proc[q].pc \in Holding => proc[q].b # b
  BY <1>6, Holds DEF IInv, Types
<1> DEFINE t == [[proc[p] EXCEPT !.pc = "iosleep"] EXCEPT !.head = i]
           c == [buf[b] EXCEPT !.disk = TRUE]
           e == [b |-> b, status |-> 255, sector |-> buf[b].blockno,
                 type |-> IF proc[p].write THEN "out" ELSE "in"]
           di == [addr |-> i, next |-> j, more |-> TRUE]
           dj == [addr |-> b, next |-> k, more |-> TRUE]
           dk == [addr |-> i, next |-> 0, more |-> FALSE]
<1>8. proc' = [proc EXCEPT ![p] = t] /\ buf' = [buf EXCEPT ![b] = c] BY <1>2, <1>4, <1>7
<1>9. /\ t \in ProcRec /\ t.pc = "iosleep" /\ t.b = b /\ t.write = proc[p].write /\ t.head = i
      /\ t.blk = proc[p].blk
  BY <1>4, <1>5, PCSets DEF ProcRec
<1>10. /\ c \in BufRec /\ c.data = buf[b].data /\ c.valid = buf[b].valid /\ c.blockno = buf[b].blockno
       /\ c.lock = buf[b].lock /\ c.refcnt = buf[b].refcnt /\ c.disk = TRUE
  BY <1>4, <1>7 DEF BufRec
<1>11. /\ e \in InfoRec /\ e.b = b /\ e.sector = buf[b].blockno
       /\ e.type = IF proc[p].write THEN "out" ELSE "in"
  BY <1>7, SMT DEF InfoRec
<1>12. di \in DescRec /\ dj \in DescRec /\ dk \in DescRec BY <1>5, <1>7, SMT DEF DescRec
<1>13. di.next = j /\ dj.next = k OBVIOUS
<1>14. /\ desc' = [desc EXCEPT ![i] = di, ![j] = dj, ![k] = dk] /\ info' = [info EXCEPT ![i] = e]
  BY <1>2
<1> HIDE DEF b, t, c, e
<1>15. /\ \A q \in Procs : proc'[q] = IF q = p THEN t ELSE proc[q]
       /\ \A n \in Bufs : buf'[n] = IF n = b THEN c ELSE buf[n]
       /\ proc' \in [Procs -> ProcRec] /\ buf' \in [Bufs -> BufRec]
  BY <1>4, <1>7, <1>8, <1>9, <1>10
<1>16. /\ \A d \in Descs : info'[d] = IF d = i THEN e ELSE info[d]
       /\ info' \in [Descs -> InfoRec]
  <2>1. info \in [Descs -> InfoRec] BY <1>3 DEF DiskTypes
  <2> QED BY <1>5, <1>11, <1>14, <2>1
<1>17. /\ desc' \in [Descs -> DescRec] /\ desc'[i] = di /\ desc'[j] = dj /\ desc'[k] = dk
       /\ \A d \in Descs : d \notin {i, j, k} => desc'[d] = desc[d]
  <2> HIDE DEF di, dj, dk
  <2>1. desc \in [Descs -> DescRec] BY <1>3 DEF DiskTypes
  <2>2. desc' \in [Descs -> DescRec] BY <1>5, <1>12, <1>14, <2>1
  <2> QED BY <1>5, <1>14, <2>1, <2>2
<1>18. b = proc[p].b /\ b \in Bufs BY <1>7 DEF b
<1>19. Busy' = Busy \cup {p}
  <2>1. \A q \in Procs : q # p => proc'[q] = proc[q] BY <1>15
  <2>2. proc'[p].pc \in InIo BY <1>9, <1>15, PCSets
  <2> QED BY <2>1, <2>2 DEF Busy
<1>20. \A q \in Busy : /\ q \in Procs /\ q # p /\ proc'[q] = proc[q] /\ proc[q].b \in Bufs /\ proc[q].b # b
                       /\ buf'[proc[q].b] = buf[proc[q].b] /\ proc[q].head \in Descs
  <2>1. ASSUME NEW q \in Busy
        PROVE  q \in Procs /\ q # p /\ proc[q].b \in Bufs /\ proc[q].b # b /\ proc[q].head \in Descs
    <3>1. q \in Procs /\ proc[q].pc \in Holding /\ q # p BY <1>6, PCSets DEF Busy
    <3>2. proc[q].head \in Descs BY <1>4, <3>1 DEF ProcRec
    <3> QED BY <1>7, <3>1, <3>2, Holds DEF IInv, Types
  <2> QED BY <1>15, <2>1
<1>21. Waiting' = Waiting \cup {p}
  <2>1. buf'[proc'[p].b].disk BY <1>9, <1>10, <1>15, <1>18
  <2>2. \A q \in Busy : buf'[proc'[q].b].disk <=> buf[proc[q].b].disk BY <1>20
  <2> QED BY <1>19, <2>1, <2>2 DEF Waiting
<1>22. Heads' = Heads \cup {i}
  <2>1. proc'[p].head = i BY <1>9, <1>15
  <2>2. \A q \in Waiting : proc'[q].head = proc[q].head BY <1>20 DEF Waiting
  <2>3. Heads' = {proc'[q].head : q \in Waiting \cup {p}} BY <1>21 DEF Heads
  <2> QED BY <2>1, <2>2, <2>3 DEF Heads
<1>23. i \notin Heads
  <2>1. ASSUME NEW q \in Waiting, proc[q].head = i PROVE FALSE
    <3>1. q \in Busy BY DEF Waiting
    <3>2. Trio(q) \cap free = {} /\ i \in Trio(q) BY <2>1, <3>1 DEF IInv, Chains, Trio
    <3> QED BY <3>2
  <2> QED BY <2>1 DEF Heads
\* The chains of the others are out of the way of the new one.
<1>24. ASSUME NEW q \in Busy
       PROVE  /\ Second(q)' = Second(q) /\ Third(q)' = Third(q) /\ Trio(q)' = Trio(q) /\ Formed(q)'
              /\ Trio(q) \cap {i, j, k} = {}
  <2>1. Formed(q) /\ Trio(q) \cap free = {} BY DEF IInv, Chains
  <2>2. Trio(q) \cap {i, j, k} = {} BY <2>1
  <2>3. proc[q].head \in Descs /\ proc'[q] = proc[q] BY <1>20
  <2>4. desc \in [Descs -> DescRec] BY <1>3 DEF DiskTypes
  <2>5. Second(q) \in Descs BY <2>3, <2>4 DEF Second, DescRec
  <2>6. Third(q) \in Descs BY <2>4, <2>5 DEF Third, DescRec
  <2>7. proc[q].head \notin {i, j, k} /\ Second(q) \notin {i, j, k} /\ Third(q) \notin {i, j, k}
    BY <2>2 DEF Trio
  <2>8. /\ desc'[proc[q].head] = desc[proc[q].head] /\ desc'[Second(q)] = desc[Second(q)]
        /\ desc'[Third(q)] = desc[Third(q)]
    BY <1>17, <2>3, <2>5, <2>6, <2>7
  <2>9. Second(q)' = Second(q) BY <2>3, <2>8 DEF Second
  <2>10. Third(q)' = Third(q)
    <3>1. Third(q)' = desc'[Second(q)'].next BY DEF Third
    <3> QED BY <2>8, <2>9, <3>1 DEF Third
  <2>11. Trio(q)' = Trio(q)
    <3>1. Trio(q)' = {proc'[q].head, Second(q)', Third(q)'} BY DEF Trio
    <3> QED BY <2>3, <2>9, <2>10, <3>1 DEF Trio
  <2>12. info'[proc[q].head] = info[proc[q].head] BY <1>16, <2>3, <2>7
  <2>13. Formed(q)' <=> /\ desc'[proc'[q].head] = [addr |-> proc'[q].head, next |-> Second(q)', more |-> TRUE]
                        /\ desc'[Second(q)'] = [addr |-> proc'[q].b, next |-> Third(q)', more |-> TRUE]
                        /\ desc'[Third(q)'] = [addr |-> proc'[q].head, next |-> 0, more |-> FALSE]
                        /\ proc'[q].head # Second(q)' /\ proc'[q].head # Third(q)' /\ Second(q)' # Third(q)'
                        /\ info'[proc'[q].head].b = proc'[q].b
                        /\ info'[proc'[q].head].sector = buf'[proc'[q].b].blockno
                        /\ info'[proc'[q].head].type = IF proc'[q].write THEN "out" ELSE "in"
    BY DEF Formed
  <2>14. Formed(q)' BY <1>20, <2>1, <2>3, <2>8, <2>9, <2>10, <2>12, <2>13 DEF Formed
  <2> QED BY <2>2, <2>9, <2>10, <2>11, <2>14
<1>25. Trio(p)' = {i, j, k} /\ Formed(p)'
  <2>1. /\ proc'[p].head = i /\ proc'[p].b = b /\ proc'[p].write = proc[p].write
        /\ buf'[b].blockno = buf[b].blockno
    BY <1>9, <1>10, <1>15, <1>18
  <2>2. Second(p)' = j
    <3>1. Second(p)' = desc'[proc'[p].head].next BY DEF Second
    <3> QED BY <1>13, <1>17, <2>1, <3>1
  <2>3. Third(p)' = k
    <3>1. Third(p)' = desc'[Second(p)'].next BY DEF Third
    <3> QED BY <1>13, <1>17, <2>2, <3>1
  <2>4. Trio(p)' = {i, j, k}
    <3>1. Trio(p)' = {proc'[p].head, Second(p)', Third(p)'} BY DEF Trio
    <3> QED BY <2>1, <2>2, <2>3, <3>1
  <2>5. Formed(p)' <=> /\ desc'[proc'[p].head] = [addr |-> proc'[p].head, next |-> Second(p)', more |-> TRUE]
                       /\ desc'[Second(p)'] = [addr |-> proc'[p].b, next |-> Third(p)', more |-> TRUE]
                       /\ desc'[Third(p)'] = [addr |-> proc'[p].head, next |-> 0, more |-> FALSE]
                       /\ proc'[p].head # Second(p)' /\ proc'[p].head # Third(p)' /\ Second(p)' # Third(p)'
                       /\ info'[proc'[p].head].b = proc'[p].b
                       /\ info'[proc'[p].head].sector = buf'[proc'[p].b].blockno
                       /\ info'[proc'[p].head].type = IF proc'[p].write THEN "out" ELSE "in"
    BY DEF Formed
  <2>6. info'[i] = e BY <1>5, <1>16
  <2>7. Formed(p)' BY <1>5, <1>11, <1>17, <2>1, <2>2, <2>3, <2>5, <2>6
  <2> QED BY <2>4, <2>7
<1>26. Chains'
  <2>1. ASSUME NEW q \in Busy' PROVE Formed(q)' /\ Trio(q)' \cap free' = {}
    <3>1. CASE q = p BY <1>2, <1>25, <3>1
    <3>2. CASE q # p
      <4>1. q \in Busy BY <1>19, <3>2
      <4>2. Trio(q) \cap free = {} BY <4>1 DEF IInv, Chains
      <4>3. Trio(q)' = Trio(q) /\ Formed(q)' BY <1>24, <4>1
      <4> QED BY <1>2, <4>2, <4>3
    <3> QED BY <3>1, <3>2
  <2>2. ASSUME NEW q \in Busy', NEW r \in Busy', q # r PROVE Trio(q)' \cap Trio(r)' = {}
    <3>1. CASE q = p
      <4>1. r \in Busy BY <1>19, <2>2, <3>1
      <4>2. Trio(r)' = Trio(r) /\ Trio(r) \cap {i, j, k} = {} BY <1>24, <4>1
      <4> QED BY <1>25, <3>1, <4>2
    <3>2. CASE r = p
      <4>1. q \in Busy BY <1>19, <2>2, <3>2
      <4>2. Trio(q)' = Trio(q) /\ Trio(q) \cap {i, j, k} = {} BY <1>24, <4>1
      <4> QED BY <1>25, <3>2, <4>2
    <3>3. CASE q # p /\ r # p
      <4>1. q \in Busy /\ r \in Busy BY <1>19, <3>3
      <4>2. Trio(q) \cap Trio(r) = {} BY <2>2, <4>1 DEF IInv, Chains
      <4>3. Trio(q)' = Trio(q) /\ Trio(r)' = Trio(r) BY <1>24, <4>1
      <4> QED BY <4>2, <4>3
    <3> QED BY <3>1, <3>2, <3>3
  <2>3. Cardinality(free') + 3 * Cardinality(Busy') = NUM'
    <3>1. /\ IsFiniteSet(Busy) /\ Cardinality(Busy) \in Nat /\ IsFiniteSet(free) /\ Cardinality(free) \in Nat
      BY <1>3, Counted
    <3>2. Cardinality(Busy \cup {p}) = Cardinality(Busy) + 1 BY <1>6, <3>1 DEF FiniteFacts, FinAdd
    <3>3. Cardinality(free \ {i, j, k}) = Cardinality(free) - 3 BY <1>5, <3>1, ThreeLess
    <3>4. Cardinality(free) + 3 * Cardinality(Busy) = NUM BY DEF IInv, Chains
    <3>5. Cardinality(Busy') = Cardinality(Busy) + 1 /\ Cardinality(free') = Cardinality(free) - 3
      BY <1>2, <1>19, <3>2, <3>3
    <3> QED BY <3>1, <3>4, <3>5, SMT
  <2> QED BY <2>1, <2>2, <2>3 DEF Chains
<1> DEFINE r2 == [avail.ring EXCEPT ![avail.idx % NUM] = i]
<1>27. /\ Asked \cap device.taken = {} /\ Asked \cap Done = {} /\ device.taken \cap Done = {}
       /\ Asked \cup device.taken \cup Done = Heads
       /\ Once(used.ring, used_idx, used.idx) /\ Once(avail.ring, device.seen, avail.idx)
  BY DEF IInv, Queues
<1>28. /\ Window(r2, device.seen, Next16(avail.idx)) = Asked \cup {i}
       /\ Once(r2, device.seen, Next16(avail.idx)) /\ r2 \in [Descs -> Descs] /\ Next16(avail.idx) \in Idx
  <2>1. avail.ring \in [Descs -> Descs] /\ avail.idx \in Idx /\ device.seen \in Idx
    BY <1>3 DEF DiskTypes, Ring
  <2>2. Dist(device.seen, avail.idx) < NUM - 1
    <3>1. Cardinality(free) + 3 * Cardinality(Busy) = NUM BY DEF IInv, Chains
    <3>2. Cardinality(free) \in Nat BY <1>3, Counted
    <3> QED BY <1>1, <3>1, <3>2, Lengths, SMT
  <2>3. Asked = Window(avail.ring, device.seen, avail.idx) BY DEF Asked
  <2>4. i \notin Window(avail.ring, device.seen, avail.idx) BY <1>23, <1>27, <2>3
  <2>5. Once(avail.ring, device.seen, avail.idx) BY <1>27
  <2>6. /\ Window(r2, device.seen, Next16(avail.idx)) = Window(avail.ring, device.seen, avail.idx) \cup {i}
        /\ Once(r2, device.seen, Next16(avail.idx)) /\ r2 \in [Descs -> Descs] /\ Next16(avail.idx) \in Idx
    BY <1>3, <1>5, <2>1, <2>2, <2>4, <2>5, WindowGrow
  <2> HIDE DEF r2
  <2> QED BY <2>3, <2>6
<1>29. avail' \in Ring /\ avail'.ring = r2 /\ avail'.idx = Next16(avail.idx)
  <2> HIDE DEF r2
  <2>1. avail' = [ring |-> r2, idx |-> Next16(avail.idx)] BY <1>2 DEF r2, Publish
  <2> QED BY <1>28, <2>1 DEF Ring
<1> HIDE DEF r2
<1>30. Types'
  <2>1. free' \subseteq Descs BY <1>2, <1>3 DEF DiskTypes
  <2>2. DiskTypes' BY <1>1, <1>3, <1>16, <1>17, <1>29, <2>1, NumSame DEF DiskTypes
  <2>3. ProcTypes' BY <1>15, NumSame DEF ProcTypes
  <2>4. BufTypes' BY <1>1, <1>4, <1>15 DEF BufTypes, BufRec
  <2>5. TableTypes' BY DEF IInv, Types, TableTypes
  <2> QED BY <2>2, <2>3, <2>4, <2>5 DEF Types
<1>31. Queues'
  <2>1. Asked' = Asked \cup {i} BY <1>1, <1>28, <1>29, NumSame
  <2>2. Done' = Done BY <1>1, NumSame DEF Done
  <2>3. Once(avail.ring, device.seen, avail.idx)' BY <1>1, <1>28, <1>29, NumSame
  <2>4. Once(used.ring, used_idx, used.idx)' BY <1>1, <1>27, NumSame
  <2>5. device'.taken = device.taken BY <1>1
  <2>6. i \notin device.taken /\ i \notin Done BY <1>23, <1>27
  <2>7. Asked' \cap device'.taken = {} /\ Asked' \cap Done' = {} /\ device'.taken \cap Done' = {}
    BY <1>27, <2>1, <2>2, <2>5, <2>6
  <2>8. Asked' \cup device'.taken \cup Done' = Heads' BY <1>22, <1>27, <2>1, <2>2, <2>5
  <2> QED BY <2>3, <2>4, <2>7, <2>8 DEF Queues
<1>32. Served'
  <2>1. Done' = Done BY <1>1, NumSame DEF Done
  <2>2. ASSUME NEW q \in Procs, proc'[q].pc = "iosleep" PROVE buf'[proc'[q].b].disk
    <3>1. CASE q = p BY <1>9, <1>10, <1>15, <1>18, <3>1
    <3>2. CASE q # p
      <4>1. proc'[q] = proc[q] BY <1>15, <3>2
      <4>2. q \in Busy BY <2>2, <4>1, PCSets DEF Busy
      <4> QED BY <1>20, <2>2, <4>1, <4>2 DEF IInv, Served
    <3> QED BY <3>1, <3>2
  <2>3. ASSUME NEW q \in Busy', q \notin Waiting' \/ proc'[q].head \in Done' PROVE Same(proc[q].b)'
    <3>1. q # p
      <4>1. i \notin Done /\ proc'[p].head = i BY <1>9, <1>15, <1>23, <1>27
      <4> QED BY <1>21, <2>1, <2>3, <4>1
    <3>2. q \in Busy BY <1>19, <3>1
    <3>3. q \notin Waiting \/ proc[q].head \in Done BY <1>20, <1>21, <2>1, <2>3, <3>2
    <3>4. Same(proc[q].b) BY <3>2, <3>3 DEF IInv, Served
    <3> QED BY <1>1, <1>20, <3>2, <3>4 DEF Same
  <2>4. ASSUME NEW d \in Done PROVE info'[d].status = 0
    <3>1. d \in Heads /\ d # i BY <1>23, <1>27
    <3>2. d \in Descs BY <3>1, HeadHas
    <3> QED BY <1>16, <3>1, <3>2 DEF IInv, Served
  <2> QED BY <2>1, <2>2, <2>3, <2>4 DEF Served
<1>33. \A q \in Procs : /\ proc'[q].b = proc[q].b /\ proc'[q].write = proc[q].write
                        /\ proc'[q].pc = "idle" <=> proc[q].pc = "idle"
                        /\ proc'[q].pc \in Holding <=> proc[q].pc \in Holding
                        /\ proc'[q].pc \in InRw <=> proc[q].pc \in InRw
                        /\ proc'[q].pc = "have" => proc[q].pc = "have"
  <2>1. /\ proc'[p].pc = "iosleep" /\ proc'[p].b = proc[p].b /\ proc'[p].write = proc[p].write
    BY <1>9, <1>15, <1>18
  <2>2. \A q \in Procs : q # p => proc'[q] = proc[q] BY <1>15
  <2> QED BY <1>1, <2>1, <2>2 DEF Holding, InRw
<1>34. \A n \in Bufs : /\ buf'[n].lock = buf[n].lock /\ buf'[n].refcnt = buf[n].refcnt
                       /\ buf'[n].blockno = buf[n].blockno /\ buf'[n].valid = buf[n].valid
                       /\ buf'[n].data = buf[n].data
  BY <1>10, <1>15
<1>35. Table' BY <1>33, <1>34, TableFrame DEF IInv
<1>36. Filled' BY <1>1, <1>33, <1>34, FilledFrame DEF IInv, Types, TableTypes
<1>37. Wakeups' /\ NoDiskPanic'
  <2>1. ~\E q \in Procs : proc[q].pc = "dsleep"
    <3>1. Cardinality(free) \in Nat BY <1>3, Counted
    <3>2. ~(Cardinality(free) < 3) BY <1>1, <3>1, SMT
    <3> QED BY <3>2 DEF IInv, Wakeups
  <2>2. proc'[p].pc # "dsleep" BY <1>9, <1>15
  <2>3. ~\E q \in Procs : proc'[q].pc = "dsleep" BY <1>15, <2>1, <2>2
  <2>4. CompletionSignalled' BY <1>1 DEF IInv, Wakeups, CompletionSignalled
  <2>5. NoDiskPanic' BY <1>1 DEF IInv, NoDiskPanic
  <2> QED BY <2>3, <2>4, <2>5 DEF Wakeups
<1> QED BY <1>26, <1>30, <1>31, <1>32, <1>35, <1>36, <1>37 DEF IInv

\* free_chain finds the chain of a request, and just that.
LEMMA ChainIs ==
  ASSUME FiniteFacts, DiskTypes, NEW p \in Procs, proc[p].head \in Descs, Formed(p)
  PROVE  /\ Chain(proc[p].head) = Trio(p) /\ Follow(Trio(p)) = Trio(p)
         /\ Cardinality(Trio(p)) = 3 /\ Trio(p) \subseteq Descs
<1> DEFINE h == proc[p].head
           s == Second(p)
           u == Third(p)
<1>1. /\ h # s /\ h # u /\ s # u
      /\ desc[h] = [addr |-> h, next |-> s, more |-> TRUE]
      /\ desc[s] = [addr |-> proc[p].b, next |-> u, more |-> TRUE]
      /\ desc[u] = [addr |-> h, next |-> 0, more |-> FALSE]
  BY DEF Formed
<1>2. desc[h].more = TRUE /\ desc[s].more = TRUE /\ desc[u].more = FALSE BY <1>1, SMT
<1>3. desc[h].next = s /\ desc[s].next = u BY <1>1, SMT
<1>4. desc \in [Descs -> DescRec] BY DEF DiskTypes
<1>5. h \in Descs /\ s \in Descs BY <1>3, <1>4 DEF DescRec
<1>6. u \in Descs BY <1>3, <1>4, <1>5 DEF DescRec
<1>7. Trio(p) = {h, s, u} BY DEF Trio
<1> HIDE DEF h, s, u
<1>8. Follow({h}) = {h, s} BY <1>2, <1>3 DEF Follow
<1>9. Follow({h, s}) = {h, s, u} BY <1>2, <1>3 DEF Follow
<1>10. Follow({h, s, u}) = {h, s, u} BY <1>2, <1>3 DEF Follow
<1>11. Cardinality({h, s, u}) = 3
  <2>1. IsFiniteSet({}) /\ Cardinality({}) = 0 BY DEF FiniteFacts, FinEmpty
  <2>2. IsFiniteSet({} \cup {h}) /\ Cardinality({} \cup {h}) = Cardinality({}) + 1 BY <2>1 DEF FiniteFacts, FinAdd
  <2>3. s \notin {} \cup {h} BY <1>1
  <2>4. /\ IsFiniteSet(({} \cup {h}) \cup {s})
        /\ Cardinality(({} \cup {h}) \cup {s}) = Cardinality({} \cup {h}) + 1
    BY <2>2, <2>3 DEF FiniteFacts, FinAdd
  <2>5. u \notin ({} \cup {h}) \cup {s} BY <1>1
  <2>6. Cardinality((({} \cup {h}) \cup {s}) \cup {u}) = Cardinality(({} \cup {h}) \cup {s}) + 1
    BY <2>4, <2>5 DEF FiniteFacts, FinAdd
  <2>7. (({} \cup {h}) \cup {s}) \cup {u} = {h, s, u} OBVIOUS
  <2>8. Cardinality({h, s, u}) = 0 + 1 + 1 + 1 BY <2>1, <2>2, <2>4, <2>6, <2>7
  <2> QED BY <2>8, SMT
<1>12. Chain(h) = {h, s, u} BY <1>8, <1>9 DEF Chain
<1> QED BY <1>5, <1>6, <1>7, <1>10, <1>11, <1>12 DEF h

LEMMA ReturnStep ==
  ASSUME FiniteFacts, IInv, NUM' = NUM, NEW p \in Procs, rw_resume(p), UNCHANGED <<lru, pins>>
  PROVE  IInv'
<1> DEFINE b == proc[p].b
           h == proc[p].head
<1>1. /\ proc[p].pc = "iowoken"
      /\ UNCHANGED <<avail, used, used_idx, device, blocks, vdisk_lock>>
  BY DEF rw_resume
<1>2. CASE buf[b].disk
  <2>1. proc' = [proc EXCEPT ![p].pc = "iosleep"] /\ UNCHANGED <<buf, free, desc, info, panic>>
    BY <1>2 DEF rw_resume
  <2>2. UNCHANGED <<vdisk, vdisk_lock, buf, panic, lru, pins>> BY <1>1, <2>1 DEF vdisk
  <2> QED BY <1>1, <1>2, <2>1, <2>2, ResumeAgain
<1>3. CASE ~buf[b].disk
  <2>1. /\ buf' = [buf EXCEPT ![b].valid = TRUE] /\ info' = [info EXCEPT ![h] = NoInfo]
        /\ free' = free \cup Chain(h)
        /\ desc' = [d \in Descs |-> IF d \in Chain(h) THEN NoDesc ELSE desc[d]]
        /\ panic' = IF Chain(h) \cap free # {} THEN "free_desc 2" ELSE panic
        /\ proc' = WakeDesc(p, [proc EXCEPT ![p].pc = "have", ![p].head = 0, ![p].write = FALSE])
    BY <1>3 DEF rw_resume, free_chain
  <2>2. DiskTypes BY DEF IInv, Types
  <2>3. proc \in [Procs -> ProcRec] /\ buf \in [Bufs -> BufRec] /\ blocks \in [Blocks -> Values]
    BY DEF IInv, Types, ProcTypes, BufTypes
  <2>4. proc[p].pc \in InIo /\ proc[p].pc \in InRw /\ proc[p].pc \in Holding /\ p \in Busy
    BY <1>1, PCSets DEF Busy
  <2>5. p \notin Waiting BY <1>3 DEF Waiting
  <2>6. /\ b \in Bufs /\ buf[b].blockno \in Blocks
        /\ \A q \in Procs : q # p /\ proc[q].pc \in Holding => proc[q].b # b
    BY <2>4, Holds DEF IInv, Types
  <2>7. h \in Descs BY <2>3 DEF ProcRec
  <2>8. Formed(p) /\ Trio(p) \cap free = {} BY <2>4 DEF IInv, Chains
  <2>9. Chain(h) = Trio(p) /\ Cardinality(Trio(p)) = 3 /\ Trio(p) \subseteq Descs
    BY <2>2, <2>7, <2>8, ChainIs
  <2>10. Same(b) BY <2>4, <2>5 DEF IInv, Served
  <2>11. 0 \in Descs
    <3>1. NUM \in Nat /\ NUM >= 3 BY <2>2 DEF DiskTypes
    <3> QED BY <3>1, SMT DEF Descs
  <2> DEFINE c == [buf[b] EXCEPT !.valid = TRUE]
             t == [[[proc[p] EXCEPT !.pc = "have"] EXCEPT !.head = 0] EXCEPT !.write = FALSE]
             ps == [proc EXCEPT ![p].pc = "have", ![p].head = 0, ![p].write = FALSE]
             w(q) == [ps[q] EXCEPT !.pc = "dwoken"]
  <2>12. buf' = [buf EXCEPT ![b] = c] /\ ps = [proc EXCEPT ![p] = t] BY <2>1, <2>3, <2>6
  <2>13. /\ t \in ProcRec /\ t.pc = "have" /\ t.b = b /\ t.head = 0 /\ t.write = FALSE
    BY <2>3, <2>11, PCSets DEF ProcRec
  <2>14. /\ c \in BufRec /\ c.data = buf[b].data /\ c.valid = TRUE /\ c.blockno = buf[b].blockno
         /\ c.lock = buf[b].lock /\ c.refcnt = buf[b].refcnt /\ c.disk = buf[b].disk
    BY <2>3, <2>6 DEF BufRec
  <2> HIDE DEF c, t, ps
  <2>15. /\ ps \in [Procs -> ProcRec] /\ \A q \in Procs : ps[q] = IF q = p THEN t ELSE proc[q]
         /\ buf' \in [Bufs -> BufRec] /\ \A n \in Bufs : buf'[n] = IF n = b THEN c ELSE buf[n]
    BY <2>3, <2>6, <2>12, <2>13, <2>14
  <2>16. ASSUME NEW q \in Procs
         PROVE  /\ w(q) \in ProcRec /\ w(q).pc = "dwoken" /\ w(q).b = ps[q].b
                /\ w(q).write = ps[q].write /\ w(q).head = ps[q].head
    <3>1. ps[q] \in ProcRec /\ "dwoken" \in PCs BY <2>15, PCSets
    <3> QED BY <3>1, SetPc
  <2> HIDE DEF b, h
  <2>17. proc' = [q \in Procs |-> IF q # p /\ ps[q].pc = "dsleep" THEN w(q) ELSE ps[q]]
    BY <2>1 DEF WakeDesc, ps
  <2> HIDE DEF w
  <2>18. /\ proc' \in [Procs -> ProcRec] /\ proc'[p] = t
         /\ \A q \in Procs : q # p => /\ proc[q].pc # "dsleep" => proc'[q] = proc[q]
                                      /\ proc[q].pc = "dsleep" => proc'[q].pc = "dwoken"
                                      /\ proc'[q].b = proc[q].b /\ proc'[q].write = proc[q].write
                                      /\ proc'[q].head = proc[q].head
    <3>1. \A q \in Procs : proc'[q] = IF q # p /\ ps[q].pc = "dsleep" THEN w(q) ELSE ps[q] BY <2>17
    <3>2. \A q \in Procs : proc'[q] \in ProcRec BY <2>15, <2>16, <3>1
    <3>3. proc' \in [Procs -> ProcRec] BY <2>17, <3>2
    <3>4. proc'[p] = t BY <2>15, <3>1
    <3>5. ASSUME NEW q \in Procs, q # p
          PROVE  /\ proc[q].pc # "dsleep" => proc'[q] = proc[q]
                 /\ proc[q].pc = "dsleep" => proc'[q].pc = "dwoken"
                 /\ proc'[q].b = proc[q].b /\ proc'[q].write = proc[q].write
                 /\ proc'[q].head = proc[q].head
      <4>1. ps[q] = proc[q] BY <2>15, <3>5
      <4>2. CASE proc[q].pc = "dsleep"
        <5>1. proc'[q] = w(q) BY <3>1, <3>5, <4>1, <4>2
        <5> QED BY <2>16, <4>1, <4>2, <5>1
      <4>3. CASE proc[q].pc # "dsleep"
        <5>1. proc'[q] = proc[q] BY <3>1, <4>1, <4>3
        <5> QED BY <4>3, <5>1
      <4> QED BY <4>2, <4>3
    <3> QED BY <3>3, <3>4, <3>5
  <2>19. b = proc[p].b /\ b \in Bufs /\ h = proc[p].head /\ h \in Descs BY <2>6, <2>7 DEF b, h
  <2>20. \A q \in Procs : /\ proc'[q].b = proc[q].b
                          /\ proc'[q].pc = "idle" <=> proc[q].pc = "idle"
                          /\ proc'[q].pc \in Holding <=> proc[q].pc \in Holding
                          /\ proc'[q].pc \in InRw <=> q # p /\ proc[q].pc \in InRw
                          /\ proc'[q].pc \in InIo <=> q # p /\ proc[q].pc \in InIo
                          /\ proc'[q].pc = "have" => q = p \/ proc[q].pc = "have"
                          /\ proc'[q].pc # "dsleep"
                          /\ q # p => proc'[q].write = proc[q].write /\ proc'[q].head = proc[q].head
                          /\ q # p /\ proc[q].pc \in InIo => proc'[q] = proc[q]
    <3>1. ASSUME NEW q \in Procs, q # p
          PROVE  \/ proc'[q] = proc[q] /\ proc[q].pc # "dsleep"
                 \/ proc[q].pc = "dsleep" /\ proc'[q].pc = "dwoken"
      BY <2>18, <3>1
    <3>2. proc'[p].pc = "have" /\ proc'[p].b = proc[p].b BY <2>13, <2>18, <2>19
    <3> QED BY <1>1, <2>18, <3>1, <3>2 DEF Holding, InRw, InIo
  <2>21. \A n \in Bufs : /\ buf'[n].lock = buf[n].lock /\ buf'[n].refcnt = buf[n].refcnt
                         /\ buf'[n].blockno = buf[n].blockno /\ buf'[n].data = buf[n].data
                         /\ buf'[n].disk = buf[n].disk
                         /\ n # b => buf'[n].valid = buf[n].valid
                         /\ n = b => buf'[n].valid = TRUE
    BY <2>14, <2>15
  <2>22. Table' BY <2>20, <2>21, TableFrame DEF IInv
  <2>23. Busy' = Busy \ {p} BY <2>20 DEF Busy
  <2>24. \A q \in Busy : q \in Procs /\ proc[q].b \in Bufs /\ proc[q].head \in Descs /\ proc[q].pc \in InIo
    BY <2>3, PCSets, Holds DEF IInv, Types, Busy, ProcRec
  <2>25. Waiting' = Waiting
    <3>1. ASSUME NEW q \in Busy, q # p PROVE buf'[proc'[q].b].disk <=> buf[proc[q].b].disk
      <4>1. q \in Procs /\ proc[q].b \in Bufs BY <2>24
      <4>2. proc'[q].b = proc[q].b BY <2>20, <4>1
      <4> QED BY <2>21, <4>1, <4>2
    <3> QED BY <2>5, <2>23, <3>1 DEF Waiting
  <2>26. \A q \in Waiting : q \in Busy /\ q # p /\ proc'[q] = proc[q] BY <2>5, <2>20, <2>24 DEF Waiting
  <2>27. Heads' = Heads BY <2>25, <2>26 DEF Heads
  <2>28. Filled'
    <3>1. ASSUME NEW q \in Procs
          PROVE  /\ proc'[q].pc = "have" => buf'[proc'[q].b].valid
                 /\ proc'[q].pc \in InRw => (buf'[proc'[q].b].valid <=> proc'[q].write)
      <4>1. CASE q = p BY <2>19, <2>20, <2>21, <4>1
      <4>2. CASE q # p
        <5>1. ASSUME proc[q].pc \in Holding PROVE proc[q].b \in Bufs /\ proc[q].b # b
          BY <2>6, <2>19, <4>2, <5>1, Holds DEF IInv, Types
        <5>2. ASSUME proc'[q].pc = "have" PROVE buf'[proc'[q].b].valid
          <6>1. proc[q].pc = "have" /\ proc[q].pc \in Holding BY <2>20, <4>2, <5>2, PCSets
          <6> QED BY <2>20, <2>21, <5>1, <6>1 DEF IInv, Filled
        <5>3. ASSUME proc'[q].pc \in InRw PROVE buf'[proc'[q].b].valid <=> proc'[q].write
          <6>1. proc[q].pc \in InRw /\ proc[q].pc \in Holding BY <2>20, <4>2, <5>3, PCSets
          <6>2. buf[proc[q].b].valid <=> proc[q].write BY <6>1 DEF IInv, Filled
          <6>3. buf'[proc[q].b].valid = buf[proc[q].b].valid BY <2>21, <5>1, <6>1
          <6> QED BY <2>20, <4>2, <6>2, <6>3
        <5> QED BY <5>2, <5>3
      <4> QED BY <4>1, <4>2
    <3>2. \A n \in pins' : buf'[n].valid BY <2>21 DEF IInv, Filled, Types, TableTypes
    <3>3. ASSUME NEW n \in Bufs, buf'[n].valid
          PROVE  /\ buf'[n].blockno \in Blocks /\ buf'[n].data \in Values
                 /\ Same(n)' \/ n \in pins' \/ Written(n)'
      <4>1. Same(n)' <=> Same(n) BY <1>1, <2>21 DEF Same
      <4>2. CASE n = b
        <5>1. buf[b].data \in Values BY <2>3, <2>6, <2>10, <2>19 DEF Same, b
        <5> QED BY <2>6, <2>10, <2>19, <2>21, <4>1, <4>2, <5>1
      <4>3. CASE n # b
        <5>1. buf[n].valid BY <2>21, <3>3, <4>3
        <5>2. /\ buf[n].blockno \in Blocks /\ buf[n].data \in Values
              /\ Same(n) \/ n \in pins \/ Written(n)
          BY <5>1 DEF IInv, Filled
        <5>3. ASSUME Written(n) PROVE Written(n)'
          <6>1. PICK q \in Procs : proc[q].b = n /\ proc[q].pc \in InRw /\ proc[q].write BY <5>3 DEF Written
          <6>2. q # p BY <2>19, <4>3, <6>1
          <6> QED BY <2>20, <6>1, <6>2 DEF Written
        <5> QED BY <2>21, <4>1, <5>2, <5>3
      <4> QED BY <4>2, <4>3
    <3> QED BY <3>1, <3>2, <3>3 DEF Filled
  <2>29. /\ desc' \in [Descs -> DescRec] /\ \A d \in Descs : d \notin Trio(p) => desc'[d] = desc[d]
    <3>1. NoDesc \in DescRec BY <2>11, SMT DEF NoDesc, DescRec
    <3>2. desc \in [Descs -> DescRec] BY <2>2 DEF DiskTypes
    <3> QED BY <2>1, <2>9, <3>1, <3>2
  <2>30. info' \in [Descs -> InfoRec] /\ \A d \in Descs : d # h => info'[d] = info[d]
    <3>1. NoInfo \in InfoRec BY SMT DEF NoInfo, InfoRec
    <3>2. info \in [Descs -> InfoRec] BY <2>2 DEF DiskTypes
    <3> HIDE DEF NoInfo
    <3> QED BY <2>1, <2>19, <3>1, <3>2
  <2>31. ASSUME NEW q \in Busy, q # p
         PROVE  Trio(q)' = Trio(q) /\ Formed(q)' /\ Trio(q) \cap Trio(p) = {}
    <3>1. Formed(q) /\ Trio(q) \cap Trio(p) = {} BY <2>4, <2>31 DEF IInv, Chains
    <3>2. proc[q].head \in Descs /\ proc'[q] = proc[q] BY <2>20, <2>24, <2>31
    <3>3. desc \in [Descs -> DescRec] BY <2>2 DEF DiskTypes
    <3>4. Second(q) \in Descs BY <3>2, <3>3 DEF Second, DescRec
    <3>5. Third(q) \in Descs BY <3>3, <3>4 DEF Third, DescRec
    <3>6. /\ proc[q].head \notin Trio(p) /\ Second(q) \notin Trio(p) /\ Third(q) \notin Trio(p)
      <4>1. proc[q].head \in Trio(q) /\ Second(q) \in Trio(q) /\ Third(q) \in Trio(q) BY DEF Trio
      <4> QED BY <3>1, <4>1
    <3>7. /\ desc'[proc[q].head] = desc[proc[q].head] /\ desc'[Second(q)] = desc[Second(q)]
          /\ desc'[Third(q)] = desc[Third(q)]
      BY <2>29, <3>2, <3>4, <3>5, <3>6
    <3>8. Second(q)' = Second(q) BY <3>2, <3>7 DEF Second
    <3>9. Third(q)' = Third(q)
      <4>1. Third(q)' = desc'[Second(q)'].next BY DEF Third
      <4> QED BY <3>7, <3>8, <4>1 DEF Third
    <3>10. Trio(q)' = Trio(q)
      <4>1. Trio(q)' = {proc'[q].head, Second(q)', Third(q)'} BY DEF Trio
      <4> QED BY <3>2, <3>8, <3>9, <4>1 DEF Trio
    <3>11. h \in Trio(p) BY <2>19 DEF Trio
    <3>12. info'[proc[q].head] = info[proc[q].head] BY <2>30, <3>2, <3>6, <3>11
    <3>13. buf'[proc[q].b].blockno = buf[proc[q].b].blockno BY <2>21, <2>24
    <3>14. Formed(q)' <=> /\ desc'[proc'[q].head] = [addr |-> proc'[q].head, next |-> Second(q)', more |-> TRUE]
                          /\ desc'[Second(q)'] = [addr |-> proc'[q].b, next |-> Third(q)', more |-> TRUE]
                          /\ desc'[Third(q)'] = [addr |-> proc'[q].head, next |-> 0, more |-> FALSE]
                          /\ proc'[q].head # Second(q)' /\ proc'[q].head # Third(q)' /\ Second(q)' # Third(q)'
                          /\ info'[proc'[q].head].b = proc'[q].b
                          /\ info'[proc'[q].head].sector = buf'[proc'[q].b].blockno
                          /\ info'[proc'[q].head].type = IF proc'[q].write THEN "out" ELSE "in"
      BY DEF Formed
    <3>15. Formed(q)' BY <3>1, <3>2, <3>7, <3>8, <3>9, <3>12, <3>13, <3>14 DEF Formed
    <3> QED BY <3>1, <3>10, <3>15
  <2>32. Chains'
    <3>1. ASSUME NEW q \in Busy' PROVE Formed(q)' /\ Trio(q)' \cap free' = {}
      <4>1. q \in Busy /\ q # p BY <2>23
      <4>2. Trio(q) \cap free = {} BY <4>1 DEF IInv, Chains
      <4>3. Trio(q)' = Trio(q) /\ Formed(q)' /\ Trio(q) \cap Trio(p) = {} BY <2>31, <4>1
      <4> QED BY <2>1, <2>9, <4>2, <4>3
    <3>2. ASSUME NEW q \in Busy', NEW r \in Busy', q # r PROVE Trio(q)' \cap Trio(r)' = {}
      <4>1. q \in Busy /\ q # p /\ r \in Busy /\ r # p BY <2>23
      <4>2. Trio(q) \cap Trio(r) = {} BY <3>2, <4>1 DEF IInv, Chains
      <4>3. Trio(q)' = Trio(q) /\ Trio(r)' = Trio(r) BY <2>31, <4>1
      <4> QED BY <4>2, <4>3
    <3>3. Cardinality(free') + 3 * Cardinality(Busy') = NUM'
      <4>1. /\ IsFiniteSet(Busy) /\ Cardinality(Busy) \in Nat /\ IsFiniteSet(free) /\ Cardinality(free) \in Nat
            /\ IsFiniteSet(Descs)
        BY <2>2, Counted
      <4>2. Cardinality(Busy \ {p}) = Cardinality(Busy) - 1 BY <2>4, <4>1 DEF FiniteFacts, FinRemove
      <4>3. IsFiniteSet(Trio(p)) BY <2>9, <4>1 DEF FiniteFacts, FinSubset
      <4>4. Cardinality(free \cup Trio(p)) = Cardinality(free) + Cardinality(Trio(p)) - Cardinality(free \cap Trio(p))
        BY <4>1, <4>3 DEF FiniteFacts, FinUnion
      <4>5. free \cap Trio(p) = {} /\ Cardinality({}) = 0 BY <2>8 DEF FiniteFacts, FinEmpty
      <4>6. Cardinality(free') = Cardinality(free) + 3 - 0 BY <2>1, <2>9, <4>4, <4>5
      <4>7. Cardinality(free) + 3 * Cardinality(Busy) = NUM BY DEF IInv, Chains
      <4>8. Cardinality(Busy') = Cardinality(Busy) - 1 BY <2>23, <4>2
      <4> QED BY <4>1, <4>6, <4>7, <4>8, SMT
    <3> QED BY <3>1, <3>2, <3>3 DEF Chains
  <2>33. Types'
    <3>1. free' \subseteq Descs BY <2>1, <2>2, <2>9 DEF DiskTypes
    <3>2. DiskTypes' BY <1>1, <2>2, <2>29, <2>30, <3>1, NumSame DEF DiskTypes
    <3>3. ProcTypes' BY <2>18, NumSame DEF ProcTypes
    <3>4. BufTypes' BY <1>1, <2>3, <2>15 DEF BufTypes, BufRec
    <3>5. TableTypes' BY DEF IInv, Types, TableTypes
    <3> QED BY <3>2, <3>3, <3>4, <3>5 DEF Types
  <2>34. Asked' = Asked /\ Done' = Done BY <1>1, NumSame DEF Asked, Done
  <2>35. Queues'
    <3>1. Once(avail.ring, device.seen, avail.idx)' BY <1>1, NumSame DEF IInv, Queues
    <3>2. Once(used.ring, used_idx, used.idx)' BY <1>1, NumSame DEF IInv, Queues
    <3> QED BY <1>1, <2>27, <2>34, <3>1, <3>2 DEF IInv, Queues
  <2>36. Served'
    <3>1. ASSUME NEW q \in Procs, proc'[q].pc = "iosleep" PROVE buf'[proc'[q].b].disk
      <4>1. proc'[q].pc \in InIo BY <3>1, PCSets
      <4>2. q # p /\ proc'[q] = proc[q] /\ q \in Busy BY <2>20, <4>1 DEF Busy
      <4> QED BY <2>21, <2>24, <3>1, <4>2 DEF IInv, Served
    <3>2. ASSUME NEW q \in Busy', q \notin Waiting' \/ proc'[q].head \in Done' PROVE Same(proc[q].b)'
      <4>1. q \in Busy /\ q # p BY <2>23
      <4>2. proc'[q] = proc[q] /\ proc[q].b \in Bufs BY <2>20, <2>24, <4>1
      <4>3. Same(proc[q].b) BY <2>25, <2>34, <3>2, <4>1, <4>2 DEF IInv, Served
      <4> QED BY <1>1, <2>21, <4>2, <4>3 DEF Same
    <3>3. ASSUME NEW d \in Done PROVE info'[d].status = 0
      <4>1. d \in Heads BY DEF IInv, Queues
      <4>2. PICK q \in Waiting : proc[q].head = d BY <4>1 DEF Heads
      <4>3. d \in Descs /\ d # h BY <2>4, <2>19, <2>24, <2>26, <4>2, HeadOf
      <4> QED BY <2>30, <4>3 DEF IInv, Served
    <3> QED BY <2>34, <3>1, <3>2, <3>3 DEF Served
  <2>37. Wakeups' /\ NoDiskPanic'
    <3>1. ~\E q \in Procs : proc'[q].pc = "dsleep" BY <2>20
    <3>2. CompletionSignalled' BY <1>1 DEF IInv, Wakeups, CompletionSignalled
    <3>3. Chain(h) \cap free = {} BY <2>8, <2>9
    <3>4. NoDiskPanic' BY <2>1, <3>3 DEF IInv, NoDiskPanic
    <3> QED BY <3>1, <3>2, <3>4 DEF Wakeups
  <2> QED BY <2>22, <2>28, <2>32, <2>33, <2>35, <2>36, <2>37 DEF IInv
<1> QED BY <1>2, <1>3

-----------------------------------------------------------------------------
(* All steps, the initial states, and what the invariant says.             *)

LEMMA Unmoved == ASSUME IInv, UNCHANGED vars PROVE IInv'
<1>1. /\ NUM' = NUM /\ UNCHANGED <<vdisk, vdisk_lock, buf, panic, lru, pins>> /\ proc' = proc
  BY DEF vars, diskVars
<1>2. proc \in [Procs -> ProcRec] BY DEF IInv, Types, ProcTypes
<1>3. \A q \in Procs : proc[q].pc = "iosleep" => buf[proc[q].b].disk BY DEF IInv, Served
<1>4. \A q \in Procs : proc[q].pc = "dsleep" => Cardinality(free) < 3 BY DEF IInv, Wakeups
<1> QED BY <1>1, <1>2, <1>3, <1>4, QuietStep

LEMMA Inductive == ASSUME FiniteFacts, IInv, [Next]_vars PROVE IInv'
<1>1. CASE UNCHANGED vars BY <1>1, Unmoved
<1>2. CASE Next
  <2>1. NUM' = NUM BY <1>2 DEF Next
  <2>2. ASSUME NEW p \in Procs, Step(p) PROVE IInv'
    <3>1. CASE \E b \in Blocks : bget(p, b) BY <2>1, <3>1, BgetStep
    <3>2. CASE bread(p) BY <2>1, <3>2, BreadStep
    <3>3. CASE brelse(p) BY <2>1, <3>3, BrelseStep
    <3>4. CASE brelse_put(p) BY <2>1, <3>4, BrelsePutStep
    <3>5. CASE bunpin(p) BY <2>1, <3>5, BunpinStep
    <3>6. CASE \E v \in Values : bwrite(p, v) BY <2>1, <3>6, BwriteStep
    <3>7. CASE \E v \in Values : bpin(p, v) BY <2>1, <3>7, BpinStep
    <3>8. CASE RwStep(p) /\ UNCHANGED <<lru, pins>>
      <4>1. CASE rw_nodesc(p) BY <2>1, <3>8, <4>1, NodescStep
      <4>2. CASE virtio_disk_rw(p) BY <2>1, <3>8, <4>2, PublishStep
      <4>3. CASE rw_resume(p) BY <2>1, <3>8, <4>3, ReturnStep
      <4>4. CASE kill(p) BY <2>1, <3>8, <4>4, KillStep
      <4> QED BY <3>8, <4>1, <4>2, <4>3, <4>4 DEF RwStep
    <3> QED BY <2>2, <3>1, <3>2, <3>3, <3>4, <3>5, <3>6, <3>7, <3>8 DEF Step
  <2>3. ASSUME DeviceStep, UNCHANGED <<lru, pins>> PROVE IInv'
    <3>1. CASE dev_take BY <2>1, <2>3, <3>1, TakeStep
    <3>2. CASE \E i \in Descs : dev_serve(i) BY <2>1, <2>3, <3>2, ServeStep
    <3> QED BY <2>3, <3>1, <3>2 DEF DeviceStep
  <2>4. ASSUME IntrStep, UNCHANGED <<lru, pins>> PROVE IInv'
    <3>1. CASE intr_entry BY <2>1, <2>4, <3>1, EntryStep
    <3>2. CASE virtio_disk_intr \/ intr_exit BY <2>1, <2>4, <3>2, IntrStepInv
    <3> QED BY <2>4, <3>1, <3>2 DEF IntrStep
  <2> QED BY <1>2, <2>2, <2>3, <2>4 DEF Next
<1> QED BY <1>1, <1>2

LEMMA Initially == ASSUME FiniteFacts, Init PROVE IInv
<1>1. /\ NUM \in Nums /\ free = Descs /\ desc = [i \in Descs |-> NoDesc] /\ info = [i \in Descs |-> NoInfo]
      /\ avail = [ring |-> [i \in Descs |-> 0], idx |-> 0] /\ used = [ring |-> [i \in Descs |-> 0], idx |-> 0]
      /\ used_idx = 0 /\ device = [seen |-> 0, taken |-> {}, irq |-> FALSE] /\ vdisk_lock = NoProc
      /\ panic = "none" /\ proc = IdlePs /\ blocks \in [Blocks -> Values]
      /\ lru = [n \in 1..NBUF |-> NBUF - n] /\ pins = {}
  BY DEF Init, DiskInit
<1>2. NUM \in Nat /\ NUM >= 3 /\ NUM \in Nat \ {0} BY <1>1, DiskAssumption, SMT
<1>3. 0 \in Descs /\ 0 \in Idx
  <2>1. Turns \in Nat \ {0} BY DiskAssumption
  <2>2. Turns * NUM \in Nat /\ Turns * NUM # 0 BY <1>2, <2>1, SMT
  <2> QED BY <1>2, <2>2, SMT DEF Descs, Idx, IdxMod
<1>4. ASSUME NEW p \in Procs
      PROVE  /\ proc[p] \in ProcRec /\ proc[p].pc = "idle" /\ proc[p].b \notin Bufs
             /\ \A i \in Bufs : proc[p].b # i
  <2>1. proc[p] = [pc |-> "idle", blk |-> NoBlock, b |-> NoBuf, write |-> FALSE, head |-> 0]
    BY <1>1 DEF IdlePs
  <2>2. "idle" \in PCs BY PCSets
  <2>3. NoBuf \notin Bufs BY DiskAssumption, SMT DEF NoBuf, Bufs
  <2>4. proc[p].pc = "idle" /\ proc[p].b = NoBuf BY <2>1, SMT
  <2>5. proc[p] \in ProcRec BY <1>3, <2>1, <2>2, SMT DEF ProcRec
  <2> QED BY <2>3, <2>4, <2>5
<1>5. ASSUME NEW i \in Bufs
      PROVE  /\ buf[i] \in BufRec /\ buf[i].blockno = NoBlock /\ buf[i].valid = FALSE
             /\ buf[i].refcnt = 0 /\ buf[i].lock = NoProc
  <2>1. buf[i] = [blockno |-> NoBlock, valid |-> FALSE, refcnt |-> 0, lock |-> NoProc, disk |-> FALSE, data |-> NoBlock]
    BY DEF Init, DiskInit
  <2> QED BY <2>1, SMT DEF BufRec
<1>6. Types
  <2>1. ProcTypes
    <3>1. proc = [p \in Procs |-> proc[p]] BY <1>1 DEF IdlePs
    <3> QED BY <1>4, <3>1 DEF ProcTypes
  <2>2. BufTypes
    <3>1. buf = [i \in Bufs |-> buf[i]] BY DEF Init, DiskInit
    <3>2. buf \in [Bufs -> BufRec] BY <1>5, <3>1
    <3> QED BY <1>1, <3>2 DEF BufTypes
  <2>3. DiskTypes
    <3>1. NoDesc \in DescRec BY <1>3, SMT DEF NoDesc, DescRec
    <3>2. NoInfo \in InfoRec BY SMT DEF NoInfo, InfoRec
    <3>3. [i \in Descs |-> 0] \in [Descs -> Descs] BY <1>3
    <3>4. avail \in Ring /\ used \in Ring BY <1>1, <1>3, <3>3, SMT DEF Ring
    <3>5. device \in [seen : Idx, taken : SUBSET Descs, irq : BOOLEAN] BY <1>1, <1>3, SMT
    <3> HIDE DEF NoDesc, NoInfo
    <3>6. desc \in [Descs -> DescRec] /\ info \in [Descs -> InfoRec] BY <1>1, <3>1, <3>2
    <3> QED BY <1>1, <1>2, <1>3, <3>4, <3>5, <3>6 DEF DiskTypes
  <2>4. TableTypes
    <3>1. NBUF \in Nat \ {0} BY DiskAssumption
    <3>2. \A n \in 1..NBUF : NBUF - n \in Bufs BY <3>1, SMT DEF Bufs
    <3>3. lru \in [1..NBUF -> Bufs] BY <1>1, <3>2
    <3>4. ASSUME NEW i \in Bufs PROVE \E n \in 1..NBUF : lru[n] = i
      <4>1. NBUF - i \in 1..NBUF /\ NBUF - (NBUF - i) = i BY <3>1, SMT DEF Bufs
      <4>2. lru[NBUF - i] = NBUF - (NBUF - i) BY <1>1, <4>1
      <4> QED BY <4>1, <4>2
    <3> QED BY <1>1, <3>3, <3>4 DEF TableTypes
  <2> QED BY <2>1, <2>2, <2>3, <2>4 DEF Types
<1>7. Busy = {} BY <1>4 DEF Busy, InIo
<1>8. Waiting = {} /\ Heads = {} BY <1>7 DEF Waiting, Heads
<1>9. "idle" \notin Holding /\ "idle" \notin InRw /\ "idle" # "have" /\ "idle" # "iosleep" /\ "idle" # "dsleep"
  BY DEF Holding, InRw
<1>10. Table
  <2>1. Placed BY <1>4 DEF Placed
  <2>2. Locked
    <3>1. \A p \in Procs : p # NoProc BY DiskAssumption
    <3> QED BY <1>4, <1>5, <3>1 DEF Locked
  <2>3. Single BY <1>5 DEF Single
  <2>4. RefcntExact
    <3>1. ASSUME NEW i \in Bufs PROVE buf[i].refcnt = Cardinality({p \in Procs : proc[p].b = i}) + 0
      <4>1. {p \in Procs : proc[p].b = i} = {} BY <1>4
      <4>2. Cardinality({p \in Procs : proc[p].b = i}) = 0 BY <4>1 DEF FiniteFacts, FinEmpty
      <4>3. buf[i].refcnt = 0 BY <1>5
      <4> QED BY <4>2, <4>3, SMT
    <3> QED BY <1>1, <3>1 DEF RefcntExact
  <2> QED BY <2>1, <2>2, <2>3, <2>4 DEF Table
<1>11. Filled BY <1>1, <1>4, <1>5, <1>9 DEF Filled
<1>12. Chains
  <2>1. Cardinality(Descs) = NUM
    <3>1. Cardinality(0..(NUM - 1)) = IF 0 > NUM - 1 THEN 0 ELSE (NUM - 1) - 0 + 1
      <4>1. 0 \in Int /\ NUM - 1 \in Int BY <1>2, SMT
      <4> QED BY <4>1 DEF FiniteFacts, FinInterval
    <3> QED BY <1>2, <3>1, SMT DEF Descs
  <2>2. Cardinality(Busy) = 0 BY <1>7 DEF FiniteFacts, FinEmpty
  <2>3. Cardinality(free) + 3 * Cardinality(Busy) = NUM BY <1>1, <1>2, <2>1, <2>2, SMT
  <2> QED BY <1>7, <2>3 DEF Chains
<1>13. Asked = {} /\ Done = {} /\ Once(avail.ring, device.seen, avail.idx) /\ Once(used.ring, used_idx, used.idx)
  <2>1. DiskTypes BY <1>6 DEF Types
  <2>2. Dist(0, 0) = 0 BY <1>3, <2>1, SlotEnd
  <2>3. 0..(0 - 1) = {} BY SMT
  <2>4. avail.idx = 0 /\ used.idx = 0 /\ device.seen = 0 /\ used_idx = 0 BY <1>1, SMT
  <2> QED BY <2>2, <2>3, <2>4 DEF Asked, Done, Window, Once
<1>14. Queues
  <2>1. device.taken = {} BY <1>1, SMT
  <2> QED BY <1>8, <1>13, <2>1 DEF Queues
<1>15. Served BY <1>4, <1>7, <1>9, <1>13 DEF Served
<1>16. Wakeups
  <2>1. used.idx = 0 BY <1>1, SMT
  <2> QED BY <1>1, <1>4, <1>9, <2>1 DEF Wakeups, CompletionSignalled
<1>17. NoDiskPanic BY <1>1 DEF NoDiskPanic
<1> QED BY <1>6, <1>10, <1>11, <1>12, <1>14, <1>15, <1>16, <1>17 DEF IInv

LEMMA InitMaps == ASSUME FiniteFacts, Init PROVE BS!Init
<1>1. /\ \A i \in Bufs : buf[i].valid = FALSE
      /\ blocks \in [Blocks -> Values]
  BY DEF Init, DiskInit
<1>2. Single BY Initially DEF IInv, Table
<1>3. \A b \in Blocks : Content[b] = blocks[b] /\ Owner[b] = NoProc BY <1>1, <1>2, View
<1>4. Content \in [Blocks -> Values] BY <1>1, <1>3, ViewFunctions
<1>5. Owner = [b \in Blocks |-> NoProc] BY <1>3, ViewFunctions
<1> QED BY <1>4, <1>5 DEF BS!Init

LEMMA BuffersAre == ASSUME FiniteFacts, IInv PROVE BuffersExact
<1>1. buf \in [Bufs -> BufRec] /\ blocks \in [Blocks -> Values] BY DEF IInv, Types, BufTypes
<1>2. \A i \in Bufs : buf[i].refcnt \in Nat /\ buf[i].blockno \in Blocks \cup {NoBlock} BY <1>1 DEF BufRec
<1>3. lru \in [1..NBUF -> Bufs] /\ \A i \in Bufs : \E n \in 1..NBUF : lru[n] = i
  BY DEF IInv, Types, TableTypes
<1>4. {lru[n] : n \in 1..NBUF} = Bufs BY <1>3
<1>5. Len(lru) = NBUF BY <1>3, DiskAssumption, SMT
<1>6. DiskTypes /\ pins \subseteq Bufs BY DEF IInv, Types, TableTypes
<1>7. avail.idx \in Idx /\ used_idx \in Idx /\ free \subseteq Descs BY <1>6 DEF DiskTypes, Ring
<1>8. TypeOK BY <1>1, <1>2, <1>4, <1>5, <1>6, <1>7 DEF TypeOK, Idx
<1> QED BY <1>8 DEF BuffersExact, IInv, Table

LEMMA SleepersAre == ASSUME FiniteFacts, IInv PROVE DiskSleepers
<1>1. Cardinality(free) \in Nat BY Counted DEF IInv, Types
<1>2. (\E p \in Procs : proc[p].pc = "dsleep") => ~(Cardinality(free) >= 3)
  <2>1. Cardinality(free) < 3 => ~(Cardinality(free) >= 3) BY <1>1, SMT
  <2> QED BY <2>1 DEF IInv, Wakeups
<1> QED BY <1>2 DEF DiskSleepers, DescWaitersWoken, IInv, Wakeups

LEMMA RequestsAre == ASSUME FiniteFacts, IInv PROVE RequestsExact
<1>1. Busy = {p \in Procs : proc[p].pc \in {"iosleep", "iowoken"}} BY DEF Busy, InIo
<1>2. ASSUME NEW p \in Busy
      PROVE  /\ Chain(proc[p].head) = Trio(p) /\ Follow(Trio(p)) = Trio(p)
             /\ Cardinality(Trio(p)) = 3 /\ Trio(p) \cap free = {}
  <2>1. p \in Procs /\ proc[p].head \in Descs BY DEF Busy, IInv, Types, ProcTypes, ProcRec
  <2>2. Formed(p) /\ Trio(p) \cap free = {} BY DEF IInv, Chains
  <2> QED BY <2>1, <2>2, ChainIs DEF IInv, Types
<1>3. DescsPartition
  <2>1. \A p, q \in Busy : p # q => Chain(proc[p].head) \cap Chain(proc[q].head) = {}
    BY <1>2 DEF IInv, Chains
  <2>2. \A p \in Busy : LET C == Chain(proc[p].head) IN Cardinality(C) = 3 /\ Follow(C) = C /\ C \cap free = {}
    BY <1>2
  <2>3. Cardinality(free) + 3 * Cardinality(Busy) = NUM BY DEF IInv, Chains
  <2> QED BY <1>1, <2>1, <2>2, <2>3 DEF DescsPartition
<1>4. RequestTracked
  <2>1. ASSUME NEW p \in Procs, proc[p].pc = "iosleep"
        PROVE  /\ buf[proc[p].b].disk /\ info[proc[p].head].b = proc[p].b
               /\ proc[p].head \in Asked \cup device.taken \cup Done
    <3>1. p \in Busy /\ buf[proc[p].b].disk BY <2>1, PCSets DEF Busy, IInv, Served
    <3>2. p \in Waiting BY <3>1 DEF Waiting
    <3>3. proc[p].head \in Heads BY <3>2 DEF Heads
    <3>4. Formed(p) BY <3>1 DEF IInv, Chains
    <3> QED BY <3>1, <3>3, <3>4 DEF IInv, Queues, Formed
  <2> QED BY <2>1 DEF RequestTracked, Asked, Done
<1> QED BY <1>3, <1>4 DEF RequestsExact

-----------------------------------------------------------------------------
(* The theorems.                                                           *)

INSTANCE FiniteSetTheorems

LEMMA FiniteFactsHold == FiniteFacts
<1>1. FinType BY FS_CardinalityType DEF FinType
<1>2. FinEmpty BY FS_EmptySet DEF FinEmpty
<1>3. FinSubset BY FS_Subset DEF FinSubset
<1>4. FinAdd BY FS_AddElement DEF FinAdd
<1>5. FinRemove BY FS_RemoveElement DEF FinRemove
<1>6. FinUnion BY FS_Union DEF FinUnion
<1>7. FinInterval BY FS_Interval DEF FinInterval
<1>8. FinInjects
  <2> SUFFICES ASSUME NEW S, NEW T, NEW f \in [S -> T], IsFiniteSet(T),
                      \A x, y \in S : f[x] = f[y] => x = y
               PROVE  Cardinality(S) <= Cardinality(T)
    BY DEF FinInjects
  <2>1. f \in Injection(S, T) BY DEF Injection, IsInjective
  <2> QED BY <2>1, FS_Injection
<1>9. FinOnto
  <2> SUFFICES ASSUME NEW S, NEW T, NEW f \in [S -> T], IsFiniteSet(S),
                      \A y \in T : \E x \in S : f[x] = y
               PROVE  IsFiniteSet(T) /\ Cardinality(T) <= Cardinality(S)
    BY DEF FinOnto
  <2>1. f \in Surjection(S, T) BY DEF Surjection
  <2> QED BY <2>1, FS_Surjection
<1> QED BY <1>1, <1>2, <1>3, <1>4, <1>5, <1>6, <1>7, <1>8, <1>9 DEF FiniteFacts

LEMMA Invariant == Spec => []IInv
<1>1. Init => IInv BY FiniteFactsHold, Initially
<1>2. IInv /\ [Next]_vars => IInv' BY FiniteFactsHold, Inductive
<1> QED BY <1>1, <1>2, PTL DEF Spec

\* bio.c's table of buffers: counts exact, the list a permutation, no panic.
THEOREM BuffersSound == Spec => []BuffersExact
<1>1. IInv => BuffersExact BY FiniteFactsHold, BuffersAre
<1> QED BY <1>1, Invariant, PTL

\* The driver's sleepers: a completion is signalled, and whoever sleeps for
\* descriptors is woken when free_desc has given three back.
THEOREM DiskSleepersWoken == Spec => []DiskSleepers
<1>1. IInv => DiskSleepers BY FiniteFactsHold, SleepersAre
<1> QED BY <1>1, Invariant, PTL

\* Every descriptor is free or in the chain of one request, and every request
\* a process sleeps for is in the avail ring, with the device, or reported.
THEOREM RequestsAccounted == Spec => []RequestsExact
<1>1. IInv => RequestsExact BY FiniteFactsHold, RequestsAre
<1> QED BY <1>1, Invariant, PTL

\* The cache, the driver and the device, whatever the order of the transfers,
\* the recycling of buffers and the pins, are one exclusive copy of each block.
THEOREM CacheImplementsStore == Spec => CacheIsStore
<1>1. Init => BS!Init BY FiniteFactsHold, InitMaps
<1>2. IInv /\ IInv' /\ [Next]_vars => [BS!Next]_(BS!vars) BY FiniteFactsHold, StepMaps
<1> QED BY <1>1, <1>2, Invariant, PTL DEF Spec, CacheIsStore, BS!Spec
=============================================================================
