------------------------------ MODULE FileData ------------------------------
(***************************************************************************)
(* The contents of files (kernel/fs.c: balloc, bfree, bmap, itrunc, readi, *)
(* writei; file.c: fileread, filewrite).  Two open files, with an offset   *)
(* each, on the inodes of a small disk; a step is what happens under one   *)
(* ilock, in one transaction.                                              *)
(***************************************************************************)
EXTENDS Integers, Sequences, FiniteSets, FiniteSetsExt

CONSTANTS
  Opened,       \* the open files
  InodeOf,      \* the inode of each
  Byte,         \* the byte each writes
  BSIZE,        \* bytes in a block, and block numbers in an indirect block
  NDIRECT,
  DataBlocks,   \* the blocks balloc can find, from 1 on
  MAXOPBLOCKS,
  WriteLens, ReadLens   \* how much each asks for

NINDIRECT == BSIZE
MAXFILE == NDIRECT + NINDIRECT
Inodes == {InodeOf[f] : f \in Opened}
Blocks == 1..DataBlocks

VARIABLES
  inuse,    \* the bits of the free map that are set
  data,     \* contents of the blocks, as read through the buffer cache
  unlogged, \* the disk's contents of the blocks changed without log_write
  inode,    \* addrs, with addrs[NDIRECT] the indirect block, and size
  opened    \* of each open file: its offset, and the bytes left to write

vars == <<inuse, data, unlogged, inode, opened>>

Zero == [i \in 0..(BSIZE - 1) |-> 0]
\* Something an earlier owner left in a block.
Junk == [i \in 0..(BSIZE - 1) |-> 1]

Init ==
  /\ inuse = {}
  /\ data = [b \in Blocks |-> Junk] /\ unlogged = <<>>
  /\ inode = [i \in Inodes |-> [addrs |-> [k \in 0..NDIRECT |-> 0], size |-> 0]]
  /\ opened = [f \in Opened |-> [off |-> 0, left |-> 0]]

(***************************************************************************)
(* bmap, on a state s of the disk; s.addr is the block, or 0.              *)
(***************************************************************************)
Disk(i) == [inuse |-> inuse, data |-> data, ino |-> inode[i], log |-> {}, addr |-> 0]

\* The first block that is free, zeroed; the free map (0 here) and the block
\* are logged.
balloc(s) ==
  LET b == Min(Blocks \ s.inuse) IN
  IF s.inuse = Blocks THEN [s EXCEPT !.addr = 0]
  ELSE [s EXCEPT !.inuse = @ \cup {b}, !.addr = b, !.data[b] = Zero, !.log = @ \cup {0, b}]

\* addrs[k], allocated if need be.
Slot(s, k) ==
  IF s.ino.addrs[k] # 0 THEN [s EXCEPT !.addr = s.ino.addrs[k]]
  ELSE LET t == balloc(s) IN [t EXCEPT !.ino.addrs[k] = t.addr]

bmap(s, bn) ==
  IF bn < NDIRECT THEN Slot(s, bn)
  ELSE LET t == Slot(s, NDIRECT)
           a == t.addr
           j == bn - NDIRECT
           u == balloc(t) IN
       IF a = 0 THEN t
       ELSE IF t.data[a][j] # 0 THEN [t EXCEPT !.addr = t.data[a][j]]
       ELSE IF u.addr = 0 THEN u
       ELSE [u EXCEPT !.data[a][j] = u.addr, !.log = @ \cup {a}]

(***************************************************************************)
(* writei and readi.                                                       *)
(***************************************************************************)
\* The block with the m bytes from x on set to v.
Put(block, x, m, v) == [y \in DOMAIN block |-> IF y >= x /\ y < x + m THEN v ELSE block[y]]

\* Writes n bytes from off on, block by block.  It stops for lack of a block, or
\* where copyin fails, after fail bytes: those are in the buffer, which is
\* released without log_write.
RECURSIVE WriteLoop(_, _, _, _, _)
WriteLoop(s, off, n, v, fail) ==
  LET t == bmap(s, off \div BSIZE)
      m == Min({n, BSIZE - (off % BSIZE)})
      copied == [t EXCEPT !.data[t.addr] = Put(@, off % BSIZE, Min({m, fail}), v)] IN
  IF n = 0 THEN [state |-> s, off |-> off]
  ELSE IF t.addr = 0 THEN [state |-> t, off |-> off]
  ELSE IF fail < m THEN [state |-> copied, off |-> off]
  ELSE WriteLoop([copied EXCEPT !.log = @ \cup {t.addr}], off + m, n - m, v, fail - m)

\* What is not logged after it: a buffer that was not already, less those it logs.
Unlogged(s) ==
  [b \in {b \in Blocks \ s.log : b \in DOMAIN unlogged \/ s.data[b] # data[b]} |->
     IF b \in DOMAIN unlogged THEN unlogged[b] ELSE data[b]]

\* Mutation of NewSize: a write inside the file cuts it off.
NewSize_cut(size, off) == off

NewSize(size, off) == IF off > size THEN off ELSE size

\* Mutation of Chunk: the write is not split.
Chunk_all(left) == left

\* What filewrite writes in one transaction.
Chunk(left) == Min({left, ((MAXOPBLOCKS - 1 - 1 - 2) \div 2) * BSIZE})

write(f, n) ==
  /\ opened[f].left = 0
  /\ opened' = [opened EXCEPT ![f].left = n]
  /\ UNCHANGED <<inuse, data, unlogged, inode>>

\* What writei makes of the disk for the next chunk of f, and where it stops.
Written(f, fail) ==
  WriteLoop(Disk(InodeOf[f]), opened[f].off, Chunk(opened[f].left), Byte[f], fail)

\* Mutation of Writable: the offset is not compared with the size.
Writable_past(f) == opened[f].off + Chunk(opened[f].left) <= MAXFILE * BSIZE

\* It refuses to leave a hole, or to pass the largest size.
Writable(f) ==
  /\ opened[f].off <= inode[InodeOf[f]].size
  /\ opened[f].off + Chunk(opened[f].left) <= MAXFILE * BSIZE

\* One turn of filewrite's loop: writei, iupdate and the new offset.  The call
\* goes on only if all of the chunk was written.
filewrite(f, fail) ==
  LET i == InodeOf[f]
      o == opened[f]
      n1 == Chunk(o.left)
      w == Written(f, fail)
      s == w.state IN
  /\ o.left > 0
  /\ IF ~Writable(f)
       THEN opened' = [opened EXCEPT ![f].left = 0] /\ UNCHANGED <<inuse, data, unlogged, inode>>
       ELSE /\ inuse' = s.inuse /\ data' = s.data /\ unlogged' = Unlogged(s)
            /\ inode' = [inode EXCEPT ![i] = [s.ino EXCEPT !.size = NewSize(@, w.off)]]
            /\ opened' = [opened EXCEPT ![f].off = w.off,
                            ![f].left = IF w.off - o.off = n1 THEN @ - n1 ELSE 0]

\* fileread: the offset moves past what readi finds before the end.
fileread(f, n) ==
  LET o == opened[f].off
      size == inode[InodeOf[f]].size IN
  /\ opened[f].left = 0 /\ o < size
  /\ opened' = [opened EXCEPT ![f].off = Min({o + n, size})]
  /\ UNCHANGED <<inuse, data, unlogged, inode>>

\* Mutation of Freed: the indirect block itself stays in use.
Freed_data(i) ==
  LET a == inode[i].addrs IN
  {a[k] : k \in 0..(NDIRECT - 1)} \cup (IF a[NDIRECT] = 0 THEN {} ELSE {data[a[NDIRECT]][j] : j \in 0..(NINDIRECT - 1)})

\* The blocks itrunc frees.
Freed(i) ==
  LET a == inode[i].addrs IN
  {a[k] : k \in 0..NDIRECT} \cup (IF a[NDIRECT] = 0 THEN {} ELSE {data[a[NDIRECT]][j] : j \in 0..(NINDIRECT - 1)})

\* Another open of the inode with O_TRUNC; offsets stay, maybe past the end.
\* What the freed blocks still hold is forgotten: balloc clears it.
itrunc(i) ==
  /\ inuse' = inuse \ Freed(i)
  /\ inode' = [inode EXCEPT ![i] = [addrs |-> [k \in 0..NDIRECT |-> 0], size |-> 0]]
  /\ unlogged' = [b \in DOMAIN unlogged \ Freed(i) |-> unlogged[b]]
  /\ data' = [b \in Blocks |-> IF b \in Freed(i) THEN Junk ELSE data[b]]
  /\ UNCHANGED opened

\* close and open: the offset starts again.
reopen(f) ==
  /\ opened[f].left = 0 /\ opened[f].off > 0
  /\ opened' = [opened EXCEPT ![f].off = 0]
  /\ UNCHANGED <<inuse, data, unlogged, inode>>

\* bget recycles the buffer, and the change that was not logged is gone.
evict(b) ==
  /\ b \in DOMAIN unlogged
  /\ data' = [data EXCEPT ![b] = unlogged[b]]
  /\ unlogged' = [c \in DOMAIN unlogged \ {b} |-> unlogged[c]]
  /\ UNCHANGED <<inuse, inode, opened>>

Next ==
  \/ \E f \in Opened :
       \/ \E n \in WriteLens[f] : write(f, n)
       \/ \E fail \in {1, MAXFILE * BSIZE} : filewrite(f, fail)
       \/ \E n \in ReadLens[f] : fileread(f, n)
       \/ reopen(f)
  \/ \E i \in Inodes : itrunc(i)
  \/ \E b \in Blocks : evict(b)

(***************************************************************************)
(* Properties.                                                             *)
(***************************************************************************)
IndexOf(i) == IF inode[i].addrs[NDIRECT] = 0 THEN Zero ELSE data[inode[i].addrs[NDIRECT]]

\* The places where inode i has a block number, with the number.
Refs(i) ==
  {r \in {<<"addr", k, inode[i].addrs[k]>> : k \in 0..NDIRECT}
         \cup {<<"index", j, IndexOf(i)[j]>> : j \in 0..(NINDIRECT - 1)} : r[3] # 0}

\* The free map has exactly the blocks that inodes refer to, each of them
\* once, also when a write stopped half way for lack of space (bmap) or
\* because copyin failed, and after itrunc.
BlocksExact ==
  /\ inuse = UNION {{r[3] : r \in Refs(i)} : i \in Inodes}
  /\ Cardinality(inuse) = FoldSet(LAMBDA i, n : n + Cardinality(Refs(i)), 0, Inodes)

BlockAt(i, bn) == IF bn < NDIRECT THEN inode[i].addrs[bn] ELSE IndexOf(i)[bn - NDIRECT]

\* Every byte below the size has a block, so that readi, whose bmap would
\* allocate one outside a transaction, never does.
NoHoles == \A i \in Inodes : \A x \in 0..(inode[i].size - 1) : BlockAt(i, x \div BSIZE) # 0

\* What reading inode i returns.
Content(i) ==
  [x \in 1..inode[i].size |->
     LET b == BlockAt(i, (x - 1) \div BSIZE) IN IF b = 0 THEN 0 ELSE data[b][(x - 1) % BSIZE]]

\* A file is a sequence of bytes, and a step of writei or itrunc changes only
\* its own file: truncates it, or writes a run of bytes at the offset of an open
\* file and keeps what is before and behind.  The exceptions are the bytes a
\* failed copyin leaves in a buffer, which may be seen behind the run and in its
\* last block only, and which are gone again when that buffer is recycled.
FileIsSequence ==
  \A i \in Inodes :
    LET old == Content(i)
        new == Content(i)'
        torn == {BlockAt(i, bn) : bn \in 0..(MAXFILE - 1)} \cap (DOMAIN unlogged \ DOMAIN unlogged') IN
    \/ new = old
    \/ new = <<>>
    \/ Len(new) = Len(old) /\ \A x \in 1..Len(new) : new[x] = old[x] \/ BlockAt(i, (x - 1) \div BSIZE) \in torn
    \/ \E f \in Opened :
         LET off == opened[f].off
             end == opened'[f].off IN
         /\ InodeOf[f] = i /\ opened[f].left > 0 /\ off <= Len(old)
         /\ Len(new) = Max({Len(old), end})
         /\ \A x \in 1..Len(new) :
              \/ new[x] = IF x > off /\ x <= end THEN Byte[f] ELSE old[x]
              \/ /\ end < off + Chunk(opened[f].left) /\ new[x] = Byte[f]
                 /\ x > end /\ (x - 1) \div BSIZE = end \div BSIZE

\* The comment in filewrite: a chunk fits in a transaction, with the inode, the
\* indirect block, the free map and the blocks of a write that is not aligned.
WriteFitsLog ==
  \A f \in Opened :
    Writable(f) => Cardinality(Written(f, MAXFILE * BSIZE).state.log) + 1 <= MAXOPBLOCKS
====
