--------------------------------- MODULE Fs ---------------------------------
(***************************************************************************)
(* Inodes, directories, open files and the system calls on names           *)
(* (kernel/fs.c, file.c, sysfile.c), with transactions that a crash undoes *)
(* as module Log shows.  A step is a critical section of one inode lock,   *)
(* of itable.lock or of ftable.lock; a process that holds one inode while  *)
(* it waits for another takes one step for each.                           *)
(*                                                                         *)
(* An entry of the inode table is named by its inum: iget keeps one entry  *)
(* for each inum in use.  Every change of an inode is followed by iupdate  *)
(* under the inode's lock, so one copy stands for the table's and the      *)
(* disk's.  A directory is a function from names to inums, 0 for none.     *)
(***************************************************************************)
EXTENDS Integers, Sequences, FiniteSets, FiniteSetsExt

CONSTANTS
  Procs, InitProc, NoProc,
  NINODES,       \* inodes on the disk
  NFILE, NOFILE,
  Names,         \* names in a directory other than "." and ".."
  Requests,      \* the calls made with a path, relative to the current
                 \* directory: <<call, path, new path of link>>
  InitRequests,  \* the ones the first process makes
  Crashes        \* whether the machine may crash

ASSUME FsAssumption ==
  /\ InitProc \in Procs /\ NoProc \notin Procs
  /\ {NINODES, NFILE, NOFILE} \subseteq Nat \ {0} /\ Crashes \in BOOLEAN

RequestsOf(p) == IF p = InitProc THEN InitRequests ELSE Requests

ROOTINO == 1
Inums == 1..NINODES
Files == 1..NFILE
Fds == 1..NOFILE
Dots == {".", ".."}

VARIABLES
  dinode,   \* type, nlink and entries of each inode
  outstanding,  \* system calls inside a transaction
  ref, valid, lock,  \* of the inode table's entry for each inum
  file,     \* the file table: ref and ip
  ofile, cwd,   \* of each process
  proc,     \* where each process is, and its local variables
  panic,    \* the message of the panic, if one happened
  leaked    \* inodes that nothing frees any more: without a link when the
            \* machine crashed, or named in a directory freed with its entries

vars == <<dinode, outstanding, ref, valid, lock, file, ofile, cwd, proc, panic, leaked>>
disk == <<dinode, leaked>>
itable == <<ref, valid, lock>>
open == <<file, ofile, cwd>>

NoEnts == [n \in Names \cup Dots |-> 0]
FreeInode == [type |-> "none", nlink |-> 0, ents |-> NoEnts]
Dir(i, parent, n) == [type |-> "dir", nlink |-> n, ents |-> [NoEnts EXCEPT !["."] = i, ![".."] = parent]]
Idle == [pc |-> "idle", op |-> "none", path |-> <<>>, new |-> <<>>, par |-> FALSE,
         ip |-> 0, dp |-> 0, old |-> 0, put |-> 0, cont |-> "none"]
Unused == [Idle EXCEPT !.pc = "unused"]

\* What is in memory after boot: the first process, in the root directory.
Boot ==
  /\ outstanding' = 0
  /\ ref' = [i \in Inums |-> IF i = ROOTINO THEN 1 ELSE 0]
  /\ valid' = [i \in Inums |-> FALSE]
  /\ lock' = [i \in Inums |-> NoProc]
  /\ file' = [f \in Files |-> [ref |-> 0, ip |-> 0]]
  /\ ofile' = [p \in Procs |-> [fd \in Fds |-> 0]]
  /\ cwd' = [p \in Procs |-> IF p = InitProc THEN ROOTINO ELSE 0]
  /\ proc' = [p \in Procs |-> IF p = InitProc THEN Idle ELSE Unused]

\* The disk as mkfs leaves it.
Init ==
  /\ dinode = [i \in Inums |-> IF i = ROOTINO THEN Dir(1, 1, 1) ELSE FreeInode]
  /\ outstanding = 0
  /\ ref = [i \in Inums |-> IF i = ROOTINO THEN 1 ELSE 0]
  /\ valid = [i \in Inums |-> FALSE]
  /\ lock = [i \in Inums |-> NoProc]
  /\ file = [f \in Files |-> [ref |-> 0, ip |-> 0]]
  /\ ofile = [p \in Procs |-> [fd \in Fds |-> 0]]
  /\ cwd = [p \in Procs |-> IF p = InitProc THEN ROOTINO ELSE 0]
  /\ proc = [p \in Procs |-> IF p = InitProc THEN Idle ELSE Unused]
  /\ panic = "none" /\ leaked = {}

\* A crash, and recovery from the log.  It leaves the disk as the last commit
\* did, that is, as dinode was when no transaction was open: a crash at that
\* moment stands for all those before the next commit.
crash ==
  /\ Crashes /\ outstanding = 0
  /\ leaked' = leaked \cup {i \in Inums : dinode[i].type # "none" /\ dinode[i].nlink = 0}
  /\ Boot
  /\ UNCHANGED <<dinode, panic>>

At(p, l) == proc[p].pc = l /\ panic = "none"

\* What p does next, with its local variables otherwise as in r.
Goto(p, r, l) == proc' = [proc EXCEPT ![p] = [r EXCEPT !.pc = l]]

\* p does iput(i) next, and then goes on at l.
Put(p, r, i, l) == Goto(p, [r EXCEPT !.put = i, !.cont = l], "iput")

\* ilock: the lock of i is free; the entry is read from the disk if need be.
CanLock(i) == lock[i] = NoProc
NoType(i) == dinode[i].type = "none"
Panic(msg) == panic' = msg /\ UNCHANGED <<disk, outstanding, itable, open, proc>>
Loaded(i) == [valid EXCEPT ![i] = TRUE]

\* iget and idup; ref-- of iput, after which an entry without references is
\* read anew when iget gives it out again.
Ref(i) == [ref EXCEPT ![i] = @ + 1]
Drop(i) == /\ ref' = [ref EXCEPT ![i] = @ - 1]
           /\ valid' = [valid EXCEPT ![i] = @ /\ ref[i] > 1]

(***************************************************************************)
(* Transactions, and the calls that begin with a path.                     *)
(***************************************************************************)
\* The last call to leave a transaction commits it.
Commit == outstanding' = outstanding - 1

end_op(p) ==
  /\ At(p, "end")
  /\ Commit
  /\ proc' = [proc EXCEPT ![p] = CASE proc[p].op = "exit" -> [Idle EXCEPT !.pc = "exit"]
                                    [] proc[p].op = "exited" -> Unused
                                    [] OTHER -> Idle]
  /\ UNCHANGED <<dinode, leaked, itable, open, panic>>

\* begin_op, and the start of namex in the current directory.
Call(p, op, path, new) ==
  /\ At(p, "idle")
  /\ outstanding' = outstanding + 1
  /\ ref' = Ref(cwd[p])
  /\ Goto(p, [Idle EXCEPT !.op = op, !.path = path, !.new = new, !.ip = cwd[p],
                         !.par = op \notin {"open", "chdir", "link"}], "namex")
  /\ UNCHANGED <<disk, valid, lock, open, panic>>

\* Where a call goes on with what namex returns, or without.
Found(op) == CASE op = "open" -> "open" [] op = "chdir" -> "chdir" [] op = "link" -> "link_old"
               [] op = "linknew" -> "link_new" [] op = "unlink" -> "unlink" [] OTHER -> "create"
NotFound(op) == IF op = "linknew" THEN "link_bad" ELSE "end"

\* One turn of namex's loop.
namex(p) ==
  LET r == proc[p]
      i == r.ip
      last == Len(r.path) = 1
      next == dinode[i].ents[Head(r.path)] IN
  /\ At(p, "namex") /\ CanLock(i)
  /\ IF NoType(i) THEN Panic("ilock: no type")
     ELSE /\ valid' = Loaded(i)
          /\ IF dinode[i].type # "dir" THEN Put(p, r, i, NotFound(r.op)) /\ UNCHANGED ref
             ELSE IF r.par /\ last THEN Goto(p, [r EXCEPT !.dp = i], Found(r.op)) /\ UNCHANGED ref
             ELSE IF next = 0 THEN Put(p, r, i, NotFound(r.op)) /\ UNCHANGED ref
             ELSE /\ ref' = Ref(next)
                  /\ Put(p, [r EXCEPT !.ip = next, !.path = Tail(@)], i, IF last THEN Found(r.op) ELSE "namex")
          /\ UNCHANGED <<disk, outstanding, lock, open, panic>>

(***************************************************************************)
(* iput.                                                                   *)
(***************************************************************************)
Entries(d) == {n \in Names : dinode[d].ents[n] # 0}

\* Mutation of Unlinked: other references do not keep the inode.
Unlinked_anyref(i) == valid[i] /\ dinode[i].nlink = 0

Unlinked(i) == ref[i] = 1 /\ valid[i] /\ dinode[i].nlink = 0

\* The entry is given up, or its inode is to be freed first.
iput(p) ==
  LET i == proc[p].put IN
  /\ At(p, "iput")
  /\ IF Unlinked(i)
       THEN lock' = [lock EXCEPT ![i] = p] /\ Goto(p, proc[p], "itrunc") /\ UNCHANGED <<ref, valid>>
       ELSE Drop(i) /\ Goto(p, proc[p], proc[p].cont) /\ UNCHANGED lock
  /\ UNCHANGED <<disk, outstanding, open, panic>>

\* itrunc, type = 0 and iupdate, without itable.lock.
iput_free(p) ==
  LET i == proc[p].put IN
  /\ At(p, "itrunc")
  /\ dinode' = [dinode EXCEPT ![i] = FreeInode]
  /\ leaked' = (leaked \ {i}) \cup {dinode[i].ents[n] : n \in Entries(i)}
  /\ valid' = [valid EXCEPT ![i] = FALSE]
  /\ lock' = [lock EXCEPT ![i] = NoProc]
  /\ Goto(p, proc[p], "iput_drop")
  /\ UNCHANGED <<outstanding, ref, open, panic>>

iput_drop(p) ==
  /\ At(p, "iput_drop")
  /\ Drop(proc[p].put)
  /\ Goto(p, proc[p], proc[p].cont)
  /\ UNCHANGED <<disk, outstanding, lock, open, panic>>

(***************************************************************************)
(* unlink: the directory is kept locked while the inode is locked.         *)
(***************************************************************************)
isdirempty(d) == Entries(d) = {}

unlink_dp(p) ==
  LET r == proc[p]
      name == Head(r.path)
      i == dinode[r.dp].ents[name] IN
  /\ At(p, "unlink") /\ CanLock(r.dp)
  /\ IF NoType(r.dp) THEN Panic("ilock: no type")
     ELSE /\ valid' = Loaded(r.dp)
          /\ IF name \in Dots \/ i = 0
               THEN Put(p, r, r.dp, "end") /\ UNCHANGED <<ref, lock>>
               ELSE /\ ref' = Ref(i)
                    /\ lock' = [lock EXCEPT ![r.dp] = p]
                    /\ Goto(p, [r EXCEPT !.ip = i], "unlink_ip")
          /\ UNCHANGED <<disk, outstanding, open, panic>>

unlink_ip(p) ==
  LET r == proc[p]
      i == r.ip
      isdir == dinode[i].type = "dir" IN
  /\ At(p, "unlink_ip") /\ CanLock(i)
  /\ IF NoType(i) THEN Panic("ilock: no type")
     ELSE IF dinode[i].nlink < 1 THEN Panic("unlink: nlink < 1")
     ELSE /\ valid' = Loaded(i)
          /\ IF isdir /\ ~isdirempty(i)
               THEN Put(p, r, i, "unlink_bad") /\ UNCHANGED <<dinode, lock>>
               ELSE /\ dinode' = [dinode EXCEPT ![r.dp].ents[Head(r.path)] = 0,
                                                ![r.dp].nlink = IF isdir THEN @ - 1 ELSE @]
                    /\ lock' = [lock EXCEPT ![i] = p, ![r.dp] = NoProc]
                    /\ Put(p, r, r.dp, "unlink_dec")
          /\ UNCHANGED <<leaked, outstanding, ref, open, panic>>

\* The directory was not empty: iunlockput(dp) after iunlockput(ip).
unlink_bad(p) ==
  /\ At(p, "unlink_bad")
  /\ lock' = [lock EXCEPT ![proc[p].dp] = NoProc]
  /\ Put(p, proc[p], proc[p].dp, "end")
  /\ UNCHANGED <<disk, outstanding, ref, valid, open, panic>>

\* Mutation of unlink_dec: the link count of a directory is left as it is.
unlink_dec_file(p) ==
  LET i == proc[p].ip IN
  /\ At(p, "unlink_dec")
  /\ dinode' = [dinode EXCEPT ![i].nlink = IF dinode[i].type = "dir" THEN @ ELSE @ - 1]
  /\ lock' = [lock EXCEPT ![i] = NoProc]
  /\ Put(p, proc[p], i, "end")
  /\ UNCHANGED <<leaked, outstanding, ref, valid, open, panic>>

unlink_dec(p) ==
  LET i == proc[p].ip IN
  /\ At(p, "unlink_dec")
  /\ dinode' = [dinode EXCEPT ![i].nlink = @ - 1]
  /\ lock' = [lock EXCEPT ![i] = NoProc]
  /\ Put(p, proc[p], i, "end")
  /\ UNCHANGED <<leaked, outstanding, ref, valid, open, panic>>

(***************************************************************************)
(* create, for open(O_CREATE), mkdir and mknod.                            *)
(***************************************************************************)
TypeOf(op) == CASE op = "mkdir" -> "dir" [] op = "mknod" -> "dev" [] OTHER -> "file"
FreeInums == {i \in Inums : NoType(i)}

\* The disk once i is made in d under the name n, each dirlink having found room.
Made(d, n, i, type) ==
  LET new == IF type = "dir" THEN Dir(i, d, 1) ELSE [FreeInode EXCEPT !.type = type, !.nlink = 1] IN
  [dinode EXCEPT ![i] = new, ![d].ents[n] = i, ![d].nlink = IF type = "dir" THEN @ + 1 ELSE @]

\* dp is locked and searched.  The name exists, or there is no free inode, or
\* the inode is made and stays locked, or a dirlink found the disk full.
create_dp(p) ==
  LET r == proc[p]
      d == r.dp
      name == Head(r.path)
      old == dinode[d].ents[name]
      new == Min(FreeInums)
      r1 == [r EXCEPT !.ip = new] IN
  /\ At(p, "create") /\ CanLock(d)
  /\ IF NoType(d) THEN Panic("ilock: no type")
     ELSE /\ UNCHANGED <<leaked, outstanding, open, panic>>
          /\ \/ /\ old # 0
                /\ ref' = Ref(old) /\ valid' = Loaded(d)
                /\ Put(p, [r EXCEPT !.ip = old], d, "create_old")
                /\ UNCHANGED <<dinode, lock>>
             \/ /\ old = 0 /\ FreeInums = {}
                /\ valid' = Loaded(d)
                /\ Put(p, r, d, "end")
                /\ UNCHANGED <<dinode, ref, lock>>
             \/ /\ old = 0 /\ FreeInums # {} /\ CanLock(new)
                /\ ref' = Ref(new)
                /\ valid' = [Loaded(d) EXCEPT ![new] = TRUE]
                /\ \/ /\ dinode' = Made(d, name, new, TypeOf(r.op))
                      /\ lock' = [lock EXCEPT ![new] = p]
                      /\ Put(p, r1, d, "created")
                   \/ /\ dinode' = [dinode EXCEPT ![new] = [FreeInode EXCEPT !.type = TypeOf(r.op)]]
                      /\ lock' = [lock EXCEPT ![d] = p]
                      /\ Put(p, r1, new, "create_fail")

\* The end of create's fail path: iunlockput(dp) after iunlockput(ip).
create_fail(p) ==
  /\ At(p, "create_fail")
  /\ lock' = [lock EXCEPT ![proc[p].dp] = NoProc]
  /\ Put(p, proc[p], proc[p].dp, "end")
  /\ UNCHANGED <<disk, outstanding, ref, valid, open, panic>>

\* A name that exists will do for open, unless it is a directory.
create_old(p) ==
  LET i == proc[p].ip IN
  /\ At(p, "create_old") /\ CanLock(i)
  /\ IF NoType(i) THEN Panic("ilock: no type")
     ELSE /\ valid' = Loaded(i)
          /\ IF TypeOf(proc[p].op) = "file" /\ dinode[i].type # "dir"
               THEN lock' = [lock EXCEPT ![i] = p] /\ Goto(p, proc[p], "created")
               ELSE Put(p, proc[p], i, "end") /\ UNCHANGED lock
          /\ UNCHANGED <<disk, outstanding, ref, open, panic>>

\* mkdir and mknod: iunlockput of what create returns.
created(p) ==
  LET i == proc[p].ip IN
  /\ At(p, "created") /\ proc[p].op \in {"mkdir", "mknod"}
  /\ lock' = [lock EXCEPT ![i] = NoProc]
  /\ Put(p, proc[p], i, "end")
  /\ UNCHANGED <<disk, outstanding, ref, valid, open, panic>>

(***************************************************************************)
(* open: the file and the descriptor, with ip locked.                      *)
(***************************************************************************)
FreeFiles == {f \in Files : file[f].ref = 0}
FreeFds(p) == {fd \in Fds : ofile[p][fd] = 0}

\* filealloc and fdalloc, each taking the first that is free; without both,
\* fileclose gives the file back and iunlockput the inode.
OpenFile(p, i) ==
  IF FreeFiles # {} /\ FreeFds(p) # {}
    THEN /\ file' = [file EXCEPT ![Min(FreeFiles)] = [ref |-> 1, ip |-> i]]
         /\ ofile' = [ofile EXCEPT ![p][Min(FreeFds(p))] = Min(FreeFiles)]
         /\ Goto(p, proc[p], "end")
    ELSE Put(p, proc[p], i, "end") /\ UNCHANGED <<file, ofile>>

\* open without O_CREATE; a directory is refused unless it is opened to read.
open_ip(p) ==
  LET i == proc[p].ip IN
  /\ At(p, "open") /\ CanLock(i)
  /\ IF NoType(i) THEN Panic("ilock: no type")
     ELSE /\ valid' = Loaded(i)
          /\ \/ OpenFile(p, i)
             \/ dinode[i].type = "dir" /\ Put(p, proc[p], i, "end") /\ UNCHANGED <<file, ofile>>
          /\ UNCHANGED <<disk, outstanding, ref, lock, cwd, panic>>

\* open of what create returns locked.
open_created(p) ==
  LET i == proc[p].ip IN
  /\ At(p, "created") /\ proc[p].op = "create"
  /\ OpenFile(p, i)
  /\ lock' = [lock EXCEPT ![i] = NoProc]
  /\ UNCHANGED <<disk, outstanding, ref, valid, cwd, panic>>

(***************************************************************************)
(* link and chdir.                                                         *)
(***************************************************************************)
\* Mutation of link_old: ip stays locked while the new name is looked up.
link_old_locked(p) ==
  LET i == proc[p].ip IN
  /\ At(p, "link_old") /\ CanLock(i) /\ ~NoType(i)
  /\ valid' = Loaded(i)
  /\ dinode' = [dinode EXCEPT ![i].nlink = @ + 1]
  /\ ref' = Ref(cwd[p])
  /\ lock' = [lock EXCEPT ![i] = p]
  /\ Goto(p, [proc[p] EXCEPT !.op = "linknew", !.path = proc[p].new, !.par = TRUE,
                             !.old = i, !.ip = cwd[p]], "namex")
  /\ UNCHANGED <<leaked, outstanding, open, panic>>

link_old(p) ==
  LET i == proc[p].ip IN
  /\ At(p, "link_old") /\ CanLock(i)
  /\ IF NoType(i) THEN Panic("ilock: no type")
     ELSE IF dinode[i].type = "dir"
       THEN /\ valid' = Loaded(i) /\ Put(p, proc[p], i, "end")
            /\ UNCHANGED <<disk, outstanding, ref, lock, open, panic>>
       ELSE /\ valid' = Loaded(i)
            /\ dinode' = [dinode EXCEPT ![i].nlink = @ + 1]
            /\ ref' = Ref(cwd[p])      \* nameiparent(new) begins
            /\ Goto(p, [proc[p] EXCEPT !.op = "linknew", !.path = proc[p].new, !.par = TRUE,
                                       !.old = i, !.ip = cwd[p]], "namex")
            /\ UNCHANGED <<leaked, outstanding, lock, open, panic>>

\* dirlink of the new name fails if the name is there or the disk is full.
link_new(p) ==
  LET r == proc[p]
      name == Head(r.path) IN
  /\ At(p, "link_new") /\ CanLock(r.dp)
  /\ IF NoType(r.dp) THEN Panic("ilock: no type")
     ELSE /\ valid' = Loaded(r.dp)
          /\ \/ Put(p, r, r.dp, "link_bad") /\ UNCHANGED dinode
             \/ /\ dinode[r.dp].ents[name] = 0
                /\ dinode' = [dinode EXCEPT ![r.dp].ents[name] = r.old]
                /\ Put(p, r, r.dp, "link_put")
          /\ UNCHANGED <<leaked, outstanding, ref, lock, open, panic>>

\* Mutation of link_put: the reference of namei(old) is kept.
link_put_keep(p) ==
  /\ At(p, "link_put")
  /\ Goto(p, proc[p], "end")
  /\ UNCHANGED <<disk, outstanding, itable, open, panic>>

link_put(p) ==
  /\ At(p, "link_put")
  /\ Put(p, proc[p], proc[p].old, "end")
  /\ UNCHANGED <<disk, outstanding, itable, open, panic>>

link_bad(p) ==
  LET i == proc[p].old IN
  /\ At(p, "link_bad") /\ CanLock(i)
  /\ dinode' = [dinode EXCEPT ![i].nlink = @ - 1]
  /\ Put(p, proc[p], i, "end")
  /\ UNCHANGED <<leaked, outstanding, itable, open, panic>>

chdir_ip(p) ==
  LET i == proc[p].ip IN
  /\ At(p, "chdir") /\ CanLock(i)
  /\ IF NoType(i) THEN Panic("ilock: no type")
     ELSE /\ valid' = Loaded(i)
          /\ IF dinode[i].type = "dir" THEN Put(p, proc[p], cwd[p], "chdir_end")
                                       ELSE Put(p, proc[p], i, "end")
          /\ UNCHANGED <<disk, outstanding, ref, lock, open, panic>>

\* end_op, and the new current directory.
chdir_end(p) ==
  /\ At(p, "chdir_end")
  /\ Commit
  /\ cwd' = [cwd EXCEPT ![p] = proc[p].ip]
  /\ Goto(p, Idle, "idle")
  /\ UNCHANGED <<dinode, leaked, itable, file, ofile, panic>>

(***************************************************************************)
(* Descriptors: close, dup, fork and exit.                                 *)
(***************************************************************************)
\* fileclose under ftable.lock, and begin_op if the file was the last one's.
Close(p, fd, l) ==
  LET f == ofile[p][fd] IN
  /\ ofile' = [ofile EXCEPT ![p][fd] = 0]
  /\ IF file[f].ref < 1 THEN panic' = "fileclose" /\ UNCHANGED <<file, outstanding, proc>>
     ELSE IF file[f].ref > 1
       THEN /\ file' = [file EXCEPT ![f].ref = @ - 1]
            /\ proc' = [proc EXCEPT ![p].pc = IF l = "exit" THEN "exit" ELSE "idle"]
            /\ UNCHANGED <<outstanding, panic>>
       ELSE /\ file' = [file EXCEPT ![f] = [ref |-> 0, ip |-> 0]]
            /\ outstanding' = outstanding + 1
            /\ Put(p, [Idle EXCEPT !.op = l], file[f].ip, "end")
            /\ UNCHANGED panic

close(p, fd) ==
  /\ At(p, "idle") /\ ofile[p][fd] # 0
  /\ Close(p, fd, "close")
  /\ UNCHANGED <<disk, itable, cwd>>

dup(p, fd) ==
  /\ At(p, "idle") /\ ofile[p][fd] # 0 /\ FreeFds(p) # {}
  /\ ofile' = [ofile EXCEPT ![p][Min(FreeFds(p))] = ofile[p][fd]]
  /\ file' = [file EXCEPT ![ofile[p][fd]].ref = @ + 1]
  /\ UNCHANGED <<disk, outstanding, itable, cwd, proc, panic>>

\* Mutation of fork: the child's descriptors are not counted.
fork_nodup(p, q) ==
  /\ At(p, "idle") /\ At(q, "unused")
  /\ ofile' = [ofile EXCEPT ![q] = ofile[p]]
  /\ cwd' = [cwd EXCEPT ![q] = cwd[p]]
  /\ ref' = Ref(cwd[p])
  /\ proc' = [proc EXCEPT ![q] = Idle]
  /\ UNCHANGED <<disk, outstanding, valid, lock, file, panic>>

\* filedup of every open file and idup of the current directory.
fork(p, q) ==
  /\ At(p, "idle") /\ At(q, "unused")
  /\ ofile' = [ofile EXCEPT ![q] = ofile[p]]
  /\ file' = [f \in Files |-> [file[f] EXCEPT !.ref = @ + Cardinality({fd \in Fds : ofile[p][fd] = f})]]
  /\ cwd' = [cwd EXCEPT ![q] = cwd[p]]
  /\ ref' = Ref(cwd[p])
  /\ proc' = [proc EXCEPT ![q] = Idle]
  /\ UNCHANGED <<disk, outstanding, valid, lock, panic>>

\* exit closes the files one at a time and then puts the current directory.
exit(p) ==
  /\ p # InitProc
  /\ At(p, "idle") \/ At(p, "exit")
  /\ LET fds == Fds \ FreeFds(p) IN
       IF fds # {} THEN Close(p, Min(fds), "exit") /\ UNCHANGED cwd
       ELSE /\ outstanding' = outstanding + 1
            /\ Put(p, [Idle EXCEPT !.op = "exited"], cwd[p], "end")
            /\ cwd' = [cwd EXCEPT ![p] = 0]
            /\ UNCHANGED <<file, ofile, panic>>
  /\ UNCHANGED <<disk, itable>>

Step(p) ==
  \/ \E c \in RequestsOf(p) : Call(p, c[1], c[2], c[3])
  \/ namex(p) \/ iput(p) \/ iput_free(p) \/ iput_drop(p) \/ end_op(p)
  \/ unlink_dp(p) \/ unlink_ip(p) \/ unlink_bad(p) \/ unlink_dec(p)
  \/ create_dp(p) \/ create_fail(p) \/ create_old(p) \/ created(p)
  \/ open_ip(p) \/ open_created(p)
  \/ link_old(p) \/ link_new(p) \/ link_put(p) \/ link_bad(p)
  \/ chdir_ip(p) \/ chdir_end(p)
  \/ \E fd \in Fds : close(p, fd) \/ dup(p, fd)
  \/ \E q \in Procs : fork(p, q)
  \/ exit(p)

Next == crash \/ \E p \in Procs : Step(p)

Spec == Init /\ [][Next]_vars

(***************************************************************************)
(* Properties.                                                             *)
(***************************************************************************)
\* Every variable has its type.
TypeOK ==
  /\ \A i \in Inums :
       /\ dinode[i].type \in {"none", "dir", "file", "dev"} /\ dinode[i].nlink \in Nat
       /\ \A n \in Names \cup Dots : dinode[i].ents[n] \in 0..NINODES
  /\ outstanding \in 0..Cardinality(Procs)
  /\ ref \in [Inums -> Nat] /\ valid \in [Inums -> BOOLEAN] /\ lock \in [Inums -> Procs \cup {NoProc}]
  /\ \A f \in Files : file[f].ref \in Nat /\ file[f].ip \in 0..NINODES
  /\ leaked \subseteq Inums

\* The directory entries that name i, and the directories i names: each has a
\* ".." that counts as a link to i.
Named(i) == {e \in Inums \X Names : dinode[e[1]].type = "dir" /\ dinode[e[1]].ents[e[2]] = i}
Subdirs(i) == {n \in Entries(i) : dinode[dinode[i].ents[n]].type = "dir"}

\* On the disk as every crash finds it, each name leads to an inode that is
\* allocated, and each link count is the number of names, whichever calls ran
\* side by side and wherever the machine stopped.
LinksExact ==
  outstanding = 0 =>
    \A i \in Inums :
      /\ Named(i) # {} => dinode[i].type # "none"
      /\ dinode[i].type # "none" /\ i \notin leaked =>
           dinode[i].nlink = Cardinality(Subdirs(i)) + (IF i = ROOTINO THEN 1 ELSE Cardinality(Named(i)))

\* The inodes p has a reference to, by the variable that holds it.
Fields(l, op) ==
  CASE l \in {"open", "link_old", "chdir", "chdir_end", "unlink_dec", "create_old", "created"} -> {"ip"}
    [] l \in {"unlink", "unlink_bad", "create", "create_fail"} -> {"dp"}
    [] l = "unlink_ip" -> {"dp", "ip"}
    [] l = "namex" -> IF op = "linknew" THEN {"ip", "old"} ELSE {"ip"}
    [] l = "link_new" -> {"dp", "old"}
    [] l \in {"link_put", "link_bad"} -> {"old"}
    [] OTHER -> {}
Putting(p) == proc[p].pc \in {"iput", "itrunc", "iput_drop"}
Holds(p) == IF Putting(p) THEN {"put"} \cup Fields(proc[p].cont, proc[p].op) ELSE Fields(proc[p].pc, proc[p].op)
CwdGone(p) == proc[p].pc = "chdir_end" \/ (Putting(p) /\ proc[p].cont = "chdir_end")

\* ref counts exactly the current directories, the open files and the calls
\* under way that use an inode: no path through the calls, the failing ones
\* included, keeps a reference or gives up one too many.
RefExact ==
  \A i \in Inums :
    ref[i] = Cardinality({p \in Procs : cwd[p] = i /\ ~CwdGone(p)})
           + Cardinality({f \in Files : file[f].ref > 0 /\ file[f].ip = i})
           + Cardinality({h \in Procs \X {"ip", "dp", "old", "put"} :
                            h[2] \in Holds(h[1]) /\ proc[h[1]][h[2]] = i})

\* A file of the file table counts its descriptors, in whatever order the
\* processes that share it close it, and its inode stays allocated.
FilesExact ==
  \A f \in Files :
    /\ file[f].ref = Cardinality({h \in Procs \X Fds : ofile[h[1]][h[2]] = f})
    /\ file[f].ref > 0 => dinode[file[f].ip].type # "none"

\* iget, idup, iput, filedup and fileclose are called in pairs, on every path: both
\* counts are exact, and an open file's inode is not freed under it.
RefsExact == TypeOK /\ RefExact /\ FilesExact

\* None of the panics of fs.c, file.c and sysfile.c happens.
NoFsPanic == panic = "none"

\* The inode a process waits to lock.
Wants(p) == CASE proc[p].pc \in {"namex", "open", "link_old", "chdir", "unlink_ip", "create_old"} -> proc[p].ip
              [] proc[p].pc \in {"unlink", "create", "link_new"} -> proc[p].dp
              [] proc[p].pc = "link_bad" -> proc[p].old
              [] OTHER -> 0

\* No process waits for an inode that it holds itself, or that a process holds
\* which waits for one of its own: parents are locked before children.
NoLockCycle ==
  \A p, q \in Procs : ~ \E i, j \in Inums : Wants(p) = i /\ lock[i] = q /\ Wants(q) = j /\ lock[j] = p

\* The comment of iput: when the last reference to an inode without links is
\* given up, the inode is freed.
Reclaimed ==
  \A i \in Inums \ leaked : dinode[i].type # "none" /\ dinode[i].nlink = 0 => ref[i] > 0
====
