----------------------------- MODULE PrivateMem -----------------------------
(***************************************************************************)
(* What user memory promises a program: every live process has a memory of *)
(* its own.  A store changes one page of the process that makes it and     *)
(* needs write permission; fork gives the child a copy of the whole memory *)
(* in one instant; sbrk adds zero pages at the end or drops pages there;   *)
(* exec replaces the memory.  Nothing else ever changes it, and no process *)
(* ever sees the junk with which the allocator fills pages.                *)
(***************************************************************************)
EXTENDS Integers

CONSTANTS Procs, InitProc, MaxVa, Values, Zero, NoMem

Perms == {"rw", "ro", "guard"}
Page == [val : Values \cup {Zero}, perm : Perms]
Memory(n) == [0..(n - 1) -> Page]

VARIABLES mem,   \* mem[p]: the pages of p, or NoMem
          prog   \* prog[p]: changes when p starts another program

vars == <<mem, prog>>

Size(p) == CHOOSE n \in 0..MaxVa : DOMAIN mem[p] = 0..(n - 1)

Init == /\ mem = [p \in Procs |->
                    IF p = InitProc THEN [u \in {0} |-> [val |-> Zero, perm |-> "rw"]]
                    ELSE NoMem]
        /\ prog = [p \in Procs |-> 0]

Store(p, u, v) ==
  /\ mem[p] # NoMem
  /\ u \in DOMAIN mem[p] /\ mem[p][u].perm = "rw"
  /\ mem' = [mem EXCEPT ![p][u].val = v]
  /\ UNCHANGED prog

Fork(p, np) ==
  /\ mem[p] # NoMem /\ mem[np] = NoMem
  /\ mem' = [mem EXCEPT ![np] = mem[p]]
  /\ UNCHANGED prog

Sbrk(p, n) ==
  /\ mem[p] # NoMem
  /\ mem' = [mem EXCEPT ![p] = [u \in 0..(n - 1) |->
               IF u < Size(p) THEN mem[p][u] ELSE [val |-> Zero, perm |-> "rw"]]]
  /\ UNCHANGED prog

\* The new memory is the program, a guard page and a stack page.
Exec(p, n) ==
  /\ mem[p] # NoMem
  /\ mem'[p] \in Memory(n)
  /\ \A u \in 0..(n - 3) : mem'[p][u].perm # "guard"
  /\ mem'[p][n - 2] = [val |-> Zero, perm |-> "guard"]
  /\ mem'[p][n - 1].perm = "rw"
  /\ mem' = [mem EXCEPT ![p] = mem'[p]]
  /\ prog' = [prog EXCEPT ![p] = 1 - @]

Exit(p) ==
  /\ mem[p] # NoMem
  /\ mem' = [mem EXCEPT ![p] = NoMem]
  /\ UNCHANGED prog

Next ==
  \E p \in Procs :
    \/ \E u \in 0..(MaxVa - 1), v \in Values : Store(p, u, v)
    \/ \E np \in Procs : Fork(p, np)
    \/ \E n \in 0..MaxVa : Sbrk(p, n)
    \/ \E n \in 2..MaxVa : Exec(p, n)
    \/ Exit(p)

Spec == Init /\ [][Next]_vars
====
