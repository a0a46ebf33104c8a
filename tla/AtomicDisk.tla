----------------------------- MODULE AtomicDisk -----------------------------
(***************************************************************************)
(* What the logging layer promises to the file system: the system calls    *)
(* that are active together become durable together, all of them or none.  *)
(* stable is what a reboot would bring back, current what a read returns.  *)
(***************************************************************************)
CONSTANTS Procs, Blocks, Values
VARIABLES stable, current, active

vars == <<stable, current, active>>

Init == /\ stable \in [Blocks -> Values]
        /\ current = stable
        /\ active = {}

\* A process enters or leaves a file-system call.
Start(p) == /\ p \notin active
            /\ active' = active \cup {p}
            /\ UNCHANGED <<stable, current>>

Finish(p) == /\ p \in active
             /\ active' = active \ {p}
             /\ UNCHANGED <<stable, current>>

\* Only a process inside a call changes what reads return.
Write(b, v) == /\ active # {}
               /\ current' = [current EXCEPT ![b] = v]
               /\ UNCHANGED <<stable, active>>

\* Everything becomes durable in one step, and only between calls.
Commit == /\ active = {}
          /\ stable' = current
          /\ UNCHANGED <<current, active>>

\* A crash forgets exactly what was not committed.
Crash == /\ current' = stable
         /\ active' = {}
         /\ UNCHANGED stable

Next == \/ \E p \in Procs : Start(p) \/ Finish(p)
        \/ \E b \in Blocks, v \in Values : Write(b, v)
        \/ Commit
        \/ Crash

Spec == Init /\ [][Next]_vars
=============================================================================
