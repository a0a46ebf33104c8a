------------------------------ MODULE MCCowVm ------------------------------
(* Small instances of CowVm for TLC. *)
EXTENDS CowVm, TLC

CONSTANTS low

MCPteIndex == [pg \in Pages |-> low]
MCLowSlots == {low}

Symmetry == Permutations(Pages) \cup Permutations(Procs \ {InitProc})
====
