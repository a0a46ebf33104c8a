----------------------------- MODULE MCPageRef -----------------------------
(***************************************************************************)
(* An instance of PageRef for TLC.                                         *)
(***************************************************************************)
EXTENDS PageRef, TLC

Symmetry == Permutations(Procs) \cup Permutations(Pages) \cup Permutations(Slots)
====
