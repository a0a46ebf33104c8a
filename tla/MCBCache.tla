------------------------------ MODULE MCBCache ------------------------------
(***************************************************************************)
(* Model checking of BCache: processes, blocks and values are              *)
(* interchangeable.                                                        *)
(***************************************************************************)
EXTENDS BCache, TLC

BCacheSymmetry == Permutations(Procs) \cup Permutations(Blocks) \cup Permutations(Values)
====
