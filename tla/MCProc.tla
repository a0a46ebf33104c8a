------------------------------- MODULE MCProc -------------------------------
(***************************************************************************)
(* Model checking of Proc.  The CPUs are interchangeable; the processes    *)
(* are not, since loops over proc[] visit them in order.                   *)
(***************************************************************************)
EXTENDS Proc, TLC

CpuSymmetry == Permutations(Cpus)
====
