------------------------------- MODULE MCPipe -------------------------------
(***************************************************************************)
(* Model checking of Pipe: processes and byte values are interchangeable.  *)
(***************************************************************************)
EXTENDS Pipe, TLC

PipeSymmetry == Permutations(Procs) \cup Permutations(Bytes)
====
