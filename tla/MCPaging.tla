------------------------------ MODULE MCPaging ------------------------------
(* Model-checking instances of Paging.  The processes are interchangeable. *)
EXTENDS Paging, TLC

ProcSymmetry == Permutations(Procs)
=============================================================================
