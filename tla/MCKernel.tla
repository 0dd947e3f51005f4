------------------------------ MODULE MCKernel ------------------------------
(* Model-checking instances of Kernel: the cfg files choose the workload. *)
EXTENDS Kernel
=============================================================================
