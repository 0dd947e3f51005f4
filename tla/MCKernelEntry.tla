--------------------------- MODULE MCKernelEntry ---------------------------
(* Module KernelEntry for TLC: the constants are in KernelEntry.cfg. *)
EXTENDS KernelEntry
=============================================================================
