----------------------------- MODULE MCMailbox -----------------------------
(* Model-checking instances of Mailbox.  The tasks are interchangeable. *)
EXTENDS Mailbox, TLC

TaskSymmetry == Permutations(Tasks)
=============================================================================
