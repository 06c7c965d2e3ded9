----------------------------- MODULE MCSmallsh -----------------------------
(* TLC instances of Smallsh.  The pids are interchangeable. *)
EXTENDS Smallsh, TLC

PidSymmetry == Permutations(Pids)
=============================================================================
