---------------------------- MODULE MCFdManager ----------------------------
(* FdManager for TLC.                                                      *)
EXTENDS FdManager, TLC

HookedSymmetry == Permutations(Hooked)
=============================================================================
