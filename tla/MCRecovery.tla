----------------------------- MODULE MCRecovery -----------------------------
(***************************************************************************)
(* Recovery for TLC: the videos are interchangeable.                       *)
(***************************************************************************)
EXTENDS Recovery, TLC

Symmetric == Permutations(Name)

=============================================================================
