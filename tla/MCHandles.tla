----------------------------- MODULE MCHandles -----------------------------
(* Instances of Handles for TLC. *)
EXTENDS Handles, TLC

Symmetry == Permutations(Users)
=============================================================================
