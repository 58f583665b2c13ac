------------------------------ MODULE MCInodes ------------------------------
(* Instances of Inodes for TLC: 2 stands for 2^31, so that the instants are    *)
(* before 2038, where the low word is negative, and where it has wrapped.      *)
EXTENDS Inodes, TLC

Symmetry == Permutations(Users)
=============================================================================
