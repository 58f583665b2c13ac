------------------------------- MODULE MCTrim -------------------------------
(* Instances of Trim for TLC: First = 1 as with blocks of 1 KiB, and a word *)
(* that leaves the loop counter little room beyond Count.                   *)
EXTENDS Trim

MCFirst == 1
MCCount == 7
MCWord  == 10

=============================================================================
