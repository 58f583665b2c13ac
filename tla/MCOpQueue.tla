----------------------------- MODULE MCOpQueue -----------------------------
(* Instances of OpQueue for TLC. *)
EXTENDS OpQueue, TLC

CONSTANTS c1, c2, c3, c4

FourCallers  == {c1, c2, c3, c4}

\* The disk of c1 is a file of another mounted image, read by c2; c3 and c4
\* call on their own.
DiskOfC1IsMounted == [c \in Callers |-> IF c = c1 THEN c2 ELSE NoCaller]

=============================================================================
