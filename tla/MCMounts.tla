------------------------------ MODULE MCMounts ------------------------------
(* Instances of Mounts for TLC. *)
EXTENDS Mounts

CONSTANTS d1, d2, u1, u2, p1, p2

TwoDisks    == {d1, d2}
TwoUsers    == {u1, u2}
TwoPointers == {p1, p2}

\* Both users are of d1; d2 is only mounted and unmounted.
SameDisk == [u \in Users |-> d1]

NoHandles == {}
HandleOfU1 == {u1}
NoReusers  == {}
ReuserU1   == {u1}

\* Left out: close and truncate, whose errors lose track of a file.
TrackedFaults == {"mount", "open", "read", "umount"}
NoFaults      == {}

=============================================================================
