------------------------------ MODULE MCHooks ------------------------------
(* Instances of Hooks for TLC: which operations are made. *)
EXTENDS Hooks, TLC

CONSTANTS o1, o2, o3

ThreeOps == {o1, o2, o3}
TwoOps   == {o1, o2}

\* link() or symlink(), read() or write(), and fchmod().
LinkReadChmod == o1 :> "bothPaths" @@ o2 :> "buffer" @@ o3 :> "fd"
\* readdir() or readlink(), and fchmod().
ReaddirChmod  == o1 :> "pathArray" @@ o2 :> "fd"

=============================================================================
