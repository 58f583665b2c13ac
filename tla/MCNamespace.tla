---------------------------- MODULE MCNamespace ----------------------------
(* Instances of Namespace for TLC: the root and three more inodes, so that  *)
(* inode numbers are reused, and paths of one and two names.                *)
EXTENDS Namespace

CONSTANTS a, b

MCInodes == 2 .. 5
MCFewInodes == 2 .. 4
MCNames  == {a, b}
MCPaths  == {<<a>>, <<b>>, <<a, a>>, <<b, a>>}
MCTargets == {<<b>>}

AllCalls == {"open", "mkdir", "link", "symlink", "unlink", "rmdir", "rename"}
=============================================================================
