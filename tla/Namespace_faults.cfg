SPECIFICATION Spec
CONSTANTS
  a = a
  b = b
  Inodes <- MCFewInodes
  RootIno = 2
  Names <- MCNames
  Paths <- MCPaths
  Targets <- MCTargets
  Calls <- AllCalls
  Habits = {}
  FaultyCalls = {"mkdir", "link", "symlink", "unlink", "rmdir"}
  MaxFaults = 2
  MaxWalk = 6
INVARIANTS
  NoDanglingName
  LinkCountsEnough
