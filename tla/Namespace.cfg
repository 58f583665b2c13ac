SPECIFICATION Spec
CONSTANTS
  a = a
  b = b
  Inodes <- MCInodes
  RootIno = 2
  Names <- MCNames
  Paths <- MCPaths
  Targets <- MCTargets
  Calls <- AllCalls
  Habits = {}
  FaultyCalls = {}
  MaxFaults = 0
  MaxWalk = 6
INVARIANTS
  TypeOK
  LinkCountsExact
  UniqueNames
  Tree
PROPERTIES
  ThrowsUnchanged
