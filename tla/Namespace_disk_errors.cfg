SPECIFICATION Spec
CONSTANTS
  a = a
  b = b
  Inodes <- MCInodes
  RootIno = 2
  Names <- MCNames
  Paths <- MCPaths
  Targets <- MCTargets
  Calls <- AllCalls
  Habits = {}
  FaultyCalls = {"rename"}
  MaxFaults = 1
  MaxWalk = 6
PROPERTIES
  DiskErrorsThrow
