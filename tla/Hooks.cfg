SPECIFICATION Spec
CONSTANTS
  o1 = o1
  o2 = o2
  o3 = o3
  Ops <- ThreeOps
  Kind <- LinkReadChmod
  NoId = NoId
INVARIANTS
  TypeOK
  OwnMemory
  NoMisuse
  NoHookErrors
  NothingLeaks
PROPERTIES
  EveryOpEnds
CHECK_DEADLOCK FALSE
