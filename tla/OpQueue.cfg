SPECIFICATION Spec
CONSTANTS
  c1 = c1
  c2 = c2
  c3 = c3
  c4 = c4
  NoCaller = NoCaller
  Callers <- FourCallers
  Inner <- DiskOfC1IsMounted
INVARIANTS
  TypeOK
  OneCallAtATime
  NoLostWakeup
  InnerNeverStarts
PROPERTIES
  ImplementsServer
  EveryCallAnswered
CHECK_DEADLOCK FALSE
