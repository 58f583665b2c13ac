SPECIFICATION TrimSpec
CONSTANTS
  First <- MCFirst
  Count <- MCCount
  IntWord <- MCWord
INVARIANTS
  TrimTypeOK
  OnlyFreeDiscarded
  CompleteWhenDone
PROPERTIES
  TrimEnds
