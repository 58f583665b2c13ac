CONSTANTS
    p = p
    q = q
    Pipes = {p, q}
    Length <- MCLength
    HighWaterMark <- MCHighWaterMark
    MinPoolSpace = 1
    MaxBuffered = 2
    MaxTroubled = 1
    Habits = {}
SPECIFICATION Spec
INVARIANTS
    BytesInOrder
    NoMisuse
PROPERTIES
    StreamsClose
CHECK_DEADLOCK FALSE
