SPECIFICATION Spec
CONSTANTS
    Users = {u1, u2}
    Inodes = {1}
    BlockSize = 2
    MaxSize = 3
    MaxCall = 2
    MaxLinks = 2
    OpenModes = {"a", "aPlus"}
    Habits = {"twoWriters"}
PROPERTIES
    AppendsAtEnd
SYMMETRY Symmetry
CHECK_DEADLOCK FALSE
