CONSTANTS
    p = p
    q = q
    Mounts = {p, q}
    Size <- MCSize
    BlockSize <- MCBlockSize
    Offset <- MCOffset
    DiskSize = 7
    Word = 16
    Short = 64
    Values = {0, 1}
    Zero = 0
    Codes <- MCCodes
    None = None
SPECIFICATION Spec
INVARIANTS
    Reported
PROPERTIES
    ImplementsDevice
