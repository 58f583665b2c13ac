SPECIFICATION Spec
CONSTANTS
    Users = {u1, u2}
    Staters = {s1}
    Kinds = {"file", "dir", "link"}
    Instants = {1, 3, 5}
    Half = 2
    Perms = {6}
    Ids = {0, 3}
    IdMod = 2
    Large = TRUE
    HeapSize = 3
    None = None
INVARIANTS
    TypeOK
    StatIsSnapshot
    TimesRight
    HeapAccounted
SYMMETRY Symmetry
