SPECIFICATION Spec
SYMMETRY SessionSymmetry
CONSTANTS
    Sessions = {s1, s2}
    Names = {"x", "y"}
    Home = "x"
    MaxInode = 3
    MaxNode = 4
    MaxPath = 2
    Alone <- AllButDirect
    None = None
CHECK_DEADLOCK FALSE
INVARIANTS
    TypeOK
    Exclusion
    LocksGivenBack
    RefcntExact
    OneNode
    NodesExist
    SessionsKeepDirectory
    KnownDefects
VIEW Looked
