SPECIFICATION Spec
SYMMETRY SessionSymmetry
CONSTANTS
    Sessions = {s1, s2}
    Names = {"x", "y"}
    Home = "x"
    MaxInode = 3
    MaxNode = 4
    MaxPath = 1
    Alone = {}
    None = None
CHECK_DEADLOCK FALSE
INVARIANT Exclusion
