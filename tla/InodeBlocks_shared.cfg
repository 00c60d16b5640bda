CONSTANTS
    Files = {f, g}
    N = 5
    Direct = 1
    E = 1
    MaxData = 3
    RefMax = 3
    NoInode = NoInode
    Closed = Closed
SPECIFICATION Spec
INVARIANTS TypeOK NoSharing NothingLost Reopens PinsExact
VIEW ByPlace
SYMMETRY FileSymmetry
CONSTRAINT NoneDangling
