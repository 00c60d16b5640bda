CONSTANTS
    Files = {f}
    N = 27
    Direct = 1
    E = 2
    MaxData = 15
    RefMax = 3
    NoInode = NoInode
    Closed = Closed
SPECIFICATION TreeSpec
INVARIANT Reopens
