CONSTANTS
    Clients = {c1, c2}
    Zeroed = zero
    Values = {zero, a}
    Versions = {1, 2}
    Cylinders = 2
    Sections = 2
    MaxPool = 2
    RefMax = 3
    NoData = NoData
    NoSuper = NoSuper
SYMMETRY ClientSymmetry
SPECIFICATION BSpec
INVARIANTS TypeOK RefcntExact CleanMatchesDisk FreeListSound RestartSound BufferBound
PROPERTY ImplementsStore
CONSTRAINT AtMostTwo
VIEW Looked
