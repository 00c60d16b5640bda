CONSTANTS
    Dot = dot
    DotDot = dotdot
    Names = {dot, dotdot, a, b}
    LongNames = {long}
    Empty = empty
    Inodes = {i1, i2}
    Self = self
    Parent = parent
    NoInode = none
    MaxEntries = 5
SYMMETRY NameSymmetry
SPECIFICATION Spec
INVARIANTS TypeOK NamesUnique NameOfIsCurrent
PROPERTIES SaveKeepsOldNames EntriesStay
VIEW Looked
