SPECIFICATION Spec
CONSTANTS
    Connections = {c1, c2}
    Remote = {c1}
    Main = main
    Nothing = nothing
    Cut = cut
    Sectors = {1}
    Outside = 0
    Values = {zero, a}
    Zero = zero
INVARIANTS
    TypeOK
    NoTornSector
PROPERTIES
    AnswerComes
    ImplementsDisk
