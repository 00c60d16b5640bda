SPECIFICATION Spec
SYMMETRY UserSymmetry
VIEW Looked
CONSTANTS
    Clients = {c1, c2}
    Ops = {"adduser", "format"}
    UserNames = {u, v}
    NoFile = NoFile
    FlushInterval = 0
    MaxUsers = 3
    MaxQueue = 1
INVARIANTS
    TypeOK
    SessionUser
PROPERTY IdsGivenOnce
