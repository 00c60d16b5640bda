SPECIFICATION Spec
SYMMETRY UserSymmetry
CONSTANTS
    Clients = {c1, c2}
    Ops = {"adduser", "format"}
    UserNames = {u, v}
    NoFile = NoFile
    FlushInterval = 0
    MaxUsers = 2
    MaxQueue = 1
INVARIANT OnlyRootIsRoot
