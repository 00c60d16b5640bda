SPECIFICATION Spec
CONSTANTS
    Clients = {c1, c2}
    Ops = {"ls", "flush", "del", "overlong"}
    UserNames = {}
    NoFile = NoFile
    FlushInterval = 1
    MaxUsers = 1
    MaxQueue = 1
INVARIANT ReplyMatches
PROPERTIES
    AnswerComes
    HandlerEnds
    FlushHappens
