SPECIFICATION Spec
CONSTANTS
    Clients = {a, b}
    Names = {a, b}
    NameOf <- OwnName
    None = None
    MAXCLIENTS = 2
    MaxFd = 7
    PipeCap = 3
    MaxSend = 0
    Killable = {}
SYMMETRY Symmetry
INVARIANTS AllRemoved
CHECK_DEADLOCK FALSE
