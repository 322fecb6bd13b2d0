SPECIFICATION Spec
CONSTANTS
    Clients = {a, b}
    Names = {u}
    NameOf <- SameName
    None = None
    MAXCLIENTS = 2
    MaxFd = 7
    PipeCap = 3
    MaxSend = 0
    Killable = {}
ACTION_CONSTRAINT ComesBack
INVARIANTS JoinerIsWired
CHECK_DEADLOCK FALSE
