SPECIFICATION Spec
CONSTANTS
    Clients = {a, b}
    Names = {a, b}
    NameOf <- OwnName
    None = None
    MAXCLIENTS = 2
    MaxFd = 7
    PipeCap = 2
    MaxSend = 2
    Killable = {a, b}
SYMMETRY Symmetry
INVARIANTS ReadNeverBlocks
PROPERTIES ImplementsRoom
CHECK_DEADLOCK FALSE
