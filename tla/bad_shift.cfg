SPECIFICATION Spec
CONSTANTS
    Clients = {a, b, c}
    Names = {a, b, c}
    NameOf <- OwnName
    None = None
    MAXCLIENTS = 3
    MaxFd = 9
    PipeCap = 3
    MaxSend = 0
    Killable = {}
SYMMETRY Symmetry
PROPERTIES ShiftPreservesOrder
CHECK_DEADLOCK FALSE
