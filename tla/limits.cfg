SPECIFICATION Spec
CONSTANTS
    Clients = {a, b, c}
    Names = {u, v}
    NameOf <- OneApart
    None = None
    MAXCLIENTS = 2
    MaxFd = 6
    PipeCap = 3
    MaxSend = 0
    Killable = {}
SYMMETRY SymmetryApart
ACTION_CONSTRAINT ComesBack
INVARIANTS TableExact DescriptorInv TurnedAwayOnlyWhenFull
CHECK_DEADLOCK FALSE
