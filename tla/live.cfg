SPECIFICATION FairSpec
CONSTANTS
    Clients = {a, b}
    Names = {a, b}
    NameOf <- OwnName
    None = None
    MAXCLIENTS = 2
    MaxFd = 7
    PipeCap = 1
    MaxSend = 1
    Killable = {a}
PROPERTIES NeverWedged JoinServed TakenUp Delivered SignalStops MembersAreTold
CHECK_DEADLOCK FALSE
