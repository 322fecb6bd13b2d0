SPECIFICATION FairSpec
CONSTANTS
    Letters = {a, b}
    Nul = nul
    MAXLINE = 3
    MaxKeys = 4
    MaxHeard = 1
    PipeCap = 1
INVARIANTS ClientTypeOK ReadsStayInBuf EchoExact
PROPERTIES ImplementsUser ShutdownEnds EndOfInputEnds
CHECK_DEADLOCK FALSE
