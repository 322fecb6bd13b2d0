SPECIFICATION Spec
CONSTANTS
    Letters = {a}
    Nul = nul
    MAXLINE = 3
    MaxKeys = 2
    MaxHeard = 1
    PipeCap = 1
INVARIANTS ScreenShowsInput
CHECK_DEADLOCK FALSE
