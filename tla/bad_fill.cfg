SPECIFICATION FairSpec
CONSTANTS
    MaxJobs = 2
    MAX_CMDS = 2
    BUFSIZE = 1
    PipeSize = 2
    MaxOutput = 3
    MaxFd = 3
    None = None
PROPERTIES WaitEndsWithCommand
CHECK_DEADLOCK FALSE
