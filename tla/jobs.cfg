SPECIFICATION FairSpec
CONSTANTS
    MaxJobs = 3
    MAX_CMDS = 2
    BUFSIZE = 1
    PipeSize = 2
    MaxOutput = 3
    MaxFd = 3
    None = None
INVARIANTS JobTypeOK OutputIsOwn DescriptorsMatch ReadsAsk
PROPERTIES WaitEnds
CHECK_DEADLOCK FALSE
