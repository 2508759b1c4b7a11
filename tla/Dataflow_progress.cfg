SPECIFICATION FairSpec
CONSTANTS
    b1 = b1
    b2 = b2
    b3 = b3
    c1 = c1
    c2 = c2
    None = None
    Blocks <- BigBlocks
    Clients <- MCClients
    Client <- BigClient
    Caller <- BigCaller
    Size <- BigSize
    Wakes <- BigWakes
    Claim <- BigClaim
    MayFail <- NoneOf
    Slots = 3
    NrThreads = 2
    Threshold = 1
    WorkerLimit <- NoLimit
    MemLimit <- NoLimit
    MayNotStart <- NoneOf
    Endless <- BigEndless
PROPERTIES Progress
CHECK_DEADLOCK FALSE
