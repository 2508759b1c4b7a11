SPECIFICATION Spec
CONSTANTS
    b1 = b1
    b2 = b2
    b3 = b3
    c1 = c1
    c2 = c2
    None = None
    Blocks <- FlowsBlocks
    Clients <- MCClients
    Client <- FlowsClient
    Caller <- FlowsCaller
    Size <- FlowsSize
    Wakes <- FlowsWakes
    Claim <- FlowsClaim
    MayFail <- FlowsFail
    Slots = 3
    NrThreads = 2
    Threshold = 1
    WorkerLimit <- NoLimit
    MemLimit <- NoLimit
    MayNotStart <- FlowsNotStart
    Endless <- NoneOf
INVARIANTS TypeOK TokensMatch FlowLive InOrder PoolSize
PROPERTIES RunsDag
CHECK_DEADLOCK FALSE
