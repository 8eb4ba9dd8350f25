CONSTANTS
    Server = {1, 2, 3}
    Nil = 0
    NoCommand = NoCommand
    Peers <- AllServers
    Command = {}
    electionTimeoutMin = 1
    electionTimeoutMax = 2
    heartbeatInterval = 2
    Crashers = {3}
    Isolated = {}
    MaxTerm = 2
    MaxLog = 0
    MaxQueue = 2
CHECK_DEADLOCK FALSE
SPECIFICATION Spec
VIEW WithoutDropped
INVARIANT SingleLeaderPerTerm
