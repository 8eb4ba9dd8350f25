CONSTANTS
    Server = {1, 2, 3}
    Nil = 0
    NoCommand = NoCommand
    Peers <- AllServers
    Command = {a}
    electionTimeoutMin = 1
    electionTimeoutMax = 2
    heartbeatInterval = 2
    Crashers = {3}
    Isolated = {3}
    MaxTerm = 1
    MaxLog = 1
    MaxQueue = 1
CHECK_DEADLOCK FALSE
SPECIFICATION PartitionedSpec
VIEW WithoutDropped
PROPERTY IsolatedLearnNothing
