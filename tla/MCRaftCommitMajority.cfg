\* Does a leader commit only what a majority has stored?
CONSTANTS
    Server = {n1, n2, n3}
    Nil = Nil
    NoCommand = NoCommand
    Peers <- OtherServers
    Command = {a}
    Campaigners = {n1, n2}
    Crashers = {}
    MaxTerm = 2
    MaxLog = 2
    MaxNet = 1
SPECIFICATION Spec
SYMMETRY Symmetric
VIEW LiveState
CHECK_DEADLOCK FALSE
INVARIANT CommittedOnMajority
