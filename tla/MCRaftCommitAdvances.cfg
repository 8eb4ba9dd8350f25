\* Does the commit index only ever advance?
CONSTANTS
    Server = {n1, n2, n3}
    Nil = Nil
    NoCommand = NoCommand
    Peers <- OtherServers
    Command = {a}
    Campaigners = {n1, n2}
    Crashers = {}
    MaxTerm = 3
    MaxLog = 2
    MaxNet = 1
SPECIFICATION Spec
SYMMETRY Symmetric
VIEW LiveState
CHECK_DEADLOCK FALSE
PROPERTY CommitOnlyAdvances
