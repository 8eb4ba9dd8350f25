\* Any node may crash at any time and come back.
CONSTANTS
    Server = {n1, n2, n3}
    Nil = Nil
    NoCommand = NoCommand
    Peers <- OtherServers
    Command = {a}
    Campaigners = {n1, n2}
    Crashers = {n1, n2, n3}
    MaxTerm = 2
    MaxLog = 2
    MaxNet = 1
SPECIFICATION Spec
SYMMETRY Symmetric
VIEW LiveState
CHECK_DEADLOCK FALSE
INVARIANTS
    TypeOK
    IndexIsPosition
    RestartRestores
    MatchInv
    LogMatching
    LeaderHoldsItsTerm
