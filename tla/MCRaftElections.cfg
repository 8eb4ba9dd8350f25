\* Two candidates, one node that may crash, every message kept.
CONSTANTS
    Server = {n1, n2, n3}
    Nil = Nil
    NoCommand = NoCommand
    Peers <- OtherServers
    Command = {}
    Campaigners = {n1, n2}
    Crashers = {n3}
    MaxTerm = 2
    MaxLog = 0
    MaxNet = 100
SPECIFICATION Spec
SYMMETRY Symmetric
VIEW LiveStateAndHistory
CHECK_DEADLOCK FALSE
INVARIANTS
    OneLeaderPerTerm
    ElectionInv
    LeaderIDAgreement
PROPERTIES
    VoteIsFinal
    ImplementsElections
