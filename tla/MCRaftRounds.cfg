\* Progress of a stable leader: two leaders, a follower that may crash.
CONSTANTS
    Server = {n1, n2, n3}
    Nil = Nil
    NoCommand = NoCommand
    Peers <- OtherServers
    Command = {a}
    Campaigners = {n1, n2}
    Crashers = {n3}
    MaxTerm = 2
    MaxLog = 2
SPECIFICATION Spec
PROPERTY ShorterLogsCatchUp
