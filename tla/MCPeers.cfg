CONSTANTS
    Durations = {0, 1, 2, 3, 4, 5}
    Configs <- MCConfigs
    MailId = {1, 2, 3}
    MailPeers = {1, 2}
    MaxSent = 3
    MemberId = {1, 2, 3, 4, 5}
    MaxPeers = 4
    Follower = {p1, p2, p3}
    LastIndex = 3
CHECK_DEADLOCK FALSE
SPECIFICATION PeersSpec
INVARIANTS
    NoElectionUnderLeader
    InOrderOnce
    MajoritiesOverlap
    OrderIsIrrelevant
    NodesUseTheQuorum
    QuorumMatchIsMajority
PROPERTIES
    LeaderIsMissed
    ClosedIsFinal
    EventuallyReceived
    ChangesOnePeer
