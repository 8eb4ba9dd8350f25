------------------------------ MODULE MCPeers ------------------------------
(***************************************************************************)
(* For TLC: a small instance of Peers.                                     *)
(***************************************************************************)
EXTENDS Peers

CONSTANT Durations

MCConfigs ==
    [electionTimeoutMin : Durations, electionTimeoutMax : Durations,
     heartbeatInterval : Durations, maxEntriesPerAppend : {1}, snapshotThreshold : {1}]

=============================================================================
