----------------------------- MODULE MCCluster -----------------------------
(***************************************************************************)
(* Cluster for TLC.                                                        *)
(***************************************************************************)
EXTENDS Cluster

\* The peers that cluster.New hands to every node.
AllServers == [i \in Server |-> Server]

\* A state without the messages dropped before.
WithoutDropped == <<node, timer, queue, blocked, elected>>

=============================================================================
