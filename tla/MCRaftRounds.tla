---------------------------- MODULE MCRaftRounds ----------------------------
(***************************************************************************)
(* RaftRounds for TLC.                                                     *)
(***************************************************************************)
EXTENDS RaftRounds

OtherServers == [i \in Server |-> Server \ {i}]

=============================================================================
