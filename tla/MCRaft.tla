------------------------------- MODULE MCRaft -------------------------------
(***************************************************************************)
(* Raft for TLC: the peers of a node are all the other nodes.              *)
(***************************************************************************)
EXTENDS RaftInvariants, TLC

OtherServers == [i \in Server |-> Server \ {i}]

\* Nodes are interchangeable when the bounds treat them alike.
Symmetric ==
    {p \in Permutations(Server) :
        /\ {p[i] : i \in Campaigners} = Campaigners
        /\ {p[i] : i \in Crashers} = Crashers}
    \cup Permutations(Command)

\* A state without the history, and without what no handler reads before it
\* overwrites it: votes kept by a node that is no candidate any more, and the
\* replication progress kept by a node that is no leader any more.
LiveState ==
    <<[i \in Server |->
         CASE node[i].state = Leader    -> [node[i] EXCEPT !.votesGranted = {}]
           [] node[i].state = Candidate -> [node[i] EXCEPT !.nextIndex = NoIndexes,
                                                           !.matchIndex = NoIndexes]
           [] OTHER                     -> [node[i] EXCEPT !.votesGranted = {},
                                                           !.nextIndex = NoIndexes,
                                                           !.matchIndex = NoIndexes]],
      net>>

\* The same with the history, for properties that speak of it.
LiveStateAndHistory == <<LiveState, sent>>

=============================================================================
