---------------------------- MODULE PeerTracker ----------------------------
(***************************************************************************)
(* Replication progress as a leader may track it: internal/node/peers.go.  *)
(*                                                                         *)
(* The followers acknowledge growing prefixes of the leader's log.  Their  *)
(* answers may reach the leader late, and out of order unless InOrder.     *)
(***************************************************************************)
EXTENDS Integers, Sequences, Sorting

CONSTANTS
    Peer,       \* the ids a tracker may be made for
    LastIndex,  \* the last index of the leader's log
    InOrder     \* whether answers of one follower arrive in order

VARIABLES
    peers,      \* peers[p]: the PeerState of a tracked follower p
    stored      \* stored[p]: the length of the prefix p has acknowledged

vars == <<peers, stored>>

\* NewPeerTracker
Init ==
    /\ \E ids \in SUBSET Peer, last \in 0 .. LastIndex :
         peers = [p \in ids |-> [nextIndex |-> last + 1, matchIndex |-> 0]]
    /\ stored = [p \in Peer |-> 0]

\* IDs; the methods ignore other ids.
Tracked == DOMAIN peers

\* A success answer for index m arrives, an older one if it was overtaken.
UpdateMatch(p, m) ==
    /\ p \in Tracked
    /\ InOrder => m >= stored[p]
    /\ peers' = [peers EXCEPT ![p] =
                    [nextIndex  |-> IF m + 1 > @.nextIndex THEN m + 1 ELSE @.nextIndex,
                     matchIndex |-> m]]
    /\ stored' = [stored EXCEPT ![p] = IF m > @ THEN m ELSE @]

\* A refusal arrives, perhaps late.
DecrementNext(p) ==
    /\ p \in Tracked
    /\ peers[p].nextIndex > 1
    /\ peers' = [peers EXCEPT ![p].nextIndex = @ - 1]
    /\ UNCHANGED stored

Next ==
    \E p \in Peer :
        \/ \E m \in 0 .. LastIndex : UpdateMatch(p, m)
        \/ DecrementNext(p)

Spec == Init /\ [][Next]_vars

\* The values of the map, collected and sorted.
MatchIndexes == Ascending([p \in Tracked |-> peers[p].matchIndex])

\* With the leader's, sorted again.
Matches(leaderMatch) == Ascending(Append(MatchIndexes, leaderMatch))

\* Mutant: the element in the middle, counted from the low end.
QuorumMatchUpper(leaderMatch) ==
    LET n == Cardinality(Tracked) + 1
    IN  Matches(leaderMatch)[n \div 2 + 1]

\* Sequences start at 1, so element n-n/2-1 of the slice is n-n/2 here.
QuorumMatch(leaderMatch) ==
    LET n == Cardinality(Tracked) + 1
    IN  Matches(leaderMatch)[n - n \div 2]

-----------------------------------------------------------------------------
(***************************************************************************)
(* Properties.                                                             *)
(***************************************************************************)

\* The test of node.go:486-494 whether an index is on a majority, the leader,
\* which holds its whole log, included.
OnMajority(index, progress) ==
    1 + Cardinality({p \in Tracked : progress[p] >= index})
        >= (Cardinality(Tracked) + 1) \div 2 + 1

\* With answers in order QuorumMatch, which picks one element of a sorted list, is
\* the highest index that a majority has really stored, by the test with which the
\* node counts peers, for odd and for even clusters (peers.go:63-76,
\* node.go:486-494).
QuorumMatchIsMajority ==
    \A index \in 0 .. LastIndex :
        index <= QuorumMatch(LastIndex) <=> OnMajority(index, stored)

=============================================================================
