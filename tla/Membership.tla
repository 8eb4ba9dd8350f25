----------------------------- MODULE Membership -----------------------------
(***************************************************************************)
(* What a sequence of configuration changes promises.  The membership is a *)
(* set of peers; a change adds or removes one of them.  During a change    *)
(* some peers still decide by the previous membership and others by the    *)
(* new one, so their majorities must meet.  MemberList, the model of       *)
(* internal/membership, implements this specification.                     *)
(***************************************************************************)
EXTENDS Naturals, FiniteSets

CONSTANT Id     \* the ids of all peers there could ever be

VARIABLES
    members,    \* the current membership
    previous    \* the one that the last change replaced

vars == <<members, previous>>

Init ==
    /\ members \in SUBSET Id
    /\ previous = members

Change(new) ==
    /\ members' = new
    /\ previous' = members

Add(p)    == p \notin members /\ Change(members \cup {p})
Remove(p) == p \in members /\ Change(members \ {p})

Next == \E p \in Id : Add(p) \/ Remove(p)

Spec == Init /\ [][Next]_vars

\* How many peers of a membership of n make a majority.
QuorumSize(n) == n \div 2 + 1

Quorums(s) == {q \in SUBSET s : Cardinality(q) >= QuorumSize(Cardinality(s))}

\* Every majority of the current membership shares a peer with every majority of
\* the previous one, so two disjoint groups can never both decide
\* (membership.go:34-37, 50-70, 85-88).
QuorumsOverlap ==
    \A a \in Quorums(members), b \in Quorums(previous) : a \cap b # {}

=============================================================================
