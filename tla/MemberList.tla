----------------------------- MODULE MemberList -----------------------------
(***************************************************************************)
(* Cluster configurations: internal/membership/membership.go.              *)
(*                                                                         *)
(* A Config is a list of peer ids that NewConfig sorts.  The methods never *)
(* modify a Config; the variables are the configuration in use and the one *)
(* it was made from.                                                       *)
(***************************************************************************)
EXTENDS Integers, Sequences, Sorting

CONSTANTS
    Id,         \* peer ids, numbers
    MaxPeers    \* bound: the length of the list the first NewConfig is given

VARIABLES
    peers,      \* the Peers of the configuration in use
    old         \* the Peers of the configuration it replaced

vars == <<peers, old>>

\* Mutant: the list is copied and not sorted.
NewConfigUnsorted(list) == list

NewConfig(list) == Ascending(list)

HasPeer(c, id) == \E k \in 1 .. Len(c) : c[k] = id

\* Mutant: exactly half of the peers is enough.
QuorumHalf(c) == (Len(c) + 1) \div 2

Quorum(c) == Len(c) \div 2 + 1

IsMajority(c, count) == count >= Quorum(c)

\* The loop of OtherPeers and RemovePeer.
Without(c, id) ==
    LET out[k \in 0 .. Len(c)] ==
            IF k = 0 THEN <<>>
            ELSE IF c[k] # id THEN Append(out[k - 1], c[k]) ELSE out[k - 1]
    IN  out[Len(c)]

\* Mutant: the node is not left out.
OtherPeersAndSelf(c, id) == c

OtherPeers(c, id) == Without(c, id)

\* Mutant: the new id overwrites the last element of the copy.
AddPeerOverLast(c, id) ==
    IF HasPeer(c, id) THEN c ELSE NewConfig(Append(SubSeq(c, 1, Len(c) - 1), id))

AddPeer(c, id) == IF HasPeer(c, id) THEN c ELSE NewConfig(Append(c, id))

RemovePeer(c, id) == NewConfig(Without(c, id))

Equal(c, d) == Len(c) = Len(d) /\ \A k \in 1 .. Len(c) : c[k] = d[k]

\* No list names a peer twice.
Lists == {l \in UNION {[1 .. n -> Id] : n \in 0 .. MaxPeers} : IsInjective(l)}

Init ==
    /\ \E l \in Lists : peers = NewConfig(l)
    /\ old = peers

ChangeTo(c) ==
    /\ ~Equal(c, peers)
    /\ peers' = c
    /\ old' = peers

Add(p)    == ChangeTo(AddPeer(peers, p))
Remove(p) == ChangeTo(RemovePeer(peers, p))

Next == \E p \in Id : Add(p) \/ Remove(p)

Spec == Init /\ [][Next]_vars

-----------------------------------------------------------------------------
(***************************************************************************)
(* Properties.                                                             *)
(***************************************************************************)

\* A list stands for the set of its elements, and AddPeer and RemovePeer change
\* that set by the one peer they are given, so MemberList implements Membership
\* (membership.go:50-70).
M == INSTANCE Membership WITH members <- Range(peers), previous <- Range(old)

ChangesOnePeer == M!Spec

\* The quorums that the code computes from the length of the list overlap across
\* a change: no two disjoint groups of peers pass IsMajority in the
\* configuration in use and in the one it replaced (membership.go:34-37, 85-88).
MajoritiesOverlap ==
    \A a \in SUBSET Range(peers), b \in SUBSET Range(old) :
        IsMajority(peers, Cardinality(a)) /\ IsMajority(old, Cardinality(b))
        => a \cap b # {}

\* Equal compares element by element, which tells sets of peers apart only
\* because every configuration is sorted: peers that made the same changes in
\* another order must agree that their configurations are equal, and the order
\* of the list handed to NewConfig must not matter (membership.go:13-19, 72-83).
OrderIsIrrelevant ==
    /\ \A p, q \in Id :
        Equal(AddPeer(AddPeer(peers, p), q), AddPeer(AddPeer(peers, q), p))
    /\ \A p \in Range(peers) : Equal(AddPeer(RemovePeer(peers, p), p), peers)

\* A node that is handed OtherPeers as its peers counts votes against the
\* majority of len(peers)+1 of node.go:238-241; for every member that is the
\* quorum of the configuration.
NodesUseTheQuorum ==
    \A p \in Range(peers) :
        (Len(OtherPeers(peers, p)) + 1) \div 2 + 1 = Quorum(peers)

=============================================================================
