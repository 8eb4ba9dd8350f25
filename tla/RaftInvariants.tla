--------------------------- MODULE RaftInvariants ---------------------------
(***************************************************************************)
(* The inductive invariants behind the properties of Raft.  TLC checks     *)
(* them on small instances; the proof modules prove them for all.          *)
(***************************************************************************)
EXTENDS Raft

\* Every node knows every other node, and itself is not among its peers.
OthersArePeers == Peers = [i \in Server |-> Server \ {i}]

-----------------------------------------------------------------------------
(***************************************************************************)
(* Logs.  Slice reads positions up to LastIndex, so even type correctness  *)
(* needs that indexes are positions.                                       *)
(***************************************************************************)
WellFormedBatch(m) ==
    \A k \in 1 .. Len(m.entries) : m.entries[k].index = m.prevLogIndex + k

LogInv ==
    /\ TypeOK
    /\ \A i \in Server : WellFormed(node[i].log)
    /\ \A m \in sent : m.type = "AppendEntries" => WellFormedBatch(m)

-----------------------------------------------------------------------------
(***************************************************************************)
(* Elections.                                                              *)
(***************************************************************************)
Grants == {m \in sent : m.type = "RequestVoteResp" /\ m.granted}

\* v told c that it votes for c in the term, or v is c.
Supports(v, c, term) ==
    \/ v = c
    \/ \E m \in Grants : m.from = v /\ m.to = c /\ m.term = term

Supporters(c, term) == {v \in Server : Supports(v, c, term)}

\* A candidate or leader has voted for itself.
CandidatesVoteForThemselves ==
    \A i \in Server : node[i].state # Follower => node[i].votedFor = i

\* Who granted a vote is a follower with that vote until it leaves the term.
GrantsAreKept ==
    \A m \in Grants :
        /\ m.term <= node[m.from].currentTerm
        /\ m.term = node[m.from].currentTerm
           => node[m.from].state = Follower /\ node[m.from].votedFor = m.to

GrantsAreUnique ==
    \A m1, m2 \in Grants : m1.from = m2.from /\ m1.term = m2.term => m1.to = m2.to

\* Who ever led a term keeps its own vote until it leaves the term.
LeadersKeepTheirVote ==
    \A c \in Claims :
        /\ c.term <= node[c.leader].currentTerm
        /\ c.term = node[c.leader].currentTerm => node[c.leader].votedFor = c.leader

LeadersGrantNothing ==
    \A c \in Claims, m \in Grants : m.from = c.leader => m.term # c.term

\* A candidate counts only votes it was granted in its term.
CountedVotesAreGranted ==
    \A i \in Server : node[i].state = Candidate =>
        \A v \in node[i].votesGranted : Supports(v, i, node[i].currentTerm)

LeadersHaveMajorities ==
    \A c \in Claims : 2 * Cardinality(Supporters(c.leader, c.term)) > Cardinality(Server)

\* A node that names a leader of its term is that leader or heard from it.
LeaderIDsAreClaimed ==
    \A i \in Server : node[i].leaderID # Nil =>
        \/ node[i].leaderID = i /\ node[i].state = Leader
        \/ Claim(node[i].leaderID, node[i].currentTerm) \in SentClaims

NoMessageToSelf == \A m \in sent : m.from # m.to

\* What makes OneLeaderPerTerm inductive: a node of another candidate's or
\* leader's majority never gets its vote cleared within the term, because
\* handleAppendEntries clears only votes a candidate gave itself, and such a
\* candidate is then out of the race.
ElectionInv ==
    /\ NoMessageToSelf
    /\ CandidatesVoteForThemselves
    /\ GrantsAreKept
    /\ GrantsAreUnique
    /\ LeadersKeepTheirVote
    /\ LeadersGrantNothing
    /\ CountedVotesAreGranted
    /\ LeadersHaveMajorities
    /\ LeaderIDsAreClaimed
    /\ OneLeaderPerTerm

\* A leader recognises itself, and who has led a term is no candidate of that
\* term again.
LeaderInv ==
    /\ \A i \in Server : node[i].state = Leader => node[i].leaderID = i
    /\ \A c \in SentClaims :
          c.term = node[c.leader].currentTerm => node[c.leader].state # Candidate

-----------------------------------------------------------------------------
(***************************************************************************)
(* Log matching.  A log, and a batch of entries with the index and term of *)
(* the entry before it, is a fragment: it names the terms of a range of    *)
(* positions and all entries of the range but the one at its start.        *)
(***************************************************************************)
LogFragment(i) == [start |-> 0, startTerm |-> 0, entries |-> Entries(i)]

BatchFragment(m) ==
    [start |-> m.prevLogIndex, startTerm |-> m.prevLogTerm, entries |-> m.entries]

Batches == {m \in sent : m.type = "AppendEntries"}

Fragments == {LogFragment(i) : i \in Server} \cup {BatchFragment(m) : m \in Batches}

\* Position 0 is the sentinel's and belongs to no fragment.
Positions(f) == (f.start .. f.start + Len(f.entries)) \ {0}

TermIn(f, p) == IF p = f.start THEN f.startTerm ELSE f.entries[p - f.start].term

\* Two fragments say the same about position p.
Agree(f, g, p) ==
    /\ TermIn(f, p) = TermIn(g, p)
    /\ p > f.start /\ p > g.start => f.entries[p - f.start] = g.entries[p - g.start]

\* Where two fragments agree on a term, they agree on everything before.
Matching(f, g) ==
    \A p \in Positions(f) \cap Positions(g) :
        TermIn(f, p) = TermIn(g, p) =>
            \A q \in Positions(f) \cap Positions(g) : q <= p => Agree(f, g, q)

\* Every term that stamps an entry had a leader.
TermsAreClaimed ==
    \A f \in Fragments : \A p \in Positions(f) :
        \E c \in SentClaims : c.term = TermIn(f, p)

\* What is stamped with a leader's term is in that leader's log.
LeadersHoldTheirTerm ==
    \A i \in Server : node[i].state = Leader =>
        \A f \in Fragments : \A p \in Positions(f) :
            TermIn(f, p) = node[i].currentTerm
            => p <= Len(Entries(i)) /\ Entries(i)[p].term = node[i].currentTerm

\* What makes LogMatching inductive: it holds between logs and every batch ever
\* sent as well, since an old batch may still be appended to any log; and only
\* the leader of a term, of which there is one, makes entries of that term.
MatchInv ==
    /\ \A f, g \in Fragments : Matching(f, g)
    /\ TermsAreClaimed
    /\ LeadersHoldTheirTerm
    /\ \A i \in Server :
          node[i].state = Leader => Claim(i, node[i].currentTerm) \in SentClaims

-----------------------------------------------------------------------------
(***************************************************************************)
(* The refinement.  Who has led a term shows in the AppendEntries sent:    *)
(* becomeLeader broadcasts before it returns.                              *)
(***************************************************************************)
Abstract == INSTANCE Elections WITH
    term   <- [i \in Server |-> node[i].currentTerm],
    leader <- [i \in Server |-> node[i].leaderID],
    claims <- SentClaims

\* Every step of every handler is a step of an ideal election or none at all:
\* no late answer, restart or heartbeat takes a node back to an earlier term or
\* gives a term a second leader (node.go:264-317, 371-420, 535-575).
ImplementsElections == Abstract!Spec

=============================================================================
