------------------------- MODULE RaftElectionProofs -------------------------
(***************************************************************************)
(* Theorems about Raft, for any number of nodes, any commands and any      *)
(* bounds on terms, logs and the network: its types and logs, and that     *)
(* nodes that are each other's peers elect at most one leader per term.    *)
(*                                                                         *)
(* What a step can do to an election is one of five things, stated below   *)
(* as Stays, GivesWay, EntersTerm, GrantsVote and Wins.  The second part   *)
(* shows that each of the five preserves ElectionInv, the third part that  *)
(* every action of Raft is one of them.                                    *)
(***************************************************************************)
EXTENDS RaftInvariants, RaftNodeProofs, FiniteSetTheorems

-----------------------------------------------------------------------------
(***************************************************************************)
(* Type correctness and well-formed logs.                                  *)
(***************************************************************************)

\* LogInv says that all nodes and all messages ever sent are good.
LEMMA LogInvSaysGood ==
    LogInv <=> /\ node \in [Server -> NodeState]
               /\ \A i \in Server : GoodNode(node[i])
               /\ \A m \in sent : GoodMessage(m)
               /\ net \subseteq sent
BY DEF LogInv, TypeOK, GoodNode, GoodMessage, WellFormedBatch

\* The network only ever holds messages that were sent.
LEMMA NetIsSent ==
    ASSUME net \subseteq sent, NEW out, Send(out)
    PROVE  net' \subseteq sent' /\ sent' = sent \cup out
BY DEF Send, kSubset

\* A call with a good result keeps the invariant.
LEMMA ApplyGood ==
    ASSUME LogInv, NEW i \in Server, NEW r, GoodResult(r), Apply(i, r)
    PROVE  LogInv'
<1>1. /\ node \in [Server -> NodeState]
      /\ \A j \in Server : GoodNode(node[j])
      /\ \A m \in sent : GoodMessage(m)
      /\ net \subseteq sent
    BY LogInvSaysGood
<1>2. GoodNode(r.node) /\ r.node \in NodeState /\ \A m \in r.out : GoodMessage(m)
    BY DEF GoodResult, GoodNode
<1>3. net' \subseteq sent' /\ sent' = sent \cup r.out
    BY <1>1, NetIsSent DEF Apply
<1>4. node' = [node EXCEPT ![i] = r.node]
    BY DEF Apply
<1>5. node' \in [Server -> NodeState] /\ \A j \in Server : GoodNode(node'[j])
    BY <1>1, <1>2, <1>4
<1>6. \A m \in sent' : GoodMessage(m)
    BY <1>1, <1>2, <1>3
<1>7. /\ node' \in [Server -> NodeState]
      /\ \A j \in Server : GoodNode(node'[j])
      /\ \A m \in sent' : GoodMessage(m)
      /\ net' \subseteq sent'
    BY <1>3, <1>5, <1>6
<1> QED
    BY <1>7 DEF LogInv, TypeOK, GoodNode, GoodMessage, WellFormedBatch

\* The new nodes are good, and nothing has been sent.
LEMMA LogInvInit == Init => LogInv
<1> SUFFICES ASSUME Init PROVE LogInv
    OBVIOUS
<1>1. NewNode \in NodeState
    BY NewNodeGood DEF GoodNode
<1>2. /\ node \in [Server -> NodeState]
      /\ \A i \in Server : GoodNode(node[i])
      /\ \A m \in sent : GoodMessage(m)
      /\ net \subseteq sent
    BY <1>1, NewNodeGood DEF Init
<1> QED
    BY <1>2, LogInvSaysGood

\* Every step keeps nodes and messages good, one case for each action.
LEMMA LogInvStep == LogInv /\ [Next]_vars => LogInv'
<1> SUFFICES ASSUME LogInv, [Next]_vars PROVE LogInv'
    OBVIOUS
<1>1. /\ \A i \in Server : GoodNode(node[i])
      /\ \A m \in net : GoodMessage(m) /\ m \in Message
    BY LogInvSaysGood DEF GoodMessage
<1>2. ASSUME NEW i \in Server, ElectionTimeout(i) PROVE LogInv'
    BY <1>1, <1>2, StartElectionGood, ApplyGood DEF ElectionTimeout
<1>3. ASSUME NEW i \in Server, Heartbeat(i) PROVE LogInv'
    <2>1. GoodResult(Returns(node[i], BroadcastAppendEntries(i, node[i]), FALSE))
        BY <1>1, BroadcastGood DEF GoodResult, Returns
    <2> QED
        BY <1>3, <2>1, ApplyGood, Zenon DEF Heartbeat
<1>4. ASSUME NEW i \in Server, NEW cmd \in Command, Propose(i, cmd) PROVE LogInv'
    <2>1. GoodResult(Returns(NodePropose(node[i], cmd), {}, FALSE))
        BY <1>1, NodeProposeGood DEF GoodResult, Returns
    <2> QED
        BY <1>4, <2>1, ApplyGood, Zenon DEF Propose
<1>5. ASSUME NEW i \in Server, Crash(i) PROVE LogInv'
    <2>1. GoodResult(Returns(NodeCrash(node[i]), {}, FALSE))
        BY <1>1, NodeCrashGood DEF GoodResult, Returns
    <2> QED
        BY <1>5, <2>1, ApplyGood, Zenon DEF Crash
<1>6. ASSUME NEW i \in Server, Restart(i) PROVE LogInv'
    <2>1. GoodResult(Returns(NodeRestart(node[i]), {}, TRUE))
        BY <1>1, NodeRestartRestores, Zenon DEF GoodResult, Returns
    <2> QED
        BY <1>6, <2>1, ApplyGood, Zenon DEF Restart
<1>7. ASSUME NEW i \in Server, NEW m \in net, ReceiveRequestVote(i, m) PROVE LogInv'
    <2>1. GoodResult(HandleRequestVote(i, node[i], m))
        BY <1>1, <1>7, HandleRequestVoteGood DEF ReceiveRequestVote, Receive
    <2> QED
        BY <1>7, <2>1, ApplyGood DEF ReceiveRequestVote
<1>8. ASSUME NEW i \in Server, NEW m \in net, ReceiveRequestVoteResp(i, m) PROVE LogInv'
    <2>1. GoodResult(HandleRequestVoteResp(i, node[i], m))
        BY <1>1, <1>8, HandleRequestVoteRespGood DEF ReceiveRequestVoteResp, Receive
    <2> QED
        BY <1>8, <2>1, ApplyGood DEF ReceiveRequestVoteResp
<1>9. ASSUME NEW i \in Server, NEW m \in net, ReceiveAppendEntries(i, m) PROVE LogInv'
    <2>1. GoodResult(HandleAppendEntries(i, node[i], m))
        BY <1>1, <1>9, HandleAppendEntriesGood DEF ReceiveAppendEntries, Receive
    <2> QED
        BY <1>9, <2>1, ApplyGood DEF ReceiveAppendEntries
<1>10. ASSUME NEW i \in Server, NEW m \in net, ReceiveAppendEntriesResp(i, m) PROVE LogInv'
    <2>1. GoodResult(HandleAppendEntriesResp(i, node[i], m))
        BY <1>1, <1>10, HandleAppendEntriesRespGood DEF ReceiveAppendEntriesResp, Receive
    <2> QED
        BY <1>10, <2>1, ApplyGood DEF ReceiveAppendEntriesResp
<1>11. CASE UNCHANGED vars
    BY <1>11 DEF vars, LogInv, TypeOK, WellFormedBatch
<1> QED
    BY <1>2, <1>3, <1>4, <1>5, <1>6, <1>7, <1>8, <1>9, <1>10, <1>11 DEF Next, Step

\* LogInv is an invariant, whoever is whose peer.
LEMMA LogInvariant == Spec => []LogInv
BY LogInvInit, LogInvStep, PTL DEF Spec

\* Type correctness: no handler ever leaves the types of the Go structs, and in
\* particular no log operation reads outside the log.
THEOREM TypeCorrect == Spec => []TypeOK
<1>1. LogInv => TypeOK
    BY DEF LogInv
<1> QED
    BY <1>1, LogInvariant, PTL

\* Indexes are positions in every log and every batch, at all times.
THEOREM IndexesArePositions == Spec => []IndexIsPosition
<1>1. LogInv => IndexIsPosition
    BY DEF LogInv, IndexIsPosition, Entries, WellFormed, WellFormedBatch, TypeOK
<1> QED
    BY <1>1, LogInvariant, PTL

\* Whenever a node crashes, Restart brings back its term, vote and log.
THEOREM RestartAlwaysRestores == Spec => []RestartRestores
<1>1. ASSUME LogInv PROVE RestartRestores
    <2> SUFFICES ASSUME NEW i \in Server
                 PROVE  LET r == NodeRestart([node[i] EXCEPT !.crashed = TRUE])
                        IN  /\ ~r.crashed
                            /\ r.currentTerm = node[i].currentTerm
                            /\ r.votedFor = node[i].votedFor
                            /\ r.log.entries = Entries(i)
        BY DEF RestartRestores
    <2> DEFINE n == [node[i] EXCEPT !.crashed = TRUE]
               r == NodeRestart(n)
    <2>1. node[i] \in NodeState /\ WellFormed(node[i].log)
        BY <1>1 DEF LogInv, TypeOK
    <2>2. /\ n \in NodeState
          /\ n.log = node[i].log
          /\ n.currentTerm = node[i].currentTerm
          /\ n.votedFor = node[i].votedFor
        BY <2>1, Zenon DEF NodeState
    <2>3. GoodNode(n)
        BY <2>1, <2>2 DEF GoodNode
    <2> HIDE DEF n
    <2>4. /\ r = [NewNode EXCEPT !.currentTerm = n.currentTerm,
                                 !.votedFor    = n.votedFor,
                                 !.log         = LogAppend(NewLog, n.log.entries)]
          /\ LogAppend(NewLog, n.log.entries).entries = n.log.entries
        BY <2>3, NodeRestartRestores, Zenon
    <2> HIDE DEF r
    <2>5. /\ ~r.crashed
          /\ r.currentTerm = n.currentTerm
          /\ r.votedFor = n.votedFor
          /\ r.log = LogAppend(NewLog, n.log.entries)
        BY <2>4 DEF NewNode
    <2> QED
        BY <2>2, <2>4, <2>5 DEF n, r, Entries
<1> QED
    BY <1>1, LogInvariant, PTL

-----------------------------------------------------------------------------
(***************************************************************************)
(* What a step can do to an election.                                      *)
(***************************************************************************)

OthersStay(i) == \A j \in Server \ {i} : node'[j] = node[j]

\* Node i stays in its term with its vote; it may fall back to follower, count
\* votes granted to it, learn the leader of the term and, as leader, send.
Stays(i) ==
    /\ node'[i].currentTerm = node[i].currentTerm
    /\ node'[i].votedFor = node[i].votedFor
    /\ node'[i].state \in {node[i].state, Follower}
    /\ node'[i].state = Candidate =>
         \A v \in node'[i].votesGranted :
             v \in node[i].votesGranted \/ Supports(v, i, node[i].currentTerm)
    /\ node'[i].leaderID # Nil =>
         \/ node'[i].leaderID = node[i].leaderID /\ node'[i].state = node[i].state
         \/ Claim(node'[i].leaderID, node[i].currentTerm) \in SentClaims
    /\ node'[i].state = Leader \/ SentClaims' # SentClaims =>
         node'[i].leaderID = node[i].leaderID
    /\ Grants' = Grants
    /\ SentClaims \subseteq SentClaims'
    /\ \A c \in SentClaims' :
         c \in SentClaims \/ (node[i].state = Leader /\ c = Claim(i, node[i].currentTerm))

\* A candidate or leader gives way to a leader l of its own term, and gives up
\* the vote it had given itself.
GivesWay(i, l) ==
    /\ node'[i].currentTerm = node[i].currentTerm
    /\ node'[i].votedFor = Nil
    /\ node'[i].state = Follower
    /\ node'[i].leaderID = l
    /\ node[i].state # Follower
    /\ l # i
    /\ Claim(l, node[i].currentTerm) \in SentClaims
    /\ Grants' = Grants
    /\ SentClaims' = SentClaims

\* Node i enters a later term, as candidate or as follower, and as follower may
\* grant its vote there at once.
EntersTerm(i) ==
    /\ node'[i].currentTerm > node[i].currentTerm
    /\ \/ node'[i].state = Follower
       \/ /\ node'[i].state = Candidate
          /\ node'[i].votedFor = i
          /\ node'[i].votesGranted = {i}
    /\ node'[i].leaderID # Nil =>
         Claim(node'[i].leaderID, node'[i].currentTerm) \in SentClaims
    /\ Grants \subseteq Grants'
    /\ \A g \in Grants' :
         \/ g \in Grants
         \/ /\ g.from = i
            /\ g.term = node'[i].currentTerm
            /\ g.to = node'[i].votedFor
            /\ node'[i].state = Follower
    /\ SentClaims' = SentClaims

\* Node i grants its vote to c in its own term.
GrantsVote(i, c) ==
    /\ node'[i].currentTerm = node[i].currentTerm
    /\ node'[i].state = node[i].state
    /\ node'[i].votesGranted = node[i].votesGranted
    /\ node'[i].leaderID = node[i].leaderID
    /\ node[i].votedFor \in {Nil, c}
    /\ node'[i].votedFor = c
    /\ c # i
    /\ Grants \subseteq Grants'
    /\ \A g \in Grants' :
         g \in Grants \/ (g.from = i /\ g.term = node[i].currentTerm /\ g.to = c)
    /\ SentClaims' = SentClaims

\* A candidate with a majority of the votes becomes leader.
Wins(i) ==
    /\ node'[i].currentTerm = node[i].currentTerm
    /\ node'[i].votedFor = node[i].votedFor
    /\ node[i].state = Candidate
    /\ node'[i].state = Leader
    /\ node'[i].leaderID = i
    /\ 2 * Cardinality(Supporters(i, node[i].currentTerm)) > Cardinality(Server)
    /\ Grants' = Grants
    /\ SentClaims' = SentClaims \cup {Claim(i, node[i].currentTerm)}

\* What any step of node i is to the election.
ElectionStep(i) ==
    /\ OthersStay(i)
    /\ NoMessageToSelf'
    /\ \/ Stays(i)
       \/ \E l \in Server : GivesWay(i, l)
       \/ EntersTerm(i)
       \/ \E c \in Server : GrantsVote(i, c)
       \/ Wins(i)

-----------------------------------------------------------------------------
(***************************************************************************)
(* Types of claims and grants.                                             *)
(***************************************************************************)

\* A claim names a node and a term.
LEMMA ClaimTypes ==
    ASSUME LogInv
    PROVE  \A c \in Claims : /\ c.leader \in Server
                             /\ c.term \in Nat
                             /\ c = Claim(c.leader, c.term)
<1>1. \A c \in LeaderClaims : /\ c.leader \in Server
                              /\ c.term \in Nat
                              /\ c = Claim(c.leader, c.term)
    BY DEF LeaderClaims, Claim, LogInv, TypeOK, NodeState
<1>2. \A c \in SentClaims : /\ c.leader \in Server
                            /\ c.term \in Nat
                            /\ c = Claim(c.leader, c.term)
    <2>1. \A m \in sent : m.from \in Server /\ m.term \in Nat
        BY MessageFields DEF LogInv, TypeOK
    <2> QED
        BY <2>1 DEF SentClaims, Claim
<1> QED
    BY <1>1, <1>2 DEF Claims

\* A granted vote names its voter, its candidate and a term.
LEMMA GrantTypes ==
    ASSUME LogInv
    PROVE  \A m \in Grants : m.from \in Server /\ m.to \in Server /\ m.term \in Nat
BY MessageFields DEF LogInv, TypeOK, Grants

\* The fields of a claim.
LEMMA ClaimFields ==
    ASSUME NEW i, NEW t
    PROVE  Claim(i, t).leader = i /\ Claim(i, t).term = t
BY DEF Claim

\* A leader claims its own term.
LEMMA LeaderClaimed ==
    ASSUME NEW i \in Server, node[i].state = Leader
    PROVE  Claim(i, node[i].currentTerm) \in Claims
BY DEF Claims, LeaderClaims

\* Support never goes away, and majorities stay majorities.
LEMMA SupportGrows ==
    ASSUME Grants \subseteq Grants', NEW c, NEW t
    PROVE  /\ \A v : Supports(v, c, t) => Supports(v, c, t)'
           /\ 2 * Cardinality(Supporters(c, t)) > Cardinality(Server)
              => 2 * Cardinality(Supporters(c, t)') > Cardinality(Server)
<1>1. \A v : Supports(v, c, t) => Supports(v, c, t)'
    BY DEF Supports
<1>2. Supporters(c, t) \subseteq Supporters(c, t)' /\ Supporters(c, t)' \subseteq Server
    BY <1>1 DEF Supporters
<1>3. IsFiniteSet(Server)
    BY PeersAssumption
<1>4. IsFiniteSet(Supporters(c, t)') /\ Cardinality(Supporters(c, t)') \in Nat
    BY <1>2, <1>3, FS_Subset, FS_CardinalityType
<1>5. /\ Cardinality(Supporters(c, t)) <= Cardinality(Supporters(c, t)')
      /\ Cardinality(Supporters(c, t)) \in Nat
      /\ Cardinality(Server) \in Nat
    BY <1>2, <1>3, <1>4, FS_Subset, FS_CardinalityType
<1> QED
    BY <1>1, <1>4, <1>5

-----------------------------------------------------------------------------
(***************************************************************************)
(* Each of the five preserves the invariant.                               *)
(***************************************************************************)

\* When nobody becomes leader, there are no new claims.
LEMMA NoNewClaims ==
    ASSUME LogInv, NEW i \in Server, OthersStay(i),
           \/ Stays(i)
           \/ \E l \in Server : GivesWay(i, l)
           \/ EntersTerm(i)
           \/ \E c \in Server : GrantsVote(i, c)
    PROVE  Claims' \subseteq Claims
<1>1. \A j \in Server : node'[j].state = Leader =>
        node[j].state = Leader /\ node'[j].currentTerm = node[j].currentTerm
    BY DEF OthersStay, Stays, GivesWay, EntersTerm, GrantsVote, Leader, Follower, Candidate
<1>2. LeaderClaims' \subseteq LeaderClaims
    BY <1>1 DEF LeaderClaims
<1>3. \A c \in SentClaims' :
        c \in SentClaims \/ (node[i].state = Leader /\ c = Claim(i, node[i].currentTerm))
    BY DEF Stays, GivesWay, EntersTerm, GrantsVote
<1> QED
    BY <1>2, <1>3, LeaderClaimed DEF Claims

\* Without new claims, the properties of claims alone stay true.
LEMMA OldClaimsKeepMajorities ==
    ASSUME ElectionInv, Claims' \subseteq Claims, Grants \subseteq Grants'
    PROVE  OneLeaderPerTerm' /\ LeadersHaveMajorities'
<1>1. OneLeaderPerTerm'
    BY DEF ElectionInv, OneLeaderPerTerm
<1>2. LeadersHaveMajorities'
    BY SupportGrows DEF ElectionInv, LeadersHaveMajorities
<1> QED
    BY <1>1, <1>2

\* A node that stays in its term with its vote keeps the invariant: it makes no
\* claim it had not made, and counts no vote it was not granted.
LEMMA StaysPreserves ==
    ASSUME LogInv, ElectionInv, NoMessageToSelf',
           NEW i \in Server, OthersStay(i), Stays(i)
    PROVE  ElectionInv'
<1>1. Claims' \subseteq Claims /\ Grants' = Grants
    BY NoNewClaims DEF Stays
<1>2. OneLeaderPerTerm' /\ LeadersHaveMajorities'
    BY <1>1, OldClaimsKeepMajorities
<1>3. \A j \in Server : /\ node'[j].currentTerm = node[j].currentTerm
                        /\ node'[j].votedFor = node[j].votedFor
                        /\ node'[j].state \in {node[j].state, Follower}
    BY DEF OthersStay, Stays
<1>4. CandidatesVoteForThemselves'
    BY <1>3 DEF ElectionInv, CandidatesVoteForThemselves
<1>5. GrantsAreKept'
    BY <1>1, <1>3, GrantTypes DEF ElectionInv, GrantsAreKept
<1>6. GrantsAreUnique'
    BY <1>1 DEF ElectionInv, GrantsAreUnique
<1>7. LeadersKeepTheirVote'
    BY <1>1, <1>3, ClaimTypes DEF ElectionInv, LeadersKeepTheirVote
<1>8. LeadersGrantNothing'
    BY <1>1 DEF ElectionInv, LeadersGrantNothing
<1>9. CountedVotesAreGranted'
    <2> SUFFICES ASSUME NEW j \in Server, node'[j].state = Candidate,
                        NEW v \in node'[j].votesGranted
                 PROVE  Supports(v, j, node[j].currentTerm)'
        BY DEF CountedVotesAreGranted
    <2>1. node[j].state = Candidate
        BY <1>3 DEF Candidate, Follower
    <2>2. v \in node[j].votesGranted \/ Supports(v, j, node[j].currentTerm)
        BY DEF OthersStay, Stays
    <2>3. Supports(v, j, node[j].currentTerm)
        BY <2>1, <2>2 DEF ElectionInv, CountedVotesAreGranted
    <2> QED
        BY <1>1, <1>3, <2>3 DEF Supports
<1>10. LeaderIDsAreClaimed'
    <2> SUFFICES ASSUME NEW j \in Server, node'[j].leaderID # Nil
                 PROVE  \/ node'[j].leaderID = j /\ node'[j].state = Leader
                        \/ Claim(node'[j].leaderID, node'[j].currentTerm) \in SentClaims'
        BY DEF LeaderIDsAreClaimed, Claim
    <2>1. \/ node'[j].leaderID = node[j].leaderID /\ node'[j].state = node[j].state
          \/ Claim(node'[j].leaderID, node[j].currentTerm) \in SentClaims
        BY DEF OthersStay, Stays
    <2>2. SentClaims \subseteq SentClaims'
        BY DEF Stays
    <2> QED
        BY <1>3, <2>1, <2>2 DEF ElectionInv, LeaderIDsAreClaimed
<1> QED
    BY <1>2, <1>4, <1>5, <1>6, <1>7, <1>8, <1>9, <1>10 DEF ElectionInv

\* Clearing the vote of a candidate that gives way (node.go:411-415) is safe: it
\* voted for nobody else in the term, and the term's leader is another node.
LEMMA GivesWayPreserves ==
    ASSUME LogInv, ElectionInv, NoMessageToSelf',
           NEW i \in Server, NEW l \in Server, OthersStay(i), GivesWay(i, l)
    PROVE  ElectionInv'
<1>1. Claims' \subseteq Claims /\ Grants' = Grants
    BY NoNewClaims DEF GivesWay
<1>2. OneLeaderPerTerm' /\ LeadersHaveMajorities'
    BY <1>1, OldClaimsKeepMajorities
<1>3. \A j \in Server : node'[j].currentTerm = node[j].currentTerm
    BY DEF OthersStay, GivesWay
<1>4. \A j \in Server : node'[j].state # Follower => j # i /\ node'[j] = node[j]
    BY DEF OthersStay, GivesWay
<1>5. \A j \in Server \ {i} : node'[j] = node[j]
    BY DEF OthersStay
<1>6. CandidatesVoteForThemselves'
    BY <1>4 DEF ElectionInv, CandidatesVoteForThemselves
<1>7. GrantsAreKept'
    <2>1. \A m \in Grants : m.from = i => m.term # node[i].currentTerm
        BY DEF ElectionInv, GrantsAreKept, GivesWay
    <2> QED
        BY <1>1, <1>3, <1>5, <2>1, GrantTypes DEF ElectionInv, GrantsAreKept
<1>8. GrantsAreUnique'
    BY <1>1 DEF ElectionInv, GrantsAreUnique
<1>9. LeadersKeepTheirVote'
    <2>1. Claim(l, node[i].currentTerm) \in Claims /\ l # i
        BY DEF Claims, GivesWay
    <2>2. \A c \in Claims : c.leader = i => c.term # node[i].currentTerm
        BY <2>1, ClaimFields DEF ElectionInv, OneLeaderPerTerm
    <2> QED
        BY <1>1, <1>3, <1>5, <2>2, ClaimTypes DEF ElectionInv, LeadersKeepTheirVote
<1>10. LeadersGrantNothing'
    BY <1>1 DEF ElectionInv, LeadersGrantNothing
<1>11. CountedVotesAreGranted'
    <2> SUFFICES ASSUME NEW j \in Server, node'[j].state = Candidate,
                        NEW v \in node'[j].votesGranted
                 PROVE  Supports(v, j, node[j].currentTerm)'
        BY DEF CountedVotesAreGranted
    <2>1. node'[j] = node[j]
        BY <1>4 DEF Candidate, Follower
    <2>2. Supports(v, j, node[j].currentTerm)
        BY <2>1 DEF ElectionInv, CountedVotesAreGranted
    <2> QED
        BY <1>1, <2>1, <2>2 DEF Supports
<1>12. LeaderIDsAreClaimed'
    <2> SUFFICES ASSUME NEW j \in Server, node'[j].leaderID # Nil
                 PROVE  \/ node'[j].leaderID = j /\ node'[j].state = Leader
                        \/ Claim(node'[j].leaderID, node'[j].currentTerm) \in SentClaims'
        BY DEF LeaderIDsAreClaimed, Claim
    <2>1. SentClaims' = SentClaims
        BY DEF GivesWay
    <2>2. CASE j = i
        BY <2>1, <2>2 DEF GivesWay
    <2>3. CASE j # i
        BY <1>5, <2>1, <2>3 DEF ElectionInv, LeaderIDsAreClaimed
    <2> QED
        BY <2>2, <2>3
<1> QED
    BY <1>2, <1>6, <1>7, <1>8, <1>9, <1>10, <1>11, <1>12 DEF ElectionInv

\* Entering a later term is safe: the node has voted for nobody there yet.
LEMMA EntersTermPreserves ==
    ASSUME LogInv, LogInv', ElectionInv, NoMessageToSelf',
           NEW i \in Server, OthersStay(i), EntersTerm(i)
    PROVE  ElectionInv'
<1>1. Claims' \subseteq Claims /\ Grants \subseteq Grants'
    BY NoNewClaims DEF EntersTerm
<1>2. OneLeaderPerTerm' /\ LeadersHaveMajorities'
    BY <1>1, OldClaimsKeepMajorities
<1>3. \A j \in Server \ {i} : node'[j] = node[j]
    BY DEF OthersStay
<1>4. /\ node[i].currentTerm \in Nat /\ node'[i].currentTerm \in Nat
      /\ node'[i].currentTerm > node[i].currentTerm
    BY DEF LogInv, TypeOK, NodeState, EntersTerm
<1>5. \A g \in Grants' :
        \/ g \in Grants
        \/ /\ g.from = i
           /\ g.term = node'[i].currentTerm
           /\ g.to = node'[i].votedFor
           /\ node'[i].state = Follower
    BY DEF EntersTerm
<1>6. \A m \in Grants : m.from = i => m.term < node'[i].currentTerm
    BY <1>4, GrantTypes DEF ElectionInv, GrantsAreKept
<1>7. \A c \in Claims : c.leader = i => c.term < node'[i].currentTerm
    BY <1>4, ClaimTypes DEF ElectionInv, LeadersKeepTheirVote
<1>8. CandidatesVoteForThemselves'
    BY <1>3 DEF ElectionInv, CandidatesVoteForThemselves, EntersTerm
<1>9. GrantsAreKept'
    <2> SUFFICES ASSUME NEW m \in Grants'
                 PROVE  /\ m.term <= node'[m.from].currentTerm
                        /\ m.term = node'[m.from].currentTerm
                           => node'[m.from].state = Follower /\ node'[m.from].votedFor = m.to
        BY DEF GrantsAreKept
    <2>1. CASE m \in Grants /\ m.from = i
        BY <1>4, <1>6, <2>1, GrantTypes
    <2>2. CASE m \in Grants /\ m.from # i
        BY <1>3, <2>2, GrantTypes DEF ElectionInv, GrantsAreKept
    <2>3. CASE m \notin Grants
        BY <1>4, <1>5, <2>3
    <2> QED
        BY <2>1, <2>2, <2>3
<1>10. GrantsAreUnique'
    <2> SUFFICES ASSUME NEW m1 \in Grants', NEW m2 \in Grants',
                        m1.from = m2.from, m1.term = m2.term
                 PROVE  m1.to = m2.to
        BY DEF GrantsAreUnique
    <2>1. CASE m1 \in Grants /\ m2 \in Grants
        BY <2>1 DEF ElectionInv, GrantsAreUnique
    <2>2. CASE m1 \notin Grants /\ m2 \notin Grants
        BY <1>5, <2>2
    <2>3. CASE ~(m1 \in Grants <=> m2 \in Grants)
        BY <1>4, <1>5, <1>6, <2>3, GrantTypes
    <2> QED
        BY <2>1, <2>2, <2>3
<1>11. LeadersKeepTheirVote'
    <2> SUFFICES ASSUME NEW c \in Claims
                 PROVE  /\ c.term <= node'[c.leader].currentTerm
                        /\ c.term = node'[c.leader].currentTerm
                           => node'[c.leader].votedFor = c.leader
        BY <1>1 DEF LeadersKeepTheirVote
    <2>1. CASE c.leader = i
        BY <1>4, <1>7, <2>1, ClaimTypes
    <2>2. CASE c.leader # i
        BY <1>3, <2>2, ClaimTypes DEF ElectionInv, LeadersKeepTheirVote
    <2> QED
        BY <2>1, <2>2
<1>12. LeadersGrantNothing'
    <2> SUFFICES ASSUME NEW c \in Claims, NEW m \in Grants', m.from = c.leader
                 PROVE  m.term # c.term
        BY <1>1 DEF LeadersGrantNothing
    <2>1. CASE m \in Grants
        BY <2>1 DEF ElectionInv, LeadersGrantNothing
    <2>2. CASE m \notin Grants
        BY <1>4, <1>5, <1>7, <2>2, ClaimTypes
    <2> QED
        BY <2>1, <2>2
<1>13. CountedVotesAreGranted'
    <2> SUFFICES ASSUME NEW j \in Server, node'[j].state = Candidate,
                        NEW v \in node'[j].votesGranted
                 PROVE  Supports(v, j, node[j].currentTerm)'
        BY DEF CountedVotesAreGranted
    <2>1. CASE j = i
        <3>1. v = i
            BY <2>1 DEF EntersTerm, Candidate, Follower
        <3> QED
            BY <2>1, <3>1 DEF Supports
    <2>2. CASE j # i
        <3>1. Supports(v, j, node[j].currentTerm)
            BY <1>3, <2>2 DEF ElectionInv, CountedVotesAreGranted
        <3> QED
            BY <1>1, <1>3, <2>2, <3>1 DEF Supports
    <2> QED
        BY <2>1, <2>2
<1>14. LeaderIDsAreClaimed'
    <2> SUFFICES ASSUME NEW j \in Server, node'[j].leaderID # Nil
                 PROVE  \/ node'[j].leaderID = j /\ node'[j].state = Leader
                        \/ Claim(node'[j].leaderID, node'[j].currentTerm) \in SentClaims'
        BY DEF LeaderIDsAreClaimed, Claim
    <2>1. SentClaims' = SentClaims
        BY DEF EntersTerm
    <2>2. CASE j = i
        BY <2>1, <2>2 DEF EntersTerm
    <2>3. CASE j # i
        BY <1>3, <2>1, <2>3, SMTT(30) DEF ElectionInv, LeaderIDsAreClaimed
    <2> QED
        BY <2>2, <2>3
<1> QED
    BY <1>2, <1>8, <1>9, <1>10, <1>11, <1>12, <1>13, <1>14 DEF ElectionInv

\* Granting a vote (handleRequestVote) is safe: whoever still has a vote to give
\* in its term has given none to another node and has not led the term.
LEMMA GrantsVotePreserves ==
    ASSUME LogInv, ElectionInv, NoMessageToSelf',
           NEW i \in Server, NEW c \in Server, OthersStay(i), GrantsVote(i, c)
    PROVE  ElectionInv'
<1>1. Claims' \subseteq Claims /\ Grants \subseteq Grants'
    BY NoNewClaims DEF GrantsVote
<1>2. OneLeaderPerTerm' /\ LeadersHaveMajorities'
    BY <1>1, OldClaimsKeepMajorities
<1>3. \A j \in Server : /\ node'[j].currentTerm = node[j].currentTerm
                        /\ node'[j].state = node[j].state
                        /\ node'[j].votesGranted = node[j].votesGranted
                        /\ node'[j].leaderID = node[j].leaderID
                        /\ j # i => node'[j].votedFor = node[j].votedFor
    BY DEF OthersStay, GrantsVote
<1>4. node[i].votedFor # i /\ node[i].state = Follower
    BY NilAssumption DEF GrantsVote, ElectionInv, CandidatesVoteForThemselves
<1>5. \A g \in Grants : g.from = i /\ g.term = node[i].currentTerm => g.to = c
    BY GrantTypes, NilAssumption DEF GrantsVote, ElectionInv, GrantsAreKept
<1>6. \A d \in Claims : d.leader = i => d.term # node[i].currentTerm
    BY <1>4 DEF ElectionInv, LeadersKeepTheirVote
<1>7. \A g \in Grants' :
        g \in Grants \/ (g.from = i /\ g.term = node[i].currentTerm /\ g.to = c)
    BY DEF GrantsVote
<1>8. CandidatesVoteForThemselves'
    BY <1>3, <1>4 DEF ElectionInv, CandidatesVoteForThemselves
<1>9. GrantsAreKept'
    <2> SUFFICES ASSUME NEW m \in Grants'
                 PROVE  /\ m.term <= node'[m.from].currentTerm
                        /\ m.term = node'[m.from].currentTerm
                           => node'[m.from].state = Follower /\ node'[m.from].votedFor = m.to
        BY DEF GrantsAreKept
    <2>1. node[i].currentTerm \in Nat /\ node'[i].votedFor = c
        BY DEF LogInv, TypeOK, NodeState, GrantsVote
    <2>2. CASE m \in Grants /\ m.from # i
        BY <1>3, <2>2, GrantTypes DEF ElectionInv, GrantsAreKept
    <2>3. CASE m \in Grants /\ m.from = i
        BY <1>3, <1>4, <1>5, <2>1, <2>3 DEF ElectionInv, GrantsAreKept
    <2>4. CASE m \notin Grants
        BY <1>3, <1>4, <1>7, <2>1, <2>4
    <2> QED
        BY <2>2, <2>3, <2>4
<1>10. GrantsAreUnique'
    BY <1>5, <1>7 DEF ElectionInv, GrantsAreUnique
<1>11. LeadersKeepTheirVote'
    BY <1>1, <1>3, <1>6, ClaimTypes DEF ElectionInv, LeadersKeepTheirVote
<1>12. LeadersGrantNothing'
    BY <1>1, <1>6, <1>7 DEF ElectionInv, LeadersGrantNothing
<1>13. CountedVotesAreGranted'
    <2> SUFFICES ASSUME NEW j \in Server, node'[j].state = Candidate,
                        NEW v \in node'[j].votesGranted
                 PROVE  Supports(v, j, node[j].currentTerm)'
        BY DEF CountedVotesAreGranted
    <2>1. Supports(v, j, node[j].currentTerm)
        BY <1>3 DEF ElectionInv, CountedVotesAreGranted
    <2> QED
        BY <1>1, <1>3, <2>1 DEF Supports
<1>14. LeaderIDsAreClaimed'
    <2>1. SentClaims' = SentClaims
        BY DEF GrantsVote
    <2> QED
        BY <1>3, <2>1 DEF ElectionInv, LeaderIDsAreClaimed, Claim
<1> QED
    BY <1>2, <1>8, <1>9, <1>10, <1>11, <1>12, <1>13, <1>14 DEF ElectionInv

\* The heart of the matter: two majorities of one term share a node, and what
\* that node did contradicts one of the two.
LEMMA WinnerIsAlone ==
    ASSUME LogInv, ElectionInv, NEW i \in Server,
           node[i].state = Candidate,
           2 * Cardinality(Supporters(i, node[i].currentTerm)) > Cardinality(Server)
    PROVE  \A d \in Claims : d.term = node[i].currentTerm => d.leader = i
<1> DEFINE t == node[i].currentTerm
<1> SUFFICES ASSUME NEW d \in Claims, d.term = t, d.leader # i
             PROVE  FALSE
    OBVIOUS
<1> DEFINE S == Supporters(i, t)
           D == Supporters(d.leader, t)
<1>1. S \subseteq Server /\ D \subseteq Server
    BY DEF Supporters
<1>2. /\ IsFiniteSet(Server)
      /\ Cardinality(Server) \in Nat /\ Cardinality(S) \in Nat /\ Cardinality(D) \in Nat
    BY <1>1, PeersAssumption, FS_Subset, FS_CardinalityType
<1>3. 2 * Cardinality(D) > Cardinality(Server)
    BY DEF ElectionInv, LeadersHaveMajorities
<1> HIDE DEF S, D
<1>4. Cardinality(S) + Cardinality(D) > Cardinality(Server)
    BY <1>2, <1>3 DEF S
<1>5. PICK v \in S : v \in D
    BY <1>1, <1>2, <1>4, FS_MajoritiesIntersect, Zenon
<1>6. /\ v = i \/ \E m \in Grants : m.from = v /\ m.to = i /\ m.term = t
      /\ v = d.leader \/ \E m \in Grants : m.from = v /\ m.to = d.leader /\ m.term = t
    BY <1>5 DEF S, D, Supporters, Supports
<1>7. CASE v = i
    BY <1>6, <1>7 DEF ElectionInv, GrantsAreKept, Candidate, Follower
<1>8. CASE v = d.leader
    BY <1>6, <1>8 DEF ElectionInv, LeadersGrantNothing
<1>9. CASE v # i /\ v # d.leader
    BY <1>6, <1>9 DEF ElectionInv, GrantsAreUnique
<1> QED
    BY <1>7, <1>8, <1>9

\* Becoming leader with a majority (becomeLeader) is safe: nobody else led the term.
LEMMA WinsPreserves ==
    ASSUME LogInv, ElectionInv, NoMessageToSelf',
           NEW i \in Server, OthersStay(i), Wins(i)
    PROVE  ElectionInv'
<1> DEFINE t == node[i].currentTerm
           w == Claim(i, t)
<1>1. Grants' = Grants
    BY DEF Wins
<1>2. \A j \in Server : /\ node'[j].currentTerm = node[j].currentTerm
                        /\ node'[j].votedFor = node[j].votedFor
                        /\ j # i => node'[j] = node[j]
    BY DEF OthersStay, Wins
<1>3. node[i].votedFor = i /\ node'[i].state = Leader /\ node[i].state = Candidate
    BY DEF Wins, ElectionInv, CandidatesVoteForThemselves, Candidate, Follower
<1>4. \A c \in Claims' : c \in Claims \/ c = w
    <2>1. \A c \in LeaderClaims' : c \in LeaderClaims \/ c = w
        BY <1>2 DEF LeaderClaims, Claim
    <2>2. \A c \in SentClaims' : c \in SentClaims \/ c = w
        BY DEF Wins
    <2> QED
        BY <2>1, <2>2 DEF Claims
<1>5. w.leader = i /\ w.term = t
    BY ClaimFields
<1>6. t \in Nat
    BY DEF LogInv, TypeOK, NodeState
<1>7. 2 * Cardinality(Supporters(i, t)) > Cardinality(Server)
    BY DEF Wins
<1>8. \A d \in Claims : d.term = t => d.leader = i
    BY <1>3, <1>7, WinnerIsAlone
<1> HIDE DEF w
<1>9. OneLeaderPerTerm'
    BY <1>4, <1>5, <1>8 DEF ElectionInv, OneLeaderPerTerm
<1>10. LeadersHaveMajorities'
    <2> SUFFICES ASSUME NEW c \in Claims'
                 PROVE  2 * Cardinality(Supporters(c.leader, c.term)') > Cardinality(Server)
        BY DEF LeadersHaveMajorities
    <2>1. Supporters(c.leader, c.term)' = Supporters(c.leader, c.term)
        BY <1>1 DEF Supporters, Supports
    <2>2. 2 * Cardinality(Supporters(c.leader, c.term)) > Cardinality(Server)
        BY <1>4, <1>5, <1>7 DEF ElectionInv, LeadersHaveMajorities
    <2> QED
        BY <2>1, <2>2
<1>11. CandidatesVoteForThemselves'
    BY <1>2, <1>3 DEF ElectionInv, CandidatesVoteForThemselves
<1>12. GrantsAreKept' /\ GrantsAreUnique'
    <2>1. \A m \in Grants : m.from = i => m.term # t
        BY <1>3 DEF ElectionInv, GrantsAreKept, Candidate, Follower
    <2>2. GrantsAreKept'
        BY <1>1, <1>2, <2>1, GrantTypes DEF ElectionInv, GrantsAreKept
    <2> QED
        BY <1>1, <2>2 DEF ElectionInv, GrantsAreUnique
<1>13. LeadersKeepTheirVote'
    BY <1>2, <1>3, <1>4, <1>5, <1>6, ClaimTypes, SMTT(30) DEF ElectionInv, LeadersKeepTheirVote
<1>14. LeadersGrantNothing'
    BY <1>1, <1>3, <1>4, <1>5
       DEF ElectionInv, LeadersGrantNothing, GrantsAreKept, Candidate, Follower
<1>15. CountedVotesAreGranted'
    <2> SUFFICES ASSUME NEW j \in Server, node'[j].state = Candidate,
                        NEW v \in node'[j].votesGranted
                 PROVE  Supports(v, j, node[j].currentTerm)'
        BY DEF CountedVotesAreGranted
    <2>1. node'[j] = node[j]
        BY <1>2, <1>3 DEF Candidate, Leader
    <2>2. Supports(v, j, node[j].currentTerm)
        BY <2>1 DEF ElectionInv, CountedVotesAreGranted
    <2> QED
        BY <1>1, <2>1, <2>2 DEF Supports
<1>16. LeaderIDsAreClaimed'
    <2>1. SentClaims \subseteq SentClaims' /\ node'[i].leaderID = i
        BY DEF Wins
    <2> QED
        BY <1>2, <1>3, <2>1 DEF ElectionInv, LeaderIDsAreClaimed, Claim
<1> QED
    BY <1>9, <1>10, <1>11, <1>12, <1>13, <1>14, <1>15, <1>16, SMTT(30) DEF ElectionInv

-----------------------------------------------------------------------------
(***************************************************************************)
(* Every action is one of the five.                                        *)
(***************************************************************************)

\* What a call of node i that returned r does to the state.
LEMMA ApplySays ==
    ASSUME LogInv, NEW i \in Server, NEW r, Apply(i, r)
    PROVE  OthersStay(i) /\ node'[i] = r.node /\ sent' = sent \cup r.out
<1>1. node \in [Server -> NodeState]
    BY DEF LogInv, TypeOK
<1> QED
    BY <1>1 DEF Apply, Send, OthersStay

\* Sending neither AppendEntries nor votes changes neither claims nor grants.
LEMMA SilentOut ==
    ASSUME NEW out, sent' = sent \cup out,
           \A m \in out : m.type # "AppendEntries" /\ m.type # "RequestVoteResp"
    PROVE  Grants' = Grants /\ SentClaims' = SentClaims
BY DEF Grants, SentClaims

\* Sending only the AppendEntries of node i in term t adds at most one claim.
LEMMA LeaderOut ==
    ASSUME NEW out, NEW i, NEW t, sent' = sent \cup out,
           \A m \in out : m.type = "AppendEntries" /\ m.from = i /\ m.term = t
    PROVE  /\ Grants' = Grants
           /\ SentClaims \subseteq SentClaims'
           /\ \A c \in SentClaims' : c \in SentClaims \/ c = Claim(i, t)
BY DEF Grants, SentClaims

\* Sending only answers to a vote request adds no claim, and no more grants
\* than were sent.
LEMMA VoterOut ==
    ASSUME NEW out, sent' = sent \cup out,
           \A m \in out : m.type = "RequestVoteResp"
    PROVE  /\ SentClaims' = SentClaims
           /\ Grants \subseteq Grants'
           /\ \A g \in Grants' : g \in Grants \/ (g \in out /\ g.granted)
BY DEF Grants, SentClaims

\* Messages for peers, and answers to peers, are not for the sender itself.
LEMMA NobodySendsToSelf ==
    ASSUME NoMessageToSelf, NEW out, sent' = sent \cup out,
           \A m \in out : m.from # m.to
    PROVE  NoMessageToSelf'
BY DEF NoMessageToSelf

\* startElection enters a new term as candidate, with the node's own vote.
LEMMA ElectionTimeoutElects ==
    ASSUME OthersArePeers, LogInv, LogInv', ElectionInv,
           NEW i \in Server, ElectionTimeout(i)
    PROVE  ElectionStep(i)
<1> DEFINE n == node[i]
           r == StartElection(i, n)
<1>1. OthersStay(i) /\ node'[i] = r.node /\ sent' = sent \cup r.out
    BY ApplySays DEF ElectionTimeout
<1>2. n \in NodeState /\ n.currentTerm \in Nat
    BY DEF LogInv, TypeOK, NodeState
<1>3. /\ r.node.currentTerm = n.currentTerm + 1
      /\ r.node.state = Candidate
      /\ r.node.votedFor = i
      /\ r.node.votesGranted = {i}
      /\ r.node.leaderID = Nil
    BY <1>2, ZenonT(30) DEF StartElection, Returns, NodeState
<1>4. \A m \in r.out : m.type = "RequestVote" /\ m.from = i /\ m.to \in Peers[i]
    BY DEF StartElection, Returns, RequestVote
<1> HIDE DEF r
<1>5. Grants' = Grants /\ SentClaims' = SentClaims
    BY <1>1, <1>4, SilentOut
<1>6. NoMessageToSelf'
    BY <1>1, <1>4, NobodySendsToSelf DEF OthersArePeers, ElectionInv
<1>7. EntersTerm(i)
    BY <1>1, <1>2, <1>3, <1>5 DEF EntersTerm
<1> QED
    BY <1>1, <1>6, <1>7 DEF ElectionStep

\* Every AppendEntries of a broadcast is from the node, in its term, to a peer.
LEMMA BroadcastOut ==
    ASSUME NEW i, NEW n
    PROVE  \A m \in BroadcastAppendEntries(i, n) :
               /\ m.type = "AppendEntries"
               /\ m.from = i
               /\ m.to \in Peers[i]
               /\ m.term = n.currentTerm
BY DEF BroadcastAppendEntries, AppendEntriesTo, AppendEntries

\* A call that keeps term, vote and role, or drops to follower, and sends
\* nothing that matters to elections.
LEMMA QuietStep ==
    ASSUME LogInv, ElectionInv, NEW i \in Server, NEW r, Apply(i, r),
           r.node.currentTerm = node[i].currentTerm,
           r.node.votedFor = node[i].votedFor,
           r.node.state \in {node[i].state, Follower},
           r.node.state = Candidate => r.node.votesGranted = node[i].votesGranted,
           \/ r.node.leaderID = Nil /\ r.node.state = Follower
           \/ r.node.leaderID = node[i].leaderID /\ r.node.state = node[i].state,
           \A m \in r.out : /\ m.type # "AppendEntries"
                            /\ m.type # "RequestVoteResp"
                            /\ m.from # m.to
    PROVE  ElectionStep(i)
<1>1. OthersStay(i) /\ node'[i] = r.node /\ sent' = sent \cup r.out
    BY ApplySays
<1>2. Grants' = Grants /\ SentClaims' = SentClaims
    BY <1>1, SilentOut
<1>3. NoMessageToSelf'
    BY <1>1, NobodySendsToSelf, Zenon DEF ElectionInv
<1>4. Stays(i)
    BY <1>1, <1>2 DEF Stays, Follower, Leader
<1> QED
    BY <1>1, <1>3, <1>4 DEF ElectionStep

\* A heartbeat repeats the leader's claim to its term.
LEMMA HeartbeatElects ==
    ASSUME OthersArePeers, LogInv, ElectionInv, NEW i \in Server, Heartbeat(i)
    PROVE  ElectionStep(i)
<1> DEFINE out == BroadcastAppendEntries(i, node[i])
           r == Returns(node[i], out, FALSE)
<1>1. OthersStay(i) /\ node'[i] = r.node /\ sent' = sent \cup r.out
    BY ApplySays, Zenon DEF Heartbeat
<1>2. OthersStay(i) /\ node'[i] = node[i] /\ sent' = sent \cup out
    BY <1>1 DEF Returns
<1>3. node[i].state = Leader
    BY DEF Heartbeat
<1> HIDE DEF out, r
<1>4. \A m \in out : /\ m.type = "AppendEntries"
                     /\ m.from = i
                     /\ m.to \in Peers[i]
                     /\ m.term = node[i].currentTerm
    BY BroadcastOut DEF out
<1>5. /\ Grants' = Grants
      /\ SentClaims \subseteq SentClaims'
      /\ \A c \in SentClaims' : c \in SentClaims \/ c = Claim(i, node[i].currentTerm)
    BY <1>2, <1>4, LeaderOut, ZenonT(30)
<1>6. NoMessageToSelf'
    BY <1>2, <1>4, NobodySendsToSelf DEF OthersArePeers, ElectionInv
<1>7. Stays(i)
    BY <1>2, <1>3, <1>5 DEF Stays
<1> QED
    BY <1>2, <1>6, <1>7 DEF ElectionStep

\* Propose only extends the log; Crash drops to follower; Restart brings back
\* the term and the vote of the crashed follower.
LEMMA ProposeElects ==
    ASSUME LogInv, ElectionInv, NEW i \in Server, NEW cmd \in Command, Propose(i, cmd)
    PROVE  ElectionStep(i)
<1> DEFINE r == Returns(NodePropose(node[i], cmd), {}, FALSE)
<1>1. Apply(i, r)
    BY Zenon DEF Propose
<1>2. node[i] \in NodeState
    BY DEF LogInv, TypeOK
<1>3. /\ r.node.currentTerm = node[i].currentTerm
      /\ r.node.votedFor = node[i].votedFor
      /\ r.node.state = node[i].state
      /\ r.node.votesGranted = node[i].votesGranted
      /\ r.node.leaderID = node[i].leaderID
      /\ r.out = {}
    BY <1>2 DEF NodePropose, Returns, NodeState
<1> HIDE DEF r
<1> QED
    BY <1>1, <1>3, QuietStep

\* Crash keeps term and vote and drops the role.
LEMMA CrashElects ==
    ASSUME LogInv, ElectionInv, NEW i \in Server, Crash(i)
    PROVE  ElectionStep(i)
<1> DEFINE r == Returns(NodeCrash(node[i]), {}, FALSE)
<1>1. Apply(i, r)
    BY Zenon DEF Crash
<1>2. node[i] \in NodeState
    BY DEF LogInv, TypeOK
<1>3. /\ r.node.currentTerm = node[i].currentTerm
      /\ r.node.votedFor = node[i].votedFor
      /\ r.node.state = Follower
      /\ r.node.leaderID = Nil
      /\ r.out = {}
    BY <1>2, Zenon DEF NodeCrash, Returns, NodeState
<1> HIDE DEF r
<1> QED
    BY <1>1, <1>3, QuietStep DEF Follower, Candidate

\* Restart brings back term and vote, as a follower.
LEMMA RestartElects ==
    ASSUME LogInv, ElectionInv, NEW i \in Server, Restart(i)
    PROVE  ElectionStep(i)
<1> DEFINE n == node[i]
           l == LogAppend(NewLog, n.log.entries)
           r == Returns(NodeRestart(n), {}, TRUE)
<1>1. Apply(i, r)
    BY Zenon DEF Restart
<1>2. n \in NodeState /\ GoodNode(n)
    BY LogInvSaysGood DEF GoodNode
<1>3. NodeRestart(n) = [NewNode EXCEPT !.currentTerm = n.currentTerm,
                                       !.votedFor    = n.votedFor,
                                       !.log         = l]
    BY <1>2, NodeRestartRestores, Zenon
<1> HIDE DEF l
<1>4. /\ r.node.currentTerm = n.currentTerm
      /\ r.node.votedFor = n.votedFor
      /\ r.node.state = Follower
      /\ r.node.leaderID = Nil
      /\ r.out = {}
    BY <1>3, Zenon DEF Returns, NewNode
<1> HIDE DEF r
<1> QED
    BY <1>1, <1>4, QuietStep DEF Follower, Candidate

\* stepDown enters the later term of the message it saw.
LEMMA StepDownElects ==
    ASSUME LogInv, LogInv', ElectionInv, NEW i \in Server, NEW t \in Nat,
           t > node[i].currentTerm, Apply(i, StepDown(node[i], t))
    PROVE  ElectionStep(i)
<1> DEFINE n == node[i]
           r == StepDown(n, t)
<1>1. OthersStay(i) /\ node'[i] = r.node /\ sent' = sent \cup r.out
    BY ApplySays
<1>2. n \in NodeState
    BY DEF LogInv, TypeOK
<1>3. /\ r.node.currentTerm = t
      /\ r.node.state = Follower
      /\ r.node.leaderID = Nil
      /\ r.out = {}
    BY <1>2, Zenon DEF StepDown, Returns, NodeState
<1> HIDE DEF r
<1>4. Grants' = Grants /\ SentClaims' = SentClaims
    BY <1>1, <1>3, SilentOut
<1>5. NoMessageToSelf'
    BY <1>1, <1>3, NobodySendsToSelf DEF ElectionInv
<1>6. EntersTerm(i)
    BY <1>1, <1>3, <1>4 DEF EntersTerm
<1> QED
    BY <1>1, <1>5, <1>6 DEF ElectionStep

\* What handleRequestVote does with the vote, by the three ways out of it.
VoteOutcome(i, n, m, r, grant) ==
    /\ r.out = {RequestVoteResp(i, m.from, r.node.currentTerm, grant)}
    /\ m.term > n.currentTerm =>
         /\ r.node.currentTerm = m.term
         /\ r.node.state = Follower
         /\ r.node.leaderID = Nil
         /\ grant => r.node.votedFor = m.from
    /\ ~(m.term > n.currentTerm) /\ grant =>
         /\ n.votedFor \in {Nil, m.from}
         /\ r.node = [n EXCEPT !.votedFor = m.from]
    /\ ~(m.term > n.currentTerm) /\ ~grant => r.node = n

\* handleRequestVote has one of these outcomes.
LEMMA HandleRequestVoteSays ==
    ASSUME NEW i, NEW n \in NodeState, NEW m \in Message, m.type = "RequestVote",
           NEW r, r = HandleRequestVote(i, n, m)
    PROVE  \E grant \in BOOLEAN : VoteOutcome(i, n, m, r, grant)
<1> DEFINE f == IF m.term > n.currentTerm
                THEN [n EXCEPT !.currentTerm = m.term,
                               !.votedFor    = Nil,
                               !.state       = Follower,
                               !.leaderID    = Nil]
                ELSE n
           grant == /\ m.term >= n.currentTerm
                    /\ f.votedFor \in {Nil, m.from}
                    /\ IsUpToDate(f, m.lastLogIndex, m.lastLogTerm)
           g == IF grant THEN [f EXCEPT !.votedFor = m.from] ELSE f
<1>1. /\ r.node = g
      /\ r.out = {RequestVoteResp(i, m.from, f.currentTerm, grant)}
    BY DEF HandleRequestVote, Returns
<1>2. m.from \in Server /\ m.term \in Nat
    BY MessageFields
<1>3. grant \in BOOLEAN /\ (grant => f.votedFor \in {Nil, m.from})
    OBVIOUS
<1>4. /\ f \in NodeState
      /\ m.term > n.currentTerm =>
            f.currentTerm = m.term /\ f.state = Follower /\ f.leaderID = Nil
      /\ ~(m.term > n.currentTerm) => f = n
    BY <1>2, Zenon DEF NodeState
<1> HIDE DEF f, grant
<1>5. /\ g.currentTerm = f.currentTerm
      /\ g.state = f.state
      /\ g.leaderID = f.leaderID
      /\ grant => g.votedFor = m.from
    BY <1>4 DEF NodeState
<1> HIDE DEF g
<1>6. VoteOutcome(i, n, m, r, grant)
    BY <1>1, <1>3, <1>4, <1>5 DEF g, VoteOutcome
<1> QED
    BY <1>3, <1>6

\* A vote request of a later term takes the node there; one of its own term may
\* get its vote; any other changes nothing.
LEMMA ReceiveRequestVoteElects ==
    ASSUME LogInv, LogInv', ElectionInv,
           NEW i \in Server, NEW m \in net, ReceiveRequestVote(i, m)
    PROVE  ElectionStep(i)
<1> DEFINE n == node[i]
           r == HandleRequestVote(i, n, m)
<1>1. OthersStay(i) /\ node'[i] = r.node /\ sent' = sent \cup r.out
    BY ApplySays DEF ReceiveRequestVote
<1>2. n \in NodeState /\ m \in Message /\ m.type = "RequestVote" /\ m.to = i /\ m \in sent
    BY DEF LogInv, TypeOK, ReceiveRequestVote, Receive
<1>3. m.from # i /\ m.from \in Server /\ m.term \in Nat /\ n.currentTerm \in Nat
    BY <1>2, MessageFields DEF ElectionInv, NoMessageToSelf, NodeState
<1>4. PICK grant \in BOOLEAN : VoteOutcome(i, n, m, r, grant)
    BY <1>2, HandleRequestVoteSays
<1> HIDE DEF r
<1>5. \A x \in r.out : /\ x.type = "RequestVoteResp"
                       /\ x.from = i
                       /\ x.to = m.from
                       /\ x.term = r.node.currentTerm
                       /\ x.granted = grant
    BY <1>4 DEF RequestVoteResp, VoteOutcome
<1>6. /\ SentClaims' = SentClaims
      /\ Grants \subseteq Grants'
      /\ \A g \in Grants' : g \in Grants \/ (g \in r.out /\ g.granted)
    BY <1>1, <1>5, VoterOut, Zenon
<1>7. \A g \in Grants' :
        \/ g \in Grants
        \/ g.from = i /\ g.to = m.from /\ g.term = r.node.currentTerm /\ grant
    BY <1>5, <1>6
<1>8. NoMessageToSelf'
    BY <1>1, <1>3, <1>5, NobodySendsToSelf DEF ElectionInv
<1>9. CASE m.term > n.currentTerm
    <2>1. EntersTerm(i)
        BY <1>1, <1>4, <1>6, <1>7, <1>9, SMTT(30) DEF EntersTerm, VoteOutcome
    <2> QED
        BY <1>1, <1>8, <2>1 DEF ElectionStep
<1>10. CASE ~(m.term > n.currentTerm) /\ grant
    <2>1. /\ r.node.currentTerm = n.currentTerm
          /\ r.node.state = n.state
          /\ r.node.votesGranted = n.votesGranted
          /\ r.node.leaderID = n.leaderID
          /\ r.node.votedFor = m.from
        BY <1>2, <1>4, <1>10 DEF NodeState, VoteOutcome
    <2>2. GrantsVote(i, m.from)
        BY <1>1, <1>3, <1>4, <1>6, <1>7, <1>10, <2>1, SMTT(30) DEF GrantsVote, VoteOutcome
    <2> QED
        BY <1>1, <1>3, <1>8, <2>2 DEF ElectionStep
<1>11. CASE ~(m.term > n.currentTerm) /\ ~grant
    <2>1. Grants' = Grants /\ node'[i] = node[i]
        BY <1>1, <1>4, <1>6, <1>7, <1>11, SMTT(30) DEF VoteOutcome
    <2>2. Stays(i)
        BY <1>6, <2>1 DEF Stays
    <2> QED
        BY <1>1, <1>8, <2>2 DEF ElectionStep
<1> QED
    BY <1>9, <1>10, <1>11

\* Votes counted up to majority() are votes of more than half of the nodes.
LEMMA CountedMajority ==
    ASSUME OthersArePeers, NEW i \in Server, NEW n, NEW t,
           n.votesGranted \subseteq Server,
           \A v \in n.votesGranted : Supports(v, i, t),
           CountVotes(i, n) >= Majority(i)
    PROVE  2 * Cardinality(Supporters(i, t)) > Cardinality(Server)
<1> DEFINE P == Server \ {i}
           W == P \cap n.votesGranted
           S == Supporters(i, t)
<1>1. Peers[i] = P
    BY DEF OthersArePeers
<1>2. IsFiniteSet(Server)
    BY PeersAssumption
<1>3. /\ IsFiniteSet(P) /\ IsFiniteSet(W) /\ IsFiniteSet(S)
      /\ W \cup {i} \subseteq S
    BY <1>2, FS_Subset DEF Supporters, Supports
<1>4. /\ Cardinality(P) = Cardinality(Server) - 1
      /\ Cardinality(Server) \in Nat
      /\ Cardinality(S) \in Nat
    BY <1>2, <1>3, FS_RemoveElement, FS_CardinalityType, SMTT(30)
<1>5. /\ Cardinality(W \cup {i}) = Cardinality(W) + 1
      /\ Cardinality(W) \in Nat
    BY <1>3, FS_AddElement, FS_CardinalityType, Zenon
<1>6. Cardinality(W) + 1 <= Cardinality(S)
    <2>1. Cardinality(W \cup {i}) <= Cardinality(S)
        BY <1>3, FS_Subset
    <2> QED
        BY <1>5, <2>1
<1>7. (Cardinality(P) + 1) \div 2 + 1 = Majority(i)
    BY <1>1 DEF Majority
<1>8. CountVotes(i, n) = (IF i \in n.votesGranted THEN 1 ELSE 0) + Cardinality(W)
    BY <1>1 DEF CountVotes
<1> HIDE DEF P, W, S
<1>9. CountVotes(i, n) <= Cardinality(W) + 1
    BY <1>5, <1>8
<1>10. Majority(i) = Cardinality(Server) \div 2 + 1
    BY <1>4, <1>7
<1>11. Cardinality(Server) \div 2 + 1 <= Cardinality(S)
    BY <1>4, <1>5, <1>6, <1>8, <1>9, <1>10, SMTT(30)
<1> QED
    BY <1>4, <1>11 DEF S

\* An answer to a vote request counts only for a candidate still in that term;
\* the one that completes a majority makes it leader.
LEMMA ReceiveRequestVoteRespElects ==
    ASSUME OthersArePeers, LogInv, LogInv', ElectionInv,
           NEW i \in Server, NEW m \in net, ReceiveRequestVoteResp(i, m)
    PROVE  ElectionStep(i)
<1> DEFINE n == node[i]
           t == n.currentTerm
           counts == m.term = t /\ n.state = Candidate
           c == IF counts /\ m.granted
                THEN [n EXCEPT !.votesGranted = n.votesGranted \cup {m.from}]
                ELSE n
           r == HandleRequestVoteResp(i, n, m)
<1>1. /\ Apply(i, r)
      /\ m \in Message /\ m \in sent /\ m.type = "RequestVoteResp" /\ m.to = i
    BY DEF LogInv, TypeOK, ReceiveRequestVoteResp, Receive
<1>2. n \in NodeState /\ n.votesGranted \subseteq Server /\ t \in Nat
    BY DEF LogInv, TypeOK, NodeState
<1>3. m.from \in Server /\ m.term \in Nat
    BY <1>1, MessageFields
<1>4. /\ c \in NodeState
      /\ c.currentTerm = t
      /\ c.votedFor = n.votedFor
      /\ c.state = n.state
      /\ c.leaderID = n.leaderID
      /\ c.votesGranted =
            IF counts /\ m.granted THEN n.votesGranted \cup {m.from} ELSE n.votesGranted
    BY <1>2, <1>3 DEF NodeState
<1>5. m.term > t => r = StepDown(n, m.term)
    BY DEF HandleRequestVoteResp
<1>6. ~(m.term > t) /\ counts /\ CountVotes(i, c) >= Majority(i) => r = BecomeLeader(i, c)
    BY DEF HandleRequestVoteResp
<1>7. ~(m.term > t) /\ ~(counts /\ CountVotes(i, c) >= Majority(i))
      => r = Returns(c, {}, FALSE)
    BY ZenonT(30) DEF HandleRequestVoteResp
<1> HIDE DEF c, r
<1>8. \A v \in c.votesGranted : v \in n.votesGranted \/ Supports(v, i, t)
    BY <1>1, <1>4 DEF Supports, Grants
<1>9. CASE m.term > t
    BY <1>1, <1>3, <1>5, <1>9, StepDownElects
<1>10. CASE ~(m.term > t) /\ ~(counts /\ CountVotes(i, c) >= Majority(i))
    <2>1. r.node = c /\ r.out = {}
        BY <1>7, <1>10 DEF Returns
    <2>2. OthersStay(i) /\ node'[i] = c /\ sent' = sent \cup r.out
        BY <1>1, <2>1, ApplySays
    <2>3. Grants' = Grants /\ SentClaims' = SentClaims
        BY <2>1, <2>2, SilentOut, SMTT(30)
    <2>4. NoMessageToSelf'
        BY <2>1, <2>2, NobodySendsToSelf, SMTT(30) DEF ElectionInv
    <2>5. Stays(i)
        BY <1>4, <1>8, <2>2, <2>3, SMTT(30) DEF Stays
    <2> QED
        BY <2>2, <2>4, <2>5 DEF ElectionStep
<1>11. CASE ~(m.term > t) /\ counts /\ CountVotes(i, c) >= Majority(i)
    <2>1. \A v \in c.votesGranted : Supports(v, i, t)
        BY <1>8, <1>11 DEF ElectionInv, CountedVotesAreGranted
    <2>2. c.votesGranted \subseteq Server
        BY <1>4 DEF NodeState
    <2>3. 2 * Cardinality(Supporters(i, t)) > Cardinality(Server)
        BY <1>11, <2>1, <2>2, CountedMajority, SMTT(30)
    <2>4. r = BecomeLeader(i, c)
        BY <1>6, <1>11
    <2>5. /\ r.node.currentTerm = t
          /\ r.node.votedFor = n.votedFor
          /\ r.node.state = Leader
          /\ r.node.leaderID = i
          /\ r.out = BroadcastAppendEntries(i, r.node)
        BY <1>4, <2>4, Zenon DEF BecomeLeader, Returns, NodeState
    <2>6. OthersStay(i) /\ node'[i] = r.node /\ sent' = sent \cup r.out
        BY <1>1, ApplySays
    <2>7. \A x \in r.out : /\ x.type = "AppendEntries"
                           /\ x.from = i
                           /\ x.to \in Peers[i]
                           /\ x.term = t
        BY <2>5, BroadcastOut
    <2>8. /\ Grants' = Grants
          /\ SentClaims \subseteq SentClaims'
          /\ \A d \in SentClaims' : d \in SentClaims \/ d = Claim(i, t)
        BY <2>6, <2>7, LeaderOut, ZenonT(30)
    <2>9. SentClaims' = SentClaims \cup {Claim(i, t)}
        <3>1. m.from \in Peers[i]
            BY <1>1, <1>3 DEF OthersArePeers, ElectionInv, NoMessageToSelf
        <3>2. PICK x : x \in r.out
            BY <2>5, <3>1 DEF BroadcastAppendEntries
        <3>3. Claim(i, t) \in SentClaims'
            BY <2>6, <2>7, <3>2 DEF SentClaims
        <3> QED
            BY <2>8, <3>3
    <2>10. NoMessageToSelf'
        BY <2>6, <2>7, NobodySendsToSelf DEF OthersArePeers, ElectionInv
    <2>11. Wins(i)
        BY <1>11, <2>3, <2>5, <2>6, <2>8, <2>9 DEF Wins
    <2> QED
        BY <2>6, <2>10, <2>11 DEF ElectionStep
<1> QED
    BY <1>9, <1>10, <1>11

\* What a node does with AppendEntries, as far as elections go.
HandledAppendEntries(i, n, m, r) ==
    /\ \A x \in r.out : x.type = "AppendEntriesResp" /\ x.from = i /\ x.to = m.from
    /\ m.term < n.currentTerm => r.node = n
    /\ ~(m.term < n.currentTerm) =>
         /\ r.node.leaderID = m.from
         /\ r.node.votesGranted = n.votesGranted
         /\ n.state # Follower \/ m.term > n.currentTerm =>
              /\ r.node.currentTerm = m.term
              /\ r.node.state = Follower
              /\ r.node.votedFor = Nil
         /\ ~(n.state # Follower \/ m.term > n.currentTerm) =>
              /\ r.node.currentTerm = n.currentTerm
              /\ r.node.state = n.state
              /\ r.node.votedFor = n.votedFor

\* handleAppendEntries touches term, role, vote and leaderID only when it
\* recognizes the leader; storing entries changes nothing but the log.
LEMMA HandleAppendEntriesSays ==
    ASSUME NEW i, NEW n, GoodNode(n), NEW m \in Message, m.type = "AppendEntries",
           NEW r, r = HandleAppendEntries(i, n, m)
    PROVE  HandledAppendEntries(i, n, m, r)
<1> DEFINE f == RecognizeLeader(n, m)
           success == /\ MatchesPrevLogTerm(f.log, m.prevLogIndex, m.prevLogTerm)
                      /\ Contiguous(m.entries)
           l == AcceptEntries(f.log, m)
           g == IF success THEN [f EXCEPT !.log = l] ELSE f
<1>1. n \in NodeState /\ f \in NodeState /\ m.from \in Server /\ m.term \in Nat
    BY RecognizeLeaderGood, MessageFields DEF GoodNode
<1>2. /\ f.leaderID = m.from
      /\ f.votesGranted = n.votesGranted
      /\ n.state # Follower \/ m.term > n.currentTerm =>
           f.currentTerm = m.term /\ f.state = Follower /\ f.votedFor = Nil
      /\ ~(n.state # Follower \/ m.term > n.currentTerm) =>
           /\ f.currentTerm = n.currentTerm
           /\ f.state = n.state
           /\ f.votedFor = n.votedFor
    BY <1>1 DEF RecognizeLeader, NodeState
<1>3. ~(m.term < n.currentTerm) =>
        /\ r.node = g
        /\ r.out = {AppendEntriesResp(i, m.from, g.currentTerm, success, LastIndex(g.log))}
    BY DEF HandleAppendEntries, Returns
<1>4. m.term < n.currentTerm =>
        /\ r.node = n
        /\ r.out = {AppendEntriesResp(i, m.from, n.currentTerm, FALSE, 0)}
    BY DEF HandleAppendEntries, Returns
<1> HIDE DEF f, success, l
<1>5. /\ g.leaderID = f.leaderID
      /\ g.votesGranted = f.votesGranted
      /\ g.currentTerm = f.currentTerm
      /\ g.state = f.state
      /\ g.votedFor = f.votedFor
    BY <1>1 DEF NodeState
<1> HIDE DEF g
<1>6. \A x \in r.out : x.type = "AppendEntriesResp" /\ x.from = i /\ x.to = m.from
    BY <1>3, <1>4 DEF AppendEntriesResp
<1> QED
    BY <1>2, <1>3, <1>4, <1>5, <1>6, Zenon DEF HandledAppendEntries

\* The leader of a later term takes the node there; the leader of its own term
\* is recognized, and a candidate gives way to it; a stale one is refused.
LEMMA ReceiveAppendEntriesElects ==
    ASSUME LogInv, LogInv', ElectionInv,
           NEW i \in Server, NEW m \in net, ReceiveAppendEntries(i, m)
    PROVE  ElectionStep(i)
<1> DEFINE n == node[i]
           r == HandleAppendEntries(i, n, m)
<1>1. /\ Apply(i, r)
      /\ m \in Message /\ m \in sent /\ m.type = "AppendEntries" /\ m.to = i
    BY DEF LogInv, TypeOK, ReceiveAppendEntries, Receive
<1>2. OthersStay(i) /\ node'[i] = r.node /\ sent' = sent \cup r.out
    BY <1>1, ApplySays
<1>3. GoodNode(n) /\ n.currentTerm \in Nat
    BY LogInvSaysGood DEF GoodNode, NodeState
<1>4. m.from # i /\ m.from \in Server /\ m.term \in Nat
    BY <1>1, MessageFields DEF ElectionInv, NoMessageToSelf
<1>5. Claim(m.from, m.term) \in SentClaims
    BY <1>1, SMTT(30) DEF SentClaims
<1>6. /\ \A x \in r.out : x.type = "AppendEntriesResp" /\ x.from = i /\ x.to = m.from
      /\ m.term < n.currentTerm => r.node = n
      /\ ~(m.term < n.currentTerm) =>
           /\ r.node.leaderID = m.from
           /\ r.node.votesGranted = n.votesGranted
           /\ n.state # Follower \/ m.term > n.currentTerm =>
                /\ r.node.currentTerm = m.term
                /\ r.node.state = Follower
                /\ r.node.votedFor = Nil
           /\ ~(n.state # Follower \/ m.term > n.currentTerm) =>
                /\ r.node.currentTerm = n.currentTerm
                /\ r.node.state = n.state
                /\ r.node.votedFor = n.votedFor
    <2>1. HandledAppendEntries(i, n, m, r)
        <3> HIDE DEF n
        <3>1. r = HandleAppendEntries(i, n, m)
            OBVIOUS
        <3> HIDE DEF r
        <3> QED
            BY <1>1, <1>3, <3>1, HandleAppendEntriesSays
    <2> HIDE DEF n, r
    <2> QED
        BY <2>1, Zenon DEF HandledAppendEntries
<1> HIDE DEF r
<1>7. Grants' = Grants /\ SentClaims' = SentClaims
    BY <1>2, <1>6, SilentOut, SMTT(30)
<1>8. NoMessageToSelf'
    BY <1>2, <1>4, <1>6, NobodySendsToSelf, SMTT(30) DEF ElectionInv
<1>9. CASE m.term < n.currentTerm
    <2>1. Stays(i)
        BY <1>2, <1>6, <1>7, <1>9 DEF Stays
    <2> QED
        BY <1>2, <1>8, <2>1 DEF ElectionStep
<1>10. CASE m.term > n.currentTerm
    <2>1. EntersTerm(i)
        BY <1>2, <1>3, <1>4, <1>5, <1>6, <1>7, <1>10, SMTT(30) DEF EntersTerm
    <2> QED
        BY <1>2, <1>8, <2>1 DEF ElectionStep
<1>11. CASE m.term = n.currentTerm /\ n.state # Follower
    <2>1. GivesWay(i, m.from)
        BY <1>2, <1>3, <1>4, <1>5, <1>6, <1>7, <1>11, SMTT(30) DEF GivesWay
    <2> QED
        BY <1>2, <1>4, <1>8, <2>1 DEF ElectionStep
<1>12. CASE m.term = n.currentTerm /\ n.state = Follower
    <2>2. ~(m.term < n.currentTerm) /\ ~(n.state # Follower \/ m.term > n.currentTerm)
        BY <1>3, <1>4, <1>12
    <2>3. /\ node'[i].currentTerm = node[i].currentTerm
          /\ node'[i].votedFor = node[i].votedFor
          /\ node'[i].state = Follower /\ node[i].state = Follower
          /\ node'[i].leaderID = m.from
        BY <1>2, <1>6, <1>12, <2>2
    <2>4. Claim(m.from, node[i].currentTerm) \in SentClaims
        BY <1>5, <1>12
    <2> HIDE DEF n
    <2>1. Stays(i)
        BY <1>7, <2>3, <2>4 DEF Stays, Follower, Leader, Candidate
    <2> QED
        BY <1>2, <1>8, <2>1 DEF ElectionStep
<1> QED
    BY <1>3, <1>4, <1>9, <1>10, <1>11, <1>12, SMTT(30)

\* An acknowledgement only moves the leader's indexes and its commit index.
LEMMA ReceiveAppendEntriesRespElects ==
    ASSUME LogInv, LogInv', ElectionInv,
           NEW i \in Server, NEW m \in net, ReceiveAppendEntriesResp(i, m)
    PROVE  ElectionStep(i)
<1> DEFINE n == node[i]
           a == [n EXCEPT !.matchIndex[m.from] = m.matchIndex,
                          !.nextIndex[m.from]  = m.matchIndex + 1]
           b == [n EXCEPT !.nextIndex[m.from] =
                    IF n.nextIndex[m.from] > 1 THEN n.nextIndex[m.from] - 1
                                               ELSE n.nextIndex[m.from]]
           r == HandleAppendEntriesResp(i, n, m)
<1>1. /\ Apply(i, r)
      /\ m \in Message /\ m.type = "AppendEntriesResp"
    BY DEF LogInv, TypeOK, ReceiveAppendEntriesResp, Receive
<1>2. n \in NodeState /\ WellFormed(n.log)
    BY DEF LogInv, TypeOK
<1>3. m.from \in Server /\ m.term \in Nat /\ m.matchIndex \in Nat
    BY <1>1, MessageFields
<1>4. CASE m.term > n.currentTerm
    <2>1. r = StepDown(n, m.term)
        BY <1>4 DEF HandleAppendEntriesResp
    <2> QED
        BY <1>1, <1>3, <1>4, <2>1, StepDownElects
<1>5. CASE ~(m.term > n.currentTerm)
    <2>1. r.out = {} /\ r.node \in {AdvanceCommit(i, a), b, n}
        BY <1>5 DEF HandleAppendEntriesResp, Returns
    <2>2. /\ a \in NodeState
          /\ a.currentTerm = n.currentTerm
          /\ a.votedFor = n.votedFor
          /\ a.state = n.state
          /\ a.votesGranted = n.votesGranted
          /\ a.leaderID = n.leaderID
          /\ a.log = n.log
        <3>1. m.matchIndex + 1 \in Nat
            BY <1>3
        <3>2. a \in NodeState
            BY <1>2, <1>3, <3>1, ZenonT(30) DEF NodeState
        <3> QED
            BY <1>2, <3>2 DEF NodeState
    <2>3. /\ b.currentTerm = n.currentTerm
          /\ b.votedFor = n.votedFor
          /\ b.state = n.state
          /\ b.votesGranted = n.votesGranted
          /\ b.leaderID = n.leaderID
        BY <1>2, <1>3 DEF NodeState
    <2> HIDE DEF a, b, r
    <2>4. PICK l : AdvanceCommit(i, a) = [a EXCEPT !.log = l]
        BY <1>2, <2>2, AdvanceCommitGood DEF GoodNode
    <2>5. /\ r.node.currentTerm = n.currentTerm
          /\ r.node.votedFor = n.votedFor
          /\ r.node.state = n.state
          /\ r.node.votesGranted = n.votesGranted
          /\ r.node.leaderID = n.leaderID
        BY <2>1, <2>2, <2>3, <2>4 DEF NodeState
    <2> QED
        BY <1>1, <2>1, <2>5, QuietStep
<1> QED
    BY <1>4, <1>5

-----------------------------------------------------------------------------
(***************************************************************************)
(* The theorems.                                                           *)
(***************************************************************************)

\* Nothing has been sent and nobody leads at the start.
LEMMA ElectionInvInit == Init => ElectionInv
<1> SUFFICES ASSUME Init PROVE ElectionInv
    OBVIOUS
<1>1. \A i \in Server : /\ node[i].state = Follower
                        /\ node[i].leaderID = Nil
    BY DEF Init, NewNode
<1>2. Grants = {} /\ SentClaims = {} /\ LeaderClaims = {}
    BY <1>1 DEF Init, Grants, SentClaims, LeaderClaims, Follower, Leader
<1>3. Claims = {} /\ sent = {}
    BY <1>2 DEF Claims, Init
<1> QED
    BY <1>1, <1>2, <1>3, SMTT(30)
       DEF ElectionInv, NoMessageToSelf, CandidatesVoteForThemselves, GrantsAreKept,
           GrantsAreUnique, LeadersKeepTheirVote, LeadersGrantNothing,
           CountedVotesAreGranted, LeadersHaveMajorities, LeaderIDsAreClaimed,
           OneLeaderPerTerm, Follower, Candidate

\* Node i takes a step: one disjunct for each action.
NodeStep(i) ==
    \/ ElectionTimeout(i)
    \/ Heartbeat(i)
    \/ \E cmd \in Command : Propose(i, cmd)
    \/ Crash(i)
    \/ Restart(i)
    \/ \E m \in net : Step(i, m)

\* Every step of a node is an election step, one case for each action.
LEMMA NodeStepElects ==
    ASSUME OthersArePeers, LogInv, LogInv', ElectionInv, NEW i \in Server, NodeStep(i)
    PROVE  ElectionStep(i)
<1>1. CASE ElectionTimeout(i)
    BY <1>1, ElectionTimeoutElects
<1>2. CASE Heartbeat(i)
    BY <1>2, HeartbeatElects
<1>3. CASE \E cmd \in Command : Propose(i, cmd)
    BY <1>3, ProposeElects
<1>4. CASE Crash(i)
    BY <1>4, CrashElects
<1>5. CASE Restart(i)
    BY <1>5, RestartElects
<1>6. CASE \E m \in net : Step(i, m)
    <2>1. PICK m \in net : Step(i, m)
        BY <1>6
    <2>2. CASE ReceiveRequestVote(i, m)
        BY <2>2, ReceiveRequestVoteElects
    <2>3. CASE ReceiveRequestVoteResp(i, m)
        BY <2>3, ReceiveRequestVoteRespElects
    <2>4. CASE ReceiveAppendEntries(i, m)
        BY <2>4, ReceiveAppendEntriesElects
    <2>5. CASE ReceiveAppendEntriesResp(i, m)
        BY <2>5, ReceiveAppendEntriesRespElects
    <2> QED
        BY <2>1, <2>2, <2>3, <2>4, <2>5 DEF Step
<1> QED
    BY <1>1, <1>2, <1>3, <1>4, <1>5, <1>6, ZenonT(30) DEF NodeStep

\* Next is a step of some node.
LEMMA StepsAreElectionSteps ==
    ASSUME OthersArePeers, LogInv, LogInv', ElectionInv, Next
    PROVE  \E i \in Server : ElectionStep(i)
<1>1. PICK i \in Server : NodeStep(i)
    BY DEF Next, NodeStep
<1> QED
    BY <1>1, NodeStepElects

\* Each of the five keeps the election invariant.
LEMMA ElectionStepPreserves ==
    ASSUME LogInv, LogInv', ElectionInv, NEW i \in Server, ElectionStep(i)
    PROVE  ElectionInv'
BY StaysPreserves, GivesWayPreserves, EntersTermPreserves, GrantsVotePreserves,
   WinsPreserves DEF ElectionStep

\* Every step preserves the invariant.
LEMMA ElectionInvStep ==
    ASSUME OthersArePeers, LogInv, LogInv', ElectionInv, [Next]_vars
    PROVE  ElectionInv'
<1>1. CASE Next
    BY <1>1, StepsAreElectionSteps, ElectionStepPreserves
<1>2. CASE UNCHANGED vars
    <2>1. node' = node /\ sent' = sent
        BY <1>2 DEF vars
    <2>2. Claims' = Claims /\ SentClaims' = SentClaims
        BY <2>1 DEF Claims, LeaderClaims, SentClaims
    <2>3. Grants' = Grants
        BY <2>1 DEF Grants
    <2>4. /\ NoMessageToSelf' = NoMessageToSelf
          /\ CandidatesVoteForThemselves' = CandidatesVoteForThemselves
        BY <2>1 DEF NoMessageToSelf, CandidatesVoteForThemselves
    <2>5. GrantsAreKept' = GrantsAreKept /\ GrantsAreUnique' = GrantsAreUnique
        BY <2>1, <2>3 DEF GrantsAreKept, GrantsAreUnique
    <2>6. /\ LeadersKeepTheirVote' = LeadersKeepTheirVote
          /\ LeadersGrantNothing' = LeadersGrantNothing
        BY <2>1, <2>2, <2>3 DEF LeadersKeepTheirVote, LeadersGrantNothing
    <2>7. CountedVotesAreGranted' = CountedVotesAreGranted
        BY <2>1, <2>3 DEF CountedVotesAreGranted, Supports
    <2>8. LeadersHaveMajorities' = LeadersHaveMajorities
        BY <2>2, <2>3 DEF LeadersHaveMajorities, Supporters, Supports
    <2>9. /\ LeaderIDsAreClaimed' = LeaderIDsAreClaimed
          /\ OneLeaderPerTerm' = OneLeaderPerTerm
        BY <2>1, <2>2 DEF LeaderIDsAreClaimed, OneLeaderPerTerm
    <2> QED
        BY <2>4, <2>5, <2>6, <2>7, <2>8, <2>9 DEF ElectionInv
<1> QED
    BY <1>1, <1>2

\* The election invariant holds of every cluster of mutual peers.
THEOREM ElectionInvariant ==
    ASSUME OthersArePeers
    PROVE  Spec => []ElectionInv
<1>1. LogInv /\ LogInv' /\ ElectionInv /\ [Next]_vars => ElectionInv'
    BY ElectionInvStep
<1> QED
    BY <1>1, ElectionInvInit, LogInvariant, PTL DEF Spec

\* Election safety: however many nodes there are, and whatever the network loses,
\* repeats or delays and whoever crashes, no term ever has two leaders.
THEOREM ElectionSafety ==
    ASSUME OthersArePeers
    PROVE  Spec => []OneLeaderPerTerm
<1>1. ElectionInv => OneLeaderPerTerm
    BY DEF ElectionInv
<1> QED
    BY <1>1, ElectionInvariant, PTL

\* Nodes in the same term that know a leader know the same one.
THEOREM LeaderIDsAgree ==
    ASSUME OthersArePeers
    PROVE  Spec => []LeaderIDAgreement
<1>1. ASSUME LogInv, ElectionInv PROVE LeaderIDAgreement
    <2> SUFFICES ASSUME NEW i \in Server, NEW j \in Server,
                        node[i].currentTerm = node[j].currentTerm,
                        node[i].leaderID # Nil, node[j].leaderID # Nil
                 PROVE  node[i].leaderID = node[j].leaderID
        BY DEF LeaderIDAgreement
    <2>1. \A k \in Server : node[k].leaderID # Nil =>
            Claim(node[k].leaderID, node[k].currentTerm) \in Claims
        BY <1>1, LeaderClaimed DEF ElectionInv, LeaderIDsAreClaimed, Claims
    <2>2. /\ Claim(node[i].leaderID, node[i].currentTerm) \in Claims
          /\ Claim(node[j].leaderID, node[j].currentTerm) \in Claims
        BY <2>1
    <2> QED
        BY <1>1, <2>2, ClaimFields DEF ElectionInv, OneLeaderPerTerm
<1>2. LogInv /\ ElectionInv => LeaderIDAgreement
    BY <1>1, SMTT(30)
<1> QED
    BY <1>2, LogInvariant, ElectionInvariant, PTL

\* The vote of node state n is still there in state k, if k is in n's term.
KeepsVote(n, k) ==
    /\ n.state = Follower
    /\ n.votedFor # Nil
    /\ k.currentTerm = n.currentTerm
    => k.votedFor = n.votedFor

\* Calls other than Step never change the vote of a follower within its term.
LEMMA CallsKeepVote ==
    ASSUME NEW i \in Server, NEW n, GoodNode(n), NEW cmd, NEW t \in Nat
    PROVE  /\ KeepsVote(n, n)
           /\ KeepsVote(n, StartElection(i, n).node)
           /\ KeepsVote(n, NodePropose(n, cmd))
           /\ KeepsVote(n, NodeCrash(n))
           /\ KeepsVote(n, NodeRestart(n))
           /\ t > n.currentTerm => KeepsVote(n, StepDown(n, t).node)
<1>1. n \in NodeState /\ n.currentTerm \in Nat
    BY DEF GoodNode, NodeState
<1>2. KeepsVote(n, n)
    BY DEF KeepsVote
<1>3. KeepsVote(n, StartElection(i, n).node)
    <2>1. StartElection(i, n).node.currentTerm = n.currentTerm + 1
        BY <1>1, Zenon DEF StartElection, Returns, NodeState
    <2> QED
        BY <1>1, <2>1 DEF KeepsVote
<1>4. NodePropose(n, cmd).votedFor = n.votedFor /\ NodeCrash(n).votedFor = n.votedFor
    BY <1>1 DEF NodePropose, NodeCrash, NodeState
<1>5. NodeRestart(n).votedFor = n.votedFor
    <2> DEFINE l == LogAppend(NewLog, n.log.entries)
    <2>1. NodeRestart(n) = [NewNode EXCEPT !.currentTerm = n.currentTerm,
                                           !.votedFor    = n.votedFor,
                                           !.log         = l]
        BY NodeRestartRestores, Zenon
    <2> HIDE DEF l
    <2> QED
        BY <2>1 DEF NewNode
<1>6. t > n.currentTerm => KeepsVote(n, StepDown(n, t).node)
    <2>1. StepDown(n, t).node.currentTerm = t
        BY <1>1, Zenon DEF StepDown, Returns, NodeState
    <2> QED
        BY <1>1, <2>1 DEF KeepsVote
<1> QED
    BY <1>2, <1>3, <1>4, <1>5, <1>6, SMTT(30) DEF KeepsVote

\* Nor does a vote request, which may repeat the vote but not move it.
LEMMA RequestVoteKeepsVote ==
    ASSUME NEW i, NEW n \in NodeState, NEW m \in Message, m.type = "RequestVote"
    PROVE  KeepsVote(n, HandleRequestVote(i, n, m).node)
<1> DEFINE r == HandleRequestVote(i, n, m)
<1>1. PICK grant \in BOOLEAN : VoteOutcome(i, n, m, r, grant)
    BY HandleRequestVoteSays
<1>2. m.term \in Nat /\ n.currentTerm \in Nat
    BY MessageFields DEF NodeState
<1> HIDE DEF r
<1>3. SUFFICES KeepsVote(n, r.node)
    BY DEF r
<1>4. CASE m.term > n.currentTerm
    BY <1>1, <1>2, <1>4 DEF VoteOutcome, KeepsVote
<1>5. CASE ~(m.term > n.currentTerm) /\ grant
    BY <1>1, <1>5 DEF VoteOutcome, KeepsVote, NodeState
<1>6. CASE ~(m.term > n.currentTerm) /\ ~grant
    BY <1>1, <1>6, SMTT(30) DEF VoteOutcome, KeepsVote
<1> QED
    BY <1>4, <1>5, <1>6

\* Nor does an answer to a vote request: a follower counts no votes.
LEMMA RequestVoteRespKeepsVote ==
    ASSUME NEW i \in Server, NEW n, GoodNode(n),
           NEW m \in Message, m.type = "RequestVoteResp"
    PROVE  KeepsVote(n, HandleRequestVoteResp(i, n, m).node)
<1>1. m.term \in Nat
    BY MessageFields, SMTT(30)
<1>2. CASE m.term > n.currentTerm
    <2>1. HandleRequestVoteResp(i, n, m) = StepDown(n, m.term)
        BY <1>2 DEF HandleRequestVoteResp
    <2> QED
        BY <1>1, <1>2, <2>1, CallsKeepVote
<1>3. CASE ~(m.term > n.currentTerm) /\ n.state = Follower
    BY <1>3 DEF HandleRequestVoteResp, Returns, Follower, Candidate, KeepsVote
<1> QED
    BY <1>2, <1>3 DEF KeepsVote

\* Nor does AppendEntries: only candidates and leaders give up their vote to it.
LEMMA AppendEntriesKeepsVote ==
    ASSUME NEW i, NEW n, GoodNode(n), NEW m \in Message, m.type = "AppendEntries"
    PROVE  KeepsVote(n, HandleAppendEntries(i, n, m).node)
<1> DEFINE r == HandleAppendEntries(i, n, m)
<1>1. /\ m.term < n.currentTerm => r.node = n
      /\ ~(m.term < n.currentTerm) =>
           /\ n.state # Follower \/ m.term > n.currentTerm => r.node.currentTerm = m.term
           /\ ~(n.state # Follower \/ m.term > n.currentTerm) =>
                r.node.votedFor = n.votedFor
    <2>1. r = HandleAppendEntries(i, n, m)
        OBVIOUS
    <2> HIDE DEF r
    <2>2. HandledAppendEntries(i, n, m, r)
        BY <2>1, HandleAppendEntriesSays
    <2> QED
        BY <2>2, Zenon DEF HandledAppendEntries
<1>2. m.term \in Nat /\ n.currentTerm \in Nat
    BY MessageFields DEF GoodNode, NodeState
<1> HIDE DEF r
<1>3. KeepsVote(n, r.node)
    BY <1>1, <1>2, SMTT(30) DEF KeepsVote
<1> QED
    BY <1>3, SMTT(30) DEF r

\* Nor does an acknowledgement: a follower has sent nothing to be acknowledged.
LEMMA AppendEntriesRespKeepsVote ==
    ASSUME NEW i \in Server, NEW n, GoodNode(n),
           NEW m \in Message, m.type = "AppendEntriesResp"
    PROVE  KeepsVote(n, HandleAppendEntriesResp(i, n, m).node)
<1>1. m.term \in Nat
    BY MessageFields, SMTT(30)
<1>2. CASE m.term > n.currentTerm
    <2>1. HandleAppendEntriesResp(i, n, m) = StepDown(n, m.term)
        BY <1>2 DEF HandleAppendEntriesResp
    <2> QED
        BY <1>1, <1>2, <2>1, CallsKeepVote, SMTT(30)
<1>3. CASE ~(m.term > n.currentTerm) /\ n.state = Follower
    BY <1>3 DEF HandleAppendEntriesResp, Returns, Follower, Leader, KeepsVote
<1> QED
    BY <1>2, <1>3, SMTT(30) DEF KeepsVote

\* Within a term the vote of a follower is final, across crashes and restarts.
THEOREM VotesAreFinal == Spec => VoteIsFinal
<1> DEFINE A == \A j \in Server : KeepsVote(node[j], node'[j])
<1>1. ASSUME LogInv, Next PROVE A
    <2>1. PICK i \in Server :
            \/ ElectionTimeout(i)
            \/ Heartbeat(i)
            \/ \E cmd \in Command : Propose(i, cmd)
            \/ Crash(i)
            \/ Restart(i)
            \/ \E m \in net : Step(i, m)
        BY <1>1 DEF Next
    <2>2. /\ \A j \in Server : GoodNode(node[j])
          /\ \A m \in net : m \in Message
          /\ node[i] \in NodeState
        BY <1>1, LogInvSaysGood DEF GoodMessage, GoodNode
    <2>3. PICK r : Apply(i, r) /\ KeepsVote(node[i], r.node)
        <3>1. CASE ElectionTimeout(i)
            BY <2>2, <3>1, CallsKeepVote, SMTT(30) DEF ElectionTimeout
        <3>2. CASE Heartbeat(i)
            <4>1. Returns(node[i], BroadcastAppendEntries(i, node[i]), FALSE).node = node[i]
                BY DEF Returns
            <4> QED
                BY <2>2, <3>2, <4>1, CallsKeepVote, Zenon DEF Heartbeat
        <3>3. CASE \E cmd \in Command : Propose(i, cmd)
            <4>1. PICK cmd \in Command : Propose(i, cmd)
                BY <3>3
            <4>2. Returns(NodePropose(node[i], cmd), {}, FALSE).node = NodePropose(node[i], cmd)
                BY DEF Returns
            <4> QED
                BY <2>2, <4>1, <4>2, CallsKeepVote, Zenon DEF Propose
        <3>4. CASE Crash(i)
            <4>1. Returns(NodeCrash(node[i]), {}, FALSE).node = NodeCrash(node[i])
                BY DEF Returns
            <4> QED
                BY <2>2, <3>4, <4>1, CallsKeepVote, Zenon DEF Crash
        <3>5. CASE Restart(i)
            <4>1. Returns(NodeRestart(node[i]), {}, TRUE).node = NodeRestart(node[i])
                BY DEF Returns
            <4> QED
                BY <2>2, <3>5, <4>1, CallsKeepVote, Zenon DEF Restart
        <3>6. CASE \E m \in net : Step(i, m)
            <4>1. PICK m \in net : Step(i, m)
                BY <3>6
            <4>2. CASE ReceiveRequestVote(i, m)
                BY <2>2, <4>2, RequestVoteKeepsVote, SMTT(30) DEF ReceiveRequestVote, Receive
            <4>3. CASE ReceiveRequestVoteResp(i, m)
                BY <2>2, <4>3, RequestVoteRespKeepsVote, SMTT(30) DEF ReceiveRequestVoteResp, Receive
            <4>4. CASE ReceiveAppendEntries(i, m)
                BY <2>2, <4>4, AppendEntriesKeepsVote, SMTT(30) DEF ReceiveAppendEntries, Receive
            <4>5. CASE ReceiveAppendEntriesResp(i, m)
                BY <2>2, <4>5, AppendEntriesRespKeepsVote, SMTT(30) DEF ReceiveAppendEntriesResp, Receive
            <4> QED
                BY <4>1, <4>2, <4>3, <4>4, <4>5 DEF Step
        <3> QED
            BY <2>1, <3>1, <3>2, <3>3, <3>4, <3>5, <3>6, SMTT(30)
    <2>4. OthersStay(i) /\ node'[i] = r.node
        BY <1>1, <2>3, ApplySays
    <2> QED
        BY <2>3, <2>4 DEF OthersStay, KeepsVote
<1>2. A => \A i \in Server :
              /\ node[i].state = Follower
              /\ node[i].votedFor # Nil
              /\ node'[i].currentTerm = node[i].currentTerm
              => node'[i].votedFor = node[i].votedFor
    BY DEF KeepsVote
<1>3. LogInv /\ [Next]_vars
      => [\A i \in Server :
             /\ node[i].state = Follower
             /\ node[i].votedFor # Nil
             /\ node'[i].currentTerm = node[i].currentTerm
             => node'[i].votedFor = node[i].votedFor]_vars
    BY <1>1, <1>2
<1> QED
    BY <1>3, LogInvariant, PTL DEF Spec, VoteIsFinal

-----------------------------------------------------------------------------
(***************************************************************************)
(* The refinement of Elections.                                            *)
(***************************************************************************)

\* Nobody but the winner of an election becomes leader, and it names itself.
LEMMA LeaderInvStep ==
    ASSUME LogInv, LogInv', ElectionInv, LeaderInv, NEW i \in Server, ElectionStep(i)
    PROVE  LeaderInv'
<1>1. \A j \in Server \ {i} : node'[j] = node[j]
    BY DEF ElectionStep, OthersStay
<1>2. \A c \in SentClaims : c.leader \in Server /\ c.term \in Nat
    BY ClaimTypes DEF Claims
<1>3. /\ node[i].currentTerm \in Nat
      /\ node'[i].currentTerm \in Nat
    BY DEF LogInv, TypeOK, NodeState
<1>4. node'[i].state = Leader => node'[i].leaderID = i
    BY Zenon DEF ElectionStep, Stays, GivesWay, EntersTerm, GrantsVote, Wins, LeaderInv,
           Leader, Follower, Candidate
<1>5. ASSUME NEW c \in SentClaims', c.leader = i, c.term = node'[i].currentTerm
      PROVE  node'[i].state # Candidate
    <2>1. CASE Stays(i) \/ (\E l \in Server : GivesWay(i, l)) \/ \E d \in Server : GrantsVote(i, d)
        <3>1. c \in SentClaims \/ node[i].state = Leader
            BY <2>1 DEF Stays, GivesWay, GrantsVote
        <3>2. /\ node'[i].currentTerm = node[i].currentTerm
              /\ node'[i].state \in {node[i].state, Follower}
            BY <2>1 DEF Stays, GivesWay, GrantsVote
        <3> QED
            BY <1>5, <3>1, <3>2 DEF LeaderInv, Leader, Follower, Candidate
    <2>2. CASE EntersTerm(i)
        <3>1. c \in Claims /\ node'[i].currentTerm > node[i].currentTerm
            BY <2>2 DEF EntersTerm, Claims
        <3>2. c.term <= node[i].currentTerm
            BY <1>5, <3>1 DEF ElectionInv, LeadersKeepTheirVote
        <3> QED
            BY <1>3, <1>5, <3>1, <3>2
    <2>3. CASE Wins(i)
        BY <2>3 DEF Wins, Leader, Candidate
    <2> QED
        BY <2>1, <2>2, <2>3 DEF ElectionStep
<1>6. ASSUME NEW c \in SentClaims', c.leader # i
      PROVE  c \in SentClaims
    <2>1. Claim(i, node[i].currentTerm).leader = i
        BY ClaimFields
    <2>2. CASE Stays(i)
        BY <1>6, <2>1, <2>2 DEF Stays
    <2>3. CASE Wins(i)
        BY <1>6, <2>1, <2>3 DEF Wins
    <2>4. CASE EntersTerm(i)
        BY <1>6, <2>4 DEF EntersTerm
    <2>5. CASE (\E l \in Server : GivesWay(i, l)) \/ \E d \in Server : GrantsVote(i, d)
        BY <1>6, <2>5 DEF GivesWay, GrantsVote
    <2> QED
        BY <2>2, <2>3, <2>4, <2>5 DEF ElectionStep
<1> QED
    BY <1>1, <1>2, <1>4, <1>5, <1>6 DEF LeaderInv

\* LeaderInv is an invariant.
LEMMA LeaderInvariant ==
    ASSUME OthersArePeers
    PROVE  Spec => []LeaderInv
<1>1. ASSUME Init PROVE LeaderInv
    <2>1. SentClaims = {}
        BY <1>1 DEF Init, SentClaims
    <2> QED
        BY <1>1, <2>1 DEF Init, LeaderInv, NewNode, Follower, Leader
<1>2. ASSUME LogInv, LogInv', ElectionInv, LeaderInv, [Next]_vars PROVE LeaderInv'
    <2>1. CASE Next
        BY <1>2, <2>1, StepsAreElectionSteps, LeaderInvStep
    <2>2. CASE UNCHANGED vars
        BY <1>2, <2>2 DEF vars, LeaderInv, SentClaims
    <2> QED
        BY <1>2, <2>1, <2>2
<1>3. LogInv /\ LogInv' /\ ElectionInv /\ LeaderInv /\ [Next]_vars => LeaderInv'
    BY <1>2
<1>4. Init => LeaderInv
    BY <1>1
<1> QED
    BY <1>3, <1>4, LogInvariant, ElectionInvariant, PTL DEF Spec

\* Each of the five is a step of Elections, or changes nothing Elections sees.
LEMMA ElectionStepRefines ==
    ASSUME LogInv, LogInv', ElectionInv, ElectionInv', LeaderInv,
           NEW i \in Server, ElectionStep(i)
    PROVE  [Abstract!Next]_(Abstract!vars)
<1> DEFINE t == [j \in Server |-> node[j].currentTerm]
           l == [j \in Server |-> node[j].leaderID]
           u == [j \in Server |-> node'[j].currentTerm]
           k == [j \in Server |-> node'[j].leaderID]
<1>1. \A j \in Server \ {i} : node'[j] = node[j]
    BY DEF ElectionStep, OthersStay
<1>2. u = [t EXCEPT ![i] = u[i]] /\ k = [l EXCEPT ![i] = k[i]]
    BY <1>1, ZenonT(30)
<1>3. /\ t[i] = node[i].currentTerm /\ u[i] = node'[i].currentTerm
      /\ l[i] = node[i].leaderID /\ k[i] = node'[i].leaderID
      /\ t[i] \in Nat
    BY DEF LogInv, TypeOK, NodeState
<1> HIDE DEF t, l, u, k
<1>. DEFINE Advance == /\ u[i] > t[i]
                       /\ k[i] = Nil
                       /\ SentClaims' = SentClaims
            Lead    == /\ u[i] = t[i]
                       /\ k[i] = i
                       /\ \A c \in SentClaims : c.term = t[i] => c.leader = i
                       /\ SentClaims' = SentClaims \cup {[leader |-> i, term |-> t[i]]}
            Follow  == /\ \E c \in SentClaims : /\ c.term >= t[i]
                                               /\ u[i] = c.term
                                               /\ k[i] = c.leader
                       /\ SentClaims' = SentClaims
            Forget  == /\ u[i] = t[i]
                       /\ k[i] = Nil
                       /\ SentClaims' = SentClaims
            Nothing == u[i] = t[i] /\ k[i] = l[i] /\ SentClaims' = SentClaims
<1>4. Advance \/ Lead \/ Follow \/ Forget \/ Nothing
    <2>1. ASSUME NEW c, Claim(c, u[i]) \in SentClaims, u[i] >= t[i], k[i] = c,
                 SentClaims' = SentClaims
          PROVE  Follow
        BY <2>1, ClaimFields, Zenon
    <2>2. ASSUME Claim(i, t[i]) \in SentClaims'
          PROVE  \A c \in SentClaims : c.term = t[i] => c.leader = i
        <3>1. Claim(i, t[i]) \in Claims'
            BY <2>2 DEF Claims
        <3>2. SentClaims \subseteq Claims'
            BY Zenon DEF Claims, ElectionStep, Stays, GivesWay, EntersTerm, GrantsVote, Wins
        <3>3. OneLeaderPerTerm'
            BY DEF ElectionInv
        <3>4. \A c, d \in Claims' : c.term = d.term => c.leader = d.leader
            BY <3>3 DEF OneLeaderPerTerm
        <3> QED
            BY <3>1, <3>2, <3>4, ClaimFields
    <2>3. CASE Stays(i)
        <3>1. u[i] = t[i]
            BY <1>3, <2>3, Zenon DEF Stays
        <3>2. CASE SentClaims' = SentClaims
            <4>1. k[i] # Nil => k[i] = l[i] \/ Claim(k[i], t[i]) \in SentClaims
                BY <1>3, <2>3 DEF Stays
            <4> QED
                BY <1>3, <2>1, <3>1, <3>2, <4>1
        <3>3. CASE SentClaims' # SentClaims
            <4>1. node[i].state = Leader /\ SentClaims' = SentClaims \cup {Claim(i, t[i])}
                BY <1>3, <2>3, <3>3 DEF Stays
            <4>2. k[i] = i
                BY <1>3, <2>3, <3>3, <4>1 DEF Stays, LeaderInv
            <4> QED
                BY <2>2, <3>1, <4>1, <4>2 DEF Claim
        <3> QED
            BY <3>2, <3>3, Zenon
    <2>4. CASE \E c \in Server : GivesWay(i, c)
        BY <1>3, <2>1, <2>4 DEF GivesWay
    <2>5. CASE EntersTerm(i)
        <3>1. u[i] > t[i] /\ u[i] \in Nat
            BY <1>3, <2>5, Zenon DEF EntersTerm, LogInv, TypeOK, NodeState
        <3>2. /\ SentClaims' = SentClaims
              /\ k[i] # Nil => Claim(k[i], u[i]) \in SentClaims
            BY <1>3, <2>5 DEF EntersTerm
        <3>3. CASE k[i] = Nil
            BY <3>1, <3>2, <3>3
        <3>4. CASE k[i] # Nil
            <4>1. u[i] >= t[i]
                BY <1>3, <3>1
            <4> QED
                BY <2>1, <3>2, <3>4, <4>1
        <3> QED
            BY <3>3, <3>4, Zenon
    <2>6. CASE \E c \in Server : GrantsVote(i, c)
        BY <1>3, <2>6 DEF GrantsVote
    <2>7. CASE Wins(i)
        <3>1. u[i] = t[i] /\ k[i] = i /\ SentClaims' = SentClaims \cup {Claim(i, t[i])}
            BY <1>3, <2>7 DEF Wins
        <3> QED
            BY <2>2, <3>1 DEF Claim
    <2> QED
        BY <2>3, <2>4, <2>5, <2>6, <2>7, Zenon DEF ElectionStep
<1>5. Nothing => u = t /\ k = l
    BY <1>2, ZenonT(30) DEF t, l
<1> QED
    BY <1>2, <1>4, <1>5, ZenonT(30)
       DEF t, l, u, k, Abstract!Next, Abstract!vars, Abstract!OnlyAt, Abstract!Advance,
           Abstract!Lead, Abstract!Follow, Abstract!Forget

\* The whole protocol of votes, messages, crashes and restarts implements the
\* elections of module Elections, for any number of nodes.
THEOREM RaftImplementsElections ==
    ASSUME OthersArePeers
    PROVE  Spec => ImplementsElections
<1>1. ASSUME Init PROVE Abstract!Init
    <2>1. SentClaims = {}
        BY <1>1 DEF Init, SentClaims
    <2> QED
        BY <1>1, <2>1 DEF Init, Abstract!Init, NewNode
<1>2. ASSUME LogInv, LogInv', ElectionInv, ElectionInv', LeaderInv, [Next]_vars
      PROVE  [Abstract!Next]_(Abstract!vars)
    <2>1. CASE Next
        BY <1>2, <2>1, StepsAreElectionSteps, ElectionStepRefines
    <2>2. CASE UNCHANGED vars
        BY <2>2 DEF vars, SentClaims, Abstract!vars
    <2> QED
        BY <1>2, <2>1, <2>2
<1>3. /\ Init => Abstract!Init
      /\ LogInv /\ LogInv' /\ ElectionInv /\ ElectionInv' /\ LeaderInv /\ [Next]_vars
         => [Abstract!Next]_(Abstract!vars)
    BY <1>1, <1>2
<1> QED
    BY <1>3, LogInvariant, ElectionInvariant, LeaderInvariant, PTL
       DEF Spec, ImplementsElections, Abstract!Spec

=============================================================================
