------------------------------ MODULE RaftNode ------------------------------
(***************************************************************************)
(* One Raft peer: internal/node/node.go.                                   *)
(*                                                                         *)
(* A Node "never sends a message on its own: every message leaves through  *)
(* the return value of Step or Tick".  So each handler is an operator that *)
(* takes the node's id i, its state n and its input, and returns           *)
(*                                                                         *)
(*    [node  |-> the node's state afterwards,                              *)
(*     out   |-> the set of messages returned to the caller,               *)
(*     reset |-> whether resetElectionTimer was called]                    *)
(*                                                                         *)
(* A call returns at most one message for each destination, so a set loses *)
(* nothing of the slice the code returns.  Specifications that compose     *)
(* nodes with a network (Raft and later ones) take node states from here.  *)
(***************************************************************************)
EXTENDS RaftLog

CONSTANTS
    Server,     \* node ids
    Nil,        \* the id 0: no vote, no known leader
    Peers       \* Peers[i]: the peer ids handed to New for node i

Follower  == "follower"
Candidate == "candidate"
Leader    == "leader"

ASSUME NilAssumption == Nil \notin Server
ASSUME PeersAssumption == IsFiniteSet(Server) /\ Peers \in [Server -> SUBSET Server]

(***************************************************************************)
(* Messages: one record type for each of the four RPC kinds.               *)
(***************************************************************************)
RequestVote(from, to, term, lastIndex, lastTerm) ==
    [type |-> "RequestVote", from |-> from, to |-> to, term |-> term,
     lastLogIndex |-> lastIndex, lastLogTerm |-> lastTerm]

RequestVoteResp(from, to, term, granted) ==
    [type |-> "RequestVoteResp", from |-> from, to |-> to, term |-> term,
     granted |-> granted]

AppendEntries(from, to, term, prevIndex, prevTerm, leaderCommit, entries) ==
    [type |-> "AppendEntries", from |-> from, to |-> to, term |-> term,
     prevLogIndex |-> prevIndex, prevLogTerm |-> prevTerm,
     entries |-> entries, leaderCommit |-> leaderCommit]

AppendEntriesResp(from, to, term, success, matchIndex) ==
    [type |-> "AppendEntriesResp", from |-> from, to |-> to, term |-> term,
     success |-> success, matchIndex |-> matchIndex]

Message ==
    [type : {"RequestVote"}, from : Server, to : Server, term : Nat,
     lastLogIndex : Nat, lastLogTerm : Nat]
    \cup
    [type : {"RequestVoteResp"}, from : Server, to : Server, term : Nat,
     granted : BOOLEAN]
    \cup
    [type : {"AppendEntries"}, from : Server, to : Server, term : Nat,
     prevLogIndex : Nat, prevLogTerm : Nat,
     entries : Seq(Entry), leaderCommit : Nat]
    \cup
    [type : {"AppendEntriesResp"}, from : Server, to : Server, term : Nat,
     success : BOOLEAN, matchIndex : Nat]

(***************************************************************************)
(* The state of a node.  A key that is absent from the Go maps reads as    *)
(* the zero value, so the maps are total functions here and an emptied map *)
(* is the constant function 0 (or the empty set of granted votes).         *)
(***************************************************************************)
NodeState ==
    [currentTerm  : Nat,
     votedFor     : Server \cup {Nil},
     log          : Log,
     state        : {Follower, Candidate, Leader},
     leaderID     : Server \cup {Nil},
     votesGranted : SUBSET Server,
     nextIndex    : [Server -> Nat],
     matchIndex   : [Server -> Nat],
     crashed      : BOOLEAN]

NoIndexes == [p \in Server |-> 0]

\* node.New
NewNode ==
    [currentTerm  |-> 0,
     votedFor     |-> Nil,
     log          |-> NewLog,
     state        |-> Follower,
     leaderID     |-> Nil,
     votesGranted |-> {},
     nextIndex    |-> NoIndexes,
     matchIndex   |-> NoIndexes,
     crashed      |-> FALSE]

Returns(n, out, reset) == [node |-> n, out |-> out, reset |-> reset]

(***************************************************************************)
(* Quorums.  The code counts the node itself and then every peer, so a     *)
(* node that is among its own peers is counted twice, in both.             *)
(***************************************************************************)
\* Mutant: half of the nodes, rounded down, is enough.
BareHalf(i) == (Cardinality(Peers[i]) + 1) \div 2

Majority(i) == (Cardinality(Peers[i]) + 1) \div 2 + 1

CountVotes(i, n) ==
    (IF i \in n.votesGranted THEN 1 ELSE 0) + Cardinality(Peers[i] \cap n.votesGranted)

ReplicatedOnMajority(i, n, idx) ==
    1 + Cardinality({p \in Peers[i] : n.matchIndex[p] >= idx}) >= Majority(i)

IsUpToDate(n, lastIndex, lastTerm) ==
    \/ lastTerm > LastTerm(n.log)
    \/ lastTerm = LastTerm(n.log) /\ lastIndex >= LastIndex(n.log)

(***************************************************************************)
(* broadcastAppendEntries: to each peer the log from nextIndex on.  When   *)
(* the entry before nextIndex is not in the log, prevIndex falls back to 0.*)
(***************************************************************************)
AppendEntriesTo(i, n, p) ==
    LET ni        == n.nextIndex[p]
        prevIndex == IF ni > 1 /\ InRange(n.log, ni - 1) THEN ni - 1 ELSE 0
        prevTerm  == IF prevIndex = 0 THEN 0 ELSE TermAt(n.log, prevIndex)
        entries   == IF ni <= LastIndex(n.log)
                     THEN Slice(n.log, ni, LastIndex(n.log) + 1)
                     ELSE <<>>
    IN  AppendEntries(i, p, n.currentTerm, prevIndex, prevTerm,
                      n.log.commitIndex, entries)

BroadcastAppendEntries(i, n) == {AppendEntriesTo(i, n, p) : p \in Peers[i]}

(***************************************************************************)
(* Role changes.                                                           *)
(***************************************************************************)
StartElection(i, n) ==
    LET c == [n EXCEPT !.currentTerm  = @ + 1,
                       !.state        = Candidate,
                       !.votedFor     = i,
                       !.votesGranted = {i},
                       !.leaderID     = Nil]
    IN  Returns(c,
                {RequestVote(i, p, c.currentTerm, LastIndex(c.log), LastTerm(c.log)) :
                    p \in Peers[i]},
                TRUE)

BecomeLeader(i, n) ==
    LET l == [n EXCEPT !.state      = Leader,
                       !.leaderID   = i,
                       !.nextIndex  = [p \in Server |->
                            IF p \in Peers[i] THEN LastIndex(n.log) + 1 ELSE 0],
                       !.matchIndex = NoIndexes]
    IN  Returns(l, BroadcastAppendEntries(i, l), TRUE)

\* Mutant: the leader of the old term is not forgotten.
StepDownKeepsLeader(n, term) ==
    Returns([n EXCEPT !.currentTerm  = term,
                      !.state        = Follower,
                      !.votedFor     = Nil,
                      !.votesGranted = {},
                      !.nextIndex    = NoIndexes,
                      !.matchIndex   = NoIndexes],
            {}, TRUE)

StepDown(n, term) ==
    Returns([n EXCEPT !.currentTerm  = term,
                      !.state        = Follower,
                      !.votedFor     = Nil,
                      !.leaderID     = Nil,
                      !.votesGranted = {},
                      !.nextIndex    = NoIndexes,
                      !.matchIndex   = NoIndexes],
            {}, TRUE)

(***************************************************************************)
(* advanceCommit: the highest uncommitted index that holds an entry of the *)
(* current term and is replicated on a majority becomes the commit index.  *)
(***************************************************************************)
Committable(i, n) ==
    {idx \in n.log.commitIndex + 1 .. LastIndex(n.log) :
        TermAt(n.log, idx) = n.currentTerm /\ ReplicatedOnMajority(i, n, idx)}

AdvanceCommit(i, n) ==
    IF Committable(i, n) = {}
    THEN n
    ELSE [n EXCEPT !.log = CommitTo(@, Max(Committable(i, n)))]

(***************************************************************************)
(* The handlers that Step dispatches to.                                   *)
(***************************************************************************)
HandleRequestVote(i, n, m) ==
    LET f     == IF m.term > n.currentTerm
                 THEN [n EXCEPT !.currentTerm = m.term,
                                !.votedFor    = Nil,
                                !.state       = Follower,
                                !.leaderID    = Nil]
                 ELSE n
        grant == /\ m.term >= n.currentTerm
                 /\ f.votedFor \in {Nil, m.from}
                 /\ IsUpToDate(f, m.lastLogIndex, m.lastLogTerm)
    IN  Returns(IF grant THEN [f EXCEPT !.votedFor = m.from] ELSE f,
                {RequestVoteResp(i, m.from, f.currentTerm, grant)},
                grant)

HandleRequestVoteResp(i, n, m) ==
    LET counts == m.term = n.currentTerm /\ n.state = Candidate
        c      == IF counts /\ m.granted
                  THEN [n EXCEPT !.votesGranted = @ \cup {m.from}]
                  ELSE n
    IN  IF m.term > n.currentTerm
        THEN StepDown(n, m.term)
        ELSE IF counts /\ CountVotes(i, c) >= Majority(i)
             THEN BecomeLeader(i, c)
             ELSE Returns(c, {}, FALSE)

\* Mutant: every heartbeat clears the vote.
HeartbeatClearsVote(n, m) ==
    [n EXCEPT !.currentTerm = m.term,
              !.state       = Follower,
              !.votedFor    = Nil,
              !.leaderID    = m.from]

\* The first half of handleAppendEntries: m.From is the leader of m.Term.
RecognizeLeader(n, m) ==
    LET f == IF n.state # Follower \/ m.term > n.currentTerm
             THEN [n EXCEPT !.currentTerm = m.term,
                            !.state       = Follower,
                            !.votedFor    = Nil]
             ELSE n
    IN  [f EXCEPT !.leaderID = m.from]

\* The second half: store the entries and follow the leader's commit index.
AcceptEntries(l, m) ==
    LET a == LogAppend(l, m.entries)
    IN  IF m.leaderCommit > a.commitIndex
        THEN CommitTo(a, Min({m.leaderCommit, LastIndex(a)}))
        ELSE a

HandleAppendEntries(i, n, m) ==
    LET f       == RecognizeLeader(n, m)
        success == /\ MatchesPrevLogTerm(f.log, m.prevLogIndex, m.prevLogTerm)
                   /\ Contiguous(m.entries)
        g       == IF success THEN [f EXCEPT !.log = AcceptEntries(@, m)] ELSE f
    IN  IF m.term < n.currentTerm
        THEN Returns(n, {AppendEntriesResp(i, m.from, n.currentTerm, FALSE, 0)}, FALSE)
        ELSE Returns(g, {AppendEntriesResp(i, m.from, g.currentTerm, success,
                                           LastIndex(g.log))}, TRUE)

\* Mutant: a refusal always backs nextIndex up, also from 1.
NackWithoutFloor(i, n, m) ==
    IF m.term > n.currentTerm
    THEN StepDown(n, m.term)
    ELSE IF m.term = n.currentTerm /\ n.state = Leader
         THEN Returns(IF m.success
                      THEN AdvanceCommit(i, [n EXCEPT !.matchIndex[m.from] = m.matchIndex,
                                                      !.nextIndex[m.from] = m.matchIndex + 1])
                      ELSE [n EXCEPT !.nextIndex[m.from] = @ - 1],
                      {}, FALSE)
         ELSE Returns(n, {}, FALSE)

\* Mutant: a refusal is ignored.
NackIgnored(i, n, m) ==
    IF m.term > n.currentTerm
    THEN StepDown(n, m.term)
    ELSE IF m.term = n.currentTerm /\ n.state = Leader /\ m.success
         THEN Returns(AdvanceCommit(i, [n EXCEPT !.matchIndex[m.from] = m.matchIndex,
                                                 !.nextIndex[m.from] = m.matchIndex + 1]),
                      {}, FALSE)
         ELSE Returns(n, {}, FALSE)

HandleAppendEntriesResp(i, n, m) ==
    LET acked == AdvanceCommit(i, [n EXCEPT !.matchIndex[m.from] = m.matchIndex,
                                            !.nextIndex[m.from]  = m.matchIndex + 1])
        nack  == [n EXCEPT !.nextIndex[m.from] = IF @ > 1 THEN @ - 1 ELSE @]
    IN  IF m.term > n.currentTerm
        THEN StepDown(n, m.term)
        ELSE IF m.term = n.currentTerm /\ n.state = Leader
             THEN Returns(IF m.success THEN acked ELSE nack, {}, FALSE)
             ELSE Returns(n, {}, FALSE)

(***************************************************************************)
(* Client proposals, crashes and restarts.                                 *)
(***************************************************************************)
NodePropose(n, cmd) ==
    [n EXCEPT !.log = LogAppend(@, <<[term    |-> n.currentTerm,
                                      index   |-> LastIndex(@) + 1,
                                      command |-> cmd]>>)]

NodeCrash(n) ==
    [n EXCEPT !.crashed      = TRUE,
              !.state        = Follower,
              !.leaderID     = Nil,
              !.votesGranted = {},
              !.nextIndex    = NoIndexes,
              !.matchIndex   = NoIndexes]

\* Mutant: the end of the half-open range is taken for the last index.
PersistDropsLast(n) ==
    Serialize([currentTerm |-> n.currentTerm,
               votedFor    |-> n.votedFor,
               entries     |-> Slice(n.log, 1, LastIndex(n.log))])

\* Persist: what survives a crash, as written to stable storage.
Persist(n) ==
    Serialize([currentTerm |-> n.currentTerm,
               votedFor    |-> n.votedFor,
               entries     |-> Slice(n.log, 1, LastIndex(n.log) + 1)])

\* Mutant: the vote does not survive.
RestartForgetsVote(n) ==
    LET restored == Deserialize(Persist(n))
    IN  [NewNode EXCEPT !.currentTerm = restored.currentTerm,
                        !.log         = LogAppend(NewLog, restored.entries)]

\* Mutant: a node starts again in term 0.
RestartForgetsTerm(n) ==
    LET restored == Deserialize(Persist(n))
    IN  [NewNode EXCEPT !.votedFor = restored.votedFor,
                        !.log      = LogAppend(NewLog, restored.entries)]

\* Restart: an undecodable state leaves the node crashed.  Deserialize returns
\* contiguous entries only, so the Append that follows does not fail.
NodeRestart(n) ==
    LET restored == Deserialize(Persist(n))
    IN  IF restored = Corrupt
        THEN n
        ELSE [NewNode EXCEPT !.currentTerm = restored.currentTerm,
                             !.votedFor    = restored.votedFor,
                             !.log         = LogAppend(NewLog, restored.entries)]

=============================================================================
