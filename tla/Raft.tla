-------------------------------- MODULE Raft --------------------------------
(***************************************************************************)
(* The nodes of internal/node/node.go over a network that may lose, delay, *)
(* reorder and duplicate messages.                                         *)
(*                                                                         *)
(* The variable net holds messages that may still be delivered.  Delivery  *)
(* leaves the message there, so it may be handled late, out of order, more *)
(* than once or never; the network forgets messages when it holds too many.*)
(* The harnesses of this repository (Cluster.DeliverAll,                   *)
(* DeliverAllFiltered, the in-memory transport) allow some of this each.   *)
(* The history variable sent only records; no action reads it.             *)
(*                                                                         *)
(* The logical clock is abstracted: a Tick that fires no timer only counts *)
(* and is a stuttering step here; a Tick that fires may happen any time.   *)
(***************************************************************************)
EXTENDS RaftNode

CONSTANTS
    Campaigners,    \* bound: the nodes whose election timer may run out
    Crashers,       \* bound: the nodes that may crash
    MaxTerm,        \* bound: no election is started beyond this term
    MaxLog,         \* bound: a leader with this many entries proposes no more
    MaxNet          \* bound: the network holds this many messages

ASSUME BoundsAssumption == MaxTerm \in Nat /\ MaxLog \in Nat /\ MaxNet \in Nat

VARIABLES
    node,       \* node[i]: the state of node i
    net,        \* the messages that may still be delivered
    sent        \* history: every message sent so far

vars == <<node, net, sent>>

Init ==
    /\ node = [i \in Server |-> NewNode]
    /\ net = {}
    /\ sent = {}

-----------------------------------------------------------------------------
(***************************************************************************)
(* One action for each way to call a node.                                 *)
(***************************************************************************)
\* The messages out join the network, which loses some if it overflows.
Send(out) ==
    /\ sent' = sent \cup out
    /\ net' \in IF Cardinality(net \cup out) <= MaxNet
               THEN {net \cup out}
               ELSE kSubset(MaxNet, net \cup out)

\* The call returned r: node i takes its new state and r.out goes out.
Apply(i, r) ==
    /\ node' = [node EXCEPT ![i] = r.node]
    /\ Send(r.out)

Running(i) == ~node[i].crashed

\* Tick, when the election timer of a follower or candidate has run out.
ElectionTimeout(i) ==
    /\ i \in Campaigners
    /\ Running(i)
    /\ node[i].state # Leader
    /\ node[i].currentTerm < MaxTerm
    /\ Apply(i, StartElection(i, node[i]))

\* Tick, when the heartbeat interval of a leader has run out, and ReplicateNow.
Heartbeat(i) ==
    /\ Running(i)
    /\ node[i].state = Leader
    /\ Apply(i, Returns(node[i], BroadcastAppendEntries(i, node[i]), FALSE))

Propose(i, cmd) ==
    /\ Running(i)
    /\ node[i].state = Leader
    /\ Len(node[i].log.entries) < MaxLog
    /\ Apply(i, Returns(NodePropose(node[i], cmd), {}, FALSE))

Crash(i) ==
    /\ i \in Crashers
    /\ Running(i)
    /\ Apply(i, Returns(NodeCrash(node[i]), {}, FALSE))

Restart(i) ==
    /\ node[i].crashed
    /\ Apply(i, Returns(NodeRestart(node[i]), {}, TRUE))

\* Step: message m reaches node i, which dispatches on its type.
Receive(i, m, type) ==
    /\ Running(i)
    /\ m.to = i
    /\ m.type = type

ReceiveRequestVote(i, m) ==
    /\ Receive(i, m, "RequestVote")
    /\ Apply(i, HandleRequestVote(i, node[i], m))

ReceiveRequestVoteResp(i, m) ==
    /\ Receive(i, m, "RequestVoteResp")
    /\ Apply(i, HandleRequestVoteResp(i, node[i], m))

ReceiveAppendEntries(i, m) ==
    /\ Receive(i, m, "AppendEntries")
    /\ Apply(i, HandleAppendEntries(i, node[i], m))

ReceiveAppendEntriesResp(i, m) ==
    /\ Receive(i, m, "AppendEntriesResp")
    /\ Apply(i, HandleAppendEntriesResp(i, node[i], m))

Step(i, m) ==
    \/ ReceiveRequestVote(i, m)
    \/ ReceiveRequestVoteResp(i, m)
    \/ ReceiveAppendEntries(i, m)
    \/ ReceiveAppendEntriesResp(i, m)

Next ==
    \E i \in Server :
        \/ ElectionTimeout(i)
        \/ Heartbeat(i)
        \/ \E cmd \in Command : Propose(i, cmd)
        \/ Crash(i)
        \/ Restart(i)
        \/ \E m \in net : Step(i, m)

Spec == Init /\ [][Next]_vars

-----------------------------------------------------------------------------
(***************************************************************************)
(* Invariants.                                                             *)
(***************************************************************************)

\* Every node state and every message has the type the Go structs give it.
TypeOK ==
    /\ node \in [Server -> NodeState]
    /\ sent \subseteq Message
    /\ net \subseteq sent

\* Who leads, or has led, which term: the leaders of this moment, and the
\* senders of every AppendEntries ever sent.
Claim(i, term) == [leader |-> i, term |-> term]

LeaderClaims ==
    {Claim(i, node[i].currentTerm) : i \in {j \in Server : node[j].state = Leader}}

SentClaims ==
    {Claim(m.from, m.term) : m \in {x \in sent : x.type = "AppendEntries"}}

Claims == LeaderClaims \cup SentClaims

\* At most one node is ever the leader of a term, though handleAppendEntries
\* clears votedFor of a candidate or leader without leaving the term, which
\* frees its vote for a second candidate of the same term (node.go:411-415).
OneLeaderPerTerm ==
    \A c, d \in Claims : c.term = d.term => c.leader = d.leader

\* Two nodes in the same term that recognise a leader recognise the same one,
\* through crashes, late heartbeats and elections of the term still running.
LeaderIDAgreement ==
    \A i, j \in Server :
        /\ node[i].currentTerm = node[j].currentTerm
        /\ node[i].leaderID # Nil
        /\ node[j].leaderID # Nil
        => node[i].leaderID = node[j].leaderID

Entries(i) == node[i].log.entries

\* The Log Matching Property: logs that agree on the term of an index are
\* identical up to that index, whatever conflicts Append had to resolve.
LogMatching ==
    \A i, j \in Server :
        \A k \in 1 .. Min({Len(Entries(i)), Len(Entries(j))}) :
            Entries(i)[k].term = Entries(j)[k].term
            => SubSeq(Entries(i), 1, k) = SubSeq(Entries(j), 1, k)

\* An entry's index is its position in the log, nothing beyond the end of the
\* log is committed, and a batch of entries starts right after prevLogIndex,
\* although broadcastAppendEntries falls back to prevLogIndex 0 when nextIndex
\* points beyond the log (node.go:326-337).
IndexIsPosition ==
    /\ \A i \in Server :
           /\ \A k \in 1 .. Len(Entries(i)) : Entries(i)[k].index = k
           /\ node[i].log.commitIndex <= Len(Entries(i))
    /\ \A m \in net : m.type = "AppendEntries" =>
           \A k \in 1 .. Len(m.entries) : m.entries[k].index = m.prevLogIndex + k

\* The leader of a term holds, at the same place, every entry of that term that
\* exists in some log or in some message under way: only it creates them.
LeaderHoldsItsTerm ==
    \A i \in Server : node[i].state = Leader =>
        /\ \A j \in Server : \A k \in 1 .. Len(Entries(j)) :
               Entries(j)[k].term = node[i].currentTerm
               => k <= Len(Entries(i)) /\ Entries(i)[k] = Entries(j)[k]
        /\ \A m \in net : m.type = "AppendEntries" =>
               \A k \in 1 .. Len(m.entries) :
                   m.entries[k].term = node[i].currentTerm
                   => /\ m.prevLogIndex + k <= Len(Entries(i))
                      /\ Entries(i)[m.prevLogIndex + k] = m.entries[k]

\* Whenever a node crashes, the state Restart writes and reads back decodes,
\* and brings back exactly its term, its vote and its log (node.go:545-575).
RestartRestores ==
    \A i \in Server :
        LET r == NodeRestart([node[i] EXCEPT !.crashed = TRUE])
        IN  /\ ~r.crashed
            /\ r.currentTerm = node[i].currentTerm
            /\ r.votedFor = node[i].votedFor
            /\ r.log.entries = Entries(i)

(***************************************************************************)
(* What the documentation says about commitment.  The runs show that the   *)
(* code does not keep these three promises: a follower acknowledges with   *)
(* its own last index, not with the end of the batch it was sent           *)
(* (node.go:433-443), and the leader trusts that index.                    *)
(***************************************************************************)

\* README.md:19, "entries are committed once a majority has stored them": what
\* a leader counts as committed is stored by more than half of the nodes.
CommittedOnMajority ==
    \A i \in Server : node[i].state = Leader =>
        \A k \in 1 .. node[i].log.commitIndex :
            2 * Cardinality({j \in Server : /\ k <= Len(Entries(j))
                                            /\ Entries(j)[k] = Entries(i)[k]})
            > Cardinality(Server)

\* README.md:22, "identical committed prefixes across nodes": of what two nodes
\* report as committed, one is a prefix of the other.
CommittedPrefixesAgree ==
    \A i, j \in Server :
        LET c == CommittedEntries(node[i].log)
            d == CommittedEntries(node[j].log)
        IN  \A k \in 1 .. Min({Len(c), Len(d)}) : c[k] = d[k]

\* log.go:23, "The commit index must only ever advance": no step of a running
\* node lowers its commit index (a restart begins with a new log).
CommitOnlyAdvances ==
    [][\A i \in Server :
          ~node[i].crashed => node'[i].log.commitIndex >= node[i].log.commitIndex]_vars

(***************************************************************************)
(* Action properties.                                                      *)
(***************************************************************************)

\* The vote of a follower is final: as long as it stays in the term, through
\* crashes, restarts and repeated requests, no message changes or clears it.
VoteIsFinal ==
    [][\A i \in Server :
          /\ node[i].state = Follower
          /\ node[i].votedFor # Nil
          /\ node'[i].currentTerm = node[i].currentTerm
          => node'[i].votedFor = node[i].votedFor]_vars

=============================================================================
