----------------------------- MODULE RaftRounds -----------------------------
(***************************************************************************)
(* The nodes of internal/node/node.go under a driver that works like the   *)
(* loop of main.go and cluster.go: nodes tick, and every message routed to *)
(* a node is delivered to it once and in order.  Messages get lost only    *)
(* because their destination has crashed.  In contrast to cluster.New, a   *)
(* node is not among its own peers.                                        *)
(*                                                                         *)
(* The question is progress: does what the leader has in its log reach its *)
(* followers?                                                              *)
(***************************************************************************)
EXTENDS RaftNode, SequencesExt

CONSTANTS
    Campaigners,    \* bound: the nodes whose election timer may run out
    Crashers,       \* bound: the nodes that may crash
    MaxTerm,        \* bound: no election is started beyond this term
    MaxLog          \* bound: a leader with this many entries proposes no more

ASSUME RoundsAssumption ==
    /\ MaxTerm \in Nat
    /\ MaxLog \in Nat
    /\ Peers = [i \in Server |-> Server \ {i}]

VARIABLES
    node,       \* node[i]: the state of node i
    queue       \* queue[i]: the messages routed to node i

vars == <<node, queue>>

Init ==
    /\ node = [i \in Server |-> NewNode]
    /\ queue = [i \in Server |-> <<>>]

-----------------------------------------------------------------------------
\* route: a call returns at most one message for each destination.
Route(q, out) == [p \in Server |-> q[p] \o SetToSeq({m \in out : m.to = p})]

\* Clock and clients wait until everything is delivered.
Quiet == \A i \in Server : queue[i] = <<>>

\* Tick of a follower or candidate whose election timer has run out.
ElectionTimeout(i) ==
    /\ Quiet
    /\ i \in Campaigners
    /\ ~node[i].crashed
    /\ node[i].state # Leader
    /\ node[i].currentTerm < MaxTerm
    /\ LET r == StartElection(i, node[i])
       IN  /\ node' = [node EXCEPT ![i] = r.node]
           /\ queue' = Route(queue, r.out)

\* Tick of a leader at the end of its heartbeat interval, or ReplicateNow.
Heartbeat(i) ==
    /\ Quiet
    /\ ~node[i].crashed
    /\ node[i].state = Leader
    /\ queue' = Route(queue, BroadcastAppendEntries(i, node[i]))
    /\ UNCHANGED node

Propose(i, cmd) ==
    /\ Quiet
    /\ ~node[i].crashed
    /\ node[i].state = Leader
    /\ Len(node[i].log.entries) < MaxLog
    /\ node' = [node EXCEPT ![i] = NodePropose(@, cmd)]
    /\ UNCHANGED queue

\* Node.Step
StepNode(i, n, m) ==
    IF n.crashed
    THEN Returns(n, {}, FALSE)
    ELSE CASE m.type = "RequestVote"       -> HandleRequestVote(i, n, m)
           [] m.type = "RequestVoteResp"   -> HandleRequestVoteResp(i, n, m)
           [] m.type = "AppendEntries"     -> HandleAppendEntries(i, n, m)
           [] m.type = "AppendEntriesResp" -> HandleAppendEntriesResp(i, n, m)

\* Node i gets the first message of its queue; a crashed node ignores it.
Deliver(i) ==
    /\ queue[i] # <<>>
    /\ \E r \in {StepNode(i, node[i], Head(queue[i]))} :
          /\ node' = [node EXCEPT ![i] = r.node]
          /\ queue' = Route([queue EXCEPT ![i] = Tail(@)], r.out)

Crash(i) ==
    /\ i \in Crashers
    /\ ~node[i].crashed
    /\ node' = [node EXCEPT ![i] = NodeCrash(@)]
    /\ UNCHANGED queue

Restart(i) ==
    /\ node[i].crashed
    /\ node' = [node EXCEPT ![i] = NodeRestart(@)]
    /\ UNCHANGED queue

Next ==
    \E i \in Server :
        \/ ElectionTimeout(i)
        \/ Heartbeat(i)
        \/ \E cmd \in Command : Propose(i, cmd)
        \/ Deliver(i)
        \/ Crash(i)
        \/ Restart(i)

\* Every queue is served, and a node that leads ticks in every round.  Nobody
\* has to campaign, to propose, to crash or to restart a node.
Fairness ==
    \A i \in Server : WF_vars(Deliver(i)) /\ SF_vars(Heartbeat(i))

Spec == Init /\ [][Next]_vars /\ Fairness

-----------------------------------------------------------------------------
(***************************************************************************)
(* Properties.                                                             *)
(***************************************************************************)
Entries(i) == node[i].log.entries

\* Node i leads and every node is up.
Leads(i) == node[i].state = Leader /\ \A j \in Server : ~node[j].crashed

\* All logs are the leader's, and they are committed as far as the leader may
\* commit: entirely, once its last entry is one of its own term.
CaughtUp(i) ==
    \A j \in Server :
        /\ Entries(j) = Entries(i)
        /\ LastTerm(node[i].log) = node[i].currentTerm
           => node[j].log.commitIndex = LastIndex(node[i].log)

\* A leader that stays in office brings every log that is not longer than its
\* own to its state and commits it, whatever the leader before left there and
\* whatever messages crashes have cost: a refused heartbeat backs nextIndex up
\* and the next one carries more (node.go:319-341, 452-475).
ShorterLogsCatchUp ==
    \A i \in Server :
        <>[](/\ Leads(i)
             /\ \A j \in Server : Len(Entries(j)) <= Len(Entries(i)))
        => <>[]CaughtUp(i)

=============================================================================
