------------------------------ MODULE Cluster ------------------------------
(***************************************************************************)
(* The simulator: internal/cluster/cluster.go and partition.go, with the   *)
(* logical timers of internal/node/node.go.                                *)
(*                                                                         *)
(* The simulator is single-threaded, so each of its calls is one action.   *)
(* Node ids are 1 .. n and Nil is 0, as in the code.  The peers of every   *)
(* node are all the nodes, itself included (cluster.go:25-32): a node      *)
(* sends itself vote requests and heartbeats.                              *)
(*                                                                         *)
(* Random election timeouts and the iteration order of the Go map queues   *)
(* are nondeterministic choices.                                           *)
(***************************************************************************)
EXTENDS RaftNode

CONSTANTS
    electionTimeoutMin,
    electionTimeoutMax,
    heartbeatInterval,
    Crashers,       \* bound: the nodes that may crash
    Isolated,       \* bound: the nodes that may be partitioned off
    MaxTerm,        \* bound: no tick that would start an election beyond it
    MaxLog,         \* bound: a leader with this many entries gets no more
    MaxQueue        \* bound: no tick while a queue is longer than this

ASSUME WiringAssumption ==
    /\ Cardinality(Server) \in Nat
    /\ Server = 1 .. Cardinality(Server)
    /\ Nil = 0
    /\ Peers = [i \in Server |-> Server]
ASSUME TimingAssumption ==
    /\ electionTimeoutMin \in Nat \ {0}
    /\ electionTimeoutMax \in Nat
    /\ electionTimeoutMin <= electionTimeoutMax
    /\ heartbeatInterval \in Nat

VARIABLES
    node,       \* node[i]: the state of node i, without its timers
    timer,      \* timer[i]: the logical timers of node i
    queue,      \* queue[i]: the messages routed to node i
    blocked,    \* the pairs <<from, to>> that are cut off from each other
    dropped,    \* history: messages erased from a queue without being looked at
    elected     \* history: the nodes that became leader, each with its term

history == <<dropped, elected>>
vars == <<node, timer, queue, blocked, dropped, elected>>

Timeouts == electionTimeoutMin .. electionTimeoutMax

\* electionElapsed is compared with the timeout only, so it stops there.
Timer == [electionElapsed  : 0 .. electionTimeoutMax,
          electionTimeout  : Timeouts,
          heartbeatElapsed : 0 .. heartbeatInterval]

Init ==
    /\ node = [i \in Server |-> NewNode]
    /\ timer \in [Server -> [electionElapsed  : {0},
                             electionTimeout  : Timeouts,
                             heartbeatElapsed : {0}]]
    /\ queue = [i \in Server |-> <<>>]
    /\ blocked = {}
    /\ dropped = {}
    /\ elected = {}

-----------------------------------------------------------------------------
(***************************************************************************)
(* What the calls are made of.                                             *)
(***************************************************************************)

\* resetElectionTimer
ResetElectionTimer(t, timeout) ==
    [t EXCEPT !.electionElapsed = 0, !.electionTimeout = timeout]

\* route: a call returns at most one message for each destination.
Route(q, out) ==
    [p \in Server |-> IF \E m \in out : m.to = p
                      THEN Append(q[p], CHOOSE m \in out : m.to = p)
                      ELSE q[p]]

ElectionDue(i)  == timer[i].electionElapsed + 1 >= timer[i].electionTimeout
HeartbeatDue(i) == timer[i].heartbeatElapsed + 1 >= heartbeatInterval

\* Node.Tick, but for the timers.
Tick(i) ==
    LET n == node[i]
    IN  IF ~n.crashed /\ n.state # Leader /\ ElectionDue(i)
        THEN StartElection(i, n)
        ELSE IF ~n.crashed /\ n.state = Leader /\ HeartbeatDue(i)
             THEN Returns(n, BroadcastAppendEntries(i, n), FALSE)
             ELSE Returns(n, {}, FALSE)

\* Mutant of TickTimer: a heartbeat does not reset heartbeatElapsed.
HeartbeatNotReset(i) ==
    LET t == timer[i]
    IN  [t EXCEPT
            !.electionElapsed  = Min({@ + 1, t.electionTimeout}),
            !.heartbeatElapsed = IF node[i].state # Leader THEN @ ELSE @ + 1]

\* The timers of node i after a Tick that started no election.
TickTimer(i) ==
    LET t == timer[i]
    IN  [t EXCEPT
            !.electionElapsed  = Min({@ + 1, t.electionTimeout}),
            !.heartbeatElapsed = IF node[i].state # Leader THEN @
                                 ELSE IF HeartbeatDue(i) THEN 0 ELSE @ + 1]

\* Node.Step
StepNode(i, n, m) ==
    IF n.crashed
    THEN Returns(n, {}, FALSE)
    ELSE CASE m.type = "RequestVote"       -> HandleRequestVote(i, n, m)
           [] m.type = "RequestVoteResp"   -> HandleRequestVoteResp(i, n, m)
           [] m.type = "AppendEntries"     -> HandleAppendEntries(i, n, m)
           [] m.type = "AppendEntriesResp" -> HandleAppendEntriesResp(i, n, m)

\* Mutant of Deliver: only the answers are filtered.
DeliverToCutOff(i, cut, s, m) ==
    LET r == StepNode(i, s.node[i], m)
    IN  [s EXCEPT !.node[i] = r.node,
                  !.queue   = Route(@, {a \in r.out : <<a.from, a.to>> \notin cut}),
                  !.reset   = IF r.reset THEN @ \cup {i} ELSE @,
                  !.elected = IF s.node[i].state # Leader /\ r.node.state = Leader
                              THEN @ \cup {[leader |-> i, term |-> r.node.currentTerm]}
                              ELSE @]

\* Node i of simulator state s handles m, unless the pair is in cut; answers to
\* a pair in cut are lost.  s.reset collects the nodes whose election timer is
\* reset.
Deliver(i, cut, s, m) ==
    LET r == StepNode(i, s.node[i], m)
    IN  IF <<m.from, m.to>> \in cut
        THEN s
        ELSE [s EXCEPT !.node[i] = r.node,
                       !.queue   = Route(@, {a \in r.out : <<a.from, a.to>> \notin cut}),
                       !.reset   = IF r.reset THEN @ \cup {i} ELSE @,
                       !.elected = IF s.node[i].state # Leader /\ r.node.state = Leader
                                   THEN @ \cup {[leader |-> i, term |-> r.node.currentTerm]}
                                   ELSE @]

\* Loops.  The state after an iteration is kept in a set of one element, so
\* that TLC computes it once and not again wherever the next one refers to it.

\* Mutant of Visit: every queue is emptied.
VisitClearsAll(i, cut, s) ==
    LET msgs == s.queue[i]
        handled[k \in 0 .. Len(msgs)] ==
            IF k = 0 THEN {s}
            ELSE {Deliver(i, cut, x, msgs[k]) : x \in handled[k - 1]}
    IN  {[x EXCEPT !.queue   = [j \in Server |-> <<>>],
                   !.dropped = @ \cup UNION {Range(x.queue[j]) : j \in Server \ {i}}] :
            x \in handled[Len(msgs)]}

\* One iteration of the loop over the queues, itself a loop over the messages.
\* The queue is emptied after its messages were handled, and with it whatever
\* they routed to node i.
Visit(i, cut, s) ==
    LET msgs == s.queue[i]
        handled[k \in 0 .. Len(msgs)] ==
            IF k = 0 THEN {s}
            ELSE {Deliver(i, cut, x, msgs[k]) : x \in handled[k - 1]}
    IN  {[x EXCEPT !.queue[i] = <<>>,
                   !.dropped  = @ \cup Range(SubSeq(x.queue[i], Len(msgs) + 1, Len(x.queue[i])))] :
            x \in handled[Len(msgs)]}

\* The loop over the queues, in the given order.
VisitAll(order, cut) ==
    LET start == [node |-> node, queue |-> queue, reset |-> {},
                  dropped |-> dropped, elected |-> elected]
        visited[k \in 0 .. Len(order)] ==
            IF k = 0 THEN {start}
            ELSE UNION {Visit(order[k], cut, x) : x \in visited[k - 1]}
    IN  visited[Len(order)]

Orders == Bijection(1 .. Cardinality(Server), Server)

DeliverThrough(cut) ==
    \E order \in Orders : \E end \in VisitAll(order, cut) :
        /\ node' = end.node
        /\ queue' = end.queue
        /\ dropped' = end.dropped
        /\ elected' = end.elected
        /\ \E timeout \in [end.reset -> Timeouts] :
             timer' = [i \in Server |->
                [(IF i \in end.reset
                  THEN ResetElectionTimer(timer[i], timeout[i])
                  ELSE timer[i])
                 EXCEPT !.heartbeatElapsed =
                    IF \E e \in end.elected \ elected : e.leader = i THEN 0 ELSE @]]
        /\ UNCHANGED blocked

-----------------------------------------------------------------------------
(***************************************************************************)
(* One action for each call of the simulator.                              *)
(***************************************************************************)
TickAll ==
    LET r == [i \in Server |-> Tick(i)]
        elects == {i \in Server : r[i].reset}
        routed[i \in 0 .. Cardinality(Server)] ==
            IF i = 0 THEN queue ELSE Route(routed[i - 1], r[i].out)
    IN  /\ \A i \in Server : Len(queue[i]) <= MaxQueue
        /\ \A i \in elects : r[i].node.currentTerm <= MaxTerm
        /\ node' = [i \in Server |-> r[i].node]
        /\ queue' = routed[Cardinality(Server)]
        /\ \E timeout \in [elects -> Timeouts] :
             timer' = [i \in Server |->
                        CASE node[i].crashed -> timer[i]
                          [] i \in elects    -> ResetElectionTimer(timer[i], timeout[i])
                          [] OTHER           -> TickTimer(i)]
        /\ UNCHANGED <<blocked, history>>

DeliverAll == DeliverThrough({})

DeliverAllFiltered == DeliverThrough(blocked)

Leaders == {i \in Server : node[i].state = Leader}

\* Propose goes to the leader with the lowest id and replicates at once.
Propose(cmd) ==
    /\ Leaders # {}
    /\ LET i == Min(Leaders)
           n == NodePropose(node[i], cmd)
       IN  /\ Len(node[i].log.entries) < MaxLog
           /\ node' = [node EXCEPT ![i] = n]
           /\ queue' = Route(queue, BroadcastAppendEntries(i, n))
    /\ UNCHANGED <<timer, blocked, history>>

Crash(i) ==
    /\ i \in Crashers
    /\ ~node[i].crashed
    /\ node' = [node EXCEPT ![i] = NodeCrash(@)]
    /\ timer' = [timer EXCEPT ![i].electionElapsed = 0]
    /\ UNCHANGED <<queue, blocked, history>>

Restart(i) ==
    /\ node[i].crashed
    /\ node' = [node EXCEPT ![i] = NodeRestart(@)]
    /\ \E timeout \in Timeouts :
         timer' = [timer EXCEPT ![i] = IF node'[i].crashed THEN @
                                       ELSE ResetElectionTimer(@, timeout)]
    /\ UNCHANGED <<queue, blocked, history>>

\* Partition(i): nothing passes between i and another node.
Partition(i) ==
    /\ i \in Isolated
    /\ blocked' = blocked \cup ({i} \X (Server \ {i})) \cup ((Server \ {i}) \X {i})
    /\ UNCHANGED <<node, timer, queue, history>>

Heal(i) ==
    /\ blocked' = {p \in blocked : i \notin {p[1], p[2]}}
    /\ UNCHANGED <<node, timer, queue, history>>

HealAll ==
    /\ blocked' = {}
    /\ UNCHANGED <<node, timer, queue, history>>

\* The calls other than deliveries.
Calls ==
    \/ TickAll
    \/ \E cmd \in Command : Propose(cmd)
    \/ \E i \in Server : Crash(i) \/ Restart(i)

\* A Cluster is driven with DeliverAll, a PartitionedCluster, which embeds one,
\* with DeliverAllFiltered.
Next == Calls \/ DeliverAll

PartitionedNext ==
    \/ Calls
    \/ DeliverAllFiltered
    \/ HealAll
    \/ \E i \in Server : Partition(i) \/ Heal(i)

Spec == Init /\ [][Next]_vars
PartitionedSpec == Init /\ [][PartitionedNext]_vars

-----------------------------------------------------------------------------
(***************************************************************************)
(* Properties.                                                             *)
(***************************************************************************)

\* Every piece of state has its type, and a message waits at its destination.
TypeOK ==
    /\ node \in [Server -> NodeState]
    /\ timer \in [Server -> Timer]
    /\ queue \in [Server -> Seq(Message)]
    /\ \A i \in Server : \A k \in 1 .. Len(queue[i]) : queue[i][k].to = i
    /\ blocked \subseteq Server \X Server

\* DeliverAll erases a queue it has handled (cluster.go:61), with the messages
\* that arrived there meanwhile: those are only messages of a node to itself.
OnlyOwnMessagesDropped == \A m \in dropped : m.from = m.to

Alone(i) == \A j \in Server \ {i} : <<i, j>> \in blocked /\ <<j, i>> \in blocked

\* An AppendEntries of node i to itself is waiting that says c is committed.
OwnWord(i, c) ==
    \E k \in 1 .. Len(queue[i]) : LET m == queue[i][k]
                                  IN  /\ m.from = i
                                      /\ m.type = "AppendEntries"
                                      /\ c <= m.leaderCommit

\* partition.go:19, "isolates a node: all messages to/from it are dropped": as
\* long as a node is isolated it hears of no other leader, gets entries only as
\* a leader from its clients, enters a term only to campaign there, and wins no
\* election, whatever was under way when it was cut off.  It commits nothing, or
\* after a crash only what it had told itself before.
IsolatedLearnNothing ==
    [][\A i \in Server : Alone(i) =>
          LET n == node[i]
              k == node'[i]
          IN  /\ k.leaderID \in {n.leaderID, i, Nil}
              /\ k.state = Leader => n.state = Leader
              /\ k.log.commitIndex > n.log.commitIndex =>
                     i \in Crashers /\ OwnWord(i, k.log.commitIndex)
              /\ k.log.entries # n.log.entries =>
                     /\ n.state = Leader
                     /\ SubSeq(k.log.entries, 1, Len(k.log.entries) - 1) = n.log.entries
              /\ k.currentTerm # n.currentTerm =>
                     k.currentTerm = n.currentTerm + 1 /\ k.votedFor = i]_vars

(***************************************************************************)
(* What the documentation says of the simulator, and the runs refute.      *)
(***************************************************************************)

\* README.md:16-17, "a single node is elected leader per term".
SingleLeaderPerTerm ==
    \A e, f \in elected : e.term = f.term => e.leader = f.leader

\* cluster.go:46, "DeliverAll delivers all pending messages".
AllDelivered == dropped = {}

=============================================================================
