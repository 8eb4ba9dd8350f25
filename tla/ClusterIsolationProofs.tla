----------------------- MODULE ClusterIsolationProofs -----------------------
(***************************************************************************)
(* An isolated node gets only its own messages.  OwnInv says what those    *)
(* can be: a vote request or a part of its log, of a term it has reached.  *)
(* The answers it gives itself never arrive (cluster.go:61).               *)
(***************************************************************************)
EXTENDS ClusterProofs

\* What node i, in state n, can have told itself.
OwnMessage(i, n, m) ==
    /\ m.type \in {"RequestVote", "AppendEntries"}
    /\ m.term <= n.currentTerm
    /\ m.type = "AppendEntries" =>
         /\ IsPartOfLog(m, n.log)
         /\ i \notin Crashers => m.leaderCommit <= n.log.commitIndex

\* What waits in queue u of node i from itself fits its state n.
OwnQueue(i, n, u) == \A k \in 1 .. Len(u) : u[k].from = i => OwnMessage(i, n, u[k])

OwnInv ==
    /\ \A i \in Server : OwnQueue(i, node[i], queue[i])
    /\ \A i \in Server \ Crashers : ~node[i].crashed

\* Some message of a queue q is an AppendEntries of node i that says c is committed.
Says(i, q, c) ==
    \E k \in 1 .. Len(q) : q[k].from = i /\ q[k].type = "AppendEntries" /\ c <= q[k].leaderCommit

\* What node i, in state n, may be after it handled messages of its own out of q.
Unmoved(i, n, q, x) ==
    /\ x.currentTerm = n.currentTerm
    /\ x.log.entries = n.log.entries
    /\ x.state = Leader => n.state = Leader
    /\ x.leaderID \in {n.leaderID, i, Nil}
    /\ x.log.commitIndex = n.log.commitIndex \/ i \in Crashers
    /\ x.log.commitIndex = n.log.commitIndex \/ Says(i, q, x.log.commitIndex)

\* One message of its own after another, a node stays where it is.
LEMMA OwnMessagesChangeLittle ==
    ASSUME NEW i \in Server, NEW n, GoodNode(n), NEW x, GoodNode(x), NEW q, Len(q) \in Nat,
           Unmoved(i, n, q, x), NEW k \in 1 .. Len(q), GoodMessage(q[k]), q[k].from = i,
           OwnMessage(i, n, q[k])
    PROVE  Unmoved(i, n, q, StepNode(i, x, q[k]).node)
<1>. DEFINE m == q[k]
            y == StepNode(i, x, m).node
<1>0. /\ m \in Message /\ m.term \in Nat /\ m.term <= x.currentTerm
      /\ n.log.commitIndex \in Nat /\ x.log.commitIndex \in Nat
    BY MessageFields DEF GoodMessage, OwnMessage, Unmoved, GoodNode, WellFormed, Log
<1>1. CASE x.crashed
    <2>1. y = x
        BY <1>1 DEF StepNode, Returns
    <2>. QED
        BY <2>1
<1>2. CASE ~x.crashed /\ m.type = "RequestVote"
    <2>1. y = HandleRequestVote(i, x, m).node
        BY <1>2 DEF StepNode
    <2>2. /\ y.currentTerm = x.currentTerm /\ y.log = x.log
          /\ y.state = x.state /\ y.leaderID = x.leaderID
        BY <1>0, <2>1, OwnVoteRequest
    <2>. HIDE DEF y
    <2>. QED
        BY <2>2 DEF Unmoved, y
<1>3. CASE ~x.crashed /\ m.type = "AppendEntries"
    <2>1. y = HandleAppendEntries(i, x, m).node
        BY <1>3 DEF StepNode
    <2>2. IsPartOfLog(m, x.log)
        BY <1>3 DEF OwnMessage, Unmoved, IsPartOfLog
    <2>3. /\ y.currentTerm = x.currentTerm
          /\ y.log.entries = x.log.entries
          /\ y.state = Leader => x.state = Leader
          /\ y.leaderID \in {x.leaderID, i}
          /\ \/ y.log.commitIndex = x.log.commitIndex
             \/ m.leaderCommit > x.log.commitIndex /\ y.log.commitIndex <= m.leaderCommit
        <3>1. /\ GoodNode(x) /\ GoodMessage(m) /\ m.type = "AppendEntries" /\ m.from = i
              /\ m.term <= x.currentTerm
            BY <1>0, <1>3
        <3>. HIDE DEF m, y
        <3>. QED
            BY <2>1, <2>2, <3>1, OwnHeartbeat, SMTT(30)
    <2>. HIDE DEF y
    <2>4. CASE y.log.commitIndex = x.log.commitIndex
        BY <2>3, <2>4 DEF Unmoved, y
    <2>5. CASE m.leaderCommit > x.log.commitIndex /\ y.log.commitIndex <= m.leaderCommit
        <3>1. Says(i, q, y.log.commitIndex)
            BY <1>3, <2>5 DEF Says
        <3>2. i \in Crashers
            <4>1. i \notin Crashers => m.leaderCommit <= n.log.commitIndex
                BY <1>3 DEF OwnMessage
            <4>2. i \notin Crashers => x.log.commitIndex = n.log.commitIndex
                BY DEF Unmoved
            <4>3. m.leaderCommit \in Nat
                BY <1>0, <1>3, MessageFields
            <4>. QED
                BY <1>0, <2>5, <4>1, <4>2, <4>3
        <3>. QED
            BY <2>3, <3>1, <3>2 DEF Unmoved, y
    <2>. QED
        BY <2>3, <2>4, <2>5
<1>4. m.type \in {"RequestVote", "AppendEntries"}
    BY DEF OwnMessage
<1>. QED
    BY <1>1, <1>2, <1>3, <1>4

NoOwn(u, j) == \A k \in 1 .. Len(u) : u[k].from # j

\* What handling messages of node i can do to another node j: it adds messages of
\* node i to its queue, unless the two are cut off from each other.
Beside(i, j, cut, s, x) ==
    /\ x.node[j] = s.node[j]
    /\ <<i, j>> \in cut => x.queue[j] = s.queue[j]
    /\ NoOwn(s.queue[j], j) => NoOwn(x.queue[j], j)

Elsewhere(i, cut, s) ==
    {x \in GoodSim : /\ ~s.node[i].crashed => ~x.node[i].crashed
                     /\ \A j \in Server \ {i} : Beside(i, j, cut, s, x)}

\* One message.
LEMMA DeliverElsewhere ==
    ASSUME NEW i \in Server, NEW cut, NEW s, NEW x \in Elsewhere(i, cut, s),
           NEW m, GoodMessage(m)
    PROVE  Deliver(i, cut, x, m) \in Elsewhere(i, cut, s)
<1>. DEFINE r == StepNode(i, x.node[i], m)
            t == Deliver(i, cut, x, m)
            out == {a \in r.out : <<a.from, a.to>> \notin cut}
<1>0. /\ x \in GoodSim /\ x \in Sim /\ GoodNode(x.node[i]) /\ GoodQueues(x.queue)
      /\ x.node \in [Server -> NodeState]
      /\ ~s.node[i].crashed => ~x.node[i].crashed
      /\ \A j \in Server \ {i} : Beside(i, j, cut, s, x)
    BY DEF Elsewhere, GoodSim, Sim
<1>1. t \in GoodSim
    BY <1>0, DeliverGood
<1>2. CASE <<m.from, m.to>> \in cut
    BY <1>2 DEF Deliver
<1>3. CASE <<m.from, m.to>> \notin cut
    <2>0. x \in Sim
        BY <1>0
    <2>1. /\ t = [node |-> t.node, queue |-> t.queue, reset |-> t.reset,
                  dropped |-> t.dropped, elected |-> t.elected]
          /\ t.node = [x.node EXCEPT ![i] = r.node]
          /\ t.queue = Route(x.queue, out)
          /\ t.reset = IF r.reset THEN x.reset \cup {i} ELSE x.reset
          /\ t.dropped = x.dropped
          /\ t.elected = IF x.node[i].state # Leader /\ r.node.state = Leader
                         THEN x.elected \cup {[leader |-> i, term |-> r.node.currentTerm]}
                         ELSE x.elected
        <3>1. Delivered(i, cut, x, r, t)
            BY <1>3, <2>0, DeliverFields
        <3>. HIDE DEF r, t
        <3>. QED
            BY <3>1, Zenon DEF Delivered, out
    <2>2. GoodResult(r) /\ \A a \in r.out : a.from = i
        BY <1>0, StepNodeGood, AnswersAreOwn DEF GoodMessage
    <2>3. ~x.node[i].crashed => ~r.node.crashed
        BY <1>0, StepKeepsRunning DEF GoodMessage
    <2>. HIDE DEF r, t
    <2>4. \A a \in out : GoodMessage(a) /\ a.from = i /\ <<i, a.to>> \notin cut
        BY <2>2 DEF GoodResult
    <2>. HIDE DEF out
    <2>5. \A p \in Server :
             \/ t.queue[p] = x.queue[p]
             \/ \E a \in out : a.to = p /\ t.queue[p] = Append(x.queue[p], a)
        <3>1. GoodQueues(x.queue) /\ \A a \in out : GoodMessage(a)
            BY <1>0, <2>4, Zenon
        <3>. QED
            BY <2>1, <3>1, RouteAppends
    <2>6. t.node[i] = r.node /\ \A j \in Server \ {i} : t.node[j] = x.node[j]
        BY <1>0, <2>1
    <2>7. ASSUME NEW j \in Server \ {i} PROVE Beside(i, j, cut, s, t)
        <3>1. Beside(i, j, cut, s, x)
            BY <1>0
        <3>2. CASE t.queue[j] = x.queue[j]
            BY <2>6, <3>1, <3>2 DEF Beside
        <3>3. CASE \E a \in out : a.to = j /\ t.queue[j] = Append(x.queue[j], a)
            <4>1. PICK a \in out : a.to = j /\ t.queue[j] = Append(x.queue[j], a)
                BY <3>3
            <4>2. <<i, j>> \notin cut /\ a \in Message /\ a.from = i
                BY <2>4, <4>1 DEF GoodMessage
            <4>. DEFINE u == x.queue[j]
                        v == t.queue[j]
            <4>3. u \in Seq(Message) /\ Len(u) \in Nat
                BY <1>0, LengthOfSeq DEF GoodQueues
            <4>4. Len(v) = Len(u) + 1 /\ v[Len(u) + 1] = a /\ \A k \in 1 .. Len(u) : v[k] = u[k]
                BY <4>1, <4>2, <4>3, OneMore
            <4>. HIDE DEF u, v
            <4>5. NoOwn(u, j) => NoOwn(v, j)
                <5>. SUFFICES ASSUME NoOwn(u, j), NEW k \in 1 .. Len(v) PROVE v[k].from # j
                    BY DEF NoOwn
                <5>1. CASE k = Len(u) + 1
                    BY <4>2, <4>4, <5>1
                <5>2. CASE k \in 1 .. Len(u)
                    BY <4>4, <5>2 DEF NoOwn
                <5>. QED
                    BY <4>3, <4>4, <5>1, <5>2
            <4>. QED
                BY <2>6, <3>1, <4>2, <4>5 DEF Beside, u, v
        <3>. QED
            BY <2>5, <3>2, <3>3
    <2>8. ~s.node[i].crashed => ~t.node[i].crashed
        BY <1>0, <2>3, <2>6
    <2>. QED
        BY <1>1, <2>7, <2>8 DEF Elsewhere, t
<1>. QED
    BY <1>2, <1>3

\* A visit empties the queue of the node and leaves the others alone, but for messages
\* it routes to their queues.
LEMMA VisitElsewhere ==
    ASSUME NEW s \in GoodSim, NEW i \in Server, NEW cut, NEW y \in Visit(i, cut, s)
    PROVE  y \in Elsewhere(i, cut, s) /\ y.queue[i] = <<>>
<1>. DEFINE n == Len(s.queue[i])
            H == [k \in 0 .. n |-> Elsewhere(i, cut, s)]
<1>1. n \in Nat /\ \A k \in 1 .. n : GoodMessage(s.queue[i][k])
    BY LengthOfSeq DEF GoodSim, GoodQueues
<1>2. s \in Elsewhere(i, cut, s)
    BY DEF Elsewhere, Beside
<1>3. \A k \in 1 .. n : \A x \in Elsewhere(i, cut, s) :
          Deliver(i, cut, x, s.queue[i][k]) \in Elsewhere(i, cut, s)
    BY <1>1, DeliverElsewhere
<1>4. s \in H[0] /\ MessageByMessage(i, cut, s, H)
    <2>0. MessageByMessage(i, cut, s, H) <=>
          \A k \in 1 .. n : \A x \in H[k - 1] : Deliver(i, cut, x, s.queue[i][k]) \in H[k]
        BY DEF MessageByMessage
    <2>. HIDE DEF n
    <2>1. (\A k \in 1 .. n : k \in 0 .. n /\ k - 1 \in 0 .. n) /\ 0 \in 0 .. n
        BY <1>1
    <2>. QED
        BY <1>2, <1>3, <2>0, <2>1
<1>5. \E x \in H[n] : y = Emptied(i, n, x)
    <2>1. Len(s.queue[i]) \in Nat
        BY <1>1
    <2>. HIDE DEF H
    <2>2. VisitEnds(i, cut, s, H)
        BY <1>4, <2>1, VisitInduction
    <2>. QED
        BY <2>2, Zenon DEF VisitEnds
<1>6. PICK x \in Elsewhere(i, cut, s) : y = Emptied(i, n, x)
    <2>1. n \in 0 .. n
        BY <1>1
    <2>. QED
        BY <1>5, <2>1
<1>7. x \in Sim /\ y \in GoodSim
    BY VisitGood DEF Elsewhere, GoodSim
<1>8. /\ y.node = x.node /\ y.queue[i] = <<>>
      /\ \A j \in Server \ {i} : y.queue[j] = x.queue[j]
    BY <1>6, <1>7, EmptiedFields
<1>9. \A j \in Server \ {i} : Beside(i, j, cut, s, y)
    BY <1>8 DEF Elsewhere, Beside
<1>. QED
    BY <1>7, <1>8, <1>9 DEF Elsewhere

\* No message of a node to itself is left once its queue was emptied.
NoOwnUpTo(order, k) ==
    {x \in GoodSim : /\ \A l \in 1 .. k : NoOwn(x.queue[order[l]], order[l])
                     /\ \A j \in Server : ~node[j].crashed => ~x.node[j].crashed}

\* After DeliverAll no queue holds a message of its node to itself, and no node has
\* crashed (cluster.go:47-63).
LEMMA NothingOwnIsLeft ==
    ASSUME ClusterInv, NEW cut, NEW order \in Orders, NEW end \in VisitAll(order, cut)
    PROVE  /\ \A j \in Server : NoOwn(end.queue[j], j)
           /\ \A j \in Server : ~node[j].crashed => ~end.node[j].crashed
<1>. DEFINE N == Cardinality(Server)
            H == [k \in 0 .. N |-> NoOwnUpTo(order, k)]
<1>1. /\ N \in Nat /\ Len(order) = N
      /\ \A k \in 1 .. N : order[k] \in Server
      /\ \A i \in Server : \E k \in 1 .. N : order[k] = i
    BY NumberedNodes, OrdersAreSequences
<1>. HIDE DEF N
<1>2. Begin \in NoOwnUpTo(order, 0)
    <2>1. Begin \in GoodSim /\ Begin.node = node
        BY DEF ClusterInv, GoodQueues, Begin, GoodSim, Sim, OnlyOwnMessagesDropped
    <2>2. ~\E l \in Nat : l \in 1 .. 0
        OBVIOUS
    <2>. QED
        BY <2>1, <2>2 DEF NoOwnUpTo
<1>3. ASSUME NEW k \in 1 .. N, NEW x \in NoOwnUpTo(order, k - 1), NEW y \in Visit(order[k], cut, x)
      PROVE  y \in NoOwnUpTo(order, k)
    <2>. DEFINE i == order[k]
    <2>1. i \in Server /\ x \in GoodSim
        BY <1>1 DEF NoOwnUpTo
    <2>2. y \in Elsewhere(i, cut, x) /\ y.queue[i] = <<>>
        BY <2>1, VisitElsewhere
    <2>3. /\ y \in GoodSim
          /\ ~x.node[i].crashed => ~y.node[i].crashed
          /\ \A j \in Server \ {i} : Beside(i, j, cut, x, y)
        BY <2>2 DEF Elsewhere
    <2>4. NoOwn(y.queue[i], i)
        <3>1. Len(<<>>) = 0 /\ ~\E l \in Nat : l \in 1 .. 0
            OBVIOUS
        <3>. QED
            BY <2>2, <3>1 DEF NoOwn
    <2>5. ASSUME NEW l \in 1 .. k PROVE NoOwn(y.queue[order[l]], order[l])
        <3>1. CASE order[l] = i
            BY <2>4, <3>1
        <3>2. CASE order[l] # i
            <4>1. l \in 1 .. k - 1 /\ l \in 1 .. N
                BY <1>1, <3>2
            <4>2. NoOwn(x.queue[order[l]], order[l])
                BY <4>1 DEF NoOwnUpTo
            <4>3. order[l] \in Server \ {i}
                BY <1>1, <3>2, <4>1
            <4>. QED
                BY <2>3, <4>2, <4>3, Zenon DEF Beside
        <3>. QED
            BY <3>1, <3>2
    <2>6. ASSUME NEW j \in Server, ~node[j].crashed PROVE ~y.node[j].crashed
        <3>1. ~x.node[j].crashed
            BY <2>6 DEF NoOwnUpTo
        <3>2. CASE j = i
            BY <2>3, <3>1, <3>2
        <3>3. CASE j # i
            BY <2>3, <3>1, <3>3, Zenon DEF Beside
        <3>. QED
            BY <3>2, <3>3
    <2>. QED
        BY <2>3, <2>5, <2>6 DEF NoOwnUpTo
<1>4. QueueByQueue(order, cut, H)
    <2>1. \A k \in 1 .. N : k \in 0 .. N /\ k - 1 \in 0 .. N
        BY <1>1
    <2>2. \A k \in 1 .. N : \A x \in H[k - 1] : Visit(order[k], cut, x) \subseteq H[k]
        BY <1>3, <2>1
    <2>. QED
        BY <1>1, <2>2 DEF QueueByQueue
<1>5. Begin \in H[0] /\ H[N] = NoOwnUpTo(order, N)
    <2>1. 0 \in 0 .. N /\ N \in 0 .. N
        BY <1>1
    <2>. QED
        BY <1>2, <2>1
<1>. HIDE DEF H
<1>6. VisitAll(order, cut) \subseteq H[N]
    BY <1>1, <1>4, <1>5, VisitAllInduction
<1>7. end \in NoOwnUpTo(order, N)
    BY <1>5, <1>6
<1>. QED
    BY <1>1, <1>7 DEF NoOwnUpTo

\* Node i, in state n with the messages q when DeliverAll is called, in the middle of it.
Left(i, n, q) ==
    {x \in GoodSim : /\ Unmoved(i, n, q, x.node[i])
                     /\ (x.node[i] = n /\ x.queue[i] = q) \/ x.queue[i] = <<>>}

\* One message in the queue of an isolated node.
LEMMA OwnVisit ==
    ASSUME NEW i \in Server, NEW cut, \A j \in Server \ {i} : <<j, i>> \in cut,
           NEW s \in GoodSim, OwnQueue(i, s.node[i], s.queue[i]),
           NEW y \in Visit(i, cut, s)
    PROVE  Unmoved(i, s.node[i], s.queue[i], y.node[i])
<1>. DEFINE q == s.queue[i]
            n == Len(q)
            S == {x \in GoodSim : Unmoved(i, s.node[i], q, x.node[i])}
            H == [k \in 0 .. n |-> S]
<1>1. /\ n \in Nat /\ GoodNode(s.node[i])
      /\ \A k \in 1 .. n : GoodMessage(q[k]) /\ q[k].to = i
    BY LengthOfSeq DEF GoodSim, GoodQueues
<1>2. s \in S
    BY DEF Unmoved
<1>3. ASSUME NEW k \in 1 .. n, NEW x \in S PROVE Deliver(i, cut, x, q[k]) \in S
    <2>. DEFINE m == q[k]
                t == Deliver(i, cut, x, m)
    <2>1. GoodMessage(m) /\ m.to = i /\ m.from \in Server
        BY <1>1, MessageFields DEF GoodMessage
    <2>2. x \in GoodSim /\ x \in Sim /\ GoodNode(x.node[i]) /\ x.node \in [Server -> NodeState]
        BY DEF GoodSim, Sim
    <2>3. t \in GoodSim
        BY <2>1, <2>2, DeliverGood
    <2>4. CASE <<m.from, m.to>> \in cut
        BY <2>4 DEF Deliver
    <2>5. CASE <<m.from, m.to>> \notin cut
        <3>. DEFINE r == StepNode(i, x.node[i], m)
        <3>1. m.from = i
            BY <2>1, <2>5
        <3>2. t.node = [x.node EXCEPT ![i] = r.node]
            <4>1. x = [node |-> x.node, queue |-> x.queue, reset |-> x.reset,
                       dropped |-> x.dropped, elected |-> x.elected]
                BY <2>2 DEF Sim
            <4>. QED
                BY <2>5, <4>1 DEF Deliver
        <3>3. OwnMessage(i, s.node[i], m)
            BY <3>1 DEF OwnQueue
        <3>. HIDE DEF t, m, n
        <3>4. Unmoved(i, s.node[i], q, StepNode(i, x.node[i], q[k]).node)
            BY <1>1, <2>1, <2>2, <3>1, <3>3, OwnMessagesChangeLittle DEF m, n
        <3>5. t.node[i] = r.node
            BY <2>2, <3>2
        <3>. QED
            BY <2>3, <3>4, <3>5 DEF m, t
    <2>. QED
        BY <2>4, <2>5
<1>4. s \in H[0] /\ MessageByMessage(i, cut, s, H)
    <2>0. MessageByMessage(i, cut, s, H) <=>
          \A k \in 1 .. n : \A x \in H[k - 1] : Deliver(i, cut, x, q[k]) \in H[k]
        BY DEF MessageByMessage
    <2>. HIDE DEF n, S
    <2>1. (\A k \in 1 .. n : k \in 0 .. n /\ k - 1 \in 0 .. n) /\ 0 \in 0 .. n
        BY <1>1
    <2>. QED
        BY <1>2, <1>3, <2>0, <2>1
<1>5. \E x \in H[n] : y = Emptied(i, n, x)
    <2>1. Len(s.queue[i]) \in Nat
        BY <1>1
    <2>. HIDE DEF H
    <2>2. VisitEnds(i, cut, s, H)
        BY <1>4, <2>1, VisitInduction
    <2>. QED
        BY <2>2, Zenon DEF VisitEnds
<1>6. PICK x \in S : y = Emptied(i, n, x)
    <2>1. n \in 0 .. n
        BY <1>1
    <2>. HIDE DEF S
    <2>. QED
        BY <1>5, <2>1
<1>7. y.node = x.node
    BY <1>6, EmptiedFields DEF GoodSim
<1>. QED
    BY <1>6, <1>7

\* DeliverAllFiltered leaves an isolated node where it is (partition.go:57-82).
LEMMA IsolatedDelivery ==
    ASSUME ClusterInv, OwnInv, NEW cut, NEW i \in Server,
           \A j \in Server \ {i} : <<i, j>> \in cut /\ <<j, i>> \in cut,
           NEW order \in Orders, NEW end \in VisitAll(order, cut)
    PROVE  Unmoved(i, node[i], queue[i], end.node[i])
<1>. DEFINE N == Cardinality(Server)
            n == node[i]
            q == queue[i]
            H == [k \in 0 .. N |-> Left(i, n, q)]
<1>1. N \in Nat /\ Len(order) = N /\ \A k \in 1 .. N : order[k] \in Server
    BY NumberedNodes, OrdersAreSequences
<1>. HIDE DEF N
<1>2. Begin \in Left(i, n, q)
    <2>1. Begin \in GoodSim /\ Begin.node = node /\ Begin.queue = queue
        BY DEF ClusterInv, GoodQueues, Begin, GoodSim, Sim, OnlyOwnMessagesDropped
    <2>. QED
        BY <2>1 DEF Left, Unmoved
<1>3. ASSUME NEW j \in Server, NEW x \in Left(i, n, q), NEW y \in Visit(j, cut, x)
      PROVE  y \in Left(i, n, q)
    <2>1. /\ x \in GoodSim /\ Unmoved(i, n, q, x.node[i])
          /\ (x.node[i] = n /\ x.queue[i] = q) \/ x.queue[i] = <<>>
        BY DEF Left
    <2>2. y \in Elsewhere(j, cut, x) /\ y.queue[j] = <<>>
        BY <2>1, VisitElsewhere
    <2>3. y \in GoodSim /\ \A k \in Server \ {j} : Beside(j, k, cut, x, y)
        BY <2>2 DEF Elsewhere
    <2>4. CASE j # i
        <3>1. y.node[i] = x.node[i] /\ y.queue[i] = x.queue[i]
            BY <2>3, <2>4, Zenon DEF Beside
        <3>2. /\ Unmoved(i, n, q, y.node[i])
              /\ (y.node[i] = n /\ y.queue[i] = q) \/ y.queue[i] = <<>>
            BY <2>1, <3>1, Zenon
        <3>. HIDE DEF n, q
        <3>. QED
            BY <2>3, <3>2, Zenon DEF Left
    <2>5. CASE j = i /\ x.node[i] = n /\ x.queue[i] = q
        <3>1. OwnQueue(i, x.node[i], x.queue[i])
            BY <2>5 DEF OwnInv
        <3>2. Unmoved(i, x.node[i], x.queue[i], y.node[i])
            BY <2>1, <2>5, <3>1, OwnVisit, Zenon
        <3>. QED
            BY <2>2, <2>3, <2>5, <3>2 DEF Left
    <2>6. CASE j = i /\ x.queue[i] = <<>>
        <3>. DEFINE g == [k \in {0} |-> {x}]
        <3>1. Len(x.queue[i]) = 0
            BY <2>6
        <3>2. MessageByMessage(i, cut, x, g)
            BY <3>1 DEF MessageByMessage
        <3>3. x \in g[0] /\ g[0] = {x}
            OBVIOUS
        <3>. HIDE DEF g
        <3>4. VisitEnds(i, cut, x, g)
            BY <3>1, <3>2, <3>3, VisitInduction
        <3>5. y = Emptied(i, 0, x)
            BY <2>6, <3>1, <3>3, <3>4 DEF VisitEnds
        <3>6. y.node = x.node
            BY <2>1, <3>5, EmptiedFields DEF GoodSim
        <3>. QED
            BY <2>1, <2>2, <2>3, <2>6, <3>6 DEF Left
    <2>. QED
        BY <2>1, <2>4, <2>5, <2>6
<1>. HIDE DEF n, q
<1>4. QueueByQueue(order, cut, H)
    <2>1. \A k \in 1 .. N : k \in 0 .. N /\ k - 1 \in 0 .. N
        BY <1>1
    <2>2. \A k \in 1 .. N : \A x \in H[k - 1] : Visit(order[k], cut, x) \subseteq H[k]
        BY <1>1, <1>3, <2>1
    <2>. QED
        BY <1>1, <2>2 DEF QueueByQueue
<1>5. Begin \in H[0] /\ H[N] = Left(i, n, q)
    <2>1. 0 \in 0 .. N /\ N \in 0 .. N
        BY <1>1
    <2>. QED
        BY <1>2, <2>1
<1>. HIDE DEF H
<1>6. VisitAll(order, cut) \subseteq H[N]
    BY <1>1, <1>4, <1>5, VisitAllInduction
<1>. QED
    BY <1>5, <1>6 DEF Left, n, q

\* A later state of a node: its term is not lower, its log holds all it held, and
\* unless the node may crash its commit index is not lower either.
Onward(i, n, x) ==
    /\ n.currentTerm <= x.currentTerm
    /\ i \notin Crashers => n.log.commitIndex <= x.log.commitIndex
    /\ Len(n.log.entries) <= Len(x.log.entries)
    /\ \A k \in 1 .. Len(n.log.entries) : x.log.entries[k] = n.log.entries[k]

\* What a node told itself stays true as the node goes on.
LEMMA OwnQueueKept ==
    ASSUME NEW i \in Server, NEW n, GoodNode(n), NEW x, GoodNode(x), Onward(i, n, x),
           NEW u \in Seq(Message), \A k \in 1 .. Len(u) : GoodMessage(u[k]), OwnQueue(i, n, u)
    PROVE  OwnQueue(i, x, u)
<1>. SUFFICES ASSUME NEW k \in 1 .. Len(u), u[k].from = i PROVE OwnMessage(i, x, u[k])
    BY DEF OwnQueue
<1>. DEFINE m == u[k]
<1>1. GoodMessage(m) /\ m \in Message /\ OwnMessage(i, n, m)
    BY DEF OwnQueue, GoodMessage
<1>2. m.term \in Nat /\ n.currentTerm \in Nat /\ x.currentTerm \in Nat
      /\ n.log.commitIndex \in Nat /\ x.log.commitIndex \in Nat
      /\ Len(n.log.entries) \in Nat /\ Len(x.log.entries) \in Nat
    BY <1>1, MessageFields, LastIndexIsLength, Zenon DEF GoodNode, NodeState, WellFormed, Log
<1>. HIDE DEF m
<1>3. m.type \in {"RequestVote", "AppendEntries"} /\ m.term <= x.currentTerm
    <2>1. m.type \in {"RequestVote", "AppendEntries"} /\ m.term <= n.currentTerm
        BY <1>1, Zenon DEF OwnMessage
    <2>2. n.currentTerm <= x.currentTerm
        BY Zenon DEF Onward
    <2>. QED
        BY <1>2, <2>1, <2>2, NoLater, Zenon
<1>4. ASSUME m.type = "AppendEntries"
      PROVE  IsPartOfLog(m, x.log) /\ (i \notin Crashers => m.leaderCommit <= x.log.commitIndex)
    <2>1. m.prevLogIndex \in Nat /\ m.leaderCommit \in Nat /\ Len(m.entries) \in Nat
        BY <1>1, <1>4, MessageFields, LengthOfSeq DEF GoodMessage
    <2>2. /\ m.prevLogIndex + Len(m.entries) <= Len(n.log.entries)
          /\ m.prevLogIndex # 0 => m.prevLogTerm = n.log.entries[m.prevLogIndex].term
          /\ \A j \in 1 .. Len(m.entries) : m.entries[j] = n.log.entries[m.prevLogIndex + j]
          /\ i \notin Crashers => m.leaderCommit <= n.log.commitIndex
        BY <1>1, <1>4 DEF OwnMessage, IsPartOfLog
    <2>3. /\ Len(n.log.entries) <= Len(x.log.entries)
          /\ \A j \in 1 .. Len(n.log.entries) : x.log.entries[j] = n.log.entries[j]
          /\ i \notin Crashers => n.log.commitIndex <= x.log.commitIndex
        BY DEF Onward
    <2>. DEFINE pi == m.prevLogIndex
                ms == Len(m.entries)
                ns == Len(n.log.entries)
                xs == Len(x.log.entries)
    <2>a. pi \in Nat /\ ms \in Nat /\ ns \in Nat /\ xs \in Nat /\ pi + ms <= ns /\ ns <= xs
        BY <1>2, <2>1, <2>2, <2>3
    <2>b. pi + ms <= xs /\ (pi # 0 => pi \in 1 .. ns)
        <3>. HIDE DEF pi, ms, ns, xs
        <3>. QED
            BY <2>a
    <2>4. m.prevLogIndex + Len(m.entries) <= Len(x.log.entries)
        BY <2>b
    <2>5. m.prevLogIndex # 0 => m.prevLogTerm = x.log.entries[m.prevLogIndex].term
        <3>1. m.prevLogIndex # 0 => m.prevLogIndex \in 1 .. Len(n.log.entries)
            BY <2>b
        <3>2. m.prevLogIndex # 0 => m.prevLogTerm = n.log.entries[m.prevLogIndex].term
            BY <2>2
        <3>. QED
            BY <2>3, <3>1, <3>2, Zenon
    <2>6. ASSUME NEW j \in 1 .. Len(m.entries)
          PROVE  m.entries[j] = x.log.entries[m.prevLogIndex + j]
        <3>1. m.prevLogIndex + j \in 1 .. Len(n.log.entries)
            BY <1>2, <2>1, <2>2
        <3>. QED
            BY <2>2, <2>3, <3>1, Zenon
    <2>7. i \notin Crashers => m.leaderCommit <= x.log.commitIndex
        BY <1>2, <2>1, <2>2, <2>3
    <2>. QED
        BY <2>4, <2>5, <2>6, <2>7 DEF IsPartOfLog
<1>. QED
    BY <1>3, <1>4 DEF OwnMessage, m

\* Routing what a node sends itself, if it fits its state.
LEMMA RouteOwn ==
    ASSUME NEW i \in Server, NEW n, NEW q, GoodQueues(q), OwnQueue(i, n, q[i]),
           NEW out, \A m \in out : GoodMessage(m),
           \A m \in out : m.from = i => OwnMessage(i, n, m)
    PROVE  OwnQueue(i, n, Route(q, out)[i])
<1>. DEFINE u == q[i]
            v == Route(q, out)[i]
<1>1. v = u \/ \E m \in out : m.to = i /\ v = Append(u, m)
    BY RouteAppends
<1>2. u \in Seq(Message) /\ Len(u) \in Nat
    BY LengthOfSeq DEF GoodQueues
<1>. HIDE DEF v
<1>3. CASE v = u
    BY <1>3 DEF v
<1>4. CASE \E m \in out : m.to = i /\ v = Append(u, m)
    <2>1. PICK m \in out : v = Append(u, m)
        BY <1>4
    <2>2. m \in Message
        BY DEF GoodMessage
    <2>. HIDE DEF u
    <2>3. Len(v) = Len(u) + 1 /\ v[Len(u) + 1] = m /\ \A k \in 1 .. Len(u) : v[k] = u[k]
        BY <1>2, <2>1, <2>2, OneMore
    <2>4. ASSUME NEW k \in 1 .. Len(v), v[k].from = i PROVE OwnMessage(i, n, v[k])
        <3>1. CASE k = Len(u) + 1
            BY <2>3, <2>4, <3>1
        <3>2. CASE k \in 1 .. Len(u)
            BY <2>3, <2>4, <3>2 DEF OwnQueue, u
        <3>. QED
            BY <1>2, <2>3, <3>1, <3>2
    <2>. QED
        BY <2>4 DEF OwnQueue, v
<1>. QED
    BY <1>1, <1>3, <1>4

\* A heartbeat carries a part of the log and the commit index (node.go:319-341).
LEMMA BroadcastOwn ==
    ASSUME NEW i \in Server, NEW n, GoodNode(n)
    PROVE  \A m \in BroadcastAppendEntries(i, n) : m.from = i /\ OwnMessage(i, n, m)
<1>. SUFFICES ASSUME NEW p \in Server
              PROVE  AppendEntriesTo(i, n, p).from = i /\ OwnMessage(i, n, AppendEntriesTo(i, n, p))
    BY PeersAssumption DEF BroadcastAppendEntries
<1>. DEFINE m == AppendEntriesTo(i, n, p)
<1>1. IsPartOfLog(m, n.log)
    BY AppendEntriesToGood
<1>2. /\ m.type = "AppendEntries" /\ m.from = i /\ m.term = n.currentTerm
      /\ m.leaderCommit = n.log.commitIndex
    BY DEF AppendEntriesTo, AppendEntries
<1>3. n.currentTerm \in Nat /\ n.log.commitIndex \in Nat
    BY DEF GoodNode, NodeState, WellFormed, Log
<1>. HIDE DEF m
<1>4. m.term <= n.currentTerm /\ m.leaderCommit <= n.log.commitIndex
    BY <1>2, <1>3
<1>. QED
    BY <1>1, <1>2, <1>4 DEF OwnMessage, m

\* What a tick does to a node and sends (node.go:266-301).
LEMMA TickOwn ==
    ASSUME NEW i \in Server, GoodNode(node[i])
    PROVE  LET n == node[i]
               x == Tick(i).node
           IN  /\ x.log = n.log
               /\ x.leaderID \in {n.leaderID, Nil}
               /\ x.state = Leader => n.state = Leader
               /\ \/ x.currentTerm = n.currentTerm
                  \/ x.currentTerm = n.currentTerm + 1 /\ x.votedFor = i
               /\ ~n.crashed => ~x.crashed
               /\ \A m \in Tick(i).out : m.from = i /\ OwnMessage(i, x, m)
<1>. DEFINE n == node[i]
            x == Tick(i).node
            out == Tick(i).out
<1>0. n \in NodeState /\ n.currentTerm \in Nat
    BY DEF GoodNode, NodeState
<1>1. CASE ~n.crashed /\ n.state # Leader /\ ElectionDue(i)
    <2>. DEFINE c == [n EXCEPT !.currentTerm  = @ + 1,
                               !.state        = Candidate,
                               !.votedFor     = i,
                               !.votesGranted = {i},
                               !.leaderID     = Nil]
    <2>1. /\ x = c
          /\ out = {RequestVote(i, p, c.currentTerm, LastIndex(c.log), LastTerm(c.log)) : p \in Peers[i]}
        BY <1>1 DEF Tick, StartElection, Returns
    <2>2. /\ c.log = n.log /\ c.leaderID = Nil /\ c.state = Candidate
          /\ c.currentTerm = n.currentTerm + 1 /\ c.votedFor = i /\ c.crashed = n.crashed
        BY <1>0, Zenon DEF NodeState
    <2>3. \A m \in out : m.type = "RequestVote" /\ m.from = i /\ m.term = c.currentTerm
        BY <2>1 DEF RequestVote
    <2>. HIDE DEF c, x, out
    <2>4. c.currentTerm \in Nat
        BY <1>0, <2>2
    <2>5. ASSUME NEW m \in out PROVE m.from = i /\ OwnMessage(i, x, m)
        <3>1. m.type = "RequestVote" /\ m.from = i /\ m.term = x.currentTerm
            BY <2>1, <2>3, Zenon
        <3>2. m.term <= x.currentTerm
            BY <2>1, <2>4, <3>1
        <3>. QED
            BY <3>1, <3>2 DEF OwnMessage
    <2>. QED
        BY <1>1, <2>1, <2>2, <2>5 DEF Candidate, Leader, x, out
<1>2. CASE ~(~n.crashed /\ n.state # Leader /\ ElectionDue(i))
    <2>1. x = n /\ (out = {} \/ out = BroadcastAppendEntries(i, n))
        BY <1>2 DEF Tick, Returns
    <2>2. \A m \in BroadcastAppendEntries(i, n) : m.from = i /\ OwnMessage(i, n, m)
        BY BroadcastOwn
    <2>. HIDE DEF x, out
    <2>3. \A m \in out : m.from = i /\ OwnMessage(i, x, m)
        BY <2>1, <2>2
    <2>. QED
        BY <2>1, <2>3 DEF x, out
<1>. QED
    BY <1>1, <1>2

\* Node i, from state n with the messages q waiting to state k, learnt nothing of others.
LearntNothing(i, n, q, k) ==
    /\ k.leaderID \in {n.leaderID, i, Nil}
    /\ k.state = Leader => n.state = Leader
    /\ k.log.commitIndex > n.log.commitIndex => i \in Crashers /\ Says(i, q, k.log.commitIndex)
    /\ k.log.entries # n.log.entries =>
           /\ n.state = Leader
           /\ SubSeq(k.log.entries, 1, Len(k.log.entries) - 1) = n.log.entries
    /\ k.currentTerm # n.currentTerm =>
           k.currentTerm = n.currentTerm + 1 /\ k.votedFor = i

\* A delivery: what node i was told by others is lost, and it goes on as itself.
LEMMA OwnDelivery ==
    ASSUME ClusterInv, OwnInv, NEW cut, DeliverThrough(cut)
    PROVE  /\ OwnInv'
           /\ \A i \in Server : (\A j \in Server \ {i} : <<i, j>> \in cut /\ <<j, i>> \in cut)
                                    => LearntNothing(i, node[i], queue[i], node'[i])
<1>1. PICK order \in Orders : \E end \in VisitAll(order, cut) : node' = end.node /\ queue' = end.queue
    BY DEF DeliverThrough
<1>2. PICK end \in VisitAll(order, cut) : node' = end.node /\ queue' = end.queue
    BY <1>1
<1>3. OwnInv'
    <2>1. /\ \A j \in Server : NoOwn(end.queue[j], j)
          /\ \A j \in Server : ~node[j].crashed => ~end.node[j].crashed
        BY NothingOwnIsLeft
    <2>2. \A j \in Server : OwnQueue(j, node'[j], queue'[j])
        BY <1>2, <2>1 DEF OwnQueue, NoOwn
    <2>3. \A j \in Server \ Crashers : ~node'[j].crashed
        BY <1>2, <2>1 DEF OwnInv
    <2>. QED
        BY <2>2, <2>3 DEF OwnInv
<1>4. ASSUME NEW i \in Server, \A j \in Server \ {i} : <<i, j>> \in cut /\ <<j, i>> \in cut
      PROVE  LearntNothing(i, node[i], queue[i], node'[i])
    <2>1. Unmoved(i, node[i], queue[i], end.node[i])
        BY <1>4, IsolatedDelivery
    <2>2. node[i].log.commitIndex \in Nat
        BY DEF ClusterInv, GoodNode, WellFormed, Log
    <2>3. ~(node[i].log.commitIndex > node[i].log.commitIndex)
        BY <2>2
    <2>4. LearntNothing(i, node[i], queue[i], end.node[i])
        BY <2>1, <2>3 DEF Unmoved, LearntNothing
    <2>. QED
        BY <1>2, <2>4
<1>. QED
    BY <1>3, <1>4

\* TickAll.
LEMMA OwnTick ==
    ASSUME ClusterInv, OwnInv, TickAll
    PROVE  OwnInv' /\ \A i \in Server : LearntNothing(i, node[i], queue[i], node'[i])
<1>. DEFINE r == [i \in Server |-> Tick(i)]
            N == Cardinality(Server)
            x == [i \in Server |-> r[i].node]
<1>1. node' = x /\ queue' = RoutedBy(queue, r, N)
    BY DEF TickAll, RoutedBy
<1>2. /\ \A i \in Server : GoodNode(node[i]) /\ node[i].log.commitIndex \in Nat
                           /\ node[i].currentTerm \in Nat
      /\ GoodQueues(queue)
    BY DEF ClusterInv, GoodNode, NodeState, WellFormed, Log
<1>3. \A i \in Server :
        /\ GoodResult(r[i]) /\ GoodNode(r[i].node)
        /\ r[i].node.log = node[i].log
        /\ r[i].node.leaderID \in {node[i].leaderID, Nil}
        /\ r[i].node.state = Leader => node[i].state = Leader
        /\ \/ r[i].node.currentTerm = node[i].currentTerm
           \/ r[i].node.currentTerm = node[i].currentTerm + 1 /\ r[i].node.votedFor = i
        /\ ~node[i].crashed => ~r[i].node.crashed
        /\ \A m \in r[i].out : m.from = i /\ OwnMessage(i, r[i].node, m)
    BY <1>2, TickGood, TickOwn DEF GoodResult
<1>. HIDE DEF r
<1>4. N \in Nat /\ Server = 1 .. N
    BY NumberedNodes
<1>5. ASSUME NEW i \in Server PROVE OwnQueue(i, x[i], queue[i])
    <2>1. x[i] = r[i].node /\ GoodNode(x[i]) /\ x[i].log = node[i].log
        BY <1>3
    <2>2. Onward(i, node[i], x[i])
        <3>. DEFINE t == node[i].currentTerm
                    c == node[i].log.commitIndex
                    l == Len(node[i].log.entries)
        <3>1. t \in Nat /\ c \in Nat /\ l \in Nat
            BY <1>2, LastIndexIsLength DEF GoodNode
        <3>2. x[i].currentTerm = t \/ x[i].currentTerm = t + 1
            BY <1>3, <2>1
        <3>. HIDE DEF t, c, l
        <3>3. t <= x[i].currentTerm /\ c <= c /\ l <= l
            BY <3>1, <3>2
        <3>. QED
            BY <2>1, <3>3 DEF Onward, t, c, l
    <2>3. /\ queue[i] \in Seq(Message) /\ OwnQueue(i, node[i], queue[i])
          /\ \A k \in 1 .. Len(queue[i]) : GoodMessage(queue[i][k])
        BY <1>2 DEF GoodQueues, OwnInv
    <2>. HIDE DEF x
    <2>. QED
        BY <1>2, <2>1, <2>2, <2>3, OwnQueueKept
<1>6. ASSUME NEW i \in Server PROVE OwnQueue(i, x[i], RoutedBy(queue, r, N)[i])
    <2>. DEFINE H == {q \in [Server -> Seq(Message)] : GoodQueues(q) /\ OwnQueue(i, x[i], q[i])}
    <2>. HIDE DEF N
    <2>1. queue \in H
        BY <1>2, <1>5 DEF GoodQueues
    <2>2. ASSUME NEW k \in 1 .. N, NEW q \in H PROVE Route(q, r[k].out) \in H
        <3>1. \A m \in r[k].out : GoodMessage(m) /\ (m.from = i => OwnMessage(i, x[i], m))
            <4>1. k \in Server
                BY <1>4
            <4>2. \A m \in r[k].out : GoodMessage(m) /\ m.from = k /\ OwnMessage(k, r[k].node, m)
                BY <1>3, <4>1 DEF GoodResult
            <4>. QED
                BY <4>2
        <3>. HIDE DEF x
        <3>2. GoodQueues(Route(q, r[k].out))
            BY <3>1, RouteAppends
        <3>3. OwnQueue(i, x[i], Route(q, r[k].out)[i])
            BY <3>1, RouteOwn, Zenon
        <3>. QED
            BY <3>2, <3>3 DEF GoodQueues
    <2>3. RoutesWithin(r, N, H)
        <3>. HIDE DEF H
        <3>. QED
            BY <2>2 DEF RoutesWithin
    <2>4. RoutedBy(queue, r, N) \in H
        <3>. HIDE DEF H
        <3>. QED
            BY <1>4, <2>1, <2>3, RoutedInTurn
    <2>. QED
        BY <2>4
<1>7. OwnInv'
    <2>1. \A i \in Server : OwnQueue(i, node'[i], queue'[i])
        <3>. HIDE DEF x, N
        <3>. QED
            BY <1>1, <1>6
    <2>2. \A i \in Server \ Crashers : ~node'[i].crashed
        BY <1>1, <1>3 DEF OwnInv
    <2>. QED
        BY <2>1, <2>2 DEF OwnInv
<1>8. ASSUME NEW i \in Server PROVE LearntNothing(i, node[i], queue[i], node'[i])
    <2>1. node'[i] = r[i].node
        BY <1>1
    <2>2. ~(node[i].log.commitIndex > node[i].log.commitIndex)
        BY <1>2
    <2>3. LearntNothing(i, node[i], queue[i], r[i].node)
        BY <1>3, <2>2 DEF LearntNothing
    <2>. QED
        BY <2>1, <2>3
<1>. QED
    BY <1>7, <1>8

\* Nothing changes for a node that is left alone.
LEMMA SameNode ==
    ASSUME NEW i, NEW n, GoodNode(n), NEW q
    PROVE  LearntNothing(i, n, q, n) /\ Onward(i, n, n)
<1>1. n.log.commitIndex \in Nat /\ n.currentTerm \in Nat /\ Len(n.log.entries) \in Nat
    BY LastIndexIsLength DEF GoodNode, NodeState, WellFormed, Log
<1>. DEFINE c == n.log.commitIndex
            l == Len(n.log.entries)
            t == n.currentTerm
<1>2. ~(c > c) /\ c <= c /\ l <= l /\ t <= t
    <2>. HIDE DEF c, l, t
    <2>. QED
        BY <1>1 DEF c, l, t
<1>. QED
    BY <1>2 DEF LearntNothing, Onward

\* Propose, for the leader and for the others.
LEMMA OwnPropose ==
    ASSUME ClusterInv, OwnInv, NEW cmd \in Command, Propose(cmd)
    PROVE  OwnInv' /\ \A i \in Server : LearntNothing(i, node[i], queue[i], node'[i])
<1>. DEFINE p == Min(Leaders)
            n == node[p]
            x == NodePropose(n, cmd)
            out == BroadcastAppendEntries(p, x)
<1>1. /\ Leaders # {}
      /\ node' = [node EXCEPT ![p] = x] /\ queue' = Route(queue, out)
    BY DEF Propose
<1>2. p \in Server /\ n.state = Leader
    BY <1>1, MinOfNaturals, NumberedNodes DEF Leaders
<1>. HIDE DEF p
<1>3. /\ node \in [Server -> NodeState] /\ \A i \in Server : GoodNode(node[i])
      /\ GoodQueues(queue)
    BY DEF ClusterInv
<1>4. GoodNode(x) /\ \A m \in out : GoodMessage(m) /\ m.from = p /\ OwnMessage(p, x, m)
    BY <1>2, <1>3, NodeProposeGood, BroadcastGood, BroadcastOwn
<1>5. /\ x.currentTerm = n.currentTerm /\ x.leaderID = n.leaderID
      /\ x.state = n.state /\ x.crashed = n.crashed
      /\ x.log.commitIndex = n.log.commitIndex
      /\ \E e \in Entry : x.log.entries = Append(n.log.entries, e)
    BY <1>2, <1>3, ProposeAddsOne
<1>. HIDE DEF x, out
<1>6. node'[p] = x /\ \A i \in Server \ {p} : node'[i] = node[i]
    BY <1>1, <1>2, <1>3
<1>7. /\ n.log.commitIndex \in Nat /\ n.currentTerm \in Nat
      /\ n.log.entries \in Seq(Entry) /\ Len(n.log.entries) \in Nat
    BY <1>2, <1>3, LastIndexIsLength DEF GoodNode, NodeState, WellFormed, Log
<1>8. /\ Len(x.log.entries) = Len(n.log.entries) + 1
      /\ \A k \in 1 .. Len(n.log.entries) : x.log.entries[k] = n.log.entries[k]
      /\ SubSeq(x.log.entries, 1, Len(x.log.entries) - 1) = n.log.entries
    <2>. DEFINE u == n.log.entries
                v == x.log.entries
    <2>1. PICK e \in Entry : v = Append(u, e)
        BY <1>5
    <2>. HIDE DEF u, v
    <2>2. u \in Seq(Entry) /\ Len(u) \in Nat
        BY <1>7 DEF u
    <2>3. /\ v \in Seq(Entry) /\ Len(v) = Len(u) + 1 /\ \A k \in 1 .. Len(u) : v[k] = u[k]
        BY <2>1, <2>2, OneMore
    <2>4. Len(v) - 1 = Len(u)
        BY <2>2, <2>3
    <2>5. SubSeq(v, 1, Len(u)) = u
        BY <2>2, <2>3
    <2>. QED
        BY <2>3, <2>4, <2>5 DEF u, v
<1>9. Onward(p, n, x)
    <2>. DEFINE c == n.log.commitIndex
                l == Len(n.log.entries)
                t == n.currentTerm
    <2>1. c <= c /\ t <= t /\ l <= l + 1
        <3>1. c \in Nat /\ t \in Nat /\ l \in Nat
            BY <1>7
        <3>. HIDE DEF c, l, t
        <3>. QED
            BY <3>1
    <2>. QED
        BY <1>5, <1>8, <2>1 DEF Onward
<1>10. ASSUME NEW i \in Server PROVE OwnQueue(i, node'[i], queue'[i])
    <2>1. /\ OwnQueue(i, node[i], queue[i]) /\ queue[i] \in Seq(Message)
          /\ \A k \in 1 .. Len(queue[i]) : GoodMessage(queue[i][k])
        BY <1>3 DEF OwnInv, GoodQueues
    <2>2. CASE i = p
        <3>1. OwnQueue(i, x, queue[i])
            BY <1>3, <1>4, <1>9, <2>1, <2>2, OwnQueueKept
        <3>2. OwnQueue(i, x, Route(queue, out)[i])
            BY <1>3, <1>4, <2>2, <3>1, RouteOwn
        <3>. QED
            BY <1>1, <1>6, <2>2, <3>2
    <2>3. CASE i # p
        <3>1. \A m \in out : GoodMessage(m) /\ (m.from = i => OwnMessage(i, node[i], m))
            BY <1>4, <2>3
        <3>2. OwnQueue(i, node[i], Route(queue, out)[i])
            BY <1>3, <2>1, <3>1, RouteOwn
        <3>. QED
            BY <1>1, <1>6, <2>3, <3>2
    <2>. QED
        BY <2>2, <2>3
<1>11. \A i \in Server \ Crashers : ~node'[i].crashed
    BY <1>5, <1>6 DEF OwnInv
<1>12. ASSUME NEW i \in Server PROVE LearntNothing(i, node[i], queue[i], node'[i])
    <2>1. CASE i = p
        <3>1. ~(n.log.commitIndex > n.log.commitIndex)
            BY <1>7
        <3>2. LearntNothing(p, n, queue[p], x)
            BY <1>2, <1>5, <1>8, <3>1 DEF LearntNothing
        <3>. QED
            BY <1>6, <2>1, <3>2
    <2>2. CASE i # p
        BY <1>3, <1>6, <2>2, SameNode, Zenon
    <2>. QED
        BY <2>1, <2>2
<1>. QED
    BY <1>10, <1>11, <1>12 DEF OwnInv

\* Crash and Restart.
LEMMA OwnCrash ==
    ASSUME ClusterInv, OwnInv, NEW p \in Server, Crash(p) \/ Restart(p)
    PROVE  OwnInv' /\ \A i \in Server : LearntNothing(i, node[i], queue[i], node'[i])
<1>. DEFINE n == node[p]
<1>1. /\ node \in [Server -> NodeState] /\ \A i \in Server : GoodNode(node[i])
      /\ GoodQueues(queue)
    BY DEF ClusterInv
<1>2. PICK x \in {NodeCrash(n), NodeRestart(n)} :
        /\ node' = [node EXCEPT ![p] = x] /\ queue' = queue /\ p \in Crashers
    BY DEF Crash, Restart, OwnInv
<1>3. /\ GoodNode(x) /\ x.currentTerm = n.currentTerm
      /\ x.leaderID = Nil /\ x.state = Follower
      /\ x.log.entries = n.log.entries
      /\ x.log.commitIndex = n.log.commitIndex \/ x.log.commitIndex = 0
    <2>1. GoodNode(n)
        BY <1>1
    <2>2. CASE x = NodeCrash(n)
        BY <2>1, <2>2, CrashedNode, NodeCrashGood
    <2>3. CASE x = NodeRestart(n)
        <3>1. GoodNode(x)
            BY <2>1, <2>3, NodeRestartRestores, Zenon
        <3>. QED
            BY <2>1, <2>3, <3>1, RestartedNode
    <2>. QED
        BY <1>2, <2>2, <2>3
<1>4. node'[p] = x /\ \A i \in Server \ {p} : node'[i] = node[i]
    BY <1>1, <1>2
<1>5. n.log.commitIndex \in Nat /\ n.currentTerm \in Nat /\ Len(n.log.entries) \in Nat
    BY <1>1, LastIndexIsLength DEF GoodNode, NodeState, WellFormed, Log
<1>6. Onward(p, n, x)
    <2>1. n.currentTerm <= n.currentTerm /\ Len(n.log.entries) <= Len(n.log.entries)
        BY <1>1, SameNode DEF Onward
    <2>. QED
        BY <1>2, <1>3, <2>1 DEF Onward
<1>7. ASSUME NEW i \in Server PROVE OwnQueue(i, node'[i], queue'[i])
    <2>1. /\ OwnQueue(i, node[i], queue[i]) /\ queue[i] \in Seq(Message)
          /\ \A k \in 1 .. Len(queue[i]) : GoodMessage(queue[i][k])
        BY <1>1 DEF OwnInv, GoodQueues
    <2>2. CASE i = p
        <3>1. OwnQueue(i, x, queue[i])
            BY <1>1, <1>3, <1>6, <2>1, <2>2, OwnQueueKept
        <3>. QED
            BY <1>2, <1>4, <2>2, <3>1
    <2>3. CASE i # p
        BY <1>2, <1>4, <2>1, <2>3
    <2>. QED
        BY <2>2, <2>3
<1>8. \A i \in Server \ Crashers : ~node'[i].crashed
    BY <1>2, <1>4 DEF OwnInv
<1>9. ASSUME NEW i \in Server PROVE LearntNothing(i, node[i], queue[i], node'[i])
    <2>1. CASE i = p
        <3>1. ~(x.log.commitIndex > n.log.commitIndex)
            BY <1>3, <1>5
        <3>2. LearntNothing(p, n, queue[p], x)
            BY <1>3, <3>1 DEF LearntNothing, Follower, Leader
        <3>. QED
            BY <1>4, <2>1, <3>2
    <2>2. CASE i # p
        BY <1>1, <1>4, <2>2, SameNode, Zenon
    <2>. QED
        BY <2>1, <2>2
<1>. QED
    BY <1>7, <1>8, <1>9 DEF OwnInv

\* Every call of a partitioned cluster keeps OwnInv, and an isolated node learns
\* nothing from it.
LEMMA PartitionedStep ==
    ASSUME ClusterInv, OwnInv, [PartitionedNext]_vars
    PROVE  /\ OwnInv'
           /\ \A i \in Server : Alone(i) => LearntNothing(i, node[i], queue[i], node'[i])
<1>1. ASSUME node' = node, queue' = queue
      PROVE  OwnInv' /\ \A i \in Server : LearntNothing(i, node[i], queue[i], node'[i])
    BY <1>1, SameNode, Zenon DEF ClusterInv, OwnInv
<1>2. CASE UNCHANGED vars
    BY <1>1, <1>2 DEF vars
<1>3. CASE HealAll \/ \E i \in Server : Partition(i) \/ Heal(i)
    BY <1>1, <1>3 DEF HealAll, Partition, Heal
<1>4. CASE DeliverAllFiltered
    BY <1>4, OwnDelivery DEF DeliverAllFiltered, Alone
<1>5. CASE Calls
    BY <1>5, OwnTick, OwnPropose, OwnCrash DEF Calls
<1>. QED
    BY <1>2, <1>3, <1>4, <1>5 DEF PartitionedNext

\* An isolated node hears of no leader but itself, wins no election, enters a term only
\* to campaign in it, gets entries only from its clients and only as a leader, and
\* commits nothing it had not told itself was committed (partition.go:20-82).
THEOREM IsolatedNodesLearnNothing == PartitionedSpec => IsolatedLearnNothing
<1>. DEFINE Inv == ClusterInv /\ OwnInv
<1>1. Init => Inv
    <2>. SUFFICES ASSUME Init PROVE Inv
        OBVIOUS
    <2>1. ClusterInv
        BY ClusterStart
    <2>2. /\ \A i \in Server : queue[i] = <<>> /\ Len(<<>>) = 0
          /\ \A i \in Server : ~node[i].crashed
        BY DEF Init, NewNode
    <2>3. ~\E k \in Nat : k \in 1 .. 0
        OBVIOUS
    <2>4. OwnInv
        BY <2>2, <2>3 DEF OwnInv, OwnQueue
    <2>. QED
        BY <2>1, <2>4
<1>2. Inv /\ [PartitionedNext]_vars => Inv'
    BY ClusterKeepsInv, PartitionedStep
<1>3. ASSUME Inv, [PartitionedNext]_vars
      PROVE  [\A i \in Server : Alone(i) =>
                LET n == node[i]
                    k == node'[i]
                IN  /\ k.leaderID \in {n.leaderID, i, Nil}
                    /\ k.state = Leader => n.state = Leader
                    /\ k.log.commitIndex > n.log.commitIndex =>
                           i \in Crashers /\ OwnWord(i, k.log.commitIndex)
                    /\ k.log.entries # n.log.entries =>
                           /\ n.state = Leader
                           /\ SubSeq(k.log.entries, 1, Len(k.log.entries) - 1) = n.log.entries
                    /\ k.currentTerm # n.currentTerm =>
                           k.currentTerm = n.currentTerm + 1 /\ k.votedFor = i]_vars
    <2>1. \A i \in Server : Alone(i) => LearntNothing(i, node[i], queue[i], node'[i])
        BY <1>3, PartitionedStep
    <2>2. ASSUME NEW i, NEW c PROVE Says(i, queue[i], c) <=> OwnWord(i, c)
        BY DEF Says, OwnWord
    <2>. QED
        BY <2>1, <2>2 DEF LearntNothing
<1>. QED
    BY <1>1, <1>2, <1>3, PTL DEF PartitionedSpec, IsolatedLearnNothing

=============================================================================
