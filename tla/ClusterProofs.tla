--------------------------- MODULE ClusterProofs ---------------------------
(***************************************************************************)
(* Theorems about Cluster, for any number of nodes, any timeouts and any   *)
(* partitions.                                                             *)
(*                                                                         *)
(* DeliverAll is a loop over the queues around a loop over the messages.   *)
(* What holds after it is shown by induction over both: VisitInduction and *)
(* VisitAllInduction say what has to be shown of a single message and of a *)
(* single queue.                                                           *)
(***************************************************************************)
EXTENDS Cluster, RaftNodeProofs, FiniteSetTheorems

Elected == [leader : Server, term : Nat]

\* The state of the simulator in the middle of DeliverAll.
Sim == [node    : [Server -> NodeState],
        queue   : [Server -> Seq(Message)],
        reset   : SUBSET Server,
        dropped : SUBSET Message,
        elected : SUBSET Elected]

\* Every message is where it is sent to, and every node is well-formed.
GoodQueues(q) ==
    /\ q \in [Server -> Seq(Message)]
    /\ \A i \in Server : \A k \in 1 .. Len(q[i]) : GoodMessage(q[i][k]) /\ q[i][k].to = i

GoodSim ==
    {s \in Sim : /\ \A i \in Server : GoodNode(s.node[i])
                 /\ GoodQueues(s.queue)
                 /\ \A m \in s.dropped : m.from = m.to}

ClusterInv ==
    /\ node \in [Server -> NodeState] /\ \A i \in Server : GoodNode(node[i])
    /\ timer \in [Server -> Timer]
    /\ GoodQueues(queue)
    /\ blocked \subseteq Server \X Server
    /\ dropped \subseteq Message /\ OnlyOwnMessagesDropped
    /\ elected \subseteq Elected

-----------------------------------------------------------------------------
(***************************************************************************)
(* The loops.                                                              *)
(***************************************************************************)

\* The simulator when the queue of node i, which held n messages, is emptied.
Emptied(i, n, x) ==
    [x EXCEPT !.queue[i] = <<>>,
              !.dropped  = @ \cup Range(SubSeq(x.queue[i], n + 1, Len(x.queue[i])))]

\* The simulator when DeliverAll is called.
Begin == [node |-> node, queue |-> queue, reset |-> {},
          dropped |-> dropped, elected |-> elected]

\* Message k of the queue of node i leads from H[k - 1] to H[k].
MessageByMessage(i, cut, s, H) ==
    \A k \in 1 .. Len(s.queue[i]) : \A x \in H[k - 1] :
        Deliver(i, cut, x, s.queue[i][k]) \in H[k]

\* Queue k of an order leads from H[k - 1] to H[k].
QueueByQueue(order, cut, H) ==
    \A k \in 1 .. Len(order) : \A x \in H[k - 1] : Visit(order[k], cut, x) \subseteq H[k]

\* The loop over the messages of a queue leads to H and then empties the queue.
VisitEnds(i, cut, s, H) ==
    \A y \in Visit(i, cut, s) :
        \E x \in H[Len(s.queue[i])] : y = Emptied(i, Len(s.queue[i]), x)

\* The loop over the messages of a queue (cluster.go:57-61): what holds before the
\* first message, and of every message after it if before it, holds when the queue
\* is emptied.  H[k] are the states after k messages.
LEMMA VisitInduction ==
    ASSUME NEW i, NEW cut, NEW s, Len(s.queue[i]) \in Nat, NEW H, s \in H[0],
           MessageByMessage(i, cut, s, H)
    PROVE  VisitEnds(i, cut, s, H)
<1>. DEFINE msgs == s.queue[i]
            P(X, k) == {Deliver(i, cut, x, msgs[k]) : x \in X}
            F(g, k) == IF k = 0 THEN {s} ELSE P(g[k - 1], k)
            Out(g, n) == g = [k \in 0 .. n |-> F(g, k)]
            E == {n \in Nat : \E g : Out(g, n)}
            W(x) == Emptied(i, Len(msgs), x)
<1>. HIDE DEF P
<1>1. 0 \in E
    <2>. DEFINE g == [k \in 0 .. 0 |-> {s}]
    <2>1. Out(g, 0)
        OBVIOUS
    <2>. QED
        BY <2>1, Zenon
<1>2. ASSUME NEW n \in Nat, n \in E PROVE n + 1 \in E
    <2>1. PICK g : Out(g, n)
        BY <1>2
    <2>2. \A k \in 0 .. n : g[k] = F(g, k)
        <3>. HIDE DEF F
        <3>. QED
            BY <2>1
    <2>. DEFINE h == [k \in 0 .. n + 1 |-> IF k <= n THEN g[k] ELSE P(g[n], n + 1)]
    <2>3. ASSUME NEW k \in 0 .. n + 1 PROVE h[k] = F(h, k)
        <3>1. CASE k = 0
            BY <2>2, <3>1
        <3>2. CASE k \in 1 .. n
            <4>1. g[k] = F(g, k) /\ h[k] = g[k] /\ h[k - 1] = g[k - 1]
                BY <2>2, <3>2
            <4>. QED
                BY <3>2, <4>1
        <3>3. CASE k = n + 1
            <4>1. h[k - 1] = g[n] /\ k # 0
                BY <3>3
            <4>. QED
                BY <3>3, <4>1
        <3>. QED
            BY <3>1, <3>2, <3>3
    <2>4. Out(h, n + 1)
        <3>. DEFINE q == [k \in 0 .. n + 1 |-> F(h, k)]
        <3>1. h = q
            BY <2>3, Zenon
        <3>. QED
            BY <3>1, Zenon
    <2>. HIDE DEF Out, h
    <2>. QED
        BY <2>4
<1>3. Len(msgs) \in E
    <2>. HIDE DEF E, msgs
    <2>1. Len(msgs) \in Nat
        BY DEF msgs
    <2>. QED
        BY <1>1, <1>2, <2>1, InductiveSet
<1>. DEFINE handled == CHOOSE g : Out(g, Len(msgs))
<1>4. Out(handled, Len(msgs))
    BY <1>3, Zenon
<1>5. Visit(i, cut, s) = {W(x) : x \in handled[Len(msgs)]}
    BY DEF Visit, P, Emptied
<1>. HIDE DEF handled, W
<1>6. \A k \in 0 .. Len(msgs) : handled[k] = F(handled, k)
    <2>. HIDE DEF F
    <2>. QED
        BY <1>4
<1>. DEFINE G == {k \in Nat : k <= Len(msgs) => handled[k] \subseteq H[k]}
<1>7. 0 \in G
    <2>1. 0 \in 0 .. Len(msgs)
        OBVIOUS
    <2>2. handled[0] = {s}
        BY <1>6, <2>1
    <2>. QED
        BY <2>2
<1>8. ASSUME NEW k \in Nat, k \in G PROVE k + 1 \in G
    <2>. SUFFICES ASSUME k + 1 <= Len(msgs) PROVE handled[k + 1] \subseteq H[k + 1]
        OBVIOUS
    <2>1. k + 1 \in 0 .. Len(msgs) /\ k + 1 \in 1 .. Len(msgs) /\ k + 1 # 0 /\ (k + 1) - 1 = k
        OBVIOUS
    <2>2. handled[k + 1] = P(handled[k], k + 1)
        BY <1>6, <2>1
    <2>3. handled[k] \subseteq H[k]
        BY <1>8, <2>1
    <2>4. \A x \in H[k] : Deliver(i, cut, x, msgs[k + 1]) \in H[k + 1]
        BY <2>1 DEF MessageByMessage
    <2>. HIDE DEF msgs
    <2>. QED
        BY <2>2, <2>3, <2>4, Zenon DEF P
<1>9. Len(msgs) \in G
    <2>. HIDE DEF G
    <2>. QED
        BY <1>7, <1>8, InductiveSet, Zenon
<1>10. handled[Len(msgs)] \subseteq H[Len(msgs)]
    BY <1>9
<1>. QED
    BY <1>5, <1>10, Zenon DEF W, VisitEnds

\* The loop over the queues (cluster.go:47-63): what one iteration keeps, whichever
\* queue it is about, holds after all of them.
LEMMA VisitAllInduction ==
    ASSUME NEW order, Len(order) \in Nat, NEW cut, NEW H, Begin \in H[0],
           QueueByQueue(order, cut, H)
    PROVE  VisitAll(order, cut) \subseteq H[Len(order)]
<1>. DEFINE z == Begin
            P(X, k) == UNION {Visit(order[k], cut, x) : x \in X}
            F(g, k) == IF k = 0 THEN {z} ELSE P(g[k - 1], k)
            Out(g, n) == g = [k \in 0 .. n |-> F(g, k)]
            E == {n \in Nat : \E g : Out(g, n)}
<1>0. z \in H[0]
    OBVIOUS
<1>. HIDE DEF P, z
<1>1. 0 \in E
    <2>. DEFINE g == [k \in 0 .. 0 |-> {z}]
    <2>1. Out(g, 0)
        OBVIOUS
    <2>. QED
        BY <2>1, Zenon
<1>2. ASSUME NEW n \in Nat, n \in E PROVE n + 1 \in E
    <2>1. PICK g : Out(g, n)
        BY <1>2
    <2>2. \A k \in 0 .. n : g[k] = F(g, k)
        <3>. HIDE DEF F
        <3>. QED
            BY <2>1
    <2>. DEFINE h == [k \in 0 .. n + 1 |-> IF k <= n THEN g[k] ELSE P(g[n], n + 1)]
    <2>3. ASSUME NEW k \in 0 .. n + 1 PROVE h[k] = F(h, k)
        <3>1. CASE k = 0
            BY <2>2, <3>1
        <3>2. CASE k \in 1 .. n
            <4>1. g[k] = F(g, k) /\ h[k] = g[k] /\ h[k - 1] = g[k - 1]
                BY <2>2, <3>2
            <4>. QED
                BY <3>2, <4>1
        <3>3. CASE k = n + 1
            <4>1. h[k - 1] = g[n] /\ k # 0
                BY <3>3
            <4>. QED
                BY <3>3, <4>1
        <3>. QED
            BY <3>1, <3>2, <3>3
    <2>4. Out(h, n + 1)
        <3>. DEFINE q == [k \in 0 .. n + 1 |-> F(h, k)]
        <3>1. h = q
            BY <2>3, Zenon
        <3>. QED
            BY <3>1, Zenon
    <2>. HIDE DEF Out, h
    <2>. QED
        BY <2>4
<1>3. Len(order) \in E
    <2>. HIDE DEF E
    <2>. QED
        BY <1>1, <1>2, InductiveSet
<1>. DEFINE visited == CHOOSE g : Out(g, Len(order))
<1>4. Out(visited, Len(order))
    BY <1>3, Zenon
<1>5. VisitAll(order, cut) = visited[Len(order)]
    BY DEF VisitAll, P, z, Begin
<1>. HIDE DEF visited
<1>6. \A k \in 0 .. Len(order) : visited[k] = F(visited, k)
    <2>. HIDE DEF F
    <2>. QED
        BY <1>4
<1>. DEFINE G == {k \in Nat : k <= Len(order) => visited[k] \subseteq H[k]}
<1>7. 0 \in G
    <2>1. 0 \in 0 .. Len(order)
        OBVIOUS
    <2>2. visited[0] = {z}
        BY <1>6, <2>1
    <2>. QED
        BY <1>0, <2>2
<1>8. ASSUME NEW k \in Nat, k \in G PROVE k + 1 \in G
    <2>. SUFFICES ASSUME k + 1 <= Len(order) PROVE visited[k + 1] \subseteq H[k + 1]
        OBVIOUS
    <2>1. k + 1 \in 0 .. Len(order) /\ k + 1 \in 1 .. Len(order) /\ k + 1 # 0 /\ (k + 1) - 1 = k
        OBVIOUS
    <2>2. visited[k + 1] = P(visited[k], k + 1)
        BY <1>6, <2>1
    <2>3. visited[k] \subseteq H[k]
        BY <1>8, <2>1
    <2>4. \A x \in H[k] : Visit(order[k + 1], cut, x) \subseteq H[k + 1]
        BY <2>1 DEF QueueByQueue
    <2>. QED
        BY <2>2, <2>3, <2>4, Zenon DEF P
<1>9. Len(order) \in G
    <2>. HIDE DEF G
    <2>. QED
        BY <1>7, <1>8, InductiveSet
<1>. QED
    BY <1>5, <1>9

-----------------------------------------------------------------------------
(***************************************************************************)
(* One message.                                                            *)
(***************************************************************************)

\* What is left of a sequence after its first n elements.
LEMMA RestOfQueue ==
    ASSUME NEW S, NEW u \in Seq(S), NEW n \in Nat, n <= Len(u)
    PROVE  /\ SubSeq(u, n + 1, Len(u)) \in Seq(S)
           /\ Len(SubSeq(u, n + 1, Len(u))) = Len(u) - n
           /\ \A k \in 1 .. Len(u) - n : SubSeq(u, n + 1, Len(u))[k] = u[n + k]
<1>1. Len(u) \in Nat
    BY LengthOfSeq
<1>2. CASE n = Len(u)
    BY <1>1, <1>2, SMTT(30)
<1>3. CASE n < Len(u)
    BY <1>1, <1>3, SMTT(30)
<1>. QED
    BY <1>1, <1>2, <1>3

\* route appends at most one message to each queue (cluster.go:127-131).
LEMMA RouteAppends ==
    ASSUME NEW q, GoodQueues(q), NEW out, \A m \in out : GoodMessage(m)
    PROVE  /\ GoodQueues(Route(q, out))
           /\ \A p \in Server :
                \/ Route(q, out)[p] = q[p] /\ ~\E m \in out : m.to = p
                \/ \E m \in out : m.to = p /\ Route(q, out)[p] = Append(q[p], m)
<1>. DEFINE x == Route(q, out)
<1>1. q \in [Server -> Seq(Message)]
    BY DEF GoodQueues
<1>2. ASSUME NEW p \in Server
      PROVE  /\ \/ x[p] = q[p] /\ ~\E m \in out : m.to = p
                \/ \E m \in out : m.to = p /\ x[p] = Append(q[p], m)
             /\ x[p] \in Seq(Message)
             /\ \A k \in 1 .. Len(x[p]) : GoodMessage(x[p][k]) /\ x[p][k].to = p
    <2>0. q[p] \in Seq(Message) /\ \A k \in 1 .. Len(q[p]) : GoodMessage(q[p][k]) /\ q[p][k].to = p
        BY <1>1 DEF GoodQueues
    <2>1. CASE \E m \in out : m.to = p
        <3>. DEFINE m == CHOOSE m \in out : m.to = p
        <3>1. m \in out /\ m.to = p
            BY <2>1
        <3>2. x[p] = Append(q[p], m)
            BY <2>1 DEF Route
        <3>. HIDE DEF m
        <3>3. GoodMessage(m) /\ m \in Message
            BY <3>1 DEF GoodMessage
        <3>4. /\ x[p] \in Seq(Message) /\ Len(x[p]) = Len(q[p]) + 1 /\ Len(q[p]) \in Nat
              /\ x[p][Len(q[p]) + 1] = m /\ \A k \in 1 .. Len(q[p]) : x[p][k] = q[p][k]
            BY <2>0, <3>2, <3>3, OneMore, LengthOfSeq
        <3>. HIDE DEF x
        <3>5. ASSUME NEW k \in 1 .. Len(x[p]) PROVE GoodMessage(x[p][k]) /\ x[p][k].to = p
            <4>1. CASE k \in 1 .. Len(q[p])
                BY <2>0, <3>4, <4>1
            <4>2. CASE k = Len(q[p]) + 1
                BY <3>1, <3>3, <3>4, <4>2
            <4>. QED
                BY <3>4, <4>1, <4>2
        <3>. QED
            BY <3>1, <3>2, <3>4, <3>5
    <2>2. CASE ~\E m \in out : m.to = p
        <3>1. x[p] = q[p]
            BY <2>2 DEF Route
        <3>. HIDE DEF x
        <3>. QED
            BY <2>0, <2>2, <3>1
    <2>. QED
        BY <2>1, <2>2
<1>3. x = [p \in Server |-> x[p]]
    BY DEF Route
<1>. HIDE DEF x
<1>4. x \in [Server -> Seq(Message)]
    BY <1>2, <1>3
<1>5. GoodQueues(x)
    BY <1>2, <1>4 DEF GoodQueues
<1>. QED
    BY <1>2, <1>5 DEF x

\* A node answers in its own name (node.go:354-465).
LEMMA AnswersAreOwn ==
    ASSUME NEW i \in Server, NEW n, NEW m \in Message
    PROVE  \A a \in StepNode(i, n, m).out : a.from = i
<1>1. m.type \in {"RequestVote", "RequestVoteResp", "AppendEntries", "AppendEntriesResp"}
    BY DEF Message
<1>2. Returns(n, {}, FALSE).out = {}
    BY DEF Returns
<1>3. /\ \A a \in HandleRequestVote(i, n, m).out : a.from = i
      /\ \A a \in HandleRequestVoteResp(i, n, m).out : a.from = i
      /\ \A a \in HandleAppendEntries(i, n, m).out : a.from = i
      /\ \A a \in HandleAppendEntriesResp(i, n, m).out : a.from = i
    BY HandlersAnswerForThemselves
<1>. QED
    BY <1>1, <1>2, <1>3, Zenon DEF StepNode

\* Step leaves a node well-formed and answers with well-formed messages.
LEMMA StepNodeGood ==
    ASSUME NEW i \in Server, NEW n, GoodNode(n), NEW m, GoodMessage(m)
    PROVE  GoodResult(StepNode(i, n, m)) /\ StepNode(i, n, m).reset \in BOOLEAN
<1>0. m \in Message
    BY DEF GoodMessage
<1>1. m.type \in {"RequestVote", "RequestVoteResp", "AppendEntries", "AppendEntriesResp"}
    BY <1>0 DEF Message
<1>2. \A x, o : \A b \in BOOLEAN : Returns(x, o, b).reset \in BOOLEAN
    BY DEF Returns
<1>3. CASE n.crashed
    <2>1. StepNode(i, n, m) = Returns(n, {}, FALSE)
        BY <1>3 DEF StepNode
    <2>. QED
        BY <2>1 DEF GoodResult, Returns
<1>4. CASE ~n.crashed /\ m.type = "RequestVote"
    <2>1. StepNode(i, n, m) = HandleRequestVote(i, n, m)
        BY <1>4 DEF StepNode
    <2>2. HandleRequestVote(i, n, m).reset \in BOOLEAN
        BY DEF HandleRequestVote, Returns
    <2>. QED
        BY <1>0, <1>4, <2>1, <2>2, HandleRequestVoteGood
<1>5. CASE ~n.crashed /\ m.type = "RequestVoteResp"
    <2>1. StepNode(i, n, m) = HandleRequestVoteResp(i, n, m)
        BY <1>5 DEF StepNode
    <2>2. HandleRequestVoteResp(i, n, m).reset \in BOOLEAN
        BY DEF HandleRequestVoteResp, StepDown, BecomeLeader, Returns
    <2>. QED
        BY <1>0, <1>5, <2>1, <2>2, HandleRequestVoteRespGood
<1>6. CASE ~n.crashed /\ m.type = "AppendEntries"
    <2>1. StepNode(i, n, m) = HandleAppendEntries(i, n, m)
        BY <1>6 DEF StepNode
    <2>2. HandleAppendEntries(i, n, m).reset \in BOOLEAN
        BY DEF HandleAppendEntries, Returns
    <2>. QED
        BY <1>0, <1>6, <2>1, <2>2, HandleAppendEntriesGood
<1>7. CASE ~n.crashed /\ m.type = "AppendEntriesResp"
    <2>1. StepNode(i, n, m) = HandleAppendEntriesResp(i, n, m)
        BY <1>7 DEF StepNode
    <2>2. HandleAppendEntriesResp(i, n, m).reset \in BOOLEAN
        BY DEF HandleAppendEntriesResp, StepDown, Returns
    <2>. QED
        BY <1>0, <1>7, <2>1, <2>2, HandleAppendEntriesRespGood
<1>. QED
    BY <1>1, <1>3, <1>4, <1>5, <1>6, <1>7

\* What Deliver makes of simulator state s when the call at node i returns r.
Delivered(i, cut, s, r, t) ==
    /\ t = [node |-> t.node, queue |-> t.queue, reset |-> t.reset,
            dropped |-> t.dropped, elected |-> t.elected]
    /\ t.node = [s.node EXCEPT ![i] = r.node]
    /\ t.queue = Route(s.queue, {a \in r.out : <<a.from, a.to>> \notin cut})
    /\ t.reset = IF r.reset THEN s.reset \cup {i} ELSE s.reset
    /\ t.dropped = s.dropped
    /\ t.elected = IF s.node[i].state # Leader /\ r.node.state = Leader
                   THEN s.elected \cup {[leader |-> i, term |-> r.node.currentTerm]}
                   ELSE s.elected

\* It is what it does when it does something.
LEMMA DeliverFields ==
    ASSUME NEW s \in Sim, NEW i \in Server, NEW cut, NEW m, <<m.from, m.to>> \notin cut
    PROVE  Delivered(i, cut, s, StepNode(i, s.node[i], m), Deliver(i, cut, s, m))
<1>. DEFINE r == StepNode(i, s.node[i], m)
            t == Deliver(i, cut, s, m)
            a1 == [s.node EXCEPT ![i] = r.node]
            a2 == Route(s.queue, {a \in r.out : <<a.from, a.to>> \notin cut})
            a3 == IF r.reset THEN s.reset \cup {i} ELSE s.reset
            a5 == IF s.node[i].state # Leader /\ r.node.state = Leader
                  THEN s.elected \cup {[leader |-> i, term |-> r.node.currentTerm]}
                  ELSE s.elected
<1>1. s = [node |-> s.node, queue |-> s.queue, reset |-> s.reset,
           dropped |-> s.dropped, elected |-> s.elected]
    BY DEF Sim
<1>2. t = [s EXCEPT !.node = a1, !.queue = a2, !.reset = a3, !.elected = a5]
    BY DEF Deliver
<1>. HIDE DEF t, a1, a2, a3, a5
<1>3. t = [node |-> a1, queue |-> a2, reset |-> a3, dropped |-> s.dropped, elected |-> a5]
    BY <1>1, <1>2, Zenon
<1>. QED
    BY <1>3 DEF Delivered, t, a1, a2, a3, a5

\* A message leaves the simulator well-formed, and adds to the queue of the node that
\* handles it only messages of that node to itself.
LEMMA DeliverGood ==
    ASSUME NEW s \in GoodSim, NEW i \in Server, NEW cut, NEW m, GoodMessage(m)
    PROVE  LET t == Deliver(i, cut, s, m)
           IN  /\ t \in GoodSim
               /\ \/ t.queue[i] = s.queue[i]
                  \/ \E a \in Message : a.from = i /\ a.to = i /\ t.queue[i] = Append(s.queue[i], a)
<1>. DEFINE r == StepNode(i, s.node[i], m)
            t == Deliver(i, cut, s, m)
            out == {a \in r.out : <<a.from, a.to>> \notin cut}
<1>0. s \in Sim /\ GoodNode(s.node[i]) /\ GoodQueues(s.queue)
    BY DEF GoodSim
<1>1. CASE <<m.from, m.to>> \in cut
    BY <1>1 DEF Deliver
<1>2. CASE <<m.from, m.to>> \notin cut
    <2>1. /\ t = [node |-> t.node, queue |-> t.queue, reset |-> t.reset,
                  dropped |-> t.dropped, elected |-> t.elected]
          /\ t.node = [s.node EXCEPT ![i] = r.node]
          /\ t.queue = Route(s.queue, out)
          /\ t.reset = IF r.reset THEN s.reset \cup {i} ELSE s.reset
          /\ t.dropped = s.dropped
          /\ t.elected = IF s.node[i].state # Leader /\ r.node.state = Leader
                         THEN s.elected \cup {[leader |-> i, term |-> r.node.currentTerm]}
                         ELSE s.elected
        <3>1. Delivered(i, cut, s, r, t)
            BY <1>0, <1>2, DeliverFields
        <3>. HIDE DEF r, t
        <3>. QED
            BY <3>1, Zenon DEF Delivered, out
    <2>2. GoodResult(r) /\ \A a \in r.out : a.from = i
        BY <1>0, StepNodeGood, AnswersAreOwn DEF GoodMessage
    <2>. HIDE DEF r, t
    <2>3. GoodNode(r.node) /\ \A a \in out : GoodMessage(a) /\ a.from = i
        BY <2>2 DEF GoodResult
    <2>4. r.node \in NodeState /\ r.node.currentTerm \in Nat
        BY <2>3 DEF GoodNode, NodeState
    <2>. HIDE DEF out
    <2>5. /\ GoodQueues(t.queue)
          /\ \/ t.queue[i] = s.queue[i]
             \/ \E a \in out : a.to = i /\ t.queue[i] = Append(s.queue[i], a)
        BY <1>0, <2>1, <2>3, RouteAppends
    <2>6. /\ s.node \in [Server -> NodeState] /\ s.reset \subseteq Server
          /\ s.dropped \subseteq Message /\ s.elected \subseteq Elected
        BY <1>0 DEF Sim
    <2>7. t.node \in [Server -> NodeState] /\ t.node[i] = r.node
              /\ \A j \in Server \ {i} : t.node[j] = s.node[j]
        BY <2>1, <2>4, <2>6
    <2>8. \A j \in Server : GoodNode(t.node[j])
        BY <2>3, <2>7 DEF GoodSim
    <2>9. t.reset \subseteq Server
        BY <2>1, <2>6
    <2>10. t.elected \subseteq Elected
        BY <2>1, <2>4, <2>6 DEF Elected
    <2>11. t.queue \in [Server -> Seq(Message)]
        BY <2>5 DEF GoodQueues
    <2>12. t \in Sim
        BY <2>1, <2>6, <2>7, <2>9, <2>10, <2>11, Zenon DEF Sim
    <2>13. t \in GoodSim
        BY <2>1, <2>5, <2>8, <2>12, Zenon DEF GoodSim
    <2>14. \A a \in out : a \in Message /\ a.from = i
        BY <2>3 DEF GoodMessage
    <2>. QED
        BY <2>5, <2>13, <2>14 DEF t
<1>. QED
    BY <1>1, <1>2

\* What the queue of node i holds beyond its first n messages is from node i itself.
OwnBeyond(i, n) ==
    {x \in GoodSim : /\ n <= Len(x.queue[i])
                     /\ \A k \in n + 1 .. Len(x.queue[i]) : x.queue[i][k].from = i}

\* A visit leaves the simulator well-formed, and what it erases are messages of the
\* node to itself (cluster.go:57-61).
LEMMA VisitGood ==
    ASSUME NEW s \in GoodSim, NEW i \in Server, NEW cut
    PROVE  Visit(i, cut, s) \subseteq GoodSim
<1>. DEFINE n == Len(s.queue[i])
            H == [k \in 0 .. n |-> OwnBeyond(i, n)]
<1>1. s.queue[i] \in Seq(Message) /\ n \in Nat
          /\ \A k \in 1 .. n : GoodMessage(s.queue[i][k])
    BY LengthOfSeq DEF GoodSim, GoodQueues
<1>2. s \in OwnBeyond(i, n)
    <2>. HIDE DEF n
    <2>1. ~\E k \in Nat : k \in n + 1 .. n
        BY <1>1
    <2>2. n <= n /\ \A k \in n + 1 .. n : s.queue[i][k].from = i
        BY <1>1, <2>1
    <2>. QED
        BY <2>2 DEF OwnBeyond, n
<1>3. ASSUME NEW k \in 1 .. n, NEW x \in OwnBeyond(i, n)
      PROVE  Deliver(i, cut, x, s.queue[i][k]) \in OwnBeyond(i, n)
    <2>. DEFINE t == Deliver(i, cut, x, s.queue[i][k])
    <2>1. x \in GoodSim /\ n <= Len(x.queue[i])
              /\ \A j \in n + 1 .. Len(x.queue[i]) : x.queue[i][j].from = i
        BY DEF OwnBeyond
    <2>2. /\ t \in GoodSim
          /\ \/ t.queue[i] = x.queue[i]
             \/ \E a \in Message : a.from = i /\ a.to = i /\ t.queue[i] = Append(x.queue[i], a)
        BY <1>1, <2>1, DeliverGood
    <2>. HIDE DEF t, n
    <2>3. CASE t.queue[i] = x.queue[i]
        BY <2>1, <2>2, <2>3 DEF OwnBeyond, t
    <2>4. CASE \E a \in Message : a.from = i /\ a.to = i /\ t.queue[i] = Append(x.queue[i], a)
        <3>1. PICK a \in Message : a.from = i /\ t.queue[i] = Append(x.queue[i], a)
            BY <2>4
        <3>2. x.queue[i] \in Seq(Message) /\ Len(x.queue[i]) \in Nat
            BY <2>1, LengthOfSeq DEF GoodSim, GoodQueues
        <3>. DEFINE q == t.queue[i]
                    u == x.queue[i]
                    l == Len(x.queue[i])
        <3>3. /\ Len(q) = l + 1 /\ q[l + 1] = a
              /\ \A j \in 1 .. l : q[j] = u[j]
            BY <3>1, <3>2, OneMore
        <3>. HIDE DEF q, l, u
        <3>4. l \in Nat /\ n <= l /\ \A j \in n + 1 .. l : u[j].from = i
            BY <2>1, <3>2 DEF l, u
        <3>5. ASSUME NEW j \in n + 1 .. Len(q) PROVE q[j].from = i
            <4>1. CASE j = l + 1
                BY <3>1, <3>3, <4>1
            <4>2. CASE j \in 1 .. l
                BY <1>1, <3>3, <3>4, <4>2
            <4>. QED
                BY <1>1, <3>3, <3>4, <4>1, <4>2
        <3>6. n <= Len(q)
            BY <1>1, <3>3, <3>4
        <3>. QED
            BY <2>2, <3>5, <3>6, Zenon DEF OwnBeyond, q, t
    <2>. QED
        BY <2>2, <2>3, <2>4
<1>4. /\ s \in H[0]
      /\ MessageByMessage(i, cut, s, H)
    <2>0. MessageByMessage(i, cut, s, H) <=>
          \A k \in 1 .. n : \A x \in H[k - 1] : Deliver(i, cut, x, s.queue[i][k]) \in H[k]
        BY DEF MessageByMessage
    <2>. HIDE DEF n
    <2>1. \A k \in 1 .. n : k \in 0 .. n /\ k - 1 \in 0 .. n
        BY <1>1
    <2>2. 0 \in 0 .. n
        BY <1>1
    <2>. QED
        BY <1>2, <1>3, <2>0, <2>1, <2>2
<1>5. \A y \in Visit(i, cut, s) : \E x \in H[n] : y = Emptied(i, n, x)
    <2>. HIDE DEF H
    <2>1. VisitEnds(i, cut, s, H)
        BY <1>1, <1>4, VisitInduction
    <2>. QED
        BY <2>1, Zenon DEF VisitEnds
<1>6. ASSUME NEW y \in Visit(i, cut, s) PROVE y \in GoodSim
    <2>. DEFINE lost(x) == Range(SubSeq(x.queue[i], n + 1, Len(x.queue[i])))
    <2>1. PICK x \in OwnBeyond(i, n) : y = Emptied(i, n, x)
        <3>1. n \in 0 .. n
            BY <1>1
        <3>. QED
            BY <1>5, <3>1
    <2>2. /\ x \in Sim /\ \A j \in Server : GoodNode(x.node[j])
          /\ GoodQueues(x.queue) /\ \A m \in x.dropped : m.from = m.to
        BY DEF OwnBeyond, GoodSim
    <2>3. x = [node |-> x.node, queue |-> x.queue, reset |-> x.reset,
               dropped |-> x.dropped, elected |-> x.elected]
        BY <2>2 DEF Sim
    <2>. DEFINE q == [x.queue EXCEPT ![i] = <<>>]
                d == x.dropped \cup lost(x)
    <2>4. y = [node |-> x.node, queue |-> q, reset |-> x.reset, dropped |-> d, elected |-> x.elected]
        <3>1. y = [x EXCEPT !.queue = q, !.dropped = d]
            BY <2>1 DEF Emptied
        <3>. HIDE DEF q, d
        <3>. QED
            BY <2>3, <3>1, Zenon
    <2>5. \A m \in lost(x) : m \in Message /\ m.from = m.to
        <3>. DEFINE u == x.queue[i]
        <3>1. u \in Seq(Message) /\ Len(u) \in Nat /\ \A k \in 1 .. Len(u) : u[k] \in Message /\ u[k].to = i
            BY <2>2, LengthOfSeq DEF GoodQueues, GoodMessage
        <3>2. n <= Len(u) /\ \A k \in n + 1 .. Len(u) : u[k].from = i
            BY DEF OwnBeyond
        <3>. HIDE DEF u, n
        <3>3. /\ SubSeq(u, n + 1, Len(u)) \in Seq(Message)
              /\ Len(SubSeq(u, n + 1, Len(u))) = Len(u) - n
              /\ \A k \in 1 .. Len(u) - n : SubSeq(u, n + 1, Len(u))[k] = u[n + k]
            BY <1>1, <3>1, <3>2, RestOfQueue
        <3>4. ASSUME NEW m \in Range(SubSeq(u, n + 1, Len(u))) PROVE m \in Message /\ m.from = m.to
            <4>1. PICK k \in DOMAIN SubSeq(u, n + 1, Len(u)) : m = SubSeq(u, n + 1, Len(u))[k]
                BY Zenon DEF Range
            <4>2. k \in 1 .. Len(u) - n
                BY <3>3, <4>1, LengthOfSeq
            <4>3. n + k \in n + 1 .. Len(u) /\ n + k \in 1 .. Len(u)
                BY <1>1, <3>1, <3>2, <4>2
            <4>. QED
                BY <3>1, <3>2, <3>3, <4>1, <4>2, <4>3
        <3>. QED
            BY <3>4 DEF u
    <2>. HIDE DEF lost
    <2>6. GoodQueues(q)
        <3>1. x.queue \in [Server -> Seq(Message)]
            BY <2>2 DEF GoodQueues
        <3>2. <<>> \in Seq(Message) /\ Len(<<>>) = 0
            OBVIOUS
        <3>3. q \in [Server -> Seq(Message)]
            BY <3>1, <3>2
        <3>4. q[i] = <<>> /\ \A j \in Server \ {i} : q[j] = x.queue[j]
            BY <3>1
        <3>5. ~\E k \in Nat : k \in 1 .. 0
            OBVIOUS
        <3>6. \A k \in 1 .. Len(q[i]) : GoodMessage(q[i][k]) /\ q[i][k].to = i
            BY <3>2, <3>4, <3>5
        <3>. HIDE DEF q
        <3>7. ASSUME NEW j \in Server \ {i}
              PROVE  \A k \in 1 .. Len(q[j]) : GoodMessage(q[j][k]) /\ q[j][k].to = j
            BY <2>2, <3>4 DEF GoodQueues
        <3>8. \A j \in Server : \A k \in 1 .. Len(q[j]) : GoodMessage(q[j][k]) /\ q[j][k].to = j
            BY <3>6, <3>7
        <3>. QED
            BY <3>3, <3>8 DEF GoodQueues
    <2>. HIDE DEF q, d
    <2>7. d \subseteq Message /\ \A m \in d : m.from = m.to
        BY <2>2, <2>5 DEF d, Sim
    <2>8. q \in [Server -> Seq(Message)]
        BY <2>6 DEF GoodQueues
    <2>9. y \in Sim
        BY <2>2, <2>4, <2>7, <2>8 DEF Sim
    <2>. QED
        BY <2>2, <2>4, <2>6, <2>7, <2>9 DEF GoodSim
<1>. QED
    BY <1>6

\* Handling a message does not crash a node (node.go:354-369).
LEMMA StepKeepsRunning ==
    ASSUME NEW i \in Server, NEW n, GoodNode(n), NEW m \in Message, ~n.crashed
    PROVE  ~StepNode(i, n, m).node.crashed
<1>1. m.type \in {"RequestVote", "RequestVoteResp", "AppendEntries", "AppendEntriesResp"}
    BY DEF Message
<1>2. /\ ~HandleRequestVote(i, n, m).node.crashed
      /\ ~HandleRequestVoteResp(i, n, m).node.crashed
      /\ ~HandleAppendEntries(i, n, m).node.crashed
      /\ ~HandleAppendEntriesResp(i, n, m).node.crashed
    BY HandlersKeepRunning
<1>. QED
    BY <1>1, <1>2 DEF StepNode

\* The fields of a simulator whose queue i was emptied.
LEMMA EmptiedFields ==
    ASSUME NEW i \in Server, NEW n, NEW x \in Sim
    PROVE  /\ Emptied(i, n, x).node = x.node /\ Emptied(i, n, x).elected = x.elected
           /\ Emptied(i, n, x).queue[i] = <<>>
           /\ \A j \in Server \ {i} : Emptied(i, n, x).queue[j] = x.queue[j]
<1>. DEFINE q == [x.queue EXCEPT ![i] = <<>>]
            d == x.dropped \cup Range(SubSeq(x.queue[i], n + 1, Len(x.queue[i])))
<1>1. x = [node |-> x.node, queue |-> x.queue, reset |-> x.reset,
           dropped |-> x.dropped, elected |-> x.elected]
      /\ x.queue \in [Server -> Seq(Message)]
    BY DEF Sim
<1>2. Emptied(i, n, x) = [x EXCEPT !.queue = q, !.dropped = d]
    BY DEF Emptied
<1>3. q[i] = <<>> /\ \A j \in Server \ {i} : q[j] = x.queue[j]
    BY <1>1
<1>. HIDE DEF q, d
<1>4. /\ Emptied(i, n, x).node = x.node /\ Emptied(i, n, x).elected = x.elected
      /\ Emptied(i, n, x).queue = q
    BY <1>1, <1>2
<1>. QED
    BY <1>3, <1>4

-----------------------------------------------------------------------------
(***************************************************************************)
(* The calls.                                                              *)
(***************************************************************************)

\* The nodes are numbered from 1 (cluster.go:25-32).
LEMMA NumberedNodes ==
    /\ Cardinality(Server) \in Nat
    /\ Server = 1 .. Cardinality(Server)
    /\ \A i \in Server : i \in Nat
    /\ \A i \in Server : Peers[i] = Server
<1>1. Cardinality(Server) \in Nat
    BY WiringAssumption
<1>2. Server = 1 .. Cardinality(Server) /\ Peers = [i \in Server |-> Server]
    BY WiringAssumption
<1>3. \A i \in Server : Peers[i] = Server
    BY <1>2
<1>4. \A i \in 1 .. Cardinality(Server) : i \in Nat
    BY <1>1
<1>. QED
    BY <1>1, <1>2, <1>3, <1>4

\* An order is a sequence that names every node.
LEMMA OrdersAreSequences ==
    ASSUME NEW order \in Orders
    PROVE  /\ Len(order) = Cardinality(Server)
           /\ \A k \in 1 .. Cardinality(Server) : order[k] \in Server
           /\ \A i \in Server : \E k \in 1 .. Cardinality(Server) : order[k] = i
           /\ \A k, l \in 1 .. Cardinality(Server) : order[k] = order[l] => k = l
<1>. DEFINE N == Cardinality(Server)
<1>1. N \in Nat
    BY NumberedNodes
<1>2. order \in Bijection(1 .. N, Server)
    BY DEF Orders
<1>. HIDE DEF N
<1>3. /\ order \in [1 .. N -> Server]
      /\ \A k, l \in 1 .. N : order[k] = order[l] => k = l
      /\ \A i \in Server : \E k \in 1 .. N : order[k] = i
    BY <1>2, Zenon DEF Bijection, Injection, Surjection, IsInjective
<1>4. Len(order) = N
    BY <1>1, <1>3
<1>. QED
    BY <1>3, <1>4 DEF N

\* The timers: a reset, a tick and a won election leave them in their ranges
\* (node.go:229-301).
LEMMA TimersStayInRange ==
    ASSUME NEW t \in Timer
    PROVE  /\ \A timeout \in Timeouts : ResetElectionTimer(t, timeout) \in Timer
           /\ [t EXCEPT !.heartbeatElapsed = 0] \in Timer
           /\ [t EXCEPT !.electionElapsed = 0] \in Timer
           /\ \A h \in 0 .. heartbeatInterval :
                [t EXCEPT !.electionElapsed = Min({t.electionElapsed + 1, t.electionTimeout}),
                          !.heartbeatElapsed = h] \in Timer
<1>0. /\ electionTimeoutMin \in Nat /\ electionTimeoutMax \in Nat /\ heartbeatInterval \in Nat
      /\ electionTimeoutMin <= electionTimeoutMax
    BY TimingAssumption
<1>. DEFINE A == 0 .. electionTimeoutMax
            B == 0 .. heartbeatInterval
            e == t.electionElapsed
            o == t.electionTimeout
            h == t.heartbeatElapsed
<1>1. /\ t = [electionElapsed |-> e, electionTimeout |-> o, heartbeatElapsed |-> h]
      /\ e \in A /\ o \in Timeouts /\ h \in B
    BY DEF Timer
<1>2. \A x \in A, y \in Timeouts, z \in B :
          [electionElapsed |-> x, electionTimeout |-> y, heartbeatElapsed |-> z] \in Timer
    BY DEF Timer
<1>3. 0 \in A /\ 0 \in B
    BY <1>0
<1>4. Min({e + 1, o}) \in A
    <2>. HIDE DEF e, o
    <2>1. e + 1 \in Nat /\ o \in Nat /\ o \in A
        BY <1>0, <1>1 DEF Timeouts
    <2>2. Min({e + 1, o}) = IF e + 1 <= o THEN e + 1 ELSE o
        BY <2>1, MinOfTwo
    <2>. QED
        BY <1>0, <2>1, <2>2
<1>. HIDE DEF e, o, h, A, B
<1>5. ASSUME NEW timeout \in Timeouts PROVE ResetElectionTimer(t, timeout) \in Timer
    BY <1>3, Zenon DEF Timer, ResetElectionTimer, A
<1>6. [t EXCEPT !.heartbeatElapsed = 0] \in Timer
    <2>1. [t EXCEPT !.heartbeatElapsed = 0] =
            [electionElapsed |-> e, electionTimeout |-> o, heartbeatElapsed |-> 0]
        BY <1>1
    <2>. QED
        BY <1>1, <1>2, <1>3, <2>1
<1>7. [t EXCEPT !.electionElapsed = 0] \in Timer
    <2>1. [t EXCEPT !.electionElapsed = 0] =
            [electionElapsed |-> 0, electionTimeout |-> o, heartbeatElapsed |-> h]
        BY <1>1
    <2>. QED
        BY <1>1, <1>2, <1>3, <2>1
<1>8. ASSUME NEW z \in B
      PROVE  [t EXCEPT !.electionElapsed = Min({e + 1, o}), !.heartbeatElapsed = z] \in Timer
    <2>. DEFINE x == Min({e + 1, o})
    <2>. HIDE DEF x
    <2>1. x \in A
        BY <1>4 DEF x
    <2>2. [t EXCEPT !.electionElapsed = x, !.heartbeatElapsed = z] \in Timer
        BY <2>1, Zenon DEF Timer, A, B
    <2>. QED
        BY <2>2 DEF x
<1>. QED
    BY <1>5, <1>6, <1>7, <1>8, Zenon DEF e, o, B

\* DeliverAll and DeliverAllFiltered, whatever is cut off.
LEMMA DeliverKeepsInv ==
    ASSUME ClusterInv, NEW cut, DeliverThrough(cut)
    PROVE  ClusterInv'
<1>a. PICK order \in Orders : \E end \in VisitAll(order, cut) :
        /\ node' = end.node /\ queue' = end.queue
        /\ dropped' = end.dropped /\ elected' = end.elected /\ UNCHANGED blocked
        /\ \E timeout \in [end.reset -> Timeouts] :
             timer' = [i \in Server |->
                [(IF i \in end.reset
                  THEN ResetElectionTimer(timer[i], timeout[i])
                  ELSE timer[i])
                 EXCEPT !.heartbeatElapsed =
                    IF \E e \in end.elected \ elected : e.leader = i THEN 0 ELSE @]]
    BY Zenon DEF DeliverThrough
<1>0. PICK end \in VisitAll(order, cut) :
        /\ node' = end.node /\ queue' = end.queue
        /\ dropped' = end.dropped /\ elected' = end.elected /\ UNCHANGED blocked
        /\ \E timeout \in [end.reset -> Timeouts] :
             timer' = [i \in Server |->
                [(IF i \in end.reset
                  THEN ResetElectionTimer(timer[i], timeout[i])
                  ELSE timer[i])
                 EXCEPT !.heartbeatElapsed =
                    IF \E e \in end.elected \ elected : e.leader = i THEN 0 ELSE @]]
    BY <1>a, Zenon
<1>1. Begin \in GoodSim
    BY DEF ClusterInv, GoodQueues, Begin, GoodSim, Sim, OnlyOwnMessagesDropped
<1>2. end \in GoodSim
    <2>. DEFINE N == Cardinality(Server)
                H == [k \in 0 .. N |-> GoodSim]
    <2>1. N \in Nat /\ Len(order) = N /\ \A k \in 1 .. N : order[k] \in Server
        BY NumberedNodes, OrdersAreSequences
    <2>. HIDE DEF N
    <2>2. \A k \in 1 .. N : k \in 0 .. N /\ k - 1 \in 0 .. N
        BY <2>1
    <2>3. 0 \in 0 .. N /\ N \in 0 .. N
        BY <2>1
    <2>4. \A k \in 1 .. N : \A x \in H[k - 1] : Visit(order[k], cut, x) \subseteq H[k]
        BY <2>1, <2>2, VisitGood
    <2>5. QueueByQueue(order, cut, H)
        BY <2>1, <2>4 DEF QueueByQueue
    <2>6. Begin \in H[0] /\ H[N] = GoodSim
        BY <1>1, <2>3
    <2>. HIDE DEF H
    <2>7. VisitAll(order, cut) \subseteq H[N]
        BY <2>1, <2>5, <2>6, VisitAllInduction
    <2>. QED
        BY <1>0, <2>6, <2>7
<1>3. timer' \in [Server -> Timer]
    <2>1. PICK timeout \in [end.reset -> Timeouts] :
             timer' = [i \in Server |->
                [(IF i \in end.reset
                  THEN ResetElectionTimer(timer[i], timeout[i])
                  ELSE timer[i])
                 EXCEPT !.heartbeatElapsed =
                    IF \E e \in end.elected \ elected : e.leader = i THEN 0 ELSE @]]
        BY <1>0, Zenon
    <2>2. ASSUME NEW i \in Server
          PROVE  [(IF i \in end.reset
                   THEN ResetElectionTimer(timer[i], timeout[i])
                   ELSE timer[i])
                  EXCEPT !.heartbeatElapsed =
                     IF \E e \in end.elected \ elected : e.leader = i THEN 0 ELSE @] \in Timer
        <3>. DEFINE t == IF i \in end.reset
                         THEN ResetElectionTimer(timer[i], timeout[i])
                         ELSE timer[i]
        <3>1. timer[i] \in Timer
            BY DEF ClusterInv
        <3>2. t \in Timer
            BY <3>1, TimersStayInRange, Zenon
        <3>. HIDE DEF t
        <3>3. [t EXCEPT !.heartbeatElapsed = 0] \in Timer
            BY <3>2, TimersStayInRange, Zenon
        <3>4. [t EXCEPT !.heartbeatElapsed = @] = t
            BY <3>2 DEF Timer
        <3>5. [t EXCEPT !.heartbeatElapsed =
                  IF \E e \in end.elected \ elected : e.leader = i THEN 0 ELSE @] \in Timer
            BY <3>2, <3>3, <3>4
        <3>. QED
            BY <3>5 DEF t
    <2>. QED
        BY <2>1, <2>2
<1>4. /\ node' \in [Server -> NodeState] /\ dropped' \subseteq Message
      /\ elected' \subseteq Elected /\ GoodQueues(queue')
      /\ \A i \in Server : GoodNode(node'[i])
      /\ \A m \in dropped' : m.from = m.to
    BY <1>0, <1>2 DEF GoodSim, Sim
<1>5. blocked' \subseteq Server \X Server
    BY <1>0 DEF ClusterInv
<1>. QED
    BY <1>3, <1>4, <1>5 DEF ClusterInv, GoodQueues, OnlyOwnMessagesDropped

\* Routing what any of the N nodes sends leaves the queues in H.
RoutesWithin(r, N, H) == \A k \in 1 .. N : \A q \in H : Route(q, r[k].out) \in H

\* The queues when the first N nodes have ticked.
RoutedBy(q0, r, N) ==
    LET routed[k \in 0 .. N] == IF k = 0 THEN q0 ELSE Route(routed[k - 1], r[k].out)
    IN  routed[N]

\* Routing what node k sends leads from H[k - 1] to H[k].
RoutesThrough(r, N, H) == \A k \in 1 .. N : \A q \in H[k - 1] : Route(q, r[k].out) \in H[k]

\* The loop of TickAll routes what each node sends in turn (cluster.go:39-44).  H[k]
\* are the queues after k nodes.
LEMMA RoutedNodeByNode ==
    ASSUME NEW q0, NEW N \in Nat, NEW r, NEW H, q0 \in H[0], RoutesThrough(r, N, H)
    PROVE  RoutedBy(q0, r, N) \in H[N]
<1>. DEFINE P(q, k) == Route(q, r[k].out)
            F(g, k) == IF k = 0 THEN q0 ELSE P(g[k - 1], k)
            Out(g, n) == g = [k \in 0 .. n |-> F(g, k)]
            E == {n \in Nat : \E g : Out(g, n)}
<1>. HIDE DEF P
<1>1. 0 \in E
    <2>. DEFINE g == [k \in 0 .. 0 |-> q0]
    <2>1. Out(g, 0)
        OBVIOUS
    <2>. QED
        BY <2>1, Zenon
<1>2. ASSUME NEW n \in Nat, n \in E PROVE n + 1 \in E
    <2>1. PICK g : Out(g, n)
        BY <1>2
    <2>2. \A k \in 0 .. n : g[k] = F(g, k)
        <3>. HIDE DEF F
        <3>. QED
            BY <2>1
    <2>. DEFINE h == [k \in 0 .. n + 1 |-> IF k <= n THEN g[k] ELSE P(g[n], n + 1)]
    <2>3. ASSUME NEW k \in 0 .. n + 1 PROVE h[k] = F(h, k)
        <3>1. CASE k = 0
            BY <2>2, <3>1
        <3>2. CASE k \in 1 .. n
            <4>1. g[k] = F(g, k) /\ h[k] = g[k] /\ h[k - 1] = g[k - 1]
                BY <2>2, <3>2
            <4>. QED
                BY <3>2, <4>1
        <3>3. CASE k = n + 1
            <4>1. h[k - 1] = g[n] /\ k # 0
                BY <3>3
            <4>. QED
                BY <3>3, <4>1
        <3>. QED
            BY <3>1, <3>2, <3>3
    <2>4. Out(h, n + 1)
        <3>. DEFINE q == [k \in 0 .. n + 1 |-> F(h, k)]
        <3>1. h = q
            BY <2>3
        <3>. QED
            BY <3>1
    <2>. HIDE DEF Out, h
    <2>. QED
        BY <2>4
<1>3. N \in E
    <2>. HIDE DEF E
    <2>. QED
        BY <1>1, <1>2, InductiveSet
<1>. DEFINE routed == CHOOSE g : Out(g, N)
<1>4. Out(routed, N)
    BY <1>3
<1>. HIDE DEF routed
<1>5. \A k \in 0 .. N : routed[k] = F(routed, k)
    <2>. HIDE DEF F
    <2>. QED
        BY <1>4
<1>. DEFINE G == {k \in Nat : k <= N => routed[k] \in H[k]}
<1>6. 0 \in G
    <2>1. 0 \in 0 .. N
        OBVIOUS
    <2>2. routed[0] = q0
        BY <1>5, <2>1
    <2>. QED
        BY <2>2
<1>7. ASSUME NEW k \in Nat, k \in G PROVE k + 1 \in G
    <2>. SUFFICES ASSUME k + 1 <= N PROVE routed[k + 1] \in H[k + 1]
        OBVIOUS
    <2>1. k + 1 \in 0 .. N /\ k + 1 \in 1 .. N /\ k + 1 # 0 /\ (k + 1) - 1 = k
        OBVIOUS
    <2>2. routed[k + 1] = P(routed[k], k + 1)
        BY <1>5, <2>1
    <2>3. routed[k] \in H[k]
        BY <1>7, <2>1
    <2>4. Route(routed[k], r[k + 1].out) \in H[k + 1]
        BY <2>1, <2>3 DEF RoutesThrough
    <2>. QED
        BY <2>2, <2>4 DEF P
<1>8. N \in G
    <2>. HIDE DEF G
    <2>. QED
        BY <1>6, <1>7, InductiveSet
<1>9. routed[N] \in H[N]
    BY <1>8
<1>. QED
    BY <1>9 DEF routed, P, RoutedBy

\* The queues stay in any set that each iteration stays in.
LEMMA RoutedInTurn ==
    ASSUME NEW q0, NEW N \in Nat, NEW r, NEW H, q0 \in H, RoutesWithin(r, N, H)
    PROVE  RoutedBy(q0, r, N) \in H
<1>. DEFINE G == [k \in 0 .. N |-> H]
<1>1. \A k \in 1 .. N : G[k] = H /\ G[k - 1] = H
    OBVIOUS
<1>2. G[0] = H /\ G[N] = H
    OBVIOUS
<1>. HIDE DEF G
<1>3. RoutesThrough(r, N, G)
    BY <1>1 DEF RoutesThrough, RoutesWithin
<1>4. q0 \in G[0]
    BY <1>2
<1>. QED
    BY <1>2, <1>3, <1>4, RoutedNodeByNode

\* A tick leaves a node well-formed and sends well-formed messages.
LEMMA TickGood ==
    ASSUME NEW i \in Server, GoodNode(node[i])
    PROVE  GoodResult(Tick(i))
<1>1. GoodResult(StartElection(i, node[i]))
    BY StartElectionGood
<1>2. GoodResult(Returns(node[i], BroadcastAppendEntries(i, node[i]), FALSE))
    BY BroadcastGood DEF GoodResult, Returns
<1>3. GoodResult(Returns(node[i], {}, FALSE))
    BY DEF GoodResult, Returns
<1>. QED
    BY <1>1, <1>2, <1>3, Zenon DEF Tick

\* TickAll.
LEMMA TickKeepsInv ==
    ASSUME ClusterInv, TickAll
    PROVE  ClusterInv'
<1>. DEFINE r == [i \in Server |-> Tick(i)]
            N == Cardinality(Server)
            elects == {i \in Server : r[i].reset}
<1>1. /\ node' = [i \in Server |-> r[i].node]
      /\ queue' = RoutedBy(queue, r, N)
      /\ UNCHANGED <<blocked, dropped, elected>>
      /\ \E timeout \in [elects -> Timeouts] :
           timer' = [i \in Server |->
                      CASE node[i].crashed -> timer[i]
                        [] i \in elects    -> ResetElectionTimer(timer[i], timeout[i])
                        [] OTHER           -> TickTimer(i)]
    BY Zenon DEF TickAll, RoutedBy, history
<1>2. \A i \in Server : GoodResult(r[i])
    BY TickGood DEF ClusterInv
<1>. HIDE DEF r
<1>3. N \in Nat /\ Server = 1 .. N
    BY NumberedNodes
<1>4. \A k \in 1 .. N : \A m \in r[k].out : GoodMessage(m)
    BY <1>2, <1>3 DEF GoodResult
<1>5. GoodQueues(queue')
    <2>. DEFINE H == {q \in [Server -> Seq(Message)] : GoodQueues(q)}
    <2>1. queue \in H
        BY DEF ClusterInv, GoodQueues
    <2>. HIDE DEF N
    <2>2. ASSUME NEW k \in 1 .. N, NEW q \in H PROVE Route(q, r[k].out) \in H
        <3>1. GoodQueues(Route(q, r[k].out))
            BY <1>4, RouteAppends
        <3>. QED
            BY <3>1 DEF GoodQueues
    <2>3. RoutesWithin(r, N, H)
        <3>. HIDE DEF H
        <3>. QED
            BY <2>2 DEF RoutesWithin
    <2>4. RoutedBy(queue, r, N) \in H
        <3>. HIDE DEF H
        <3>. QED
            BY <1>3, <2>1, <2>3, RoutedInTurn
    <2>. QED
        BY <1>1, <2>4
<1>6. node' \in [Server -> NodeState] /\ \A i \in Server : GoodNode(node'[i])
    <2>1. \A i \in Server : GoodNode(r[i].node) /\ r[i].node \in NodeState
        BY <1>2 DEF GoodResult, GoodNode
    <2>. HIDE DEF elects, N
    <2>. QED
        BY <1>1, <2>1
<1>7. timer' \in [Server -> Timer]
    <2>1. PICK timeout \in [elects -> Timeouts] :
           timer' = [i \in Server |->
                      CASE node[i].crashed -> timer[i]
                        [] i \in elects    -> ResetElectionTimer(timer[i], timeout[i])
                        [] OTHER           -> TickTimer(i)]
        BY <1>1, Zenon
    <2>. HIDE DEF elects
    <2>2. ASSUME NEW i \in Server
          PROVE  /\ timer[i] \in Timer
                 /\ i \in elects => ResetElectionTimer(timer[i], timeout[i]) \in Timer
                 /\ TickTimer(i) \in Timer
        <3>1. timer[i] \in Timer
            BY DEF ClusterInv
        <3>2. i \in elects => timeout[i] \in Timeouts
            OBVIOUS
        <3>3. i \in elects => ResetElectionTimer(timer[i], timeout[i]) \in Timer
            BY <3>1, <3>2, TimersStayInRange, Zenon
        <3>. DEFINE h == IF node[i].state # Leader THEN timer[i].heartbeatElapsed
                         ELSE IF HeartbeatDue(i) THEN 0 ELSE timer[i].heartbeatElapsed + 1
        <3>4. h \in 0 .. heartbeatInterval
            <4>. DEFINE e == timer[i].heartbeatElapsed
            <4>1. e \in 0 .. heartbeatInterval /\ heartbeatInterval \in Nat
                BY <3>1, TimingAssumption DEF Timer
            <4>2. HeartbeatDue(i) <=> e + 1 >= heartbeatInterval
                BY DEF HeartbeatDue
            <4>. HIDE DEF e
            <4>3. 0 \in 0 .. heartbeatInterval
                BY <4>1
            <4>4. ~HeartbeatDue(i) => e + 1 \in 0 .. heartbeatInterval
                BY <4>1, <4>2
            <4>. QED
                BY <4>1, <4>3, <4>4 DEF e
        <3>. HIDE DEF h
        <3>5. TickTimer(i) =
                [timer[i] EXCEPT
                    !.electionElapsed  = Min({timer[i].electionElapsed + 1,
                                              timer[i].electionTimeout}),
                    !.heartbeatElapsed = h]
            BY DEF TickTimer, h
        <3>6. TickTimer(i) \in Timer
            BY <3>1, <3>4, <3>5, TimersStayInRange, Zenon
        <3>. QED
            BY <3>1, <3>3, <3>6
    <2>3. ASSUME NEW i \in Server
          PROVE  (CASE node[i].crashed -> timer[i]
                    [] i \in elects    -> ResetElectionTimer(timer[i], timeout[i])
                    [] OTHER           -> TickTimer(i)) \in Timer
        BY <2>2
    <2>. QED
        BY <2>1, <2>3
<1>8. UNCHANGED <<blocked, dropped, elected>>
    BY <1>1
<1>. QED
    BY <1>5, <1>6, <1>7, <1>8 DEF ClusterInv, OnlyOwnMessagesDropped, GoodQueues

\* Propose, Crash and Restart.
LEMMA NodeCallsKeepInv ==
    ASSUME ClusterInv,
           \/ \E cmd \in Command : Propose(cmd)
           \/ \E i \in Server : Crash(i) \/ Restart(i)
    PROVE  ClusterInv'
<1>0. /\ node \in [Server -> NodeState] /\ timer \in [Server -> Timer]
      /\ \A i \in Server : GoodNode(node[i]) /\ timer[i] \in Timer
    BY DEF ClusterInv
<1>1. ASSUME NEW cmd \in Command, Propose(cmd) PROVE ClusterInv'
    <2>. DEFINE i == Min(Leaders)
                n == NodePropose(node[i], cmd)
    <2>1. /\ Leaders # {} /\ UNCHANGED <<timer, blocked, dropped, elected>>
          /\ node' = [node EXCEPT ![i] = n]
          /\ queue' = Route(queue, BroadcastAppendEntries(i, n))
        BY <1>1 DEF Propose, history
    <2>2. i \in Server
        BY <2>1, MinOfNaturals, NumberedNodes DEF Leaders
    <2>. HIDE DEF i
    <2>3. GoodNode(n)
        BY <1>0, <2>2, NodeProposeGood
    <2>. HIDE DEF n
    <2>4. n \in NodeState
        BY <2>3 DEF GoodNode
    <2>5. node' \in [Server -> NodeState] /\ \A j \in Server : GoodNode(node'[j])
        BY <1>0, <2>1, <2>2, <2>3, <2>4
    <2>6. GoodQueues(queue')
        <3>1. GoodQueues(queue) /\ \A m \in BroadcastAppendEntries(i, n) : GoodMessage(m)
            BY <2>2, <2>3, BroadcastGood DEF ClusterInv
        <3>2. GoodQueues(Route(queue, BroadcastAppendEntries(i, n)))
            BY <3>1, RouteAppends
        <3>. QED
            BY <2>1, <3>2
    <2>. QED
        BY <2>1, <2>5, <2>6 DEF ClusterInv, OnlyOwnMessagesDropped, GoodQueues
<1>2. ASSUME NEW i \in Server, Crash(i) PROVE ClusterInv'
    <2>1. /\ node' = [node EXCEPT ![i] = NodeCrash(node[i])]
          /\ timer' = [timer EXCEPT ![i] = [timer[i] EXCEPT !.electionElapsed = 0]]
          /\ UNCHANGED <<queue, blocked, dropped, elected>>
        BY <1>2 DEF Crash, history
    <2>2. GoodNode(NodeCrash(node[i])) /\ NodeCrash(node[i]) \in NodeState
        BY <1>0, NodeCrashGood DEF GoodNode
    <2>3. [timer[i] EXCEPT !.electionElapsed = 0] \in Timer
        BY <1>0, TimersStayInRange, Zenon
    <2>4. node' \in [Server -> NodeState] /\ \A j \in Server : GoodNode(node'[j])
        BY <1>0, <2>1, <2>2
    <2>5. timer' \in [Server -> Timer]
        BY <1>0, <2>1, <2>3
    <2>. QED
        BY <2>1, <2>4, <2>5 DEF ClusterInv, OnlyOwnMessagesDropped, GoodQueues
<1>3. ASSUME NEW i \in Server, Restart(i) PROVE ClusterInv'
    <2>1. /\ node' = [node EXCEPT ![i] = NodeRestart(node[i])]
          /\ \E timeout \in Timeouts :
               timer' = [timer EXCEPT ![i] = IF node'[i].crashed THEN timer[i]
                                             ELSE ResetElectionTimer(timer[i], timeout)]
          /\ UNCHANGED <<queue, blocked, dropped, elected>>
        BY <1>3, Zenon DEF Restart, history
    <2>2. GoodNode(NodeRestart(node[i])) /\ NodeRestart(node[i]) \in NodeState
        BY <1>0, NodeRestartRestores, Zenon DEF GoodNode
    <2>3. \A timeout \in Timeouts : ResetElectionTimer(timer[i], timeout) \in Timer
        BY <1>0, TimersStayInRange, Zenon
    <2>4. node' \in [Server -> NodeState] /\ \A j \in Server : GoodNode(node'[j])
        BY <1>0, <2>1, <2>2
    <2>5. timer' \in [Server -> Timer]
        BY <1>0, <2>1, <2>3
    <2>. QED
        BY <2>1, <2>4, <2>5 DEF ClusterInv, OnlyOwnMessagesDropped, GoodQueues
<1>. QED
    BY <1>1, <1>2, <1>3

\* Partition, Heal and HealAll.
LEMMA PartitionsKeepInv ==
    ASSUME ClusterInv, HealAll \/ \E i \in Server : Partition(i) \/ Heal(i)
    PROVE  ClusterInv'
<1>0. blocked \subseteq Server \X Server
    BY DEF ClusterInv
<1>1. UNCHANGED <<node, timer, queue, dropped, elected>>
    BY DEF HealAll, Partition, Heal, history
<1>2. blocked' \subseteq Server \X Server
    BY <1>0 DEF HealAll, Partition, Heal
<1>. QED
    BY <1>1, <1>2 DEF ClusterInv, OnlyOwnMessagesDropped, GoodQueues

\* A new cluster.
LEMMA ClusterStart ==
    ASSUME Init
    PROVE  ClusterInv
<1>1. node = [i \in Server |-> NewNode] /\ NewNode \in NodeState
    BY NewNodeGood DEF Init, GoodNode
<1>2. timer \in [Server -> Timer]
    <2>1. 0 \in 0 .. electionTimeoutMax /\ 0 \in 0 .. heartbeatInterval
        BY TimingAssumption
    <2>2. [electionElapsed : {0}, electionTimeout : Timeouts, heartbeatElapsed : {0}] \subseteq Timer
        BY <2>1 DEF Timer
    <2>. QED
        BY <2>2 DEF Init
<1>3. GoodQueues(queue)
    <2>1. queue = [i \in Server |-> <<>>] /\ <<>> \in Seq(Message) /\ Len(<<>>) = 0
        BY DEF Init
    <2>2. ~\E k \in Nat : k \in 1 .. 0
        OBVIOUS
    <2>3. queue \in [Server -> Seq(Message)] /\ \A i \in Server : Len(queue[i]) = 0
        BY <2>1
    <2>. QED
        BY <2>2, <2>3 DEF GoodQueues
<1>. QED
    BY <1>1, <1>2, <1>3, NewNodeGood DEF ClusterInv, Init, OnlyOwnMessagesDropped

\* Every call of the simulator keeps the invariant.
LEMMA ClusterKeepsInv ==
    ASSUME ClusterInv, [Next \/ PartitionedNext]_vars
    PROVE  ClusterInv'
<1>1. CASE UNCHANGED vars
    BY <1>1 DEF vars, ClusterInv, OnlyOwnMessagesDropped, GoodQueues
<1>2. CASE DeliverAll \/ DeliverAllFiltered
    BY <1>2, DeliverKeepsInv DEF DeliverAll, DeliverAllFiltered
<1>3. CASE Calls
    BY <1>3, TickKeepsInv, NodeCallsKeepInv DEF Calls
<1>4. CASE HealAll \/ \E i \in Server : Partition(i) \/ Heal(i)
    BY <1>4, PartitionsKeepInv
<1>. QED
    BY <1>1, <1>2, <1>3, <1>4 DEF Next, PartitionedNext

\* In every state of a cluster, and of a partitioned one, every piece of state has
\* its type, the timers stay in their ranges, and a message waits in the queue of the
\* node it is for (cluster.go:39-90, partition.go:20-82, node.go:229-284).
THEOREM ClusterTypes == (Spec => []TypeOK) /\ (PartitionedSpec => []TypeOK)
<1>1. ClusterInv => TypeOK
    BY DEF ClusterInv, TypeOK, GoodQueues
<1>2. Init => ClusterInv
    BY ClusterStart
<1>3. ClusterInv /\ [Next]_vars => ClusterInv'
    BY ClusterKeepsInv
<1>4. ClusterInv /\ [PartitionedNext]_vars => ClusterInv'
    BY ClusterKeepsInv
<1>. QED
    BY <1>1, <1>2, <1>3, <1>4, PTL DEF Spec, PartitionedSpec

\* What DeliverAll erases unread with a queue (cluster.go:61) are only messages of a
\* node to itself, whatever the order of the queues and whatever is cut off.
THEOREM OnlyOwnMessagesAreLost ==
    (Spec => []OnlyOwnMessagesDropped) /\ (PartitionedSpec => []OnlyOwnMessagesDropped)
<1>1. ClusterInv => OnlyOwnMessagesDropped
    BY DEF ClusterInv
<1>2. Init => ClusterInv
    BY ClusterStart
<1>3. ClusterInv /\ [Next]_vars => ClusterInv'
    BY ClusterKeepsInv
<1>4. ClusterInv /\ [PartitionedNext]_vars => ClusterInv'
    BY ClusterKeepsInv
<1>. QED
    BY <1>1, <1>2, <1>3, <1>4, PTL DEF Spec, PartitionedSpec

-----------------------------------------------------------------------------
(***************************************************************************)
(* At most one leader is elected in a term, as long as no node crashes and *)
(* nobody is cut off, for any odd number of nodes.                         *)
(*                                                                         *)
(* This does not follow from the votes the nodes remember: a leader's      *)
(* heartbeat to itself clears its vote (node.go:410-418), and it may then  *)
(* vote again in the same term.  It follows from the rounds: DeliverAll    *)
(* ends with all nodes in the same term, so a request for a vote that is   *)
(* still to come asks for a later one.  The argument speaks of the ballots *)
(* cast so far, a history that the program does not keep.                  *)
(***************************************************************************)

VoteInv ==
    \E B, M : InRound(B, M, node, queue, elected, NoneHandled) /\ Settled(B, node, queue)

\* Step (node.go:354-369).
LEMMA StepVotes ==
    ASSUME NEW i \in Server, NEW n \in NodeState, ~n.crashed, NEW m \in Message
    PROVE  Votes(i, n, m, StepNode(i, n, m))
<1>0. m.type \in {"RequestVote", "RequestVoteResp", "AppendEntries", "AppendEntriesResp"}
    BY DEF Message
<1>1. CASE m.type = "RequestVote"
    BY <1>1, RequestVoteVotes DEF StepNode
<1>2. CASE m.type = "RequestVoteResp"
    BY <1>2, RequestVoteRespVotes DEF StepNode
<1>3. CASE m.type = "AppendEntries"
    BY <1>3, AppendEntriesVotes DEF StepNode
<1>4. CASE m.type = "AppendEntriesResp"
    BY <1>4, AppendEntriesRespVotes DEF StepNode
<1>. QED
    BY <1>0, <1>1, <1>2, <1>3, <1>4

\* route only appends (cluster.go:127-131).
LEMMA RouteIsLonger ==
    ASSUME NEW q, GoodQueues(q), NEW out, \A m \in out : GoodMessage(m), NEW v \in Server
    PROVE  Longer(q[v], Route(q, out)[v], {m \in out : m.to = v})
<1>. DEFINE u == q[v]
            w == Route(q, out)[v]
<1>1. u \in Seq(Message) /\ Len(u) \in Nat
    BY LengthOfSeq DEF GoodQueues
<1>2. (w = u /\ ~\E m \in out : m.to = v) \/ \E m \in out : m.to = v /\ w = Append(u, m)
    BY RouteAppends
<1>. HIDE DEF u, w
<1>3. CASE w = u
    <2>1. \A k \in Len(u) + 1 .. Len(u) : FALSE
        BY <1>1
    <2>. QED
        BY <1>1, <1>3, <2>1 DEF Longer, u, w
<1>4. CASE \E m \in out : m.to = v /\ w = Append(u, m)
    <2>1. PICK m \in out : m.to = v /\ w = Append(u, m)
        BY <1>4
    <2>2. m \in Message
        BY <2>1 DEF GoodMessage
    <2>3. /\ w \in Seq(Message) /\ Len(w) = Len(u) + 1 /\ w[Len(u) + 1] = m
          /\ \A k \in 1 .. Len(u) : w[k] = u[k]
        BY <1>1, <2>1, <2>2, OneMore
    <2>4. \A k \in Len(u) + 1 .. Len(w) : k = Len(u) + 1
        BY <1>1, <2>3
    <2>5. Len(w) \in Nat /\ Len(u) <= Len(w)
        BY <1>1, <2>3
    <2>6. Longer(u, w, {a \in out : a.to = v})
        BY <1>1, <2>1, <2>3, <2>4, <2>5, Zenon DEF Longer
    <2>. QED
        BY <2>6 DEF u, w
<1>. QED
    BY <1>2, <1>3, <1>4

\* A node is among its own peers, so its vote counts twice (node.go:238-254); with an odd
\* number of nodes, the winner has the votes of more than half of them all the same.
LEMMA WinnerHasMajority ==
    ASSUME Cardinality(Server) % 2 = 1, NEW i \in Server, NEW z, z.votesGranted \subseteq Server,
           CountVotes(i, z) >= Majority(i)
    PROVE  IsMajority(z.votesGranted)
<1>. DEFINE Q == z.votesGranted
            c == Cardinality(Q)
            n == Cardinality(Server)
<1>1. IsFiniteSet(Q) /\ c \in Nat /\ n \in Nat
    BY PeersAssumption, NumberedNodes, FS_Subset, FS_CardinalityType
<1>2. Peers[i] = Server /\ Server \cap Q = Q
    BY NumberedNodes
<1>3. CountVotes(i, z) = (IF i \in Q THEN 1 ELSE 0) + c
    BY <1>2, Zenon DEF CountVotes
<1>4. Majority(i) = (n + 1) \div 2 + 1
    BY <1>2, Zenon DEF Majority
<1>. HIDE DEF c, n
<1>5. 1 + c >= (n + 1) \div 2 + 1
    BY <1>1, <1>3, <1>4
<1>6. n % 2 = 1
    BY DEF n
<1>7. 2 * c > n
    BY <1>1, <1>5, <1>6
<1>. QED
    BY <1>7 DEF IsMajority, c, n

\* Two majorities have a node in common.
LEMMA MajoritiesMeet ==
    ASSUME NEW P, IsMajority(P), NEW Q, IsMajority(Q)
    PROVE  \E v \in Server : v \in P /\ v \in Q
<1>1. IsFiniteSet(Server) /\ P \subseteq Server /\ Q \subseteq Server
    BY PeersAssumption DEF IsMajority
<1>2. Cardinality(P) \in Nat /\ Cardinality(Q) \in Nat /\ Cardinality(Server) \in Nat
    BY <1>1, FS_Subset, FS_CardinalityType
<1>3. Cardinality(P) + Cardinality(Q) > Cardinality(Server)
    BY <1>2 DEF IsMajority
<1>4. P \cap Q # {}
    BY <1>1, <1>3, FS_MajoritiesIntersect
<1>. QED
    BY <1>1, <1>4

-----------------------------------------------------------------------------
(***************************************************************************)
(* DeliverAll.                                                             *)
(***************************************************************************)

\* A node handles the message at position k of its queue.
LEMMA DeliverVotes ==
    ASSUME Cardinality(Server) % 2 = 1,
           NEW x \in GoodSim, NEW i \in Server, NEW k \in 1 .. Len(x.queue[i]), NEW B, NEW M,
           InRound(B, M, x.node, x.queue, x.elected, Handled(i, k - 1))
    PROVE  LET t == Deliver(i, {}, x, x.queue[i][k])
           IN  /\ \E D : InRound(D, M, t.node, t.queue, t.elected, Handled(i, k))
               /\ \A v \in Server :
                    Longer(x.queue[v], t.queue[v], {a \in Message : a.type # "RequestVote"})
<1>. DEFINE N == x.node
            q == x.queue
            n == N[i]
            m == q[i][k]
            r == StepNode(i, n, m)
            t == Deliver(i, {}, x, m)
            P == t.node
            w == t.queue
<1>0. /\ x \in Sim /\ GoodQueues(q) /\ GoodNode(n) /\ n \in NodeState
      /\ N \in [Server -> NodeState] /\ q \in [Server -> Seq(Message)]
    BY DEF GoodSim, Sim, GoodNode
<1>1. GoodMessage(m) /\ m \in Message /\ m.to = i
    BY <1>0, Zenon DEF GoodQueues, GoodMessage
<1>2. Len(q[i]) \in Nat /\ k \in 1 .. Len(q[i])
    BY <1>0, LengthOfSeq
<1>3. ~n.crashed
    BY Zenon DEF InRound
<1>4. Votes(i, n, m, r) /\ ~r.node.crashed /\ GoodResult(r) /\ \A a \in r.out : a.from = i
    BY <1>0, <1>1, <1>3, StepVotes, StepKeepsRunning, StepNodeGood, AnswersAreOwn, Zenon
<1>5. /\ P = [N EXCEPT ![i] = r.node] /\ w = Route(q, r.out)
      /\ t.elected = IF n.state # Leader /\ r.node.state = Leader
                     THEN x.elected \cup {[leader |-> i, term |-> r.node.currentTerm]}
                     ELSE x.elected
    <2>1. Delivered(i, {}, x, r, t)
        BY <1>0, DeliverFields, Zenon
    <2>2. {a \in r.out : <<a.from, a.to>> \notin {}} = r.out
        OBVIOUS
    <2>. HIDE DEF r, t
    <2>. QED
        BY <2>1, <2>2, Zenon DEF Delivered
<1>6. InRound(B, M, N, q, x.elected, Handled(i, k - 1))
    OBVIOUS
<1>. HIDE DEF r, t
<1>. HIDE DEF N, q, n, m, P, w
<1>7. \A v \in Server : Longer(q[v], w[v], {a \in r.out : a.to = v})
    <2>1. \A a \in r.out : GoodMessage(a)
        BY <1>4 DEF GoodResult
    <2>. QED
        BY <1>0, <1>5, <2>1, RouteIsLonger, Zenon
<1>8. r.node \in NodeState /\ r.node.votesGranted \subseteq Server
    BY <1>4 DEF GoodResult, GoodNode, NodeState
<1>9. CountVotes(i, r.node) >= Majority(i) => IsMajority(r.node.votesGranted)
    BY <1>8, WinnerHasMajority
<1>10. Handles(i, k, r, N, P, q, w, x.elected, t.elected)
    BY <1>0, <1>1, <1>2, <1>4, <1>5, <1>7, <1>8, Zenon DEF Handles, Routed, n, m
<1>11. \E D : InRound(D, M, P, w, t.elected, Handled(i, k))
    BY <1>6, <1>9, <1>10, HandlesInRound, Zenon
<1>12. \A v \in Server : Longer(q[v], w[v], {a \in Message : a.type # "RequestVote"})
    <2>. SUFFICES ASSUME NEW v \in Server
                  PROVE  Longer(q[v], w[v], {a \in Message : a.type # "RequestVote"})
        BY Zenon
    <2>1. \A a \in r.out : a \in Message /\ a.type # "RequestVote"
        BY <1>4, Zenon DEF GoodResult, GoodMessage, Votes
    <2>2. \A a \in r.out : a \in {b \in Message : b.type # "RequestVote"}
        BY <2>1
    <2>. QED
        BY <1>7, <2>2, Zenon DEF Longer
<1>. QED
    BY <1>11, <1>12, Zenon DEF t, m, q, P, w

\* The simulator after k messages of the queue that node i had in s.
BehindVisit(i, s, M, k) ==
    {x \in GoodSim : /\ \A v \in Server : Longer(s.queue[v], x.queue[v], NoRequest)
                     /\ \E B : InRound(B, M, x.node, x.queue, x.elected, Handled(i, k))}

\* A node handles its queue: it leaves no request for a vote behind, and so it has
\* reached the latest term when the queue is emptied (cluster.go:57-61).
LEMMA VisitVotes ==
    ASSUME Cardinality(Server) % 2 = 1,
           NEW s \in GoodSim, NEW i \in Server, NEW B, NEW M,
           InRound(B, M, s.node, s.queue, s.elected, NoneHandled),
           NEW y \in Visit(i, {}, s)
    PROVE  /\ y \in GoodSim
           /\ \E D : InRound(D, M, y.node, y.queue, y.elected, NoneHandled)
           /\ RequestFree(y.queue[i])
           /\ \A v \in Server : RequestFree(s.queue[v]) => RequestFree(y.queue[v])
<1>. DEFINE n == Len(s.queue[i])
            G(k) == BehindVisit(i, s, M, k)
            H == [k \in 0 .. n |-> G(k)]
<1>1. n \in Nat /\ \A k \in 1 .. n : GoodMessage(s.queue[i][k])
    BY LengthOfSeq DEF GoodSim, GoodQueues
<1>2. s \in G(0)
    <2>1. Handled(i, 0) = NoneHandled
        BY DEF Handled, NoneHandled
    <2>2. \A v \in Server : s.queue[v] \in Seq(Message)
        BY DEF GoodSim, GoodQueues
    <2>3. \A v \in Server : Longer(s.queue[v], s.queue[v], NoRequest)
        BY <2>2, LongerOrder
    <2>. QED
        BY <2>1, <2>3, Zenon DEF BehindVisit
<1>3. ASSUME NEW k \in 1 .. n, NEW x \in G(k - 1)
      PROVE  Deliver(i, {}, x, s.queue[i][k]) \in G(k)
    <2>. DEFINE t == Deliver(i, {}, x, x.queue[i][k])
    <2>1. x \in GoodSim /\ \A v \in Server : Longer(s.queue[v], x.queue[v], NoRequest)
        BY Zenon DEF BehindVisit
    <2>2. PICK D : InRound(D, M, x.node, x.queue, x.elected, Handled(i, k - 1))
        BY Zenon DEF BehindVisit
    <2>3. x.queue[i][k] = s.queue[i][k] /\ Len(s.queue[i]) <= Len(x.queue[i]) /\ Len(x.queue[i]) \in Nat
        BY <2>1, Zenon DEF Longer
    <2>4. k \in 1 .. Len(x.queue[i])
        BY <1>1, <2>3
    <2>5. /\ \E d : InRound(d, M, t.node, t.queue, t.elected, Handled(i, k))
          /\ \A v \in Server : Longer(x.queue[v], t.queue[v], {a \in Message : a.type # "RequestVote"})
        BY <2>1, <2>2, <2>4, DeliverVotes, Zenon
    <2>6. t \in GoodSim
        BY <1>1, <2>1, <2>3, DeliverGood
    <2>. HIDE DEF t
    <2>7. \A v \in Server : Longer(s.queue[v], t.queue[v], NoRequest)
        BY <2>1, <2>5, LongerOrder, Zenon DEF NoRequest
    <2>8. t \in G(k)
        BY <2>5, <2>6, <2>7, Zenon DEF BehindVisit
    <2>. QED
        BY <2>3, <2>8 DEF t
<1>4. s \in H[0] /\ MessageByMessage(i, {}, s, H)
    <2>0. MessageByMessage(i, {}, s, H) <=>
          \A k \in 1 .. n : \A x \in H[k - 1] : Deliver(i, {}, x, s.queue[i][k]) \in H[k]
        BY DEF MessageByMessage
    <2>. HIDE DEF n, G
    <2>1. (\A k \in 1 .. n : k \in 0 .. n /\ k - 1 \in 0 .. n) /\ 0 \in 0 .. n
        BY <1>1
    <2>. QED
        BY <1>2, <1>3, <2>0, <2>1
<1>5. PICK x \in G(n) : y = Emptied(i, n, x)
    <2>1. n \in 0 .. n
        BY <1>1
    <2>2. H[n] = G(n)
        BY <2>1, Zenon
    <2>. HIDE DEF H, G
    <2>3. VisitEnds(i, {}, s, H)
        BY <1>1, <1>4, VisitInduction DEF n
    <2>. QED
        BY <2>2, <2>3, Zenon DEF VisitEnds
<1>6. x \in GoodSim /\ \A v \in Server : Longer(s.queue[v], x.queue[v], NoRequest)
    BY Zenon DEF BehindVisit
<1>7. PICK D : InRound(D, M, x.node, x.queue, x.elected, Handled(i, n))
    BY Zenon DEF BehindVisit
<1>8. /\ y.node = x.node /\ y.elected = x.elected
      /\ y.queue[i] = <<>> /\ \A v \in Server \ {i} : y.queue[v] = x.queue[v]
    <2>1. x \in Sim
        BY <1>6 DEF GoodSim
    <2>. HIDE DEF n, G, H
    <2>2. LET e == Emptied(i, n, x)
          IN  /\ e.node = x.node /\ e.elected = x.elected
              /\ e.queue[i] = <<>> /\ \A v \in Server \ {i} : e.queue[v] = x.queue[v]
        BY <2>1, EmptiedFields, Zenon
    <2>. QED
        BY <1>5, <2>2, Zenon
<1>9. y \in GoodSim
    BY VisitGood
<1>. HIDE DEF G, H
<1>10. /\ \A k \in 1 .. Len(y.queue[i]) : FALSE
       /\ \A t : ~Asked(y.queue, i, 0, t)
    <2>1. Len(y.queue[i]) = 0
        BY <1>8
    <2>2. \A k \in 1 .. 0 : FALSE
        OBVIOUS
    <2>3. \A k \in 0 + 1 .. 0 : FALSE
        OBVIOUS
    <2>. QED
        BY <2>1, <2>2, <2>3, Zenon DEF Asked
<1>11. /\ NoneHandled[i] = 0 /\ Handled(i, n)[i] = n
       /\ \A v \in Server \ {i} : NoneHandled[v] = 0 /\ Handled(i, n)[v] = 0
    BY DEF NoneHandled, Handled
<1>12. \A v \in Server \ {i} : \A t : Asked(y.queue, v, 0, t) <=> Asked(x.queue, v, 0, t)
    BY <1>8, Zenon DEF Asked
<1>13. \A t : ~Asked(x.queue, i, n, t)
    BY <1>6, Zenon DEF Asked, Longer, NoRequest
<1>14. /\ \A v \in Server : ~x.node[v].crashed
       /\ BallotsOf(D, x.node) /\ LettersOf(D, x.queue) /\ ElectionsOf(D, x.elected)
       /\ TermsOf(M, x.node, x.queue, Handled(i, n)) /\ NotAskedTwice(D, x.node, x.queue, Handled(i, n))
    BY <1>7, Zenon DEF InRound
<1>15. LettersOf(D, y.queue)
    BY <1>8, <1>10, <1>14, Zenon DEF LettersOf
<1>16. TermsOf(M, y.node, y.queue, NoneHandled)
    BY <1>8, <1>10, <1>11, <1>12, <1>13, <1>14, Zenon DEF TermsOf
<1>17. NotAskedTwice(D, y.node, y.queue, NoneHandled)
    BY <1>8, <1>10, <1>11, <1>12, <1>14, Zenon DEF NotAskedTwice
<1>18. InRound(D, M, y.node, y.queue, y.elected, NoneHandled)
    BY <1>8, <1>14, <1>15, <1>16, <1>17, Zenon DEF InRound
<1>19. RequestFree(y.queue[i])
    BY <1>10, Zenon DEF RequestFree
<1>20. \A v \in Server : RequestFree(s.queue[v]) => RequestFree(y.queue[v])
    BY <1>6, <1>8, <1>19, LongerOrder, Zenon
<1>. QED
    BY <1>9, <1>18, <1>19, <1>20, Zenon


\* The simulator after the first k queues of an order.
BehindRound(order, M, k) ==
    {x \in GoodSim : /\ \E D : InRound(D, M, x.node, x.queue, x.elected, NoneHandled)
                     /\ \A j \in 1 .. k : RequestFree(x.queue[order[j]])}

\* A round ends with every node in the latest term, whatever the order of the queues
\* (cluster.go:47-63).
LEMMA RoundVotes ==
    ASSUME Cardinality(Server) % 2 = 1, ClusterInv, NEW B, NEW M,
           InRound(B, M, node, queue, elected, NoneHandled),
           NEW order \in Orders, NEW end \in VisitAll(order, {})
    PROVE  \E D : /\ InRound(D, M, end.node, end.queue, end.elected, NoneHandled)
                  /\ Settled(D, end.node, end.queue)
<1>. DEFINE N == Cardinality(Server)
            G(k) == BehindRound(order, M, k)
            H == [k \in 0 .. N |-> G(k)]
<1>1. /\ N \in Nat /\ Len(order) = N /\ \A k \in 1 .. N : order[k] \in Server
      /\ \A v \in Server : \E k \in 1 .. N : order[k] = v
    BY NumberedNodes, OrdersAreSequences
<1>. HIDE DEF N
<1>2. Begin \in G(0)
    <2>1. Begin \in GoodSim /\ Begin.node = node /\ Begin.queue = queue /\ Begin.elected = elected
        BY Zenon DEF ClusterInv, GoodQueues, Begin, GoodSim, Sim, OnlyOwnMessagesDropped
    <2>2. \A j \in 1 .. 0 : FALSE
        OBVIOUS
    <2>. QED
        BY <2>1, <2>2, Zenon DEF BehindRound
<1>3. ASSUME NEW k \in 1 .. N, NEW x \in G(k - 1), NEW y \in Visit(order[k], {}, x)
      PROVE  y \in G(k)
    <2>1. x \in GoodSim /\ \A j \in 1 .. k - 1 : RequestFree(x.queue[order[j]])
        BY Zenon DEF BehindRound
    <2>2. PICK D : InRound(D, M, x.node, x.queue, x.elected, NoneHandled)
        BY Zenon DEF BehindRound
    <2>3. /\ y \in GoodSim
          /\ \E d : InRound(d, M, y.node, y.queue, y.elected, NoneHandled)
          /\ RequestFree(y.queue[order[k]])
          /\ \A v \in Server : RequestFree(x.queue[v]) => RequestFree(y.queue[v])
        BY <1>1, <2>1, <2>2, VisitVotes, Zenon
    <2>4. \A j \in 1 .. k : j = k \/ (j \in 1 .. k - 1 /\ j \in 1 .. N)
        BY <1>1
    <2>5. \A j \in 1 .. k : RequestFree(y.queue[order[j]])
        BY <1>1, <2>1, <2>3, <2>4, Zenon
    <2>. QED
        BY <2>3, <2>5, Zenon DEF BehindRound
<1>. HIDE DEF G
<1>4. Begin \in H[0] /\ H[N] = G(N)
    BY <1>1, <1>2
<1>5. QueueByQueue(order, {}, H)
    <2>1. \A k \in 1 .. N : k \in 0 .. N /\ k - 1 \in 0 .. N
        BY <1>1
    <2>2. \A k \in 1 .. N : \A x \in H[k - 1] : Visit(order[k], {}, x) \subseteq H[k]
        BY <1>3, <2>1
    <2>. HIDE DEF H
    <2>. QED
        BY <1>1, <2>2 DEF QueueByQueue
<1>. HIDE DEF H
<1>6. end \in G(N)
    BY <1>1, <1>4, <1>5, VisitAllInduction
<1>7. /\ \E D : InRound(D, M, end.node, end.queue, end.elected, NoneHandled)
      /\ \A j \in 1 .. N : RequestFree(end.queue[order[j]])
    BY <1>6, Zenon DEF BehindRound, G
<1>8. PICK D : InRound(D, M, end.node, end.queue, end.elected, NoneHandled)
    BY <1>7, Zenon
<1>9. TermsOf(M, end.node, end.queue, NoneHandled)
    BY <1>8, Zenon DEF InRound
<1>10. ASSUME NEW v \in Server PROVE end.node[v].currentTerm = M
    <2>1. RequestFree(end.queue[v])
        BY <1>1, <1>7, Zenon
    <2>2. 0 + 1 = 1 /\ NoneHandled[v] = 0
        BY DEF NoneHandled
    <2>3. ~Asked(end.queue, v, NoneHandled[v], M)
        BY <2>1, <2>2, Zenon DEF Asked, RequestFree
    <2>. QED
        BY <1>9, <2>3, Zenon DEF TermsOf
<1>11. M \in Nat /\ M <= M /\ \A v \in Server : \A k \in 1 .. Len(end.queue[v]) : end.queue[v][k].term <= M
    <2>1. M \in Nat /\ \A v \in Server : \A k \in 1 .. Len(end.queue[v]) : end.queue[v][k].term <= M
        BY <1>9, Zenon DEF TermsOf
    <2>. QED
        BY <2>1
<1>12. Settled(D, end.node, end.queue)
    BY <1>10, <1>11, Zenon DEF Settled
<1>. QED
    BY <1>8, <1>12, Zenon

\* DeliverAll (cluster.go:47-63).
LEMMA DeliverAllVotes ==
    ASSUME Cardinality(Server) % 2 = 1, ClusterInv, VoteInv, DeliverAll
    PROVE  VoteInv'
<1>1. PICK B, M : InRound(B, M, node, queue, elected, NoneHandled)
    BY Zenon DEF VoteInv
<1>2. PICK order \in Orders : \E end \in VisitAll(order, {}) :
          node' = end.node /\ queue' = end.queue /\ elected' = end.elected
    BY Zenon DEF DeliverAll, DeliverThrough
<1>3. PICK end \in VisitAll(order, {}) :
          node' = end.node /\ queue' = end.queue /\ elected' = end.elected
    BY <1>2
<1>4. \E D : /\ InRound(D, M, end.node, end.queue, end.elected, NoneHandled)
             /\ Settled(D, end.node, end.queue)
    BY <1>1, RoundVotes
<1>. QED
    BY <1>3, <1>4, Zenon DEF VoteInv


-----------------------------------------------------------------------------
(***************************************************************************)
(* TickAll and Propose.                                                    *)
(***************************************************************************)

\* Tick and startElection (node.go:266-301): a heartbeat of a leader, or an election.
LEMMA TickVotes ==
    ASSUME NEW i \in Server, node[i] \in NodeState, ~node[i].crashed
    PROVE  Ticked(i, node[i], Tick(i).node, Tick(i).out)
<1>. DEFINE n == node[i]
            x == Tick(i).node
            out == Tick(i).out
<1>0. n.currentTerm \in Nat /\ Peers[i] = Server
    BY NumberedNodes DEF NodeState
<1>1. CASE n.state # Leader /\ ElectionDue(i)
    <2>. DEFINE c == [n EXCEPT !.currentTerm  = @ + 1,
                               !.state        = Candidate,
                               !.votedFor     = i,
                               !.votesGranted = {i},
                               !.leaderID     = Nil]
    <2>1. /\ x = c
          /\ out = {RequestVote(i, p, c.currentTerm, LastIndex(c.log), LastTerm(c.log)) : p \in Peers[i]}
        BY <1>1 DEF Tick, StartElection, Returns
    <2>2. /\ c.currentTerm = n.currentTerm + 1 /\ c.state = Candidate /\ c.crashed = n.crashed
          /\ c.votedFor = i /\ c.votesGranted = {i}
        BY Zenon DEF NodeState
    <2>. HIDE DEF c
    <2>3. \A m \in out : m.type = "RequestVote" /\ m.term = n.currentTerm + 1
        <3>. SUFFICES ASSUME NEW m \in out
                      PROVE  m.type = "RequestVote" /\ m.term = n.currentTerm + 1
            OBVIOUS
        <3>1. PICK p \in Peers[i] :
                  m = RequestVote(i, p, c.currentTerm, LastIndex(c.log), LastTerm(c.log))
            BY <2>1, Zenon
        <3>2. m.type = "RequestVote" /\ m.term = c.currentTerm
            BY <3>1 DEF RequestVote
        <3>. QED
            BY <2>2, <3>2, Zenon
    <2>4. \A p \in Server : \E m \in out : m.to = p
        <3>. DEFINE f(p) == RequestVote(i, p, c.currentTerm, LastIndex(c.log), LastTerm(c.log))
        <3>1. \A p \in Server : f(p).to = p
            BY DEF RequestVote
        <3>2. out = {f(p) : p \in Server}
            BY <1>0, <2>1
        <3>. HIDE DEF f, out
        <3>. QED
            BY <3>1, <3>2
    <2>. HIDE DEF x, out
    <2>5. Ticked(i, n, x, out)
        BY <2>1, <2>2, <2>3, <2>4, Zenon DEF Ticked
    <2>. QED
        BY <2>5 DEF x, out
<1>2. CASE n.state = Leader /\ HeartbeatDue(i)
    <2>1. x = n /\ out = BroadcastAppendEntries(i, n)
        BY <1>2 DEF Tick, Returns
    <2>2. \A p : AppendEntriesTo(i, n, p).type = "AppendEntries" /\ AppendEntriesTo(i, n, p).term = n.currentTerm
        BY DEF AppendEntriesTo, AppendEntries
    <2>3. \A m \in out : m.type = "AppendEntries" /\ n.state = Leader /\ m.term = n.currentTerm
        BY <1>2, <2>1, <2>2, Zenon DEF BroadcastAppendEntries
    <2>. HIDE DEF x, out
    <2>4. Ticked(i, n, x, out)
        BY <2>1, <2>3, Zenon DEF Ticked, SameVote
    <2>. QED
        BY <2>4 DEF x, out
<1>3. CASE ~(n.state # Leader /\ ElectionDue(i)) /\ ~(n.state = Leader /\ HeartbeatDue(i))
    <2>1. x = n /\ out = {}
        BY <1>3, Zenon DEF Tick, Returns
    <2>. HIDE DEF x, out
    <2>2. Ticked(i, n, x, out)
        BY <2>1 DEF Ticked, SameVote
    <2>. QED
        BY <2>2 DEF x, out
<1>. QED
    BY <1>1, <1>2, <1>3

\* The queues when the first k nodes have ticked, from q and the nodes N to P.
TickedQueues(N, P, q, k) ==
    {w \in [Server -> Seq(Message)] :
        /\ GoodQueues(w)
        /\ \A v \in Server : Longer(q[v], w[v], SentBetween(N, P))
        /\ \A i \in Electors(N, P) : i <= k =>
               \A v \in Server : Asked(w, v, 0, N[i].currentTerm + 1)}

\* The messages of one node more.
LEMMA TickRoutesOne ==
    ASSUME NEW N, NEW P, NEW q, NEW k \in Server, N[k].currentTerm \in Nat,
           NEW out, Ticked(k, N[k], P[k], out), \A m \in out : GoodMessage(m),
           NEW a \in TickedQueues(N, P, q, k - 1)
    PROVE  Route(a, out) \in TickedQueues(N, P, q, k)
<1>. DEFINE b == Route(a, out)
<1>0. k \in Nat /\ \A i \in Server : i \in Nat
    BY NumberedNodes
<1>1. /\ GoodQueues(a) /\ \A v \in Server : Longer(q[v], a[v], SentBetween(N, P))
      /\ \A i \in Electors(N, P) : i <= k - 1 =>
             \A v \in Server : Asked(a, v, 0, N[i].currentTerm + 1)
    BY Zenon DEF TickedQueues
<1>a. GoodQueues(a)
    BY <1>1, Zenon
<1>b. /\ GoodQueues(b)
      /\ \A p \in Server :
            \/ b[p] = a[p] /\ ~\E m \in out : m.to = p
            \/ \E m \in out : m.to = p /\ b[p] = Append(a[p], m)
    BY <1>a, RouteAppends, Zenon
<1>2. GoodQueues(b) /\ b \in [Server -> Seq(Message)]
    BY <1>b, Zenon DEF GoodQueues
<1>3. \A v \in Server : Longer(a[v], b[v], {m \in out : m.to = v})
    <2>. SUFFICES ASSUME NEW v \in Server
                  PROVE  Longer(a[v], Route(a, out)[v], {m \in out : m.to = v})
        BY Zenon
    <2>. QED
        BY <1>a, RouteIsLonger, Zenon
<1>4. \A m \in out : m \in SentBetween(N, P)
    <2>. SUFFICES ASSUME NEW m \in out PROVE m \in SentBetween(N, P)
        OBVIOUS
    <2>1. m \in Message
        BY DEF GoodMessage
    <2>. QED
        BY <2>1 DEF Ticked, SentBetween, Electors
<1>. HIDE DEF b
<1>5. \A v \in Server : Longer(a[v], b[v], SentBetween(N, P))
    BY <1>3, <1>4, Zenon DEF Longer
<1>6. \A v \in Server : Longer(q[v], b[v], SentBetween(N, P))
    BY <1>1, <1>5, LongerOrder
<1>7. ASSUME NEW i \in Electors(N, P), i <= k, NEW v \in Server
      PROVE  Asked(b, v, 0, N[i].currentTerm + 1)
    <2>0. i \in Server
        BY DEF Electors
    <2>1. CASE i <= k - 1
        <3>1. Asked(a, v, 0, N[i].currentTerm + 1)
            BY <1>1, <2>1, <1>7, Zenon
        <3>. QED
            BY <1>5, <3>1, StillAsked, Zenon
    <2>2. CASE i = k
        <3>1. P[k].currentTerm = N[k].currentTerm + 1
            BY <2>2 DEF Electors
        <3>2. ~SameVote(N[k], P[k])
            BY <3>1 DEF SameVote
        <3>3. /\ \A m \in out : m.type = "RequestVote" /\ m.term = N[k].currentTerm + 1
              /\ \E m \in out : m.to = v
            BY <3>2, Zenon DEF Ticked
        <3>4. PICK m \in out : b[v] = Append(a[v], m)
            BY <1>b, <3>3, Zenon
        <3>5. a[v] \in Seq(Message) /\ m \in Message
            BY <1>1 DEF GoodQueues, GoodMessage
        <3>6. Asked(b, v, 0, m.term)
            BY <3>3, <3>4, <3>5, AskedAtTheEnd
        <3>. QED
            BY <2>2, <3>3, <3>6
    <2>3. i <= k - 1 \/ i = k
        BY <1>0, <1>7, <2>0
    <2>. QED
        BY <2>1, <2>2, <2>3
<1>. QED
    BY <1>2, <1>6, <1>7, Zenon DEF TickedQueues, b

\* The loop of TickAll (cluster.go:39-44).
LEMMA TickRoutes ==
    ASSUME ClusterInv, \A i \in Server : ~node[i].crashed, TickAll
    PROVE  AllTicked(node, node', queue, queue') /\ elected' = elected
<1>. DEFINE r == [i \in Server |-> Tick(i)]
            N == Cardinality(Server)
            G(k) == TickedQueues(node, node', queue, k)
            H == [k \in 0 .. N |-> G(k)]
<1>1. /\ node' = [i \in Server |-> r[i].node]
      /\ queue' = RoutedBy(queue, r, N)
      /\ elected' = elected
    BY DEF TickAll, RoutedBy, history
<1>2. \A i \in Server : r[i] = Tick(i) /\ node'[i] = Tick(i).node
    BY <1>1
<1>3. N \in Nat /\ Server = 1 .. N
    BY NumberedNodes
<1>4. \A i \in Server : node[i] \in NodeState /\ GoodNode(node[i]) /\ node[i].currentTerm \in Nat
    BY DEF ClusterInv, NodeState
<1>5. ASSUME NEW i \in Server
      PROVE  Ticked(i, node[i], node'[i], r[i].out) /\ \A m \in r[i].out : GoodMessage(m)
    <2>1. Ticked(i, node[i], Tick(i).node, Tick(i).out)
        BY <1>4, TickVotes
    <2>2. \A m \in Tick(i).out : GoodMessage(m)
        BY <1>4, TickGood DEF GoodResult
    <2>. HIDE DEF r
    <2>. QED
        BY <1>2, <2>1, <2>2, Zenon
<1>. HIDE DEF r, N
<1>6. queue \in G(0)
    <2>1. GoodQueues(queue) /\ queue \in [Server -> Seq(Message)]
        BY DEF ClusterInv, GoodQueues
    <2>2. \A v \in Server : Longer(queue[v], queue[v], SentBetween(node, node'))
        BY <2>1, LongerOrder
    <2>3. \A i \in Electors(node, node') : ~(i <= 0)
        BY <1>3 DEF Electors
    <2>. QED
        BY <2>1, <2>2, <2>3, Zenon DEF TickedQueues
<1>7. ASSUME NEW k \in 1 .. N, NEW a \in G(k - 1) PROVE Route(a, r[k].out) \in G(k)
    BY <1>3, <1>4, <1>5, TickRoutesOne
<1>. HIDE DEF G
<1>8. RoutesThrough(r, N, H)
    <2>1. \A k \in 1 .. N : H[k] = G(k) /\ H[k - 1] = G(k - 1)
        BY <1>3
    <2>. HIDE DEF H
    <2>. QED
        BY <1>7, <2>1 DEF RoutesThrough
<1>9. H[0] = G(0) /\ H[N] = G(N)
    BY <1>3
<1>. HIDE DEF H
<1>10. queue' \in G(N)
    BY <1>1, <1>3, <1>6, <1>8, <1>9, RoutedNodeByNode
<1>11. \A i \in Electors(node, node') : i <= N
    BY <1>3 DEF Electors
<1>12. /\ \A v \in Server : Longer(queue[v], queue'[v], SentBetween(node, node'))
       /\ \A i \in Electors(node, node') : \A v \in Server :
              Asked(queue', v, 0, node[i].currentTerm + 1)
    BY <1>10, <1>11, Zenon DEF G, TickedQueues
<1>. QED
    BY <1>1, <1>5, <1>12, Zenon DEF AllTicked


\* TickAll (cluster.go:39-44).
LEMMA TickAllVotes ==
    ASSUME ClusterInv, VoteInv, TickAll
    PROVE  VoteInv'
<1>1. PICK B, M : InRound(B, M, node, queue, elected, NoneHandled) /\ Settled(B, node, queue)
    BY Zenon DEF VoteInv
<1>2. \A v \in Server : ~node[v].crashed
    BY <1>1, Zenon DEF InRound
<1>3. \A v \in Server : node[v].currentTerm \in Nat
    BY DEF ClusterInv, NodeState
<1>4. AllTicked(node, node', queue, queue') /\ elected' = elected
    BY <1>2, TickRoutes
<1>5. \E D, K : InRound(D, K, node', queue', elected, NoneHandled) /\ Settled(D, node', queue')
    BY <1>1, <1>3, <1>4, TickInRound
<1>. QED
    BY <1>4, <1>5, Zenon DEF VoteInv

\* Propose (cluster.go:76-90): the leader replicates at once.
LEMMA ProposeVotes ==
    ASSUME ClusterInv, VoteInv, NEW cmd \in Command, Propose(cmd)
    PROVE  VoteInv'
<1>. DEFINE i == Min(Leaders)
            n == NodePropose(node[i], cmd)
            out == BroadcastAppendEntries(i, n)
<1>1. PICK B, M : InRound(B, M, node, queue, elected, NoneHandled) /\ Settled(B, node, queue)
    BY Zenon DEF VoteInv
<1>2. /\ Leaders # {} /\ elected' = elected
      /\ node' = [node EXCEPT ![i] = n] /\ queue' = Route(queue, out)
    BY DEF Propose, history
<1>3. i \in Server /\ node[i].state = Leader
    BY <1>2, MinOfNaturals, NumberedNodes, Zenon DEF Leaders
<1>. HIDE DEF i
<1>4. /\ node \in [Server -> NodeState] /\ node[i] \in NodeState /\ GoodNode(node[i])
      /\ \A v \in Server : node[v].currentTerm \in Nat
    BY <1>3 DEF ClusterInv, NodeState
<1>5. GoodNode(n) /\ \A m \in out : GoodMessage(m)
    BY <1>3, <1>4, NodeProposeGood, BroadcastGood
<1>6. SameVote(node[i], n)
    BY <1>4, Zenon DEF NodePropose, SameVote, NodeState
<1>7. \A m \in out : m.type = "AppendEntries" /\ m.term = node[i].currentTerm
    <2>1. \A p : AppendEntriesTo(i, n, p).type = "AppendEntries" /\ AppendEntriesTo(i, n, p).term = n.currentTerm
        BY Zenon DEF AppendEntriesTo, AppendEntries
    <2>. HIDE DEF n
    <2>. QED
        BY <1>6, <2>1 DEF BroadcastAppendEntries, SameVote
<1>. HIDE DEF n, out
<1>8. node'[i] = n /\ \A v \in Server \ {i} : node'[v] = node[v]
    BY <1>2, <1>3, <1>4
<1>9. \A v \in Server : Ticked(v, node[v], node'[v], {})
    BY <1>6, <1>8 DEF Ticked, SameVote
<1>10. \A m \in out : m \in SentBetween(node, node')
    BY <1>3, <1>5, <1>7 DEF SentBetween, GoodMessage
<1>11. \A v \in Server : Longer(queue[v], queue'[v], SentBetween(node, node'))
    <2>1. \A v \in Server : Longer(queue[v], queue'[v], {m \in out : m.to = v})
        <3>1. GoodQueues(queue)
            BY Zenon DEF ClusterInv
        <3>2. \A v \in Server : Longer(queue[v], Route(queue, out)[v], {m \in out : m.to = v})
            BY <1>5, <3>1, RouteIsLonger, Zenon
        <3>. QED
            BY <1>2, <3>2, Zenon
    <2>. QED
        BY <1>10, <2>1, Zenon DEF Longer
<1>12. Electors(node, node') = {}
    <2>1. \A v \in Server : node'[v].currentTerm = node[v].currentTerm
        BY <1>6, <1>8 DEF SameVote
    <2>2. \A v \in Server : node'[v].currentTerm # node[v].currentTerm + 1
        BY <1>4, <2>1
    <2>. QED
        BY <2>2 DEF Electors
<1>13. \E D, K : InRound(D, K, node', queue', elected, NoneHandled) /\ Settled(D, node', queue')
    <2>1. AllTicked(node, node', queue, queue')
        BY <1>9, <1>11, <1>12 DEF AllTicked
    <2>. QED
        BY <1>1, <1>4, <2>1, TickInRound
<1>. QED
    BY <1>2, <1>13, Zenon DEF VoteInv

-----------------------------------------------------------------------------
(***************************************************************************)
(* The theorem.                                                            *)
(***************************************************************************)

\* A new cluster: no ballot is cast, and every node is in term 0.
LEMMA VotesStart ==
    ASSUME Init
    PROVE  VoteInv
<1>1. /\ \A v \in Server : node[v] = NewNode /\ queue[v] = <<>>
      /\ elected = {}
    BY DEF Init
<1>2. NewNode.currentTerm = 0 /\ ~NewNode.crashed /\ NewNode.state = Follower
    BY DEF NewNode
<1>3. \A v \in Server : \A k \in 1 .. Len(queue[v]) : FALSE
    <2>1. Len(<<>>) = 0 /\ \A k \in 1 .. 0 : FALSE
        OBVIOUS
    <2>. QED
        BY <1>1, <2>1
<1>4. \A t, v, c : ~Cast({}, t, v, c)
    BY DEF Cast
<1>5. BallotsOf({}, node)
    BY <1>1, <1>2, <1>4 DEF BallotsOf, Follower, Candidate
<1>6. LettersOf({}, queue) /\ ElectionsOf({}, elected)
    BY <1>1, <1>3, Zenon DEF LettersOf, ElectionsOf
<1>7. 0 \in Nat /\ 0 <= 0
    OBVIOUS
<1>8. TermsOf(0, node, queue, NoneHandled)
    BY <1>1, <1>2, <1>3, <1>7, Zenon DEF TermsOf
<1>9. \A v \in Server : Remembers({}, node, v)
    BY <1>4, Zenon DEF Remembers
<1>10. InRound({}, 0, node, queue, elected, NoneHandled)
    BY <1>1, <1>2, <1>5, <1>6, <1>8, <1>9, Zenon DEF InRound, NotAskedTwice
<1>11. Settled({}, node, queue)
    BY <1>1, <1>2, <1>3, <1>7, <1>9, Zenon DEF Settled
<1>. QED
    BY <1>10, <1>11, Zenon DEF VoteInv

\* Every call keeps the votes in order, if nobody crashes.
LEMMA VotesKept ==
    ASSUME Crashers = {}, Cardinality(Server) % 2 = 1, ClusterInv, VoteInv, [Next]_vars
    PROVE  VoteInv'
<1>1. \A v \in Server : ~node[v].crashed
    BY Zenon DEF VoteInv, InRound
<1>2. CASE UNCHANGED vars
    BY <1>2 DEF vars, VoteInv
<1>3. CASE DeliverAll
    BY <1>3, DeliverAllVotes
<1>4. CASE TickAll
    BY <1>4, TickAllVotes
<1>5. CASE \E cmd \in Command : Propose(cmd)
    BY <1>5, ProposeVotes
<1>6. CASE \E i \in Server : Crash(i) \/ Restart(i)
    BY <1>1, <1>6 DEF Crash, Restart
<1>. QED
    BY <1>2, <1>3, <1>4, <1>5, <1>6 DEF Next, Calls

\* Two nodes elected in the same term had the vote of the same node.
LEMMA VotesSuffice ==
    ASSUME ClusterInv, VoteInv
    PROVE  SingleLeaderPerTerm
<1>1. PICK B : BallotsOf(B, node) /\ ElectionsOf(B, elected)
    BY Zenon DEF VoteInv, InRound
<1>. SUFFICES ASSUME NEW e \in elected, NEW f \in elected, e.term = f.term
              PROVE  e.leader = f.leader
    BY DEF SingleLeaderPerTerm
<1>2. e.leader \in Server /\ f.leader \in Server /\ e.term \in Nat
    BY DEF ClusterInv, Elected
<1>3. PICK P : IsMajority(P) /\ \A u \in P : Cast(B, e.term, u, e.leader)
    BY <1>1, Zenon DEF ElectionsOf
<1>4. PICK Q : IsMajority(Q) /\ \A u \in Q : Cast(B, f.term, u, f.leader)
    BY <1>1, Zenon DEF ElectionsOf
<1>5. PICK v \in Server : v \in P /\ v \in Q
    BY <1>3, <1>4, MajoritiesMeet
<1>6. Cast(B, e.term, v, e.leader) /\ Cast(B, e.term, v, f.leader)
    BY <1>3, <1>4, <1>5
<1>. QED
    BY <1>1, <1>2, <1>6, Zenon DEF BallotsOf

\* In a simulator of an odd number of nodes of which none crashes, driven by TickAll,
\* DeliverAll and Propose, at most one node is elected in a term, whatever the timeouts
\* and the order in which DeliverAll visits the queues (README.md:16-17,
\* cluster.go:39-90, node.go:238-444).
THEOREM SimulatorElectsOne ==
    ASSUME Crashers = {}, Cardinality(Server) % 2 = 1
    PROVE  Spec => []SingleLeaderPerTerm
<1>. DEFINE Inv == ClusterInv /\ VoteInv
<1>1. Init => Inv
    BY ClusterStart, VotesStart
<1>2. Inv /\ [Next]_vars => Inv'
    BY ClusterKeepsInv, VotesKept
<1>3. Inv => SingleLeaderPerTerm
    BY VotesSuffice
<1>. HIDE DEF Inv
<1>. QED
    BY <1>1, <1>2, <1>3, PTL DEF Spec

=============================================================================
