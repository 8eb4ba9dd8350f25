# TLA+ specifications of consensus-raft

This directory specifies the Raft implementation of this repository in TLA+. TLC
checks the specifications on small instances. TLAPS proves the most important
properties for every value of the constants. `PROJECT.json` is the index: which
definition models which lines, the runs, the mutants, the hazards, the findings.

Run in this directory:

    tlc -workers 2 -config MCRaftElections.cfg MCRaft      # one model-checking run
    tlapm RaftElectionProofs.tla                           # the proofs of one module

## The system

| Part | Source (under `internal/`) | What it does | Modelled by |
|---|---|---|---|
| replicated log | `log/log.go` | entries, conflict resolution, commit index, encoding of the persisted state | `RaftLog` |
| Raft node | `node/node.go` | one peer; a call to `Tick`, `Step`, `Propose`, `Crash` or `Restart` changes its state and returns messages | `RaftNode` |
| nodes and a network | callers of `node.go` | the peers with messages between them | `Raft`, `RaftRounds`; abstractly `Elections` |
| cluster simulator | `cluster/cluster.go`, `partition.go` | ticks all nodes, delivers queues round by round, partitions | `Cluster` |
| compaction, iterators, batches, statistics | `log/{compact,iter,batch,stats}.go` | helpers on a log | `CompactedLog` |
| peer tracker | `node/peers.go` | replication progress of followers | `PeerTracker` |
| timer, configuration | `node/timer.go`, `config` | a countdown; durations and their validation | `Timing` |
| transport | `transport` | mailboxes under a mutex | `Transport` |
| membership | `membership` | peer lists and quorums | `MemberList`; abstractly `Membership` |
| persistence, snapshots | `persist`, `snapshot` | files | `DurableFile` with `StateFile`, `SnapshotFile` |
| codec | `codec` | entries on a byte stream | `Codec` |
| state machines | `statemachine` | key-value store, counter | `KV`, `Counter`, driven by `Replicas` (`KVReplicas`, `CounterReplicas`) |
| message helpers | `node/message.go` | formatting, predicates | not modelled |
| command line | `main.go` | drives a cluster and prints | not modelled |

A node never sends anything on its own. Every message leaves through the return
value of a call, so all concurrency comes from the order in which the caller
makes the calls and delivers the messages. `Raft` allows every order. `Cluster`
allows the ones the simulator produces.

The simulator uses the node and its log. Nothing under `src/` calls the other
parts, which stand by themselves. Where a part makes sense only with a driver, the
model has one and marks it external: `Replicas` applies a log to state machines,
`Timing` runs a leader and a follower on the timers.

## Modules

### Nodes

`RaftLog` has no variables. A log is a record of the sentinel (`base`), the real
entries and `commitIndex`; position k of `entries` is element k of the Go slice.
Each method is an operator that returns the log afterwards. The Append loop
becomes: find the first entry of the batch the log does not hold (`Missing`), cut
the log there if it conflicts, append the rest. `Serialize` and `Deserialize` work
on a sequence of words, with the length and the bytes of a command as one word.

`RaftNode` has one operator per handler. It takes the node's state and the input
and returns the new state, the messages and whether the election timer was reset.
Go maps are total functions, because an absent key reads as zero. The peers of a
node are the constant `Peers[i]`: `node.New` takes any list.

`Raft` composes the nodes. Its variables are `node`, `net` (messages that may
still be delivered) and the history `sent`. One action per call: `ElectionTimeout`
and `Heartbeat` (`Tick`), `Propose`, `Crash`, `Restart`, and one `Receive...` per
message type (`Step`). Delivery leaves a message in `net`, so it may come late, out
of order, twice or never. A tick that fires no timer changes only counters that
are not modelled here, so it stutters, and a timer may fire at any time.

`Elections` says what elections promise without votes and messages: terms grow, a
term has one leader, a node names a leader of its term or none. `Raft` implements
it (`ImplementsElections`): terms and `leaderID` are the nodes' own, and who has
led is read off the AppendEntries sent.

`RaftInvariants` holds the inductive invariants of the proofs and the refinement
mapping.

`RaftRounds` puts the same handlers under a driver that delivers every message
once and in order. It asks whether a leader's log reaches its followers.

### The simulator

`Cluster` reuses the handlers of `RaftNode`: `queue[i]` is the Go slice for node i,
`timer[i]` the logical timers, `blocked` the partitioned pairs. `TickAll`,
`DeliverAll`, `DeliverAllFiltered` and `Propose` are one action each, since the
simulator is single-threaded. Random timeouts and the iteration order of the Go map
of queues are nondeterministic choices. A queue is emptied after the loop over the
messages it held at the start, as in the code, and what else was in it is recorded
in `dropped`. As in `cluster.New`, every node is among its own peers. `Spec` is a
`Cluster`, `PartitionedSpec` a `PartitionedCluster` that delivers with the filter.

`IsolatedLearnNothing` has one exception. A leader may have a heartbeat to itself in
its queue when it crashes. A restart forgets the commit index and keeps the queue
(the simulator does not empty it), so the node, even when it is cut off by then, still
reads in that message what it had committed (`OwnWord`). It learns nothing new. With
two nodes that may crash and three terms TLC finds such a behaviour of 18 steps.

### The parts without callers

`CompactedLog` is a log with its owner, one batch and one iterator. The history
`stored` has every entry at its index. The constant `Careful` says how the owner
behaves: a careful owner keeps the last entry when it compacts and applies no batch
again on a compacted log.

`PeerTracker` has the followers' true progress beside what the tracker was told.
With `InOrder` the acknowledgements of one follower arrive in order.

`Timing` has the durations of a configuration that `Load` accepted, and two `Timer`
values that count ticks.

`Transport` has one action per method. Each holds the mutex throughout, so it is
atomic; the interleaving is that of the callers.

`MemberList` has the sorted Go slice. It implements `Membership`, in which a
configuration is a set and a change adds or removes one peer.

`DurableFile` is the control that both `Save` functions share: `os.Create` empties
the file, one write follows another, `Sync` comes last. Any write may fail, and a
crash may come at any time. The operating system is external: a crash before `Sync`
leaves a beginning of what was written, or what was on disk before. `StateFile` and
`SnapshotFile` add the two formats and `Load`, which reads word by word and fails
where the code fails.

`Codec` has a stream on which words and bytes are not marked, a writer that may be
cut off anywhere, and lengths modulo the width of their field.

`KV` and `Counter` are the machines as operators on parsed commands. `Replicas`
takes a machine as a parameter; `KVReplicas` and `CounterReplicas` pass it the two.
JSON is modelled by what comes back from it, and the counter by arithmetic that
wraps.

`Sorting` says what `sort.Slice` leaves: the k-th element is the one that fewer than
k are smaller than. `MemberList` and `PeerTracker` use it.

None of these parts calls another, so they are checked together but not
interleaved: `Storage` composes the two files, the codec, the compacted log and the
replicas, `Peers` the timers, the transport, the lists and the tracker. The variable
`part` is chosen in the initial state and never changes; the steps are those of that
part, and its properties speak of the behaviours in which it was chosen. The states
of such a run are exactly those of its parts, added up. In `Storage` the state file
has variables of its own and every other part keeps its state in `v1` to `v6`.

The `MC` modules add what the TLC configurations need: peer functions, symmetry,
views, sets of inputs. A view leaves out the history, and votes and indexes that no
handler reads before overwriting them. A run whose property is about a part of the
state keeps that part in its view.

## Runs

The runs that hold:

| Run | What it shows |
|---|---|
| `elections` | one leader per term (`OneLeaderPerTerm`), agreement on it (`LeaderIDAgreement`), a follower's vote never changes within a term (`VoteIsFinal`), every step is one of the abstract elections (`ImplementsElections`), and `ElectionInv` |
| `replication` | with all nodes crashing and restarting: `LogMatching`, the leader holds every entry of its term (`LeaderHoldsItsTerm`), a restart restores term, vote and log at every moment (`RestartRestores`), indexes are positions (`IndexIsPosition`), `MatchInv`, `TypeOK` |
| `catching_up` | a leader that stays brings every log that is not longer than its own to its state and commits it (`ShorterLogsCatchUp`) |
| `cluster_rounds` | without crashes the simulator elects one leader per term (`SingleLeaderPerTerm`), and a round erases unseen only messages of a node to itself (`OnlyOwnMessagesDropped`); `TypeOK` |
| `cluster_partitions` | an isolated node learns nothing from the others and wins no election (`IsolatedLearnNothing`) |
| `storage` | what stores, encodes and restores, see below |
| `peers` | what peers need besides the node, see below |

The parts of `storage`:

| Part | What it shows |
|---|---|
| state file, snapshot file | `Load` returns an error or exactly what one `Save` was given, never a mixture (`NeverBlended`, `SnapshotsNeverBlended`); what a `Save` that returned nil wrote is there until the next one, unless `Load` refuses its size (`SavedIsKept`, `SnapshotsAreKept`) |
| codec | what is read is what was written (`ReadIsWritten`), and only a cut or oversized batch fails (`ErrorsAreJustified`) |
| compacted log | the log holds the tail of what was stored (`HoldsTheTail`) and gives up nothing uncommitted (`CommitIsInTheLog`); `EntrySince` and `Seek` go by index (`SinceIsByIndex`, `SeekFinds`); an iterator skips and repeats nothing until the next compaction (`WalkIsSequential`) |
| replicas | replicas at the same position agree, whatever snapshots they installed (`KVReplicasAgree`, `CounterReplicasAgree`), and `LastApplied` of a key-value machine is never ahead of its data (`NothingIsSkipped`) |

The parts of `peers`:

| Part | What it shows |
|---|---|
| timers | no follower campaigns under a live leader, for every configuration `Validate` accepts (`NoElectionUnderLeader`); a dead one is missed (`LeaderIsMissed`) |
| transport | messages come once and in order or are thrown away (`InOrderOnce`), `Close` is final (`ClosedIsFinal`), a peer that asks gets its mail (`EventuallyReceived`) |
| membership | the lists implement the abstract membership (`ChangesOnePeer`) with the quorums the code computes (`MajoritiesOverlap`, `NodesUseTheQuorum`), and the order of changes does not matter (`OrderIsIrrelevant`) |
| peer tracker | `QuorumMatch` is the highest index a majority has stored, with 0 to 3 followers (`QuorumMatchIsMajority`) |

The runs that find the code to disagree with what the repository says of it:

| Run | Says | The code |
|---|---|---|
| `commit_majority` | `README.md:18-19` | a leader commits an entry that only it has |
| `commit_prefixes` | `README.md:22` | two nodes commit different entries at one index |
| `commit_advances` | `log.go:24` | the commit index of a running node goes back |
| `cluster_leaders` | `README.md:17` | two leaders in one term after a crash and a restart |
| `cluster_delivery` | `cluster.go:46` | a round erases messages it never delivered |

### The disagreements

The three commit runs have one cause. A follower acknowledges an `AppendEntries`
with its own last index (`node.go:433-443`). For a heartbeat that index may lie
beyond the prefix the message has checked, in a tail of an older term. The leader
takes it for the match index and commits its own entry at that place; the follower
follows `LeaderCommit` up to its own last index and commits the old one; a later
leader then truncates below the commit index.

The same index keeps a longer log from being repaired. It lies beyond the leader's
log, so the next heartbeat has `prevLogIndex` 0 and no entries (`node.go:327-335`).
It always succeeds, and the conflicting entry stays until the leader's log has
grown. `ShorterLogsCatchUp` therefore speaks of logs that are not longer.

The simulator hands every node its own id as a peer (`cluster.go:25-32`). A leader
then receives its own heartbeat, becomes a follower and clears its vote without
leaving the term (`node.go:411-415`). A node that was down during the election can
win the same term with that vote. In the same way a leader deposes itself with the
AppendEntries of a proposal and ignores the acknowledgements.
With peers that are the other nodes elections are safe: that is the theorem
`ElectionSafety`.

### Conditions

Some parts keep their promise only under a condition on their use. The runs state
the property under that condition:

| Part | Condition | Otherwise |
|---|---|---|
| compacted log | the owner keeps the last entry when it compacts, and applies no batch again afterwards | `At`, `TermAt`, `Append` and `Last` go by position: a batch the log holds is appended again, an emptied log starts at index 1 again |
| iterator | no compaction while it is in use | it skips entries |
| peer tracker | the acknowledgements of a follower arrive in order | a late one takes the match index back |
| membership | no peer is named twice | it counts twice in the quorum |
| codec | commands are shorter than `2^32` | the length is cut, and other entries are read |
| key-value store | keys and values are valid UTF-8 | JSON changes them in a snapshot |
| counter | the driver keeps the position itself | `LastApplied` of a restored counter is not the snapshot's |
| partitions | one node is isolated at a time | healing one node reconnects it to another that is still isolated |
| `PartitionedCluster` | it delivers with `DeliverAllFiltered` | the `DeliverAll` it embeds ignores partitions |

### Bounds

Nodes: three, the smallest number with a majority that is not everybody. Two terms
(three for `commit_advances`): one leader is replaced and finds what the old one
left. Logs of up to two entries: a conflict in the middle and a tail to cut. One
command: entries differ by their term, and the properties compare terms first.

`MaxNet` bounds the messages in `net`; when more are sent some are lost.
In `elections` it is 100 and nothing is ever lost, so every message can still be
delivered late or twice. In `replication` it is 1, and all nodes crash. With 2 and
one node that crashes TLC takes 12 minutes for 2.2 million states and finds no
error either. `replication` identifies states that differ only in the history `sent`;
`MatchInv`, which speaks of it, is thus checked for one history of each state. The
proofs cover all of them. `Campaigners`,
`Crashers` and `Isolated` name the nodes that may campaign, crash or be cut off.

In `Cluster` the timeouts are drawn from 1..2 instead of 10..20, so that nodes tie
and are one tick apart, with the heartbeat interval 2 of the code. `MaxQueue`
stops the clock while a queue holds more messages, so a driver may tick a few
times between deliveries. `cluster_partitions` has one term: a node is cut off
before, during and after the election, and after a proposal.

The other parts:

- `CompactedLog`: four entries of two terms, enough to compact twice and resend.
- `PeerTracker`: zero to three followers, so clusters of odd and even size and a
  leader alone; three indexes.
- `Timing`: all configurations with durations 0..5, valid or not, and the default.
- `Transport`: two peers, one unknown id, three messages.
- `MemberList`: five ids; initial lists of up to four.
- `StateFile`, `SnapshotFile`: six states and four snapshots, in which one is a
  beginning of another, lists are empty and long, and sizes exceed the limits
  (2 entries instead of `1<<24`). Saves, failures and crashes are unlimited.
- `Codec`: the modulus is 8 instead of `2^32`, the limits 2, with command lengths
  on both sides of each; three batches.
- `Replicas`: two replicas, three commands; integers from -4 to 3 instead of 64 bits.

### Deadlock

Deadlock is not checked for `Raft` and `Cluster`: at `MaxTerm` with an empty
network nothing is left to do, which is an effect of the bounds. It is not checked
for `storage`, because writer and reader of a stream stop for good after an error or
the last batch, nor for `peers`, because a tracker without peers has nothing to do.
`catching_up` checks it.

### Fairness

- `RaftRounds`: `Deliver` is weakly fair, because a round handles every queue.
  `Heartbeat` is strongly fair, because the loop of `main.go` ticks in every round
  and the action waits for the round to be over (`Quiet`), which it is again and
  again. Nobody has to campaign, propose, crash or restart. The properties speak
  of a leader that stays in office with all nodes up: that one gets elected depends
  on random timeouts, and the code guarantees it only with probability.
- `Transport`: a peer keeps calling `Receive` (weak fairness), as the owner of a
  mailbox does. Nothing is assumed of the other calls.
- `Timing`: the clock goes on (weak fairness of `Tick`).

The fairness of `peers` asks only the part that was chosen to go on, so it excludes
no behaviour of another part. The other runs check safety only.

## Proofs

| Module | Proves |
|---|---|
| `RaftNodeProofs` | each log operation keeps a log well formed; the encoding round-trips (`RoundTrip`); each handler keeps a node's state and its messages well formed; what each handler does to votes (`Votes`); what one message and one round of ticks do to the votes of nodes with queues (`HandlesInRound`, `TickInRound`) |
| `RaftElectionProofs` | `TypeCorrect`, `IndexesArePositions`, `RestartAlwaysRestores`, `ElectionInvariant`, `ElectionSafety`, `LeaderIDsAgree`, `VotesAreFinal`, `RaftImplementsElections` |
| `RaftLogMatchingProofs` | `MatchInvariant`, `LogsMatch`, `LeadersHoldTheirEntries` |
| `ClusterProofs` | `ClusterTypes`, `OnlyOwnMessagesAreLost`, `SimulatorElectsOne` |
| `ClusterIsolationProofs` | `IsolatedNodesLearnNothing` |
| `PeersProofs` | timers: `ValidConfigsAreQuiet`; transport: `MailArrivesInOrder`, `CloseIsForGood`; membership: `ListsImplementMembership`, `MajoritiesAlwaysMeet`, `OrderNeverMatters`, `NodesAlwaysUseTheQuorum`; tracker: `QuorumMatchIsRight` |
| `StorageProofs` | state file: `LoadNeverBlends`, `SavedStatesLast`; snapshots: `SnapshotsLoadWhole`, `SavedSnapshotsLast`; compacted log: `CompactionHoldsTheTail`, `CommitStaysInTheLog`, `SinceGoesByIndex`, `SeekGoesByIndex`, `IteratorIsSequential` |
| `CodecProofs` | codec: `CodecGivesBack`, `CodecErrorsAreJustified`; state machines: `KVReplicasStayEqual`, `KVSkipsNothing`, `CountersStayEqual` |

### Assumptions

Every assumption is named in the module that declares the constants, and TLC
evaluates it in the runs.

- `Raft`: `Nil` is no node, the set of nodes is finite, peers are nodes, the bounds
  are natural numbers. The bounds only disable actions, and the theorems hold for
  every value of them. What is proved about elections and log matching, except
  `VotesAreFinal`, assumes in addition `OthersArePeers`: the peers of a node are
  exactly the others, as `majority` (`len(peers) + 1`) expects. The simulator does
  not satisfy it.
- `Cluster`: nodes are `1..n`, each is among its own peers and 0 is nobody, as in
  `cluster.New` (`WiringAssumption`); timeouts are drawn from a range that is not
  empty (`TimingAssumption`). `SimulatorElectsOne` assumes in addition that nobody
  crashes and that the number of nodes is odd. Both are needed, see below.
- `Peers`: peer sets are finite, member ids are natural numbers; durations are
  arbitrary integers.
- `Storage`: `NoFile` is no sequence of words; a command of the codec and a batch are
  shorter than the modulus of the length fields, which exceeds the limits, and JSON
  changes no string that occurs (see Conditions). The limits, batches, snapshots,
  commands and the width of integers are arbitrary.

### Arguments: nodes

`LogInv` says that every log is well formed and every batch ever sent starts right
after its `prevLogIndex`. Type correctness alone is not inductive: `Slice` reads
positions up to the last *index*, so that it reads entries at all needs indexes to
be positions.

`ElectionInv` is needed because a vote can be cleared within a term. It says that
who granted a vote to another is a follower with that vote until it leaves the
term; that who leads or led a term keeps its own vote; that a candidate counts only
votes granted to it; and that every node that ever led had the support of a
majority. Two leaders of a term would share a supporter. If that supporter is one
of them, it granted nothing in its term; otherwise it granted twice. The vote that
`handleAppendEntries` clears is one a candidate gave itself, and that candidate is
out of the race. It can then give its vote to another candidate of the term, but no
longer be a leader of it.

The refinement needs two facts more (`LeaderInv`): a leader names itself, and who
has led a term is no candidate of that term again. Each action is then a step of
`Elections` at one node, or changes nothing `Elections` has.

`MatchInv` extends log matching to everything that says which entry is where: the
logs, and every batch ever sent with the entry before it (`Fragments`). An old batch
may still be appended, so it must match all logs already. It also says that only
terms that had a leader stamp entries, and that the leader of a term has all of its
entries. A new entry then matches everything, since nothing else has its index and
term; a batch that is cut out of a log, and a log with a batch put in, match because
what they are made of does.

### Arguments: the simulator

`DeliverAll` is a loop over queues around a loop over messages, in one action. Its
effect is a recursive function. `VisitInduction` and `VisitAllInduction` do the
induction over both loops once: if every message leads from a set of states `H[k-1]`
into `H[k]`, and every queue likewise, the whole call does. A proof then chooses `H`
and looks at one message.

`ClusterInv` says that nodes and messages are well formed and that a message waits in
the queue of the node it is for. The latter makes `OnlyOwnMessagesAreLost` work: a
queue is emptied after its own loop, and in that loop only its owner sends, so what
is erased unread was sent by the owner to itself.

`OwnInv` is what `IsolatedNodesLearnNothing` needs besides. Every node is its own
peer, so an isolated node still receives what it sent itself. `OwnInv` says that these
messages are of its term or older, that their entries are in its log at their place,
and that they announce no more than it has committed unless it may have crashed.
They are only requests: the answer a node gives itself is appended to the queue that
is being delivered and is erased with it. So it counts no vote but the one it gave
itself when it campaigned, and wins no election. (A cluster of one is always alone
and wins nothing either.) That messages from others do not arrive is a property of
the round: the filter is applied when a message is sent and when it is delivered.

`SimulatorElectsOne` cannot rest on the votes that nodes remember, as `ElectionInv`
does: a leader is its own peer, its heartbeat to itself clears its vote, and it is
then free to vote for another candidate of its own term. `VoteInv` speaks of the
ballots cast so far instead, a history that the program does not keep: there is one
for each node and term, a candidate counts only ballots, and who was elected had
those of more than half of the nodes. That a node casts no second ballot in a term
comes from the rounds. Whoever has not reached the latest term is still asked for its
vote there (`TermsOf`), so a round brings everybody to that term. Between rounds
nobody is behind a leader, a heartbeat on its way or a node that has forgotten its
vote (`Settled`). A request sent later asks for a later term, and behind a heartbeat
in a queue there are only such requests (`LettersOf`). In the middle of a round this
becomes: who has forgotten its vote is not asked again in that term
(`NotAskedTwice`). `RoutedNodeByNode` carries it through the loop of `TickAll`, the
inductions above through the two of `DeliverAll`.

The assumptions are needed. A node that is its own peer counts its own vote twice
(`countVotes`), so that it is elected by `(n+1)/2` nodes: more than half of them if
`n` is odd, exactly half if `n` is even, and then two halves can each elect a leader
(with two nodes, each elects itself). With crashes, `cluster_leaders` shows two
leaders of a term.

### Arguments: peers

`PeersInv` is the conjunction of an invariant for each part.

`TimingInv` compares the two timers: while both nodes are up the follower's has not
counted further than the leader's, which restarts before the heartbeat interval.

`MailInv` says that what a peer has received, followed by its mailbox, is what `Send`
accepted for it without what was discarded, in increasing order. A message is in the
mail of one peer only.

`MembersInv` says that a list is sorted and names nobody twice. From this the insertion
and removal of one peer are computed, lists with the same members are equal, and
the length of a list is the number of its members. Two disjoint majorities would
then need more peers than the larger of two memberships that differ by one.

`TrackerInv` says that the tracker knows what each follower has stored. The theorem
is about the arithmetic: the element of the sorted match indexes that `QuorumMatch`
picks has a majority at or above it, and the next higher index has not. It is shown
for any number of followers from how many elements are below a place (`Sorting`).

### Arguments: storage

`StateFileInv` and `SnapshotInv` say that the file, and what is on disk, is the
beginning of what *one* `Save` writes, and all of it after a `Save` that returned nil.
`Load` knows from the header how many words must follow, so a proper beginning is an
error and the whole is the state.

`CompactedInv` places the log in the history of all that was stored: from the
sentinel's index on they are equal, the commit index lies within, and a waiting batch
agrees with the history where they overlap. An iterator that has returned an index
stands right after it.

`CodecInv` says that the stream consists of the words of whole batches, of which only
the last may be cut, and begins where the next unread batch begins. `WrittenInPlace`
computes where the loop of `WriteEntries` puts every word, and `ReadsInTurn` that the
loop of `ReadEntries`, started at that place, finds them again or fails where the
stream ends or a limit is exceeded.

`KVInv` and `CounterInv` say that there is one history of states, determined by the
committed commands, from which every replica and every snapshot is taken.

### Recursion and induction

Loops are recursive functions on natural numbers. Induction over the naturals is used
in the form "a set that contains 0 and with n also n + 1 contains every number"
(`InductiveSet`, `ByCounting`), which follows from the well-foundedness of `<`. It shows
first that a function with the recursive equation exists, so that the definition has
it, and then what the function computes.

### Only model-checked

- Liveness: `ShorterLogsCatchUp`, `LeaderIsMissed`, `EventuallyReceived`. The proof
  system does not reason about fairness and `ENABLED`.
- `RaftRounds`, whose only properties are liveness.

## Not modelled

- `main.go`: pure I/O around `Cluster`.
- `node/message.go`: formatting, and predicates on the type of a message that
  nothing calls.
- `Config.Save` and the JSON of configurations: pure I/O. `Load` is modelled by what
  it accepts.
- Event strings, accessors that return copies, sizes in bytes (`TotalBytes`,
  `AverageEntrySize`): they change nothing.
- The splitting of command strings: a command is parsed or bad.
- Liveness of elections: see Fairness.
