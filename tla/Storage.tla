------------------------------ MODULE Storage ------------------------------
(***************************************************************************)
(* What stores, encodes and restores.  The packages persist, snapshot,     *)
(* codec, statemachine and the compaction of a log share no state and      *)
(* never call each other, so a behaviour exercises one of them, part, and  *)
(* the others stay as they are.  The state file has variables of its own;  *)
(* all other parts keep theirs in v1 to v6.                                *)
(***************************************************************************)
EXTENDS StateFile

CONSTANTS
    Snapshots,              \* the snapshots callers save; data are commands
    U32, MaxCommand,        \* the codec's modulus of lengths and its limits
    MaxBatch,
    Batches, MaxWrites,     \* the batches written, and how many
    MaxTerm, MaxStored,     \* the entries of the log that is compacted
    Replica, NoneTaken,     \* replicas of a state machine; no snapshot yet
    MaxApplied,             \* how many commands are committed
    Json(_), Strings,       \* JSON's effect on a string; the strings in commands
    Half                    \* int64 is -Half .. Half - 1

VARIABLES part, v1, v2, v3, v4, v5, v6

others == <<v1, v2, v3, v4, v5, v6>>
storageVars == <<part, vars, others>>

-----------------------------------------------------------------------------
(***************************************************************************)
(* The parts.                                                              *)
(***************************************************************************)
Snap == INSTANCE SnapshotFile WITH
    file <- v1, disk <- v2, pending <- v3, status <- v4, target <- v5, given <- v6,
    Data <- Command

Wire == INSTANCE Codec WITH
    stream <- v1, cut <- v2, failed <- v3, written <- v4, read <- v5,
    MaxCount <- MaxBatch

Compaction == INSTANCE CompactedLog WITH
    log <- v1, batch <- v2, pos <- v3, stored <- v4, walked <- v5,
    MaxLog <- MaxStored, Careful <- TRUE

KVR == INSTANCE KVReplicas WITH
    log <- v1, machine <- v2, position <- v3, snap <- v4,
    NoSnapshot <- NoneTaken, MaxLog <- MaxApplied

CTR == INSTANCE CounterReplicas WITH
    log <- v1, machine <- v2, position <- v3, snap <- v4,
    NoSnapshot <- NoneTaken, MaxLog <- MaxApplied

\* The limits of the codec fit a uint32, and so do the batches and the commands
\* that callers write.  The strings in key-value commands are valid UTF-8, which
\* JSON gives back as they are.
ASSUME StorageAssumption ==
    /\ Snapshots \subseteq Snap!Snapshot
    /\ U32 \in Nat /\ MaxCommand \in Nat /\ MaxBatch \in Nat
    /\ MaxCommand < U32 /\ MaxBatch < U32
    /\ \A es \in Batches :
         /\ es \in Seq([term : Nat, index : Nat, command : Seq(Nat)])
         /\ Len(es) < U32
         /\ \A k \in 1 .. Len(es) : Len(es[k].command) < U32
    /\ Strings \subseteq Nat /\ \A s \in Strings : Json(s) = s
    /\ Half \in Nat \ {0}

-----------------------------------------------------------------------------
(***************************************************************************)
(* One part at a time.                                                     *)
(***************************************************************************)
\* A variable that a part does not use is 0.
StorageInit ==
    /\ Init
    /\ \/ /\ part = "state"
          /\ v1 = 0 /\ v2 = 0 /\ v3 = 0 /\ v4 = 0 /\ v5 = 0 /\ v6 = 0
       \/ part = "snapshot" /\ Snap!Init
       \/ part = "codec" /\ Wire!Init /\ v6 = 0
       \/ part = "log" /\ Compaction!Init /\ v6 = 0
       \/ part = "kv" /\ KVR!Init /\ v5 = 0 /\ v6 = 0
       \/ part = "counter" /\ CTR!Init /\ v5 = 0 /\ v6 = 0

StorageNext ==
    \/ part = "state" /\ Next /\ UNCHANGED <<part, others>>
    \/ part = "snapshot" /\ Snap!Next /\ UNCHANGED <<part, vars>>
    \/ part = "codec" /\ Wire!Next /\ UNCHANGED <<part, vars, v6>>
    \/ part = "log" /\ Compaction!Next /\ UNCHANGED <<part, vars, v6>>
    \/ part = "kv" /\ KVR!Next /\ UNCHANGED <<part, vars, v5, v6>>
    \/ part = "counter" /\ CTR!Next /\ UNCHANGED <<part, vars, v5, v6>>

StorageSpec == StorageInit /\ [][StorageNext]_storageVars

-----------------------------------------------------------------------------
(***************************************************************************)
(* Properties.  NeverBlended and SavedIsKept are those of the state file.  *)
(***************************************************************************)

\* Load of a snapshot file returns an error or exactly a snapshot that was saved,
\* also when a crash cut it short among the peers (snapshot.go:33-120).
SnapshotsNeverBlended == part = "snapshot" => Snap!NeverBlended

\* Once Save of a snapshot has returned nil, Load returns it until the next Save
\* begins, crashes included, unless the data is beyond Load's limit
\* (snapshot.go:64, 109-111).
SnapshotsAreKept == part = "snapshot" => Snap!SavedIsKept

\* Wherever a failed Write cut the stream, the reader gets the batches that were
\* written, whole and in order, until it gets an error (codec.go:14-91).
ReadIsWritten == part = "codec" => Wire!ReadIsWritten

\* The reader gets an error only at a batch that was cut or is beyond the limits
\* of ReadEntries (codec.go:47-49, 79-81).
ErrorsAreJustified == part = "codec" => Wire!ErrorsAreJustified

\* After any number of batches and compactions the log holds the last part of all
\* that was stored, and the sentinel carries index and term of the entry before
\* it (compact.go:6-31, batch.go:28-34).
HoldsTheTail == part = "log" => Compaction!HoldsTheTail

\* Compact gives up no entry that is not committed, and the commit index never
\* points beyond the log (compact.go:7-9).
CommitIsInTheLog == part = "log" => Compaction!CommitIsInTheLog

\* EntrySince goes by index, whatever was compacted (compact.go:49-62).
SinceIsByIndex == part = "log" => Compaction!SinceIsByIndex

\* Seek goes by index, whatever was compacted (iter.go:45-52).
SeekFinds == part = "log" => Compaction!SeekFinds

\* An iterator shows successive entries from wherever it was placed, while the log
\* grows and until it is compacted (iter.go:3-52).
WalkIsSequential == part = "log" => Compaction!WalkIsSequential

\* Key-value replicas at the same position of the log answer alike, whatever
\* snapshots they took over and whatever they held before (kv.go:29-54, 90-107).
KVReplicasAgree == part = "kv" => KVR!ReplicasAgree

\* A driver that goes on from a key-value machine's LastApplied skips no entry,
\* although Restore leaves it alone (kv.go:83-107).
NothingIsSkipped == part = "kv" => KVR!NothingIsSkipped

\* Counter replicas at the same position have the same value, with sums that wrap
\* around and negative values in snapshots (counter.go:24-53, 69-87).
CounterReplicasAgree == part = "counter" => CTR!ReplicasAgree

=============================================================================
