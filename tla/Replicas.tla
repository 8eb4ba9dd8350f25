------------------------------ MODULE Replicas ------------------------------
(***************************************************************************)
(* Replicas of a state machine, driven by the committed log as the package *)
(* comment of internal/statemachine says.  The machine is a parameter: KV  *)
(* or Counter.  No code under src/ drives one, so the driver is external:  *)
(* it hands each committed entry to Apply in the order of the indexes, and *)
(* keeps the index of the last one beside the bytes of a snapshot, in the  *)
(* LastIndex of snapshot.Metadata.                                         *)
(***************************************************************************)
EXTENDS Naturals, Sequences

CONSTANTS
    Replica,
    Commands,       \* the commands of the log
    MaxLog,         \* bound: the length of the log
    NoSnapshot,
    Fresh, Cleared(_),              \* a new machine, and one that was emptied
    ApplyTo(_, _, _),               \* the machine after Apply(index, command)
    SnapshotOf(_), Restored(_, _),  \* the two snapshot methods
    Visible(_), Applied(_)          \* the queries, and LastApplied

VARIABLES
    log,        \* the committed commands
    machine,    \* machine[r]
    position,   \* position[r]: the last index the driver has accounted for
    snap        \* the latest snapshot: [lastIndex, data]

vars == <<log, machine, position, snap>>

Init ==
    /\ log = <<>>
    /\ machine = [r \in Replica |-> Fresh]
    /\ position = [r \in Replica |-> 0]
    /\ snap = NoSnapshot

Commit(c) ==
    /\ Len(log) < MaxLog
    /\ log' = Append(log, c)
    /\ UNCHANGED <<machine, position, snap>>

ApplyNext(r) ==
    LET index == position[r] + 1
    IN  /\ index <= Len(log)
        /\ machine' = [machine EXCEPT ![r] = ApplyTo(@, index, log[index])]
        /\ position' = [position EXCEPT ![r] = index]
        /\ UNCHANGED <<log, snap>>

TakeSnapshot(r) ==
    /\ snap' = [lastIndex |-> position[r], data |-> SnapshotOf(machine[r])]
    /\ UNCHANGED <<log, machine, position>>

\* The replica restarts with a new machine or clears the one it has.
StartOver(r) ==
    /\ machine' = [machine EXCEPT ![r] = Cleared(@)]
    /\ position' = [position EXCEPT ![r] = 0]
    /\ UNCHANGED <<log, snap>>

\* A replica that is not ahead of it takes the latest snapshot over.
Install(r) ==
    /\ snap # NoSnapshot
    /\ snap.lastIndex >= position[r]
    /\ machine' = [machine EXCEPT ![r] = Restored(@, snap.data)]
    /\ position' = [position EXCEPT ![r] = snap.lastIndex]
    /\ UNCHANGED <<log, snap>>

Next ==
    \/ \E c \in Commands : Commit(c)
    \/ \E r \in Replica :
        ApplyNext(r) \/ TakeSnapshot(r) \/ StartOver(r) \/ Install(r)

Spec == Init /\ [][Next]_vars

-----------------------------------------------------------------------------
(***************************************************************************)
(* Properties.                                                             *)
(***************************************************************************)

\* Replicas that are at the same position of the log answer every query alike,
\* whether they got there entry by entry, from a snapshot of another replica or
\* by one on top of the other, and whatever they held when the snapshot came
\* (kv.go:29-54, 90-107; counter.go:24-53, 69-87).
ReplicasAgree ==
    \A r, s \in Replica :
        position[r] = position[s] => Visible(machine[r]) = Visible(machine[s])

\* LastApplied is never ahead of what the machine has been through, although
\* Restore does not touch it and a machine may be cleared or take over an old
\* snapshot: a driver that goes on from LastApplied may repeat entries, but skips
\* none (kv.go:83-107).
NothingIsSkipped == \A r \in Replica : Applied(machine[r]) <= position[r]

=============================================================================
