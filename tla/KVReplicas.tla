----------------------------- MODULE KVReplicas -----------------------------
(***************************************************************************)
(* Replicas of the key-value state machine.                                *)
(***************************************************************************)
EXTENDS KV

CONSTANTS
    Replica, MaxLog, NoSnapshot,
    Strings     \* the keys and values of the commands

VARIABLES log, machine, position, snap

Requests ==
    {Set(k, v) : k, v \in Strings} \cup {Delete(k) : k \in Strings} \cup {BadCommand}

INSTANCE Replicas WITH
    Commands <- Requests,
    Fresh <- NewKV, Cleared <- Clear, ApplyTo <- Apply, SnapshotOf <- Snapshot,
    Restored <- Restore, Visible <- Queries, Applied <- LastApplied

=============================================================================
