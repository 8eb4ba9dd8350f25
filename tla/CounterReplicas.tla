-------------------------- MODULE CounterReplicas --------------------------
(***************************************************************************)
(* Replicas of the counter state machine.  It has no Clear: who starts     *)
(* over makes a new one.                                                   *)
(***************************************************************************)
EXTENDS Counter

CONSTANTS Replica, MaxLog, NoSnapshot

VARIABLES log, machine, position, snap

Replaced(c) == NewCounter

Requests == {Incr(n) : n \in -Half .. Half - 1} \cup {ResetTo0, BadCommand}

INSTANCE Replicas WITH
    Commands <- Requests,
    Fresh <- NewCounter, Cleared <- Replaced, ApplyTo <- Apply,
    SnapshotOf <- Snapshot, Restored <- Restore, Visible <- Value,
    Applied <- LastApplied

=============================================================================
