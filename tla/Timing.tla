------------------------------- MODULE Timing -------------------------------
(***************************************************************************)
(* Configured timers: internal/config/config.go and internal/node/timer.go.*)
(*                                                                         *)
(* A leader runs a heartbeat timer and a follower an election timer, both  *)
(* of type Timer, with the durations of a Config that Load returned.  No   *)
(* code under src/ puts the two together; the driver here is external and  *)
(* works like the simulator: a tick goes to the leader and then to the     *)
(* follower, and the heartbeat it caused is delivered before the next one. *)
(* Either may go down; the follower's timer is then stopped.               *)
(***************************************************************************)
EXTENDS Integers

CONSTANT Configs        \* the configurations found in config.json

Config == [electionTimeoutMin : Int, electionTimeoutMax : Int, heartbeatInterval : Int,
           maxEntriesPerAppend : Int, snapshotThreshold : Int]

ASSUME ConfigsAssumption == Configs \subseteq Config

VARIABLES
    config,         \* what Load returned
    heartbeat,      \* the leader's timer
    election,       \* the follower's timer
    leaderUp,
    followerUp

vars == <<config, heartbeat, election, leaderUp, followerUp>>

-----------------------------------------------------------------------------
(***************************************************************************)
(* config.go                                                               *)
(***************************************************************************)
Default ==
    [electionTimeoutMin |-> 10, electionTimeoutMax |-> 20, heartbeatInterval |-> 3,
     maxEntriesPerAppend |-> 100, snapshotThreshold |-> 1000]

\* Mutant: a heartbeat interval as long as the shortest timeout passes.
ValidateAllowsEqual(c) ==
    /\ c.electionTimeoutMin > 0
    /\ c.electionTimeoutMax >= c.electionTimeoutMin
    /\ c.heartbeatInterval > 0
    /\ c.heartbeatInterval <= c.electionTimeoutMin
    /\ c.maxEntriesPerAppend > 0
    /\ c.snapshotThreshold > 0

Validate(c) ==
    /\ c.electionTimeoutMin > 0
    /\ c.electionTimeoutMax >= c.electionTimeoutMin
    /\ c.heartbeatInterval > 0
    /\ c.heartbeatInterval < c.electionTimeoutMin
    /\ c.maxEntriesPerAppend > 0
    /\ c.snapshotThreshold > 0

\* Load: the default when there is no file, and what is in the file if it is
\* valid; otherwise an error, and nothing starts.
Loadable == {Default} \cup {c \in Configs : Validate(c)}

(***************************************************************************)
(* timer.go                                                                *)
(***************************************************************************)
NewTimer(deadline) == [deadline |-> deadline, elapsed |-> 0, active |-> TRUE]

Ticked(t) == IF t.active THEN [t EXCEPT !.elapsed = @ + 1] ELSE t

\* Mutant: a stopped timer stays stopped.
ResetKeepsStopped(t, deadline) == [t EXCEPT !.deadline = deadline, !.elapsed = 0]

Reset(t, deadline) ==
    [t EXCEPT !.deadline = deadline, !.elapsed = 0, !.active = TRUE]

Stopped(t) == [t EXCEPT !.active = FALSE]

Fired(t) == t.active /\ t.elapsed >= t.deadline

-----------------------------------------------------------------------------
Timeouts == config.electionTimeoutMin .. config.electionTimeoutMax

Init ==
    /\ config \in Loadable
    /\ heartbeat = NewTimer(config.heartbeatInterval)
    /\ \E d \in Timeouts : election = NewTimer(d)
    /\ leaderUp = TRUE
    /\ followerUp = TRUE

\* A round of the clock.  The leader restarts its timer when it fires, and the
\* heartbeat restarts the follower's, unless that has fired in the same round.
Tick ==
    /\ ~Fired(election)
    /\ LET h == IF leaderUp THEN Ticked(heartbeat) ELSE heartbeat
           e == Ticked(election)
       IN  /\ heartbeat' = IF Fired(h) THEN Reset(h, config.heartbeatInterval) ELSE h
           /\ IF leaderUp /\ followerUp /\ Fired(h) /\ ~Fired(e)
              THEN \E d \in Timeouts : election' = Reset(e, d)
              ELSE election' = e
    /\ UNCHANGED <<config, leaderUp, followerUp>>

\* The follower starts an election and waits for another timeout.
Campaign ==
    /\ Fired(election)
    /\ \E d \in Timeouts : election' = Reset(election, d)
    /\ UNCHANGED <<config, heartbeat, leaderUp, followerUp>>

LeaderDown ==
    /\ leaderUp
    /\ leaderUp' = FALSE
    /\ UNCHANGED <<config, heartbeat, election, followerUp>>

\* A new leader sends heartbeats at once.
LeaderUp ==
    /\ ~leaderUp
    /\ leaderUp' = TRUE
    /\ heartbeat' = Reset(heartbeat, config.heartbeatInterval)
    /\ IF followerUp
       THEN \E d \in Timeouts : election' = Reset(election, d)
       ELSE UNCHANGED election
    /\ UNCHANGED <<config, followerUp>>

FollowerDown ==
    /\ followerUp
    /\ followerUp' = FALSE
    /\ election' = Stopped(election)
    /\ UNCHANGED <<config, heartbeat, leaderUp>>

FollowerUp ==
    /\ ~followerUp
    /\ followerUp' = TRUE
    /\ \E d \in Timeouts : election' = Reset(election, d)
    /\ UNCHANGED <<config, heartbeat, leaderUp>>

Next == Tick \/ Campaign \/ LeaderDown \/ LeaderUp \/ FollowerDown \/ FollowerUp

\* The clock never stops.
Spec == Init /\ [][Next]_vars /\ WF_vars(Tick)

-----------------------------------------------------------------------------
(***************************************************************************)
(* Properties.                                                             *)
(***************************************************************************)

\* With any configuration that Load returns and whenever leader and follower
\* went down and up, the follower never campaigns against a leader that is up:
\* "heartbeat must be less than election timeout" (config.go:50-52) is enough,
\* though both are counted from different ticks.
NoElectionUnderLeader == Fired(election) => ~leaderUp

\* When the leader stays down and the follower stays up, the follower's timer
\* fires in the end, also if it was stopped and started again before
\* (timer.go:15-34).
LeaderIsMissed ==
    (~leaderUp /\ followerUp) ~> (Fired(election) \/ leaderUp \/ ~followerUp)

=============================================================================
