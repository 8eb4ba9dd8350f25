---------------------------- MODULE SnapshotFile ----------------------------
(***************************************************************************)
(* The snapshot file: internal/snapshot/snapshot.go.                       *)
(*                                                                         *)
(* The words are the magic, the last index and term, the number of peers,  *)
(* the peers, and the data; the length of the data and its bytes count as  *)
(* one word.  Load refuses data beyond a limit that Save does not know of. *)
(***************************************************************************)
EXTENDS DurableFile

CONSTANTS
    Magic,
    Data,       \* what a state machine returns as its snapshot
    Snapshots,  \* the snapshots callers save
    Absurd      \* the data longer than Load accepts (1<<30 bytes)

Snapshot == [lastIndex : Nat, lastTerm : Nat, peers : Seq(Nat), data : Data]

VARIABLES
    target,     \* the snapshot that the last Save was given
    given       \* history: every snapshot Save was ever given

vars == <<fileVars, target, given>>

NoSnapshot == [none |-> TRUE]           \* Load returns nil, nil

ErrCorrupt == [err |-> "ErrCorrupt"]
ErrEOF     == [err |-> "EOF"]
Errors     == {ErrCorrupt, ErrEOF}

Encode(s) ==
    <<Magic, s.lastIndex, s.lastTerm, Len(s.peers)>> \o s.peers \o <<s.data>>

\* Mutant: the data is looked for at the end of the file, the peers before it.
DecodePeersThatFit(f) ==
    IF f[Len(f)] \in Absurd
    THEN ErrCorrupt
    ELSE [lastIndex |-> f[2], lastTerm |-> f[3],
          peers |-> SubSeq(f, 5, Len(f) - 1), data |-> f[Len(f)]]

\* f has the four words that come first.
Decode(f) ==
    LET n == f[4]
    IN  IF Len(f) < 5 + n
        THEN ErrEOF
        ELSE IF f[5 + n] \in Absurd
             THEN ErrCorrupt
             ELSE [lastIndex |-> f[2],
                   lastTerm  |-> f[3],
                   peers     |-> SubSeq(f, 5, 4 + n),
                   data      |-> f[5 + n]]

Load(f) ==
    IF f = NoFile
    THEN NoSnapshot
    ELSE IF f = <<>> \/ f[1] # Magic
         THEN ErrCorrupt
         ELSE IF Len(f) < 4 THEN ErrEOF ELSE Decode(f)

-----------------------------------------------------------------------------
Init == FileInit /\ target = NoSnapshot /\ given = {NoSnapshot}

Save(s) ==
    /\ Create(Encode(s))
    /\ target' = s
    /\ given' = given \cup {s}

Next ==
    \/ \E s \in Snapshots : Save(s)
    \/ FileStep /\ UNCHANGED <<target, given>>

Spec == Init /\ [][Next]_vars

-----------------------------------------------------------------------------
(***************************************************************************)
(* Properties.                                                             *)
(***************************************************************************)

\* Load returns an error or exactly a snapshot that was saved, also when a crash
\* cut the file short among the peers, so a state machine is never restored from
\* half a snapshot or with another snapshot's position (snapshot.go:33-120).
NeverBlended == Load(file) \in Errors \cup given

\* Once Save has returned nil, Load returns what was saved until the next Save
\* begins, crashes included, unless the data is beyond Load's limit
\* (snapshot.go:64, 109-111).
SavedIsKept ==
    CASE status = "none" -> Load(file) = NoSnapshot
      [] status = "ok"   -> Load(file) = IF target.data \in Absurd THEN ErrCorrupt ELSE target
      [] OTHER           -> TRUE

=============================================================================
