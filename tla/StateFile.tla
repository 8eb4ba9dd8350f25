------------------------------ MODULE StateFile ------------------------------
(***************************************************************************)
(* The state file of a node: internal/persist/persist.go.                  *)
(*                                                                         *)
(* The words of the file are the magic and then the words of RaftLog's     *)
(* Serialize: persist.go writes the same fields in the same order.  Load   *)
(* reads them back one by one.  It does not look at the entries' indexes,  *)
(* and refuses a number of entries or a command beyond its limits, which   *)
(* Save does not know of.                                                  *)
(***************************************************************************)
EXTENDS RaftLog, DurableFile

CONSTANTS
    Magic,
    States,     \* the states callers save
    MaxCount,   \* the number of entries Load accepts (1<<24)
    Absurd      \* the commands longer than Load accepts (1<<24 bytes)

State == [currentTerm : Nat, votedFor : Nat, entries : Seq(Entry)]

ASSUME StateFileAssumption ==
    /\ States \subseteq State
    /\ MaxCount \in Nat
    /\ Absurd \subseteq Command
    /\ NoFile \notin Seq(Nat \cup Command \cup {Magic})

VARIABLES
    target,     \* the state that the last Save was given
    given       \* history: every state Save was ever given

vars == <<fileVars, target, given>>

ZeroState == [currentTerm |-> 0, votedFor |-> 0, entries |-> <<>>]

\* The two kinds of error.
ErrCorrupt == [err |-> "ErrCorrupt"]
ErrEOF     == [err |-> "EOF"]
Errors     == {ErrCorrupt, ErrEOF}

Encode(s) == <<Magic>> \o Serialize(s)

Fits(s) ==
    /\ Len(s.entries) <= MaxCount
    /\ \A k \in 1 .. Len(s.entries) : s.entries[k].command \notin Absurd

\* The words after the magic.  An entry that is complete is checked before the
\* next one is read.
Decoded(d, count) ==
    [currentTerm |-> d[1],
     votedFor    |-> d[2],
     entries     |-> [k \in 1 .. count |-> DecodedEntry(d, k)]]

Complete(d) == {k \in 1 .. d[3] : 3 * k + 3 <= Len(d)}

\* Mutant: the entries end where the file ends.
DecodeWhatIsThere(d) ==
    IF Len(d) < 3 THEN ErrEOF ELSE Decoded(d, Cardinality(Complete(d)))

Decode(d) ==
    IF Len(d) < 3
    THEN ErrEOF
    ELSE IF \/ d[3] > MaxCount
            \/ \E k \in Complete(d) : DecodedEntry(d, k).command \in Absurd
         THEN ErrCorrupt
         ELSE IF Len(d) < 3 + 3 * d[3] THEN ErrEOF ELSE Decoded(d, d[3])

Load(f) ==
    IF f = NoFile
    THEN ZeroState
    ELSE IF f = <<>> \/ f[1] # Magic THEN ErrCorrupt ELSE Decode(Tail(f))

-----------------------------------------------------------------------------
Init == FileInit /\ target = ZeroState /\ given = {ZeroState}

Save(s) ==
    /\ Create(Encode(s))
    /\ target' = s
    /\ given' = given \cup {s}

Next ==
    \/ \E s \in States : Save(s)
    \/ FileStep /\ UNCHANGED <<target, given>>

Spec == Init /\ [][Next]_vars

-----------------------------------------------------------------------------
(***************************************************************************)
(* Properties.                                                             *)
(***************************************************************************)

\* Whatever Saves failed or were cut short by crashes, and in whatever order,
\* Load returns an error or exactly a state that was saved, never a mixture of
\* two states and never a part of one (persist.go:29-107).
NeverBlended == Load(file) \in Errors \cup given

\* Once Save has returned nil, Load returns what was saved until the next Save
\* begins, crashes included, unless the state is beyond Load's limits; then Load
\* refuses it (persist.go:54, 89-91, 161-163).
SavedIsKept ==
    status \in {"none", "ok"} =>
        Load(file) = IF Fits(target) THEN target ELSE ErrCorrupt

=============================================================================
