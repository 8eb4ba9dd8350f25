---------------------------- MODULE CompactedLog ----------------------------
(***************************************************************************)
(* Compaction, iterators, batches and statistics of a log:                 *)
(* internal/log/compact.go, iter.go, batch.go, stats.go.                   *)
(*                                                                         *)
(* The log is RaftLog's.  Compact drops a prefix and makes its last entry  *)
(* the sentinel, so after it position k of the slice holds the entry with  *)
(* index base.index + k.  One goroutine owns the log.  It fills a batch,   *)
(* applies it, commits, compacts, and walks the log with an iterator in    *)
(* between.  Entries are appended through the batch only.                  *)
(***************************************************************************)
EXTENDS RaftLog

CONSTANTS
    MaxTerm,    \* bound: the terms of the entries
    MaxLog,     \* bound: how many entries are ever made
    Careful     \* whether the owner keeps the last entry when it compacts, and
                \* applies no batch again once the log is compacted

VARIABLES
    log,
    batch,      \* Batch.entries
    pos,        \* Iterator.pos
    stored,     \* history: every entry ever stored, at its index
    walked      \* history: the index the iterator showed last since it was
                \* placed and the log last compacted, or 0

vars == <<log, batch, pos, stored, walked>>

Init ==
    /\ log = NewLog
    /\ batch = <<>>
    /\ pos = 1
    /\ stored = <<>>
    /\ walked = 0

-----------------------------------------------------------------------------
(***************************************************************************)
(* compact.go                                                              *)
(***************************************************************************)
CompactedIndex(l) == l.base.index
CompactedTerm(l)  == l.base.term

\* Mutant: the commit index is not looked at.
CompactUncommitted(l, i) ==
    LET p == i - l.base.index
    IN  IF p >= 1 /\ p <= Len(l.entries)
        THEN [l EXCEPT !.base = [l.entries[p] EXCEPT !.command = NoCommand],
                       !.entries = SubSeq(@, p + 1, Len(@))]
        ELSE l

\* Mutant: the entry that becomes the sentinel is also kept.
CompactKeepsOne(l, i) ==
    LET p == i - l.base.index
    IN  IF i <= l.commitIndex /\ p >= 1 /\ p <= Len(l.entries)
        THEN [l EXCEPT !.base = [l.entries[p] EXCEPT !.command = NoCommand],
                       !.entries = SubSeq(@, p, Len(@))]
        ELSE l

\* Out of range is an error and changes nothing.
Compact(l, i) ==
    LET p == i - l.base.index
    IN  IF i <= l.commitIndex /\ p >= 1 /\ p <= Len(l.entries)
        THEN [l EXCEPT !.base = [l.entries[p] EXCEPT !.command = NoCommand],
                       !.entries = SubSeq(@, p + 1, Len(@))]
        ELSE l

\* Mutant: the base is not subtracted.
EntrySinceByPosition(l, start) == SubSeq(l.entries, Max({start, 1}), Len(l.entries))

EntrySince(l, start) ==
    SubSeq(l.entries, Max({start - l.base.index, 1}), Len(l.entries))

(***************************************************************************)
(* iter.go.  Entry returns the zero Entry, with index 0, past the end.     *)
(***************************************************************************)
Valid(p) == p <= Len(log.entries)

EntryAt(l, p) == IF p \in 1 .. Len(l.entries) THEN l.entries[p] ELSE Sentinel

\* Mutant: an index that was compacted away is not moved to the first entry.
SeekUnclamped(l, i) == i - l.base.index

SeekTo(l, i) == Max({i - l.base.index, 1})

(***************************************************************************)
(* stats.go                                                                *)
(***************************************************************************)
ComputeStats(l) ==
    [entryCount |-> Len(l.entries), commitIndex |-> l.commitIndex,
     lastIndex  |-> LastIndex(l),   lastTerm    |-> LastTerm(l)]

TermDistribution(l) ==
    [t \in {l.entries[k].term : k \in 1 .. Len(l.entries)} |->
        Cardinality({k \in 1 .. Len(l.entries) : l.entries[k].term = t})]

-----------------------------------------------------------------------------
(***************************************************************************)
(* The calls.                                                              *)
(***************************************************************************)
Last(s) == s[Len(s)]

\* The owner numbers an entry after the batch or, if that is empty, the log.
BatchAdd(term, cmd) ==
    LET index == IF batch = <<>> THEN LastIndex(log) + 1 ELSE Last(batch).index + 1
    IN  /\ index <= MaxLog
        /\ term >= IF batch = <<>> THEN LastTerm(log) ELSE Last(batch).term
        /\ batch' = Append(batch, [term |-> term, index |-> index, command |-> cmd])
        /\ UNCHANGED <<log, pos, stored, walked>>

\* Batch.Apply leaves the batch as it is; applied again it begins with entries
\* that the log holds.  Those with an index beyond Len(stored) are new.
BatchApply ==
    /\ batch # <<>>
    /\ Careful => CompactedIndex(log) = 0 \/ batch[1].index = LastIndex(log) + 1
    /\ log' = LogAppend(log, batch)
    /\ stored' = stored \o SubSeq(batch, Len(stored) - batch[1].index + 2, Len(batch))
    /\ UNCHANGED <<batch, pos, walked>>

BatchReset ==
    /\ batch' = <<>>
    /\ UNCHANGED <<log, pos, stored, walked>>

Commit(i) ==
    /\ log' = CommitTo(log, i)
    /\ UNCHANGED <<batch, pos, stored, walked>>

DoCompact(i) ==
    /\ Careful => i < LastIndex(log)
    /\ log' = Compact(log, i)
    /\ walked' = IF log' = log THEN walked ELSE 0
    /\ UNCHANGED <<batch, pos, stored>>

\* Iter and Rewind, Seek: the walk begins again.
Place(p) ==
    /\ pos' = p
    /\ walked' = 0
    /\ UNCHANGED <<log, batch, stored>>

\* Mutant: Next steps over an entry.
WalkSkips ==
    /\ Valid(pos)
    /\ walked' = EntryAt(log, pos).index
    /\ pos' = pos + 2
    /\ UNCHANGED <<log, batch, stored>>

\* The owner looks at the current entry and then calls Next.
Walk ==
    /\ Valid(pos)
    /\ walked' = EntryAt(log, pos).index
    /\ pos' = pos + 1
    /\ UNCHANGED <<log, batch, stored>>

Next ==
    \/ \E t \in 1 .. MaxTerm, cmd \in Command : BatchAdd(t, cmd)
    \/ BatchApply
    \/ BatchReset
    \/ \E i \in 1 .. MaxLog : Commit(i) \/ DoCompact(i) \/ Place(SeekTo(log, i))
    \/ Place(1)
    \/ Walk

Spec == Init /\ [][Next]_vars

-----------------------------------------------------------------------------
(***************************************************************************)
(* Properties.                                                             *)
(***************************************************************************)

\* After any number of batches, re-applied batches and compactions the log holds
\* the last part of all that was ever stored, the sentinel carries the index and
\* the term of the entry before it, and the statistics count that part: the next
\* AppendEntries could be checked against it (compact.go:6-31, batch.go:28-34).
HoldsTheTail ==
    LET base == CompactedIndex(log)
    IN  /\ log.entries = SubSeq(stored, base + 1, Len(stored))
        /\ CompactedTerm(log) = IF base = 0 THEN 0 ELSE stored[base].term
        /\ ComputeStats(log).entryCount = Len(stored) - base
        /\ LET kept == 1 .. Len(stored) - base
           IN  TermDistribution(log) =
                 [t \in {stored[base + k].term : k \in kept} |->
                    Cardinality({k \in kept : stored[base + k].term = t})]

\* Compact never gives up an entry that is not committed: what it dropped lies
\* below the commit index, which never points beyond the log (compact.go:7-9).
CommitIsInTheLog ==
    /\ CompactedIndex(log) <= log.commitIndex
    /\ log.commitIndex <= ComputeStats(log).lastIndex

\* Whatever was compacted, EntrySince returns the stored entries from an index
\* on, and starts at the first one kept when that index is gone
\* (compact.go:49-62).
SinceIsByIndex ==
    \A i \in 0 .. MaxLog + 1 :
        EntrySince(log, i) = SubSeq(stored, Max({i, CompactedIndex(log) + 1}), Len(stored))

\* Seek finds the entry with an index the log holds, the first entry for an index
\* that is compacted, and an invalid place beyond the end (iter.go:45-52).
SeekFinds ==
    \A i \in 1 .. MaxLog + 1 :
        LET e == EntryAt(log, SeekTo(log, i))
        IN  IF Max({i, CompactedIndex(log) + 1}) <= Len(stored)
            THEN e = stored[Max({i, CompactedIndex(log) + 1})]
            ELSE e = Sentinel

\* An iterator shows entries with successive indexes from wherever Seek or Rewind
\* placed it, while batches are appended, until the log is compacted under it
\* (iter.go:3-52).
WalkIsSequential ==
    walked # 0 /\ Valid(pos) => EntryAt(log, pos).index = walked + 1

=============================================================================
