------------------------------ MODULE RaftLog ------------------------------
(***************************************************************************)
(* The replicated log of one peer: internal/log/log.go.                    *)
(*                                                                         *)
(* A Go Log is a slice whose element 0 is a sentinel and whose element k   *)
(* is the entry with index k, plus commitIndex.  Here the sentinel is the  *)
(* field base and the real entries are the sequence entries, so position k *)
(* of the sequence is element k of the slice.  An operation that mutates   *)
(* the log is an operator that returns the log afterwards; where the code  *)
(* returns an error and leaves the log alone the operator returns it too.  *)
(***************************************************************************)
EXTENDS Integers, Sequences, FiniteSetsExt

CONSTANTS
    Command,    \* the commands clients propose; opaque bytes in the code
    NoCommand   \* the nil command of the sentinel

(***************************************************************************)
(* Types.                                                                  *)
(***************************************************************************)
Entry == [term : Nat, index : Nat, command : Command]

Sentinel == [term |-> 0, index |-> 0, command |-> NoCommand]

Log == [base : [term : Nat, index : Nat, command : {NoCommand}],
        entries : Seq(Entry),
        commitIndex : Nat]

\* log.New
NewLog == [base |-> Sentinel, entries |-> <<>>, commitIndex |-> 0]

(***************************************************************************)
(* Reading the log.  Last returns (0, 0) for a log without real entries.   *)
(***************************************************************************)
LastIndex(l) ==
    IF l.entries = <<>> THEN 0 ELSE l.entries[Len(l.entries)].index

LastTerm(l) ==
    IF l.entries = <<>> THEN 0 ELSE l.entries[Len(l.entries)].term

\* The test index < len(l.entries) that At and TermAt make before they read.
InRange(l, i) == i <= Len(l.entries)

At(l, i) == IF i = 0 THEN l.base ELSE l.entries[i]

TermAt(l, i) == At(l, i).term

\* The entries of the half-open range [lo, hi), clamped to the log.
Slice(l, lo, hi) ==
    SubSeq(l.entries, Max({lo, 1}), Min({hi, LastIndex(l) + 1}) - 1)

\* Mutant: an entry of any term will do.
MatchesAnyTerm(l, prevIndex, prevTerm) ==
    prevIndex = 0 \/ InRange(l, prevIndex)

MatchesPrevLogTerm(l, prevIndex, prevTerm) ==
    \/ prevIndex = 0
    \/ InRange(l, prevIndex) /\ TermAt(l, prevIndex) = prevTerm

\* Mutant: the entry at from survives the cut.
TruncateAfter(l, from) ==
    IF from \in 1 .. LastIndex(l) + 1
    THEN [l EXCEPT !.entries = SubSeq(@, 1, from),
                   !.commitIndex = Min({@, LastIndex(l), from - 1})]
    ELSE l

(***************************************************************************)
(* Truncate(l, from) keeps the entries below from and clamps commitIndex,  *)
(* first to the last index before the cut and then to the new last index.  *)
(* It refuses to cut the sentinel or to cut beyond the end.                *)
(***************************************************************************)
Truncate(l, from) ==
    IF from \in 1 .. LastIndex(l) + 1
    THEN [l EXCEPT !.entries = SubSeq(@, 1, from - 1),
                   !.commitIndex = Min({@, LastIndex(l), from - 1})]
    ELSE l

(***************************************************************************)
(* Append(entries).  The code walks the batch to the first entry that the  *)
(* log does not hold with the same term; that entry and the rest of the    *)
(* batch go to the end of the log, after a Truncate when the entry         *)
(* conflicts with one already there.  A batch with a gap is an error.      *)
(***************************************************************************)
Contiguous(es) ==
    \A k \in 2 .. Len(es) : es[k].index = es[k - 1].index + 1

\* The positions of the batch whose entry the log does not hold.
Missing(l, es) ==
    {k \in 1 .. Len(es) : \/ ~InRange(l, es[k].index)
                          \/ TermAt(l, es[k].index) # es[k].term}

AppendTail(l, es) == [l EXCEPT !.entries = @ \o es]

\* Position k of the batch is the first one missing from the log.
AppendFrom(l, es, k) ==
    AppendTail(IF InRange(l, es[k].index) THEN Truncate(l, es[k].index) ELSE l,
               SubSeq(es, k, Len(es)))

LogAppend(l, es) ==
    IF Contiguous(es) /\ Missing(l, es) # {}
    THEN AppendFrom(l, es, Min(Missing(l, es)))
    ELSE l

(***************************************************************************)
(* CommitTo only moves forward and never beyond the last entry.            *)
(***************************************************************************)
CommitTo(l, i) ==
    IF i \in l.commitIndex .. LastIndex(l)
    THEN [l EXCEPT !.commitIndex = i]
    ELSE l

CommittedEntries(l) ==
    Slice(l, 1, Min({l.commitIndex, LastIndex(l)}) + 1)

(***************************************************************************)
(* The persisted state and its encoding as a stream of words: a header of  *)
(* three words, then three words for each entry, where the length and the  *)
(* bytes of a command count as one word.  Deserialize returns Corrupt for  *)
(* a stream that is too short for its header or for its entry count, and   *)
(* for entries whose indexes are not 1, 2, 3, ...                          *)
(***************************************************************************)
Serialize(s) ==
    <<s.currentTerm, s.votedFor, Len(s.entries)>> \o
        [w \in 1 .. 3 * Len(s.entries) |->
            LET e == s.entries[((w - 1) \div 3) + 1]
            IN  <<e.term, e.index, e.command>>[((w - 1) % 3) + 1]]

Corrupt == [corrupt |-> TRUE]

DecodedEntry(data, k) ==
    [term |-> data[3 * k + 1], index |-> data[3 * k + 2], command |-> data[3 * k + 3]]

Deserialize(data) ==
    IF /\ Len(data) >= 3
       /\ Len(data) >= 3 + 3 * data[3]
       /\ \A k \in 1 .. data[3] : DecodedEntry(data, k).index = k
    THEN [currentTerm |-> data[1],
          votedFor    |-> data[2],
          entries     |-> [k \in 1 .. data[3] |-> DecodedEntry(data, k)]]
    ELSE Corrupt

-----------------------------------------------------------------------------
(***************************************************************************)
(* A log as the callers of this package build it: an entry's index is its  *)
(* position, and nothing beyond the end is committed.                      *)
(***************************************************************************)
WellFormed(l) ==
    /\ l \in Log
    /\ \A k \in 1 .. Len(l.entries) : l.entries[k].index = k
    /\ l.commitIndex <= Len(l.entries)

=============================================================================
