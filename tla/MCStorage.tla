----------------------------- MODULE MCStorage -----------------------------
(***************************************************************************)
(* Storage for TLC.                                                        *)
(***************************************************************************)
EXTENDS Storage

CONSTANTS c1, c2, huge      \* commands and data; huge is beyond every limit

MCCommand == {c1, c2, huge}
MCAbsurd == {huge}

LogEntry(t, i, c) == [term |-> t, index |-> i, command |-> c]
Saved(t, v, es) == [currentTerm |-> t, votedFor |-> v, entries |-> es]

\* States of which one is the beginning of another, longer and shorter ones, one
\* with too many entries and one with too long a command.
MCStates ==
    {Saved(1, 1, <<>>),
     Saved(1, 1, <<LogEntry(1, 1, c1)>>),
     Saved(2, 0, <<LogEntry(1, 1, c1), LogEntry(1, 2, c2)>>),
     Saved(2, 2, <<LogEntry(2, 1, c2)>>),
     Saved(2, 0, <<LogEntry(1, 1, c1), LogEntry(1, 2, c2), LogEntry(2, 3, c1)>>),
     Saved(2, 0, <<LogEntry(1, 1, c1), LogEntry(2, 2, huge)>>)}

Taken(i, t, ps, d) == [lastIndex |-> i, lastTerm |-> t, peers |-> ps, data |-> d]

MCSnapshots ==
    {Taken(1, 1, <<>>, c1), Taken(2, 1, <<2>>, c1),
     Taken(2, 2, <<1, 2, 3>>, c2), Taken(3, 2, <<1, 2>>, huge)}

\* Commands of lengths up to one beyond the limit.
Bytes(t, i, n) == [term |-> t, index |-> i, command |-> [k \in 1 .. n |-> 1]]

MCBatches ==
    {<<>>, <<Bytes(1, 1, 0), Bytes(1, 2, 1), Bytes(1, 3, 0)>>}
    \cup {<<Bytes(1, 1, n)>> : n \in 0 .. 3}
    \cup {<<Bytes(1, 2, n), Bytes(2, 3, 0)>> : n \in 0 .. 3}

\* JSON replaces what is not valid UTF-8, as 4 and 5 here, by the same string, 3.
\* The keys and values in use are valid.
MCJson(s) == IF s \in {4, 5} THEN 3 ELSE s

=============================================================================
