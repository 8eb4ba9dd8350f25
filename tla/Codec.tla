------------------------------- MODULE Codec -------------------------------
(***************************************************************************)
(* Batches of log entries on a byte stream: internal/codec/codec.go.       *)
(*                                                                         *)
(* A writer calls WriteEntries and a reader calls ReadEntries on the same  *)
(* stream; each stops at its first error.  Nothing on the stream marks     *)
(* where a value begins, so a length that is wrong shifts every read after *)
(* it.  Lengths and counts are written modulo U32, as uint32(len(x)) is    *)
(* modulo 2^32.                                                            *)
(*                                                                         *)
(* The stream is a sequence of numbers: a word of 4 or 8 bytes is one of   *)
(* them, and so is a byte of a command.  A word read where the writer put  *)
(* bytes is thus some number that was never meant as one.                  *)
(***************************************************************************)
EXTENDS Integers, Sequences

CONSTANTS
    U32,            \* the modulus of lengths and counts (2^32)
    MaxCommand,     \* the longest command ReadEntry accepts (1<<24)
    MaxCount,       \* the most entries ReadEntries accepts (1<<20)
    Batches,        \* the batches that are written
    MaxWrites       \* bound: how many batches are written

VARIABLES
    stream,     \* written and not yet read
    cut,        \* a Write failed: the writer has stopped
    failed,     \* ReadEntries returned an error: the reader has stopped
    written,    \* history: the batches handed to WriteEntries
    read        \* history: the batches ReadEntries returned

vars == <<stream, cut, failed, written, read>>

\* Mutant: the length is written only for a command that has bytes.
WriteEntryNoLength(e) ==
    <<e.term, e.index>> \o
        (IF e.command = <<>> THEN <<>> ELSE <<Len(e.command) % U32>> \o e.command)

WriteEntry(e) == <<e.term, e.index, Len(e.command) % U32>> \o e.command

\* out[k]: what is written when k entries are.
WriteEntries(es) ==
    LET out[k \in 0 .. Len(es)] ==
            IF k = 0 THEN <<Len(es) % U32>> ELSE out[k - 1] \o WriteEntry(es[k])
    IN  out[Len(es)]

\* A read of a stream returns what was read and the rest of the stream, or fails.
Failed == [ok |-> FALSE, value |-> <<>>, rest |-> <<>>]
Got(v, rest) == [ok |-> TRUE, value |-> v, rest |-> rest]

\* Mutant: a command of the greatest length is refused too.
ReadEntryStrict(s) ==
    IF Len(s) < 3 \/ s[3] >= MaxCommand \/ Len(s) < 3 + s[3]
    THEN Failed
    ELSE Got([term |-> s[1], index |-> s[2], command |-> SubSeq(s, 4, 3 + s[3])],
             SubSeq(s, 4 + s[3], Len(s)))

\* Too few words, an absurd length (ErrFormat) and too few bytes are errors.
ReadEntry(s) ==
    IF Len(s) < 3 \/ s[3] > MaxCommand \/ Len(s) < 3 + s[3]
    THEN Failed
    ELSE Got([term |-> s[1], index |-> s[2], command |-> SubSeq(s, 4, 3 + s[3])],
             SubSeq(s, 4 + s[3], Len(s)))

\* One more entry after those already read.
ReadAnother(got) ==
    IF got.ok /\ ReadEntry(got.rest).ok
    THEN Got(Append(got.value, ReadEntry(got.rest).value), ReadEntry(got.rest).rest)
    ELSE Failed

\* got[k]: what has been read when k entries have.
ReadEntries(s) ==
    LET got[k \in 0 .. s[1]] ==
            IF k = 0 THEN Got(<<>>, Tail(s)) ELSE ReadAnother(got[k - 1])
    IN  IF s = <<>> \/ s[1] > MaxCount THEN Failed ELSE got[s[1]]

-----------------------------------------------------------------------------
Init ==
    /\ stream = <<>>
    /\ cut = FALSE
    /\ failed = FALSE
    /\ written = <<>>
    /\ read = <<>>

Write(es) ==
    /\ ~cut
    /\ Len(written) < MaxWrites
    /\ written' = Append(written, es)
    /\ \/ stream' = stream \o WriteEntries(es) /\ UNCHANGED cut
       \/ /\ \E n \in 0 .. Len(WriteEntries(es)) - 1 :
                stream' = stream \o SubSeq(WriteEntries(es), 1, n)
          /\ cut' = TRUE
    /\ UNCHANGED <<failed, read>>

\* The reader waits for the first word of a batch.
Read ==
    /\ ~failed
    /\ stream # <<>>
    /\ LET got == ReadEntries(stream)
       IN  /\ failed' = ~got.ok
           /\ stream' = got.rest
           /\ read' = IF got.ok THEN Append(read, got.value) ELSE read
    /\ UNCHANGED <<cut, written>>

Next == Read \/ \E es \in Batches : Write(es)

Spec == Init /\ [][Next]_vars

-----------------------------------------------------------------------------
(***************************************************************************)
(* Properties.                                                             *)
(***************************************************************************)

Readable(es) ==
    /\ Len(es) <= MaxCount
    /\ \A k \in 1 .. Len(es) : Len(es[k].command) <= MaxCommand

\* However long the stream and wherever a failed Write cut it, the reader gets
\* the batches that were written, in order, each whole and unchanged, until it
\* gets an error (codec.go:14-91).
ReadIsWritten == Len(read) <= Len(written) /\ read = SubSeq(written, 1, Len(read))

\* The reader gets an error only at a batch that was cut or is beyond the limits
\* of ReadEntries; the batches before it, with the empty batch, the empty command
\* and the longest ones among them, are all read (codec.go:47-49, 79-81).
ErrorsAreJustified ==
    failed =>
        \/ cut /\ Len(read) = Len(written) - 1
        \/ Len(read) < Len(written) /\ ~Readable(written[Len(read) + 1])

=============================================================================
