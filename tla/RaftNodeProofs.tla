--------------------------- MODULE RaftNodeProofs ---------------------------
(***************************************************************************)
(* Facts about the log operators of RaftLog, for every log and batch, and  *)
(* what every handler of RaftNode preserves: types, and that indexes are   *)
(* positions in the logs and in the batches that nodes send each other.    *)
(*                                                                         *)
(* The last part is about votes: what a message and a tick do to the votes *)
(* of nodes whose messages wait in queues, as those of the simulator do.   *)
(***************************************************************************)
EXTENDS RaftNode, WellFoundedInduction, TLAPS

(***************************************************************************)
(* Sequences, as the logs and the batches of a message use them.           *)
(***************************************************************************)

\* A sequence is a function on the numbers up to its length.
LEMMA LengthOfSeq ==
    ASSUME NEW S, NEW s \in Seq(S)
    PROVE  Len(s) \in Nat /\ s \in [1 .. Len(s) -> S] /\ DOMAIN s = 1 .. Len(s)
    OBVIOUS

\* The entries of a log are where they should be.
LEMMA ElementIn ==
    ASSUME NEW S, NEW s \in Seq(S), NEW n \in 1 .. Len(s)
    PROVE  s[n] \in S
    OBVIOUS

\* The log of a new node, and one that has entries.
LEMMA NoElements ==
    ASSUME NEW S
    PROVE  /\ << >> \in Seq(S) /\ Len(<< >>) = 0
           /\ \A s \in Seq(S) : s # << >> => Len(s) \in Nat \ {0}
    OBVIOUS

\* What append(log, entries...) does.
LEMMA TwoSeqs ==
    ASSUME NEW S, NEW s \in Seq(S), NEW t \in Seq(S)
    PROVE  /\ s \o t \in Seq(S) /\ Len(s \o t) = Len(s) + Len(t)
           /\ \A i \in 1 .. Len(s) + Len(t) :
                (s \o t)[i] = IF i <= Len(s) THEN s[i] ELSE t[i - Len(s)]
           /\ s \o << >> = s
    OBVIOUS

\* What append(log, entry) does.
LEMMA OneMore ==
    ASSUME NEW S, NEW s \in Seq(S), NEW x \in S
    PROVE  /\ Append(s, x) \in Seq(S) /\ Append(s, x) # << >>
           /\ Len(Append(s, x)) = Len(s) + 1 /\ Append(s, x)[Len(s) + 1] = x
           /\ \A i \in 1 .. Len(s) : Append(s, x)[i] = s[i]
           /\ Append(s, x) = s \o <<x>>
    OBVIOUS

\* What entries[m : n] is.
LEMMA PartOfSeq ==
    ASSUME NEW S, NEW s, NEW m \in Int, NEW n \in Int, \A i \in m .. n : s[i] \in S
    PROVE  /\ SubSeq(s, m, n) \in Seq(S)
           /\ Len(SubSeq(s, m, n)) = IF m <= n THEN n - m + 1 ELSE 0
           /\ \A i \in 1 .. n - m + 1 : SubSeq(s, m, n)[i] = s[m + i - 1]
    OBVIOUS

\* All of it is entries[1 : len(entries)].
LEMMA WholeSeq ==
    ASSUME NEW S, NEW s \in Seq(S)
    PROVE  SubSeq(s, 1, Len(s)) = s
    OBVIOUS

-----------------------------------------------------------------------------
(***************************************************************************)
(* Minima and maxima.                                                      *)
(***************************************************************************)

\* The smaller of two integers, as the clamps of Slice and Truncate use it.
LEMMA MinOfTwo ==
    ASSUME NEW a \in Int, NEW b \in Int
    PROVE  Min({a, b}) = IF a <= b THEN a ELSE b
BY DEF Min

\* The larger of two integers.
LEMMA MaxOfTwo ==
    ASSUME NEW a \in Int, NEW b \in Int
    PROVE  Max({a, b}) = IF a >= b THEN a ELSE b
BY DEF Max

\* A set of naturals that is not empty has a least member: the loop of Append
\* finds a first entry when there is one.
LEMMA MinOfNaturals ==
    ASSUME NEW S, S \subseteq Nat, S # {}
    PROVE  /\ Min(S) \in S
           /\ \A y \in S : Min(S) <= y
<1>1. PICK x \in S : \A y \in S : ~(<<y, x>> \in OpToRel(<, Nat))
    BY NatLessThanWellFounded, WFMin, Zenon
<1>2. OpToRel(<, Nat) = {p \in Nat \X Nat : p[1] < p[2]}
    BY DEF OpToRel
<1>3. ASSUME NEW y \in S
      PROVE  x <= y
    <2>1. ~(<<y, x>> \in {p \in Nat \X Nat : p[1] < p[2]})
        BY <1>1, <1>2, Zenon
    <2> QED
        BY <2>1
<1> QED
    BY <1>3, Zenon DEF Min

\* Induction over the naturals, for a set: loops go one step further each time.
LEMMA InductiveSet ==
    ASSUME NEW T, 0 \in T, \A n \in Nat : n \in T => n + 1 \in T
    PROVE  Nat \subseteq T
<1>. SUFFICES ASSUME ~(Nat \subseteq T) PROVE FALSE
    OBVIOUS
<1>. DEFINE S == Nat \ T
<1>0. S \subseteq Nat /\ S # {}
    OBVIOUS
<1>1. PICK x \in S : \A y \in S : x <= y
    <2>. HIDE DEF S
    <2>. QED
        BY <1>0, MinOfNaturals, Zenon
<1>2. x - 1 \in Nat /\ x - 1 \in T
    BY <1>1
<1>. QED
    BY <1>1, <1>2

\* A bounded set of naturals that is not empty has a greatest member: the loop
\* of advanceCommit finds the highest index when there is one.
LEMMA MaxOfNaturals ==
    ASSUME NEW n \in Nat, NEW S, S \subseteq 0 .. n, S # {}
    PROVE  /\ Max(S) \in S
           /\ \A y \in S : y <= Max(S)
<1> DEFINE T == {n - x : x \in S}
<1>1. T \subseteq Nat /\ T # {}
    <2>1. \A x \in S : x \in 0 .. n /\ n - x \in Nat
        OBVIOUS
    <2> QED
        BY <2>1, Zenon
<1>2. PICK t \in T : \A y \in T : t <= y
    BY <1>1, MinOfNaturals, Zenon
<1>3. PICK x \in S : t = n - x
    BY <1>2
<1>4. \A y \in S : y <= x
    <2> TAKE y \in S
    <2>1. n - y \in T
        OBVIOUS
    <2>2. n - x <= n - y
        BY <1>2, <1>3, <2>1, Zenon
    <2> QED
        BY <2>2
<1> QED
    BY <1>4, Zenon DEF Max

(***************************************************************************)
(* Reading.                                                                *)
(***************************************************************************)

\* In a well-formed log Last returns the length of the log.
LEMMA LastIndexIsLength ==
    ASSUME NEW l, WellFormed(l)
    PROVE  /\ l.entries \in Seq(Entry)
           /\ Len(l.entries) \in Nat
           /\ LastIndex(l) = Len(l.entries)
           /\ LastTerm(l) \in Nat
<1>1. l.entries \in Seq(Entry)
    BY DEF WellFormed, Log
<1>2. Len(l.entries) \in Nat
    BY <1>1, LengthOfSeq
<1>3. CASE l.entries = <<>>
    BY <1>1, <1>3, NoElements DEF LastIndex, LastTerm
<1>4. CASE l.entries # <<>>
    <2>1. Len(l.entries) \in 1 .. Len(l.entries)
        BY <1>1, <1>2, <1>4, NoElements
    <2>2. l.entries[Len(l.entries)] \in Entry
        BY <1>1, <2>1, ElementIn
    <2> QED
        BY <1>1, <1>2, <1>4, <2>1, <2>2 DEF LastIndex, LastTerm, WellFormed, Entry
<1> QED
    BY <1>1, <1>2, <1>3, <1>4

\* Slice(lo, last + 1) is the tail of the log from lo on: the batch a leader
\* sends, and with lo = 1 the entries that are persisted.
LEMMA SliceToEnd ==
    ASSUME NEW l, WellFormed(l), NEW lo \in Nat \ {0}
    PROVE  /\ Slice(l, lo, LastIndex(l) + 1) \in Seq(Entry)
           /\ Len(Slice(l, lo, LastIndex(l) + 1)) =
                IF lo <= Len(l.entries) THEN Len(l.entries) - lo + 1 ELSE 0
           /\ \A k \in 1 .. Len(Slice(l, lo, LastIndex(l) + 1)) :
                Slice(l, lo, LastIndex(l) + 1)[k] = l.entries[lo + k - 1]
<1> DEFINE n == Len(l.entries)
           s == Slice(l, lo, LastIndex(l) + 1)
<1>1. l.entries \in Seq(Entry) /\ n \in Nat /\ LastIndex(l) = n
    BY LastIndexIsLength
<1>2. s = SubSeq(l.entries, lo, n)
    <2>1. Max({lo, 1}) = lo
        BY MaxOfTwo
    <2>2. Min({LastIndex(l) + 1, LastIndex(l) + 1}) - 1 = n
        BY <1>1, MinOfTwo
    <2> QED
        BY <2>1, <2>2, Zenon DEF Slice
<1>3. \A i \in lo .. n : l.entries[i] \in Entry
    BY <1>1, ElementIn
<1> HIDE DEF s, n
<1>4. /\ s \in Seq(Entry)
      /\ Len(s) = IF lo <= n THEN n - lo + 1 ELSE 0
      /\ \A i \in 1 .. n - lo + 1 : s[i] = l.entries[lo + i - 1]
    BY <1>1, <1>2, <1>3, PartOfSeq
<1> QED
    BY <1>1, <1>4 DEF s, n

(***************************************************************************)
(* Writing.                                                                *)
(***************************************************************************)

\* Truncate keeps a log well formed and leaves exactly the entries below from.
LEMMA TruncateWellFormed ==
    ASSUME NEW l, WellFormed(l), NEW from \in 1 .. Len(l.entries) + 1
    PROVE  /\ WellFormed(Truncate(l, from))
           /\ Len(Truncate(l, from).entries) = from - 1
           /\ \A k \in 1 .. from - 1 : Truncate(l, from).entries[k] = l.entries[k]
<1> DEFINE t == Truncate(l, from)
<1>1. /\ l.entries \in Seq(Entry)
      /\ Len(l.entries) \in Nat
      /\ LastIndex(l) = Len(l.entries)
    BY LastIndexIsLength
<1>2. l.commitIndex \in Nat /\ l.commitIndex <= Len(l.entries)
    BY DEF WellFormed, Log
<1>3. Min({l.commitIndex, LastIndex(l), from - 1}) \in 0 .. from - 1
    <2>1. {l.commitIndex, LastIndex(l), from - 1} \subseteq Nat
        BY <1>1, <1>2
    <2> QED
        BY <2>1, MinOfNaturals, SMTT(30)
<1>4. /\ SubSeq(l.entries, 1, from - 1) \in Seq(Entry)
      /\ Len(SubSeq(l.entries, 1, from - 1)) = from - 1
      /\ \A k \in 1 .. from - 1 : SubSeq(l.entries, 1, from - 1)[k] = l.entries[k]
    <2>1. \A k \in 1 .. from - 1 : l.entries[k] \in Entry
        BY <1>1, ElementIn
    <2>2. /\ SubSeq(l.entries, 1, from - 1) \in Seq(Entry)
          /\ Len(SubSeq(l.entries, 1, from - 1)) =
                IF 1 <= from - 1 THEN (from - 1) - 1 + 1 ELSE 0
          /\ \A k \in 1 .. (from - 1) - 1 + 1 :
                SubSeq(l.entries, 1, from - 1)[k] = l.entries[1 + k - 1]
        BY <1>1, <2>1, PartOfSeq
    <2> QED
        BY <1>1, <2>2
<1>5. l \in Log /\ from \in 1 .. LastIndex(l) + 1
    BY <1>1 DEF WellFormed
<1>6. /\ t \in Log
      /\ t.entries = SubSeq(l.entries, 1, from - 1)
      /\ t.commitIndex \in 0 .. from - 1
    <2> DEFINE kept == SubSeq(l.entries, 1, from - 1)
               commit == Min({l.commitIndex, LastIndex(l), from - 1})
    <2>1. kept \in Seq(Entry) /\ commit \in Nat /\ commit \in 0 .. from - 1
        BY <1>3, <1>4
    <2>2. t = [l EXCEPT !.entries = kept, !.commitIndex = commit]
        BY <1>5 DEF Truncate
    <2> HIDE DEF kept, commit, t
    <2>3. t \in Log /\ t.entries = kept /\ t.commitIndex = commit
        BY <1>5, <2>1, <2>2, Zenon DEF Log
    <2> QED
        BY <2>1, <2>3 DEF kept
<1> HIDE DEF t
<1>7. \A k \in 1 .. from - 1 : l.entries[k].index = k
    BY <1>1 DEF WellFormed
<1> QED
    BY <1>4, <1>6, <1>7 DEF WellFormed, t

\* Appending entries whose indexes continue the log keeps it well formed.
LEMMA AppendTailWellFormed ==
    ASSUME NEW l, WellFormed(l), NEW es \in Seq(Entry),
           \A k \in 1 .. Len(es) : es[k].index = Len(l.entries) + k
    PROVE  WellFormed(AppendTail(l, es))
<1>1. /\ l.entries \in Seq(Entry)
      /\ Len(l.entries) \in Nat
      /\ Len(es) \in Nat
    BY LastIndexIsLength, LengthOfSeq
<1>2. /\ l.entries \o es \in Seq(Entry)
      /\ Len(l.entries \o es) = Len(l.entries) + Len(es)
      /\ \A k \in 1 .. Len(l.entries) + Len(es) : (l.entries \o es)[k] =
            IF k <= Len(l.entries) THEN l.entries[k] ELSE es[k - Len(l.entries)]
    BY <1>1, TwoSeqs
<1>3. /\ AppendTail(l, es) \in Log
      /\ AppendTail(l, es).entries = l.entries \o es
      /\ AppendTail(l, es).commitIndex = l.commitIndex
    BY <1>2, Zenon DEF AppendTail, WellFormed, Log
<1>4. \A k \in 1 .. Len(l.entries) + Len(es) : (l.entries \o es)[k].index = k
    <2> TAKE k \in 1 .. Len(l.entries) + Len(es)
    <2>1. CASE k <= Len(l.entries)
        BY <1>1, <1>2, <2>1 DEF WellFormed
    <2>2. CASE k > Len(l.entries)
        <3>1. k - Len(l.entries) \in 1 .. Len(es)
            BY <1>1, <2>2
        <3>2. es[k - Len(l.entries)].index = Len(l.entries) + (k - Len(l.entries))
            BY <3>1
        <3> QED
            BY <1>1, <1>2, <2>2, <3>2
    <2> QED
        BY <1>1, <2>1, <2>2
<1>5. l.commitIndex \in Nat /\ l.commitIndex <= Len(l.entries)
    BY DEF WellFormed, Log
<1> QED
    BY <1>1, <1>2, <1>3, <1>4, <1>5 DEF WellFormed

\* What Append makes of a log l and a batch es that starts after position prev:
\* r is l itself, or the beginning of l followed by the batch from its first
\* missing entry on, where l holds the terms of the entries before that one.
Spliced(r, l, es, prev) ==
    \/ r = l.entries
    \/ \E first \in 1 .. Len(es) :
         /\ prev + first - 1 <= Len(l.entries)
         /\ Len(r) = prev + Len(es)
         /\ \A k \in 1 .. prev + first - 1 : r[k] = l.entries[k]
         /\ \A k \in prev + first .. prev + Len(es) : r[k] = es[k - prev]
         /\ \A k \in 1 .. first - 1 : l.entries[prev + k].term = es[k].term

\* Where the k-th position of a log lies in the part of a batch that is appended from
\* its entry first on (log.go:147-158).
LEMMA PositionInBatch ==
    ASSUME NEW prev \in Nat, NEW n \in Nat, NEW first \in 1 .. n, NEW w, w = n - first + 1,
           NEW k \in prev + first .. prev + n
    PROVE  /\ k \in 1 .. prev + n
           /\ ~(k <= prev + first - 1)
           /\ k - (prev + first - 1) \in 1 .. w
           /\ first + (k - (prev + first - 1)) - 1 = k - prev
    OBVIOUS

\* Append of a batch that starts right after an index of the log, as AppendEntries
\* and Propose build it, is accepted and splices the batch into the log, whichever
\* of the entries are already there and wherever the first conflict is.
LEMMA LogAppendSplices ==
    ASSUME NEW l, WellFormed(l), NEW es \in Seq(Entry),
           NEW prev \in 0 .. Len(l.entries),
           \A k \in 1 .. Len(es) : es[k].index = prev + k
    PROVE  /\ Contiguous(es)
           /\ WellFormed(LogAppend(l, es))
           /\ Spliced(LogAppend(l, es).entries, l, es, prev)
<1> DEFINE n == Len(l.entries)
           first == Min(Missing(l, es))
<1>1. /\ l.entries \in Seq(Entry)
      /\ n \in Nat
      /\ prev \in Nat
      /\ Len(es) \in Nat
    BY LastIndexIsLength, LengthOfSeq
<1>2. Contiguous(es)
    <2> SUFFICES ASSUME NEW k \in 2 .. Len(es)
                 PROVE  es[k].index = es[k - 1].index + 1
        BY Zenon DEF Contiguous
    <2>1. k \in 1 .. Len(es) /\ k - 1 \in 1 .. Len(es)
        BY <1>1
    <2>2. es[k].index = prev + k /\ es[k - 1].index = prev + (k - 1)
        BY <2>1
    <2> QED
        BY <1>1, <2>1, <2>2
<1>3. CASE Missing(l, es) = {}
    BY <1>2, <1>3 DEF LogAppend, Spliced
<1>4. CASE Missing(l, es) # {}
    <2>1. Missing(l, es) \subseteq 1 .. Len(es) /\ Missing(l, es) \subseteq Nat
        BY <1>1 DEF Missing
    <2>2. first \in Missing(l, es) /\ first \in 1 .. Len(es)
        BY <1>4, <2>1, MinOfNaturals, Zenon
    <2>3. \A k \in Missing(l, es) : first <= k
        BY <1>4, <2>1, MinOfNaturals
    <2> HIDE DEF first
    <2>4. es[first].index = prev + first
        BY <2>2
    <2>5. prev + first - 1 <= n
        <3>1. CASE first = 1
            BY <1>1, <3>1
        <3>2. CASE first # 1
            <4>1. first - 1 \in 1 .. Len(es) /\ first - 1 \notin Missing(l, es)
                BY <1>1, <2>2, <2>3, <3>2
            <4>2. es[first - 1].index = prev + (first - 1)
                BY <4>1
            <4>3. es[first - 1].index <= n
                BY <4>1 DEF Missing, InRange
            <4> QED
                BY <1>1, <2>2, <4>2, <4>3
        <3> QED
            BY <3>1, <3>2
    <2> DEFINE tail == SubSeq(es, first, Len(es))
               t == IF InRange(l, es[first].index) THEN Truncate(l, es[first].index) ELSE l
    <2>6. /\ WellFormed(t)
          /\ Len(t.entries) = prev + first - 1
          /\ \A k \in 1 .. prev + first - 1 : t.entries[k] = l.entries[k]
        <3>1. CASE InRange(l, es[first].index)
            <4> DEFINE from == prev + first
            <4>1. from \in 1 .. Len(l.entries) + 1 /\ from = es[first].index
                BY <1>1, <2>2, <2>4, <3>1 DEF InRange
            <4> HIDE DEF from
            <4>2. /\ WellFormed(Truncate(l, from))
                  /\ Len(Truncate(l, from).entries) = from - 1
                  /\ \A k \in 1 .. from - 1 : Truncate(l, from).entries[k] = l.entries[k]
                BY <4>1, TruncateWellFormed, Zenon
            <4>3. t = Truncate(l, from)
                BY <3>1, <4>1
            <4>4. from - 1 = prev + first - 1
                BY <1>1, <2>2 DEF from
            <4> HIDE DEF t
            <4> QED
                BY <4>2, <4>3, <4>4
        <3>2. CASE ~InRange(l, es[first].index)
            <4>1. prev + first > n
                BY <1>1, <2>2, <2>4, <3>2 DEF InRange
            <4>2. Len(l.entries) = prev + first - 1
                <5>1. first \in Int /\ n \in Int /\ prev \in Int
                    BY <1>1, <2>2
                <5> HIDE DEF n
                <5>2. n = prev + first - 1
                    BY <2>5, <4>1, <5>1, SMTT(30)
                <5> QED
                    BY <5>2 DEF n
            <4> QED
                BY <3>2, <4>2
        <3> QED
            BY <3>1, <3>2
    <2>7. /\ tail \in Seq(Entry)
          /\ Len(tail) = Len(es) - first + 1
          /\ \A k \in 1 .. Len(tail) : tail[k] = es[first + k - 1]
        <3>1. \A k \in first .. Len(es) : es[k] \in Entry
            BY <1>1, <2>2, ElementIn
        <3> QED
            BY <1>1, <2>2, <3>1, PartOfSeq
    <2> HIDE DEF t, tail
    <2>8. \A k \in 1 .. Len(tail) : tail[k].index = Len(t.entries) + k
        <3> TAKE k \in 1 .. Len(tail)
        <3>1. first + k - 1 \in 1 .. Len(es)
            BY <1>1, <2>2, <2>7
        <3>2. es[first + k - 1].index = prev + (first + k - 1)
            BY <3>1
        <3> QED
            BY <1>1, <2>2, <2>6, <2>7, <3>2
    <2>9. WellFormed(AppendTail(t, tail))
        BY <2>6, <2>7, <2>8, AppendTailWellFormed, Zenon
    <2>10. LogAppend(l, es) = AppendTail(t, tail)
        BY <1>2, <1>4 DEF LogAppend, AppendFrom, first, t, tail
    <2>11. /\ LogAppend(l, es).entries = t.entries \o tail
           /\ Len(t.entries \o tail) = prev + Len(es)
           /\ \A k \in 1 .. prev + Len(es) : (t.entries \o tail)[k] =
                 IF k <= prev + first - 1 THEN t.entries[k] ELSE tail[k - (prev + first - 1)]
        <3>1. t.entries \in Seq(Entry) /\ t \in Log
            BY <2>6, LastIndexIsLength DEF WellFormed
        <3>2. AppendTail(t, tail).entries = t.entries \o tail
            BY <3>1 DEF AppendTail, Log
        <3>3. /\ Len(t.entries \o tail) = Len(t.entries) + Len(tail)
              /\ \A k \in 1 .. Len(t.entries) + Len(tail) : (t.entries \o tail)[k] =
                   IF k <= Len(t.entries) THEN t.entries[k] ELSE tail[k - Len(t.entries)]
            BY <2>7, <3>1, TwoSeqs, Zenon
        <3>4. Len(t.entries) + Len(tail) = prev + Len(es)
            BY <1>1, <2>2, <2>6, <2>7
        <3> QED
            BY <2>6, <2>10, <3>2, <3>3, <3>4
    <2>12. Spliced(LogAppend(l, es).entries, l, es, prev)
        <3> DEFINE r == LogAppend(l, es).entries
        <3>1. \A k \in 1 .. prev + first - 1 : r[k] = l.entries[k]
            BY <1>1, <2>2, <2>6, <2>11
        <3>2. ASSUME NEW k \in prev + first .. prev + Len(es)
              PROVE  r[k] = es[k - prev]
            <4>1. /\ k \in 1 .. prev + Len(es)
                  /\ ~(k <= prev + first - 1)
                  /\ k - (prev + first - 1) \in 1 .. Len(tail)
                  /\ first + (k - (prev + first - 1)) - 1 = k - prev
                <5>1. prev \in Nat /\ Len(es) \in Nat /\ first \in 1 .. Len(es)
                      /\ Len(tail) = Len(es) - first + 1
                    BY <1>1, <2>2, <2>7
                <5> QED
                    BY <5>1, PositionInBatch, Zenon
            <4>2. r[k] = tail[k - (prev + first - 1)]
                <5>1. r = t.entries \o tail
                    BY <2>11, Zenon
                <5>2. (t.entries \o tail)[k] = IF k <= prev + first - 1 THEN t.entries[k]
                                               ELSE tail[k - (prev + first - 1)]
                    BY <2>11, <4>1, Zenon
                <5> QED
                    BY <4>1, <5>1, <5>2, Zenon
            <4>3. tail[k - (prev + first - 1)] = es[first + (k - (prev + first - 1)) - 1]
                BY <2>7, <4>1, Zenon
            <4> QED
                BY <4>1, <4>2, <4>3, Zenon
        <3>3. ASSUME NEW k \in 1 .. first - 1
              PROVE  l.entries[prev + k].term = es[k].term
            <4>1. k \in 1 .. Len(es) /\ k \notin Missing(l, es) /\ prev + k # 0
                BY <1>1, <2>2, <2>3
            <4>2. TermAt(l, es[k].index) = es[k].term /\ es[k].index = prev + k
                BY <4>1 DEF Missing
            <4> QED
                BY <4>1, <4>2 DEF TermAt, At
        <3>4. Len(r) = prev + Len(es)
            BY <2>11
        <3> HIDE DEF r
        <3>5. Spliced(r, l, es, prev)
            BY <2>2, <2>5, <3>1, <3>2, <3>3, <3>4, Zenon DEF Spliced
        <3> QED
            BY <3>5 DEF r
    <2> QED
        BY <1>2, <2>9, <2>10, <2>12
<1> QED
    BY <1>2, <1>3, <1>4

\* Such an Append keeps the log well formed.
LEMMA LogAppendWellFormed ==
    ASSUME NEW l, WellFormed(l), NEW es \in Seq(Entry),
           NEW prev \in 0 .. Len(l.entries),
           \A k \in 1 .. Len(es) : es[k].index = prev + k
    PROVE  Contiguous(es) /\ WellFormed(LogAppend(l, es))
BY LogAppendSplices

\* CommitTo keeps a log well formed, whatever index it is asked for.
LEMMA CommitToWellFormed ==
    ASSUME NEW l, WellFormed(l), NEW i \in Nat
    PROVE  WellFormed(CommitTo(l, i)) /\ CommitTo(l, i).entries = l.entries
<1>1. l \in Log /\ LastIndex(l) = Len(l.entries) /\ Len(l.entries) \in Nat
    BY LastIndexIsLength DEF WellFormed
<1>2. CASE i \in l.commitIndex .. LastIndex(l)
    <2>1. CommitTo(l, i) = [l EXCEPT !.commitIndex = i]
        BY <1>2 DEF CommitTo
    <2>2. /\ CommitTo(l, i) \in Log
          /\ CommitTo(l, i).entries = l.entries
          /\ CommitTo(l, i).commitIndex = i
        BY <1>1, <2>1 DEF Log
    <2> QED
        BY <1>1, <1>2, <2>2 DEF WellFormed, Log
<1>3. CASE i \notin l.commitIndex .. LastIndex(l)
    BY <1>3 DEF CommitTo
<1> QED
    BY <1>2, <1>3

(***************************************************************************)
(* Persistence.                                                            *)
(***************************************************************************)

\* The words of a term, a vote and entries: a header, and three words for each
\* entry, from which the entry can be read.
AreWordsOf(d, term, vote, es) ==
    /\ d \in Seq({term, vote} \cup Nat \cup Command)
    /\ Len(d) = 3 + 3 * Len(es)
    /\ d[1] = term /\ d[2] = vote /\ d[3] = Len(es)
    /\ \A k \in 1 .. Len(es) : DecodedEntry(d, k) = es[k]
    /\ [k \in 1 .. Len(es) |-> DecodedEntry(d, k)] = es

\* Serialize writes these words.
LEMMA SerializedWords ==
    ASSUME NEW term, NEW vote, NEW es \in Seq(Entry)
    PROVE  AreWordsOf(Serialize([currentTerm |-> term, votedFor |-> vote, entries |-> es]),
                      term, vote, es)
<1> DEFINE n == Len(es)
           header == <<term, vote, n>>
           WordOf(w) == LET e == es[((w - 1) \div 3) + 1]
                        IN  <<e.term, e.index, e.command>>[((w - 1) % 3) + 1]
           body == [w \in 1 .. 3 * n |-> WordOf(w)]
           Word == {term, vote} \cup Nat \cup Command
           data == header \o body
<1>1. n \in Nat
    BY LengthOfSeq
<1>2. ASSUME NEW k \in 1 .. n
      PROVE  /\ 3 * k - 2 \in 1 .. 3 * n /\ WordOf(3 * k - 2) = es[k].term
             /\ 3 * k - 1 \in 1 .. 3 * n /\ WordOf(3 * k - 1) = es[k].index
             /\ 3 * k \in 1 .. 3 * n /\ WordOf(3 * k) = es[k].command
    <2>1. /\ 3 * k - 2 \in 1 .. 3 * n
          /\ 3 * k - 1 \in 1 .. 3 * n
          /\ 3 * k \in 1 .. 3 * n
        BY <1>1
    <2>2. /\ (((3 * k - 2) - 1) \div 3) + 1 = k
          /\ (((3 * k - 1) - 1) \div 3) + 1 = k
          /\ ((3 * k - 1) \div 3) + 1 = k
        BY <1>1
    <2>3. /\ (((3 * k - 2) - 1) % 3) + 1 = 1
          /\ (((3 * k - 1) - 1) % 3) + 1 = 2
          /\ ((3 * k - 1) % 3) + 1 = 3
        BY <1>1
    <2>4. /\ WordOf(3 * k - 2) = <<es[k].term, es[k].index, es[k].command>>[1]
          /\ WordOf(3 * k - 1) = <<es[k].term, es[k].index, es[k].command>>[2]
          /\ WordOf(3 * k) = <<es[k].term, es[k].index, es[k].command>>[3]
        BY <2>2, <2>3, Zenon
    <2> QED
        BY <2>1, <2>4, Zenon
<1>2a. ASSUME NEW w \in 1 .. 3 * n
      PROVE  WordOf(w) \in Word
    <2> DEFINE k == ((w - 1) \div 3) + 1
               r == ((w - 1) % 3) + 1
    <2>1. k \in 1 .. n /\ r \in 1 .. 3
        BY <1>1
    <2>2. es[k] \in Entry
        BY <2>1, ElementIn
    <2>3. WordOf(w) = <<es[k].term, es[k].index, es[k].command>>[r]
        OBVIOUS
    <2> HIDE DEF k, r, WordOf
    <2>4. es[k].term \in Nat /\ es[k].index \in Nat /\ es[k].command \in Command
        BY <2>2 DEF Entry
    <2> QED
        BY <2>1, <2>3, <2>4
<1> HIDE DEF WordOf
<1>3. header \in Seq(Word) /\ Len(header) = 3
    BY <1>1
<1>4. body \in Seq(Word) /\ Len(body) = 3 * n
    <2>1. 3 * n \in Nat /\ body \in [1 .. 3 * n -> Word]
        BY <1>1, <1>2a
    <2> QED
        BY <2>1
<1> HIDE DEF Word
<1>5. /\ data \in Seq(Word)
      /\ Len(data) = 3 + 3 * n
      /\ \A i \in 1 .. 3 + 3 * n : data[i] = IF i <= 3 THEN header[i] ELSE body[i - 3]
    BY <1>1, <1>3, <1>4, TwoSeqs
<1>6. data[1] = term /\ data[2] = vote /\ data[3] = n
    BY <1>1, <1>5
<1> HIDE DEF data
<1>7. ASSUME NEW k \in 1 .. n
      PROVE  DecodedEntry(data, k) = es[k]
    <2>1. /\ data[3 * k + 1] = body[3 * k - 2]
          /\ data[3 * k + 2] = body[3 * k - 1]
          /\ data[3 * k + 3] = body[3 * k]
        <3>1. ASSUME NEW i \in 1 .. 3
              PROVE  data[3 * k + i] = body[3 * k + i - 3]
            BY <1>1, <1>5
        <3>2. 3 * k + 1 - 3 = 3 * k - 2 /\ 3 * k + 2 - 3 = 3 * k - 1 /\ 3 * k + 3 - 3 = 3 * k
            BY <1>1
        <3> QED
            BY <3>1, <3>2
    <2>2. /\ data[3 * k + 1] = es[k].term
          /\ data[3 * k + 2] = es[k].index
          /\ data[3 * k + 3] = es[k].command
        BY <1>2, <2>1
    <2>3. es[k] \in Entry
        BY ElementIn
    <2> QED
        BY <2>2, <2>3 DEF DecodedEntry, Entry
<1>8. [k \in 1 .. n |-> DecodedEntry(data, k)] = es
    <2>1. es = [k \in 1 .. n |-> es[k]]
        BY LengthOfSeq
    <2> QED
        BY <1>7, <2>1
<1>9. Serialize([currentTerm |-> term, votedFor |-> vote, entries |-> es]) = data
    BY DEF Serialize, data, WordOf
<1>10. AreWordsOf(data, term, vote, es)
    BY <1>5, <1>6, <1>7, <1>8 DEF AreWordsOf, Word
<1> QED
    BY <1>9, <1>10, Zenon

\* What Serialize writes for the entries of a well-formed log, Deserialize reads
\* back without error and without change.
LEMMA RoundTrip ==
    ASSUME NEW term \in Nat, NEW vote, NEW es \in Seq(Entry),
           \A k \in 1 .. Len(es) : es[k].index = k
    PROVE  LET s == [currentTerm |-> term, votedFor |-> vote, entries |-> es]
           IN  Deserialize(Serialize(s)) = s
<1> DEFINE n == Len(es)
           data == Serialize([currentTerm |-> term, votedFor |-> vote, entries |-> es])
<1>1. n \in Nat
    BY LengthOfSeq
<1>2. /\ Len(data) = 3 + 3 * n
      /\ data[1] = term /\ data[2] = vote /\ data[3] = n
      /\ \A k \in 1 .. n : DecodedEntry(data, k) = es[k]
      /\ [k \in 1 .. n |-> DecodedEntry(data, k)] = es
    <2>1. AreWordsOf(data, term, vote, es)
        BY SerializedWords
    <2> HIDE DEF data
    <2> QED
        BY <2>1 DEF AreWordsOf
<1> HIDE DEF data
<1>3. \A k \in 1 .. n : DecodedEntry(data, k).index = k
    BY <1>2
<1>4. Deserialize(data) = [currentTerm |-> term, votedFor |-> vote, entries |-> es]
    BY <1>1, <1>2, <1>3, SMTT(30) DEF Deserialize
<1> QED
    BY <1>4 DEF data

-----------------------------------------------------------------------------
(***************************************************************************)
(* The handlers.                                                           *)
(***************************************************************************)

GoodNode(n) == n \in NodeState /\ WellFormed(n.log)

GoodMessage(m) ==
    /\ m \in Message
    /\ m.type = "AppendEntries" =>
           \A k \in 1 .. Len(m.entries) : m.entries[k].index = m.prevLogIndex + k

GoodResult(r) == GoodNode(r.node) /\ \A m \in r.out : GoodMessage(m)

\* The fields of each kind of message.
LEMMA MessageFields ==
    ASSUME NEW m \in Message
    PROVE  /\ m.from \in Server /\ m.to \in Server /\ m.term \in Nat
           /\ m.type = "RequestVote" => m.lastLogIndex \in Nat /\ m.lastLogTerm \in Nat
           /\ m.type = "RequestVoteResp" => m.granted \in BOOLEAN
           /\ m.type = "AppendEntries" =>
                /\ m.prevLogIndex \in Nat
                /\ m.prevLogTerm \in Nat
                /\ m.entries \in Seq(Entry)
                /\ m.leaderCommit \in Nat
           /\ m.type = "AppendEntriesResp" => m.success \in BOOLEAN /\ m.matchIndex \in Nat
BY DEF Message

\* log.New returns a well-formed log.
LEMMA NewLogWellFormed == WellFormed(NewLog)
BY DEF NewLog, WellFormed, Log, Sentinel

\* node.New returns a good node.
LEMMA NewNodeGood == GoodNode(NewNode)
BY NewLogWellFormed DEF NewNode, GoodNode, NodeState, NoIndexes, Follower, WellFormed

\* Replacing the log of a node by a well-formed one keeps the node good.
LEMMA WithLogGood ==
    ASSUME NEW n, GoodNode(n), NEW l, WellFormed(l)
    PROVE  /\ GoodNode([n EXCEPT !.log = l])
           /\ [n EXCEPT !.log = l].log = l
BY Zenon DEF GoodNode, NodeState, WellFormed

\* startElection keeps the node good and asks for votes with good messages.
LEMMA StartElectionGood ==
    ASSUME NEW i \in Server, NEW n, GoodNode(n)
    PROVE  GoodResult(StartElection(i, n))
<1> DEFINE c == [n EXCEPT !.currentTerm  = n.currentTerm + 1,
                          !.state        = Candidate,
                          !.votedFor     = i,
                          !.votesGranted = {i},
                          !.leaderID     = Nil]
<1>1. GoodNode(c) /\ c.log = n.log
    <2>1. n \in NodeState /\ WellFormed(n.log)
        BY DEF GoodNode
    <2>2. n.currentTerm + 1 \in Nat
        BY <2>1 DEF NodeState
    <2>3. c \in NodeState
        BY <2>1, <2>2, Zenon DEF NodeState
    <2>4. c.log = n.log
        BY <2>1 DEF NodeState
    <2> QED
        BY <2>1, <2>3, <2>4 DEF GoodNode
<1>2. /\ LastIndex(c.log) \in Nat /\ LastTerm(c.log) \in Nat
      /\ c.currentTerm \in Nat
    BY <1>1, LastIndexIsLength, Zenon DEF GoodNode, NodeState
<1> HIDE DEF c
<1>3. ASSUME NEW p \in Peers[i]
      PROVE  GoodMessage(RequestVote(i, p, c.currentTerm, LastIndex(c.log), LastTerm(c.log)))
    BY <1>2, PeersAssumption DEF GoodMessage, RequestVote, Message
<1>4. /\ StartElection(i, n).node = c
      /\ StartElection(i, n).out =
            {RequestVote(i, p, c.currentTerm, LastIndex(c.log), LastTerm(c.log)) :
                p \in Peers[i]}
    BY DEF StartElection, Returns, c
<1> QED
    BY <1>1, <1>3, <1>4 DEF GoodResult

\* The entries of m, and the entry before them that m names, are those of log l.
IsPartOfLog(m, l) ==
    /\ m.prevLogIndex + Len(m.entries) <= Len(l.entries)
    /\ m.prevLogIndex # 0 => m.prevLogTerm = l.entries[m.prevLogIndex].term
    /\ \A k \in 1 .. Len(m.entries) : m.entries[k] = l.entries[m.prevLogIndex + k]

\* A batch is a part of the sender's log that starts right after prevLogIndex,
\* also when nextIndex is out of range.
LEMMA AppendEntriesToGood ==
    ASSUME NEW i \in Server, NEW n, GoodNode(n), NEW p \in Server
    PROVE  /\ GoodMessage(AppendEntriesTo(i, n, p))
           /\ IsPartOfLog(AppendEntriesTo(i, n, p), n.log)
<1> DEFINE l         == n.log
           ni        == n.nextIndex[p]
           prevIndex == IF ni > 1 /\ InRange(l, ni - 1) THEN ni - 1 ELSE 0
           prevTerm  == IF prevIndex = 0 THEN 0 ELSE TermAt(l, prevIndex)
           batch     == IF ni <= LastIndex(l) THEN Slice(l, ni, LastIndex(l) + 1) ELSE <<>>
<1>1. /\ WellFormed(l)
      /\ l.entries \in Seq(Entry)
      /\ Len(l.entries) \in Nat
      /\ LastIndex(l) = Len(l.entries)
    BY LastIndexIsLength DEF GoodNode
<1>2. ni \in Nat /\ n.currentTerm \in Nat /\ l.commitIndex \in Nat
    BY <1>1 DEF GoodNode, NodeState, WellFormed, Log
<1> HIDE DEF l, ni
<1>3. /\ prevIndex \in Nat /\ prevIndex <= Len(l.entries)
      /\ prevTerm \in Nat
      /\ prevIndex # 0 => prevTerm = l.entries[prevIndex].term
    <2>1. CASE ni > 1 /\ InRange(l, ni - 1)
        <3>1. prevIndex = ni - 1 /\ prevIndex \in 1 .. Len(l.entries)
            BY <1>1, <1>2, <2>1 DEF InRange
        <3> HIDE DEF prevIndex
        <3>2. l.entries[prevIndex] \in Entry
            BY <1>1, <3>1, ElementIn
        <3>3. prevTerm = l.entries[prevIndex].term
            BY <1>1, <3>1 DEF TermAt, At
        <3> QED
            BY <1>1, <3>1, <3>2, <3>3 DEF Entry
    <2>2. CASE ~(ni > 1 /\ InRange(l, ni - 1))
        BY <1>1, <2>2
    <2> QED
        BY <2>1, <2>2
<1>4. /\ batch \in Seq(Entry)
      /\ prevIndex + Len(batch) <= Len(l.entries)
      /\ \A k \in 1 .. Len(batch) : batch[k] = l.entries[prevIndex + k]
    <2>1. CASE ni > LastIndex(l)
        <3>1. batch = <<>>
            BY <1>1, <1>2, <2>1
        <3> HIDE DEF batch, prevIndex
        <3> QED
            BY <1>1, <1>3, <3>1
    <2>2. CASE ni <= LastIndex(l) /\ ni >= 1
        <3>1. prevIndex = ni - 1
            BY <1>1, <1>2, <2>2 DEF InRange
        <3>2. batch = Slice(l, ni, LastIndex(l) + 1)
            BY <2>2
        <3> HIDE DEF batch, prevIndex
        <3>3. /\ batch \in Seq(Entry)
              /\ Len(batch) = IF ni <= Len(l.entries) THEN Len(l.entries) - ni + 1 ELSE 0
              /\ \A k \in 1 .. Len(batch) : batch[k] = l.entries[ni + k - 1]
            <4>1. ni \in Nat \ {0}
                BY <1>2, <2>2
            <4> QED
                BY <1>1, <3>2, <4>1, SliceToEnd, Zenon
        <3>4. ASSUME NEW k \in 1 .. Len(batch)
              PROVE  batch[k] = l.entries[prevIndex + k]
            <4>1. ni + k - 1 = prevIndex + k
                BY <1>1, <1>2, <2>2, <3>1, <3>3
            <4> QED
                BY <3>3, <4>1
        <3> QED
            BY <1>1, <1>2, <2>2, <3>1, <3>3, <3>4
    <2>3. CASE ni <= LastIndex(l) /\ ni = 0
        <3>1. prevIndex = 0 /\ batch = Slice(l, 1, LastIndex(l) + 1)
            <4>1. Max({0, 1}) = 1 /\ Max({1, 1}) = 1
                BY MaxOfTwo
            <4>2. Slice(l, 0, LastIndex(l) + 1) = Slice(l, 1, LastIndex(l) + 1)
                BY <4>1, Zenon DEF Slice
            <4>3. batch = Slice(l, 0, LastIndex(l) + 1)
                BY <2>3
            <4>4. prevIndex = 0
                BY <2>3
            <4> QED
                BY <4>2, <4>3, <4>4
        <3>2. 1 \in Nat \ {0}
            OBVIOUS
        <3> HIDE DEF batch, prevIndex
        <3>3. /\ batch \in Seq(Entry)
              /\ Len(batch) = IF 1 <= Len(l.entries) THEN Len(l.entries) - 1 + 1 ELSE 0
              /\ \A k \in 1 .. Len(batch) : batch[k] = l.entries[1 + k - 1]
            BY <1>1, <3>1, <3>2, SliceToEnd
        <3>4. ASSUME NEW k \in 1 .. Len(batch)
              PROVE  batch[k] = l.entries[prevIndex + k]
            <4>1. 1 + k - 1 = k /\ prevIndex + k = k
                BY <1>1, <3>1, <3>3
            <4> QED
                BY <3>3, <4>1
        <3> QED
            BY <1>1, <3>1, <3>3, <3>4
    <2> HIDE DEF batch, prevIndex
    <2> QED
        BY <1>1, <1>2, <2>1, <2>2, <2>3
<1>5. AppendEntriesTo(i, n, p) =
        AppendEntries(i, p, n.currentTerm, prevIndex, prevTerm, l.commitIndex, batch)
    BY DEF AppendEntriesTo, l, ni
<1> HIDE DEF prevIndex, prevTerm, batch
<1>6. \A k \in 1 .. Len(batch) : batch[k].index = prevIndex + k
    <2> TAKE k \in 1 .. Len(batch)
    <2>1. Len(batch) \in Nat
        BY <1>4, LengthOfSeq
    <2>2. prevIndex + k \in 1 .. Len(l.entries)
        BY <1>1, <1>3, <1>4, <2>1
    <2> QED
        BY <1>1, <1>4, <2>2 DEF WellFormed
<1>7. GoodMessage(AppendEntriesTo(i, n, p))
    BY <1>2, <1>3, <1>4, <1>5, <1>6 DEF GoodMessage, AppendEntries, Message
<1>8. IsPartOfLog(AppendEntriesTo(i, n, p), l)
    BY <1>3, <1>4, <1>5 DEF IsPartOfLog, AppendEntries
<1> QED
    BY <1>7, <1>8 DEF l

\* broadcastAppendEntries sends good messages.
LEMMA BroadcastGood ==
    ASSUME NEW i \in Server, NEW n, GoodNode(n)
    PROVE  \A m \in BroadcastAppendEntries(i, n) : GoodMessage(m)
<1>1. \A p \in Peers[i] : GoodMessage(AppendEntriesTo(i, n, p))
    BY AppendEntriesToGood, PeersAssumption
<1> QED
    BY <1>1 DEF BroadcastAppendEntries

\* becomeLeader keeps the node good and sends good messages.
LEMMA BecomeLeaderGood ==
    ASSUME NEW i \in Server, NEW n, GoodNode(n)
    PROVE  GoodResult(BecomeLeader(i, n))
<1> DEFINE next == [p \in Server |-> IF p \in Peers[i] THEN LastIndex(n.log) + 1 ELSE 0]
           l    == [n EXCEPT !.state      = Leader,
                             !.leaderID   = i,
                             !.nextIndex  = next,
                             !.matchIndex = NoIndexes]
<1>1. n \in NodeState /\ WellFormed(n.log)
    BY DEF GoodNode
<1>2. next \in [Server -> Nat] /\ NoIndexes \in [Server -> Nat]
    BY <1>1, LastIndexIsLength DEF NoIndexes
<1> HIDE DEF next
<1>3. l \in NodeState /\ l.log = n.log
    BY <1>1, <1>2, Zenon DEF NodeState
<1>4. GoodNode(l)
    BY <1>1, <1>3 DEF GoodNode
<1>5. /\ BecomeLeader(i, n).node = l
      /\ BecomeLeader(i, n).out = BroadcastAppendEntries(i, l)
    BY DEF BecomeLeader, Returns, next
<1> HIDE DEF l
<1> QED
    BY <1>4, <1>5, BroadcastGood DEF GoodResult

\* stepDown keeps the node good.
LEMMA StepDownGood ==
    ASSUME NEW n, GoodNode(n), NEW term \in Nat
    PROVE  GoodResult(StepDown(n, term))
<1> DEFINE f == [n EXCEPT !.currentTerm  = term,
                          !.state        = Follower,
                          !.votedFor     = Nil,
                          !.leaderID     = Nil,
                          !.votesGranted = {},
                          !.nextIndex    = NoIndexes,
                          !.matchIndex   = NoIndexes]
<1>1. n \in NodeState /\ WellFormed(n.log)
    BY DEF GoodNode
<1>2. NoIndexes \in [Server -> Nat]
    BY DEF NoIndexes
<1>3. f \in NodeState /\ f.log = n.log
    BY <1>1, <1>2, Zenon DEF NodeState
<1>4. StepDown(n, term).node = f /\ StepDown(n, term).out = {}
    BY DEF StepDown, Returns
<1> HIDE DEF f
<1> QED
    BY <1>1, <1>3, <1>4 DEF GoodResult, GoodNode

\* advanceCommit changes nothing but the commit index, and keeps it in the log.
LEMMA AdvanceCommitGood ==
    ASSUME NEW i \in Server, NEW n, GoodNode(n)
    PROVE  /\ GoodNode(AdvanceCommit(i, n))
           /\ AdvanceCommit(i, n).log.entries = n.log.entries
           /\ \E l : AdvanceCommit(i, n) = [n EXCEPT !.log = l]
<1> DEFINE S == Committable(i, n)
<1>1. /\ n \in NodeState
      /\ WellFormed(n.log)
      /\ LastIndex(n.log) \in Nat
      /\ n.log.commitIndex \in Nat
    BY LastIndexIsLength DEF GoodNode, WellFormed, Log
<1>2. CASE S = {}
    <2>1. n = [n EXCEPT !.log = n.log]
        BY <1>1 DEF NodeState
    <2> QED
        BY <1>2, <2>1 DEF AdvanceCommit
<1>3. CASE S # {}
    <2>1. S \subseteq 0 .. LastIndex(n.log)
        BY <1>1 DEF Committable
    <2>2. Max(S) \in S
        BY <1>1, <1>3, <2>1, MaxOfNaturals
    <2>3. Max(S) \in Nat
        BY <1>1, <2>1, <2>2
    <2> DEFINE l == CommitTo(n.log, Max(S))
    <2>4. WellFormed(l) /\ l.entries = n.log.entries
        BY <1>1, <2>3, CommitToWellFormed, Zenon
    <2>5. AdvanceCommit(i, n) = [n EXCEPT !.log = l]
        BY <1>3 DEF AdvanceCommit
    <2> HIDE DEF l
    <2>6. GoodNode([n EXCEPT !.log = l]) /\ [n EXCEPT !.log = l].log = l
        BY <2>4, WithLogGood
    <2> QED
        BY <2>4, <2>5, <2>6, Zenon
<1> QED
    BY <1>2, <1>3

\* handleRequestVote keeps the node good and answers with a good message.
LEMMA HandleRequestVoteGood ==
    ASSUME NEW i \in Server, NEW n, GoodNode(n),
           NEW m \in Message, m.type = "RequestVote"
    PROVE  GoodResult(HandleRequestVote(i, n, m))
<1> DEFINE f == IF m.term > n.currentTerm
                THEN [n EXCEPT !.currentTerm = m.term,
                               !.votedFor    = Nil,
                               !.state       = Follower,
                               !.leaderID    = Nil]
                ELSE n
           grant == /\ m.term >= n.currentTerm
                    /\ f.votedFor \in {Nil, m.from}
                    /\ IsUpToDate(f, m.lastLogIndex, m.lastLogTerm)
           g == IF grant THEN [f EXCEPT !.votedFor = m.from] ELSE f
<1>1. n \in NodeState /\ WellFormed(n.log) /\ m.from \in Server /\ m.term \in Nat
    BY MessageFields DEF GoodNode
<1>2. f \in NodeState /\ f.log = n.log
    <2>1. CASE m.term > n.currentTerm
        BY <1>1, <2>1, Zenon DEF NodeState
    <2>2. CASE ~(m.term > n.currentTerm)
        BY <1>1, <2>2
    <2> QED
        BY <2>1, <2>2
<1>3. grant \in BOOLEAN
    OBVIOUS
<1> HIDE DEF f, grant
<1>4. g \in NodeState /\ g.log = f.log
    <2>1. CASE grant
        BY <1>1, <1>2, <2>1 DEF NodeState
    <2>2. CASE ~grant
        BY <1>2, <2>2
    <2> QED
        BY <2>1, <2>2
<1>5. /\ HandleRequestVote(i, n, m).node = g
      /\ HandleRequestVote(i, n, m).out = {RequestVoteResp(i, m.from, f.currentTerm, grant)}
    BY DEF HandleRequestVote, Returns, f, grant
<1>6. GoodMessage(RequestVoteResp(i, m.from, f.currentTerm, grant))
    <2>1. f.currentTerm \in Nat
        BY <1>2 DEF NodeState
    <2> QED
        BY <1>1, <1>3, <2>1 DEF GoodMessage, RequestVoteResp, Message
<1> HIDE DEF g
<1> QED
    BY <1>1, <1>2, <1>4, <1>5, <1>6 DEF GoodResult, GoodNode

\* handleRequestVoteResp keeps the node good, also when it makes it leader.
LEMMA HandleRequestVoteRespGood ==
    ASSUME NEW i \in Server, NEW n, GoodNode(n),
           NEW m \in Message, m.type = "RequestVoteResp"
    PROVE  GoodResult(HandleRequestVoteResp(i, n, m))
<1> DEFINE counts == m.term = n.currentTerm /\ n.state = Candidate
           c == IF counts /\ m.granted
                THEN [n EXCEPT !.votesGranted = n.votesGranted \cup {m.from}]
                ELSE n
<1>1. n \in NodeState /\ WellFormed(n.log) /\ m.from \in Server /\ m.term \in Nat
    BY MessageFields DEF GoodNode
<1>2. c \in NodeState /\ c.log = n.log
    <2>1. CASE counts /\ m.granted
        BY <1>1, <2>1 DEF NodeState
    <2>2. CASE ~(counts /\ m.granted)
        BY <1>1, <2>2
    <2> QED
        BY <2>1, <2>2
<1>3. GoodNode(c)
    BY <1>1, <1>2 DEF GoodNode
<1>4. \/ HandleRequestVoteResp(i, n, m) = StepDown(n, m.term)
      \/ HandleRequestVoteResp(i, n, m) = BecomeLeader(i, c)
      \/ HandleRequestVoteResp(i, n, m) = Returns(c, {}, FALSE)
    BY Zenon DEF HandleRequestVoteResp
<1> HIDE DEF c
<1>5. GoodResult(Returns(c, {}, FALSE))
    BY <1>3 DEF GoodResult, Returns
<1> QED
    BY <1>1, <1>3, <1>4, <1>5, StepDownGood, BecomeLeaderGood, Zenon

\* Recognizing a leader keeps the node good and its log as it is.
LEMMA RecognizeLeaderGood ==
    ASSUME NEW n, GoodNode(n), NEW m \in Message
    PROVE  GoodNode(RecognizeLeader(n, m)) /\ RecognizeLeader(n, m).log = n.log
<1> DEFINE f == IF n.state # Follower \/ m.term > n.currentTerm
                THEN [n EXCEPT !.currentTerm = m.term,
                               !.state       = Follower,
                               !.votedFor    = Nil]
                ELSE n
<1>1. n \in NodeState /\ WellFormed(n.log) /\ m.from \in Server /\ m.term \in Nat
    BY MessageFields DEF GoodNode
<1>2. f \in NodeState /\ f.log = n.log
    <2>1. CASE n.state # Follower \/ m.term > n.currentTerm
        BY <1>1, <2>1, Zenon DEF NodeState
    <2>2. CASE ~(n.state # Follower \/ m.term > n.currentTerm)
        BY <1>1, <2>2
    <2> QED
        BY <2>1, <2>2
<1>3. RecognizeLeader(n, m) = [f EXCEPT !.leaderID = m.from]
    BY DEF RecognizeLeader
<1> HIDE DEF f
<1>4. /\ [f EXCEPT !.leaderID = m.from] \in NodeState
      /\ [f EXCEPT !.leaderID = m.from].log = f.log
    BY <1>1, <1>2 DEF NodeState
<1> QED
    BY <1>1, <1>2, <1>3, <1>4 DEF GoodNode

\* A batch that passed the consistency check is spliced into the log without a gap.
LEMMA AcceptEntriesGood ==
    ASSUME NEW l, WellFormed(l), NEW m, GoodMessage(m), m.type = "AppendEntries",
           MatchesPrevLogTerm(l, m.prevLogIndex, m.prevLogTerm)
    PROVE  /\ WellFormed(AcceptEntries(l, m))
           /\ Spliced(AcceptEntries(l, m).entries, l, m.entries, m.prevLogIndex)
<1> DEFINE a == LogAppend(l, m.entries)
<1>1. /\ m.entries \in Seq(Entry)
      /\ m.prevLogIndex \in Nat
      /\ m.leaderCommit \in Nat
      /\ \A k \in 1 .. Len(m.entries) : m.entries[k].index = m.prevLogIndex + k
    BY MessageFields DEF GoodMessage
<1>2. m.prevLogIndex \in 0 .. Len(l.entries)
    BY <1>1, LastIndexIsLength DEF MatchesPrevLogTerm, InRange
<1>3. WellFormed(a) /\ Spliced(a.entries, l, m.entries, m.prevLogIndex)
    BY <1>1, <1>2, LogAppendSplices, Zenon
<1> HIDE DEF a
<1>4. Min({m.leaderCommit, LastIndex(a)}) \in Nat
    <2>1. LastIndex(a) \in Nat
        BY <1>3, LastIndexIsLength
    <2> QED
        BY <1>1, <2>1, MinOfTwo
<1>5. /\ WellFormed(CommitTo(a, Min({m.leaderCommit, LastIndex(a)})))
      /\ CommitTo(a, Min({m.leaderCommit, LastIndex(a)})).entries = a.entries
    BY <1>3, <1>4, CommitToWellFormed
<1> QED
    BY <1>3, <1>5 DEF AcceptEntries, a

\* handleAppendEntries keeps the node good, whatever it truncates and commits.
LEMMA HandleAppendEntriesGood ==
    ASSUME NEW i \in Server, NEW n, GoodNode(n),
           NEW m, GoodMessage(m), m.type = "AppendEntries"
    PROVE  GoodResult(HandleAppendEntries(i, n, m))
<1> DEFINE f == RecognizeLeader(n, m)
           success == /\ MatchesPrevLogTerm(f.log, m.prevLogIndex, m.prevLogTerm)
                      /\ Contiguous(m.entries)
           g == IF success THEN [f EXCEPT !.log = AcceptEntries(f.log, m)] ELSE f
<1>1. m \in Message /\ m.from \in Server
    BY MessageFields DEF GoodMessage
<1>2. GoodNode(f)
    BY <1>1, RecognizeLeaderGood
<1>3. success \in BOOLEAN
    OBVIOUS
<1> HIDE DEF f
<1>4. GoodNode(g)
    <2>1. CASE success
        <3>1. WellFormed(AcceptEntries(f.log, m))
            BY <1>2, <2>1, AcceptEntriesGood DEF GoodNode
        <3> QED
            BY <1>2, <2>1, <3>1, WithLogGood
    <2>2. CASE ~success
        BY <1>2, <2>2
    <2> QED
        BY <2>1, <2>2
<1> DEFINE resp == AppendEntriesResp(i, m.from, g.currentTerm, success, LastIndex(g.log))
           stale == AppendEntriesResp(i, m.from, n.currentTerm, FALSE, 0)
<1>5. \/ HandleAppendEntries(i, n, m) = Returns(n, {stale}, FALSE)
      \/ HandleAppendEntries(i, n, m) = Returns(g, {resp}, TRUE)
    BY Zenon DEF HandleAppendEntries, f
<1> HIDE DEF g, success
<1>6. GoodMessage(resp)
    <2>1. g.currentTerm \in Nat /\ LastIndex(g.log) \in Nat
        <3>1. g \in NodeState /\ WellFormed(g.log)
            BY <1>4 DEF GoodNode
        <3> QED
            BY <3>1, LastIndexIsLength DEF NodeState
    <2> QED
        BY <1>1, <1>3, <2>1 DEF GoodMessage, AppendEntriesResp, Message
<1>7. GoodMessage(stale)
    <2>1. n.currentTerm \in Nat
        BY DEF GoodNode, NodeState
    <2> QED
        BY <1>1, <2>1 DEF GoodMessage, AppendEntriesResp, Message
<1> HIDE DEF resp, stale
<1> QED
    BY <1>4, <1>5, <1>6, <1>7 DEF GoodResult, Returns

\* handleAppendEntriesResp keeps the node good, whatever it commits.
LEMMA HandleAppendEntriesRespGood ==
    ASSUME NEW i \in Server, NEW n, GoodNode(n),
           NEW m \in Message, m.type = "AppendEntriesResp"
    PROVE  GoodResult(HandleAppendEntriesResp(i, n, m))
<1> DEFINE p == [n EXCEPT !.matchIndex[m.from] = m.matchIndex,
                          !.nextIndex[m.from]  = m.matchIndex + 1]
           q == [n EXCEPT !.nextIndex[m.from] = IF @ > 1 THEN @ - 1 ELSE @]
<1>1. /\ n \in NodeState /\ WellFormed(n.log)
      /\ m.from \in Server /\ m.term \in Nat /\ m.matchIndex \in Nat
    BY MessageFields DEF GoodNode
<1>2. GoodNode(p)
    <2>1. m.matchIndex + 1 \in Nat
        BY <1>1
    <2>2. p \in NodeState /\ p.log = n.log
        BY <1>1, <2>1, Zenon DEF NodeState
    <2> QED
        BY <1>1, <2>2 DEF GoodNode
<1>3. GoodNode(q)
    <2>1. n.nextIndex[m.from] \in Nat
        BY <1>1 DEF NodeState
    <2> DEFINE x == IF n.nextIndex[m.from] > 1 THEN n.nextIndex[m.from] - 1
                                               ELSE n.nextIndex[m.from]
    <2>2. x \in Nat
        BY <2>1
    <2>3. q = [n EXCEPT !.nextIndex[m.from] = x]
        OBVIOUS
    <2> HIDE DEF x, q
    <2>4. q \in NodeState /\ q.log = n.log
        BY <1>1, <2>2, <2>3 DEF NodeState
    <2> QED
        BY <1>1, <2>4 DEF GoodNode
<1>4. \/ HandleAppendEntriesResp(i, n, m) = StepDown(n, m.term)
      \/ HandleAppendEntriesResp(i, n, m) = Returns(AdvanceCommit(i, p), {}, FALSE)
      \/ HandleAppendEntriesResp(i, n, m) = Returns(q, {}, FALSE)
      \/ HandleAppendEntriesResp(i, n, m) = Returns(n, {}, FALSE)
    BY Zenon DEF HandleAppendEntriesResp
<1> HIDE DEF p, q
<1>5. GoodNode(AdvanceCommit(i, p))
    BY <1>2, AdvanceCommitGood
<1> QED
    BY <1>1, <1>3, <1>4, <1>5, StepDownGood DEF GoodResult, Returns

\* Propose keeps the node good: the new entry's index is its position.
LEMMA NodeProposeGood ==
    ASSUME NEW n, GoodNode(n), NEW cmd \in Command
    PROVE  GoodNode(NodePropose(n, cmd))
<1> DEFINE e == [term |-> n.currentTerm, index |-> LastIndex(n.log) + 1, command |-> cmd]
<1>1. n \in NodeState /\ WellFormed(n.log)
    BY DEF GoodNode
<1>2. /\ LastIndex(n.log) = Len(n.log.entries)
      /\ Len(n.log.entries) \in Nat
      /\ n.currentTerm \in Nat
    BY <1>1, LastIndexIsLength DEF NodeState
<1>3. e \in Entry /\ e.index = Len(n.log.entries) + 1
    BY <1>2 DEF Entry
<1> HIDE DEF e
<1>4. /\ <<e>> \in Seq(Entry)
      /\ \A k \in 1 .. Len(<<e>>) : <<e>>[k].index = Len(n.log.entries) + k
    BY <1>2, <1>3
<1>5. Len(n.log.entries) \in 0 .. Len(n.log.entries)
    BY <1>2
<1>6. WellFormed(LogAppend(n.log, <<e>>))
    BY <1>1, <1>4, <1>5, LogAppendWellFormed, Zenon
<1>7. NodePropose(n, cmd) = [n EXCEPT !.log = LogAppend(n.log, <<e>>)]
    BY DEF NodePropose, e
<1> QED
    BY <1>6, <1>7, WithLogGood

\* Crash keeps the node good.
LEMMA NodeCrashGood ==
    ASSUME NEW n, GoodNode(n)
    PROVE  GoodNode(NodeCrash(n))
<1> DEFINE c == [n EXCEPT !.crashed      = TRUE,
                          !.state        = Follower,
                          !.leaderID     = Nil,
                          !.votesGranted = {},
                          !.nextIndex    = NoIndexes,
                          !.matchIndex   = NoIndexes]
<1>1. n \in NodeState /\ WellFormed(n.log)
    BY DEF GoodNode
<1>2. NoIndexes \in [Server -> Nat]
    BY DEF NoIndexes
<1>3. c \in NodeState /\ c.log = n.log
    BY <1>1, <1>2, Zenon DEF NodeState
<1>4. NodeCrash(n) = c
    BY DEF NodeCrash
<1> QED
    BY <1>1, <1>3, <1>4 DEF GoodNode

\* Filling a new log with the entries of a well-formed one copies them.
LEMMA CopyIntoNewLog ==
    ASSUME NEW es \in Seq(Entry), \A k \in 1 .. Len(es) : es[k].index = k
    PROVE  /\ WellFormed(LogAppend(NewLog, es))
           /\ LogAppend(NewLog, es).entries = es
<1>1. /\ NewLog.entries = <<>> /\ Len(NewLog.entries) = 0
      /\ Len(es) \in Nat
    BY LengthOfSeq DEF NewLog
<1>2. \A k \in 1 .. Len(es) : es[k].index = 0 + k
    BY <1>1
<1>3. 0 \in 0 .. Len(NewLog.entries)
    BY <1>1
<1>4. Contiguous(es) /\ WellFormed(LogAppend(NewLog, es))
    BY <1>2, <1>3, NewLogWellFormed, LogAppendWellFormed
<1>5. \A k \in 1 .. Len(es) : ~InRange(NewLog, es[k].index)
    BY <1>1 DEF InRange
<1>6. Missing(NewLog, es) = 1 .. Len(es)
    BY <1>5 DEF Missing
<1>7. CASE es = <<>>
    <2>1. Missing(NewLog, es) = {}
        BY <1>6, <1>7
    <2> QED
        BY <1>1, <1>4, <1>7, <2>1 DEF LogAppend
<1>8. CASE es # <<>>
    <2>1. 1 \in 1 .. Len(es) /\ 1 .. Len(es) \subseteq Nat
        BY <1>1, <1>8, NoElements
    <2>2. Min(1 .. Len(es)) = 1
        <3>1. Min(1 .. Len(es)) \in 1 .. Len(es) /\ Min(1 .. Len(es)) <= 1
            BY <2>1, MinOfNaturals
        <3> QED
            BY <1>1, <3>1
    <2>3. LogAppend(NewLog, es) = AppendFrom(NewLog, es, 1)
        BY <1>4, <1>6, <2>1, <2>2 DEF LogAppend
    <2>4. AppendFrom(NewLog, es, 1) = AppendTail(NewLog, SubSeq(es, 1, Len(es)))
        BY <1>5, <2>1 DEF AppendFrom
    <2>5. SubSeq(es, 1, Len(es)) = es
        BY WholeSeq
    <2>6. AppendTail(NewLog, es).entries = <<>> \o es
        BY <1>1 DEF AppendTail, NewLog
    <2>7. <<>> \o es = es
        BY TwoSeqs
    <2> QED
        BY <1>4, <2>3, <2>4, <2>5, <2>6, <2>7, Zenon
<1> QED
    BY <1>7, <1>8

\* Restart of a node with a well-formed log always succeeds and brings back its
\* term, vote and entries; everything volatile starts anew.
LEMMA NodeRestartRestores ==
    ASSUME NEW n, GoodNode(n)
    PROVE  /\ NodeRestart(n) = [NewNode EXCEPT !.currentTerm = n.currentTerm,
                                               !.votedFor    = n.votedFor,
                                               !.log         = LogAppend(NewLog, n.log.entries)]
           /\ WellFormed(LogAppend(NewLog, n.log.entries))
           /\ LogAppend(NewLog, n.log.entries).entries = n.log.entries
           /\ GoodNode(NodeRestart(n))
<1> DEFINE es == n.log.entries
           s  == [currentTerm |-> n.currentTerm, votedFor |-> n.votedFor, entries |-> es]
<1>1. n \in NodeState /\ WellFormed(n.log)
    BY DEF GoodNode
<1>2. /\ n.currentTerm \in Nat
      /\ n.votedFor \in Server \cup {Nil}
      /\ es \in Seq(Entry)
      /\ Len(es) \in Nat
      /\ LastIndex(n.log) = Len(es)
      /\ \A k \in 1 .. Len(es) : es[k].index = k
    BY <1>1, LastIndexIsLength DEF NodeState, WellFormed
<1>3. Slice(n.log, 1, LastIndex(n.log) + 1) = es
    <2>1. Max({1, 1}) = 1
        BY MaxOfTwo
    <2>2. Min({LastIndex(n.log) + 1, LastIndex(n.log) + 1}) - 1 = Len(es)
        BY <1>2, MinOfTwo
    <2>3. Slice(n.log, 1, LastIndex(n.log) + 1) = SubSeq(es, 1, Len(es))
        BY <2>1, <2>2, Zenon DEF Slice
    <2> QED
        BY <1>2, <2>3, WholeSeq
<1>4. Persist(n) = Serialize(s)
    BY <1>3 DEF Persist
<1> HIDE DEF es
<1>5. Deserialize(Serialize(s)) = s
    BY <1>2, RoundTrip
<1>6. s # Corrupt
    <2>1. "currentTerm" \in DOMAIN s /\ "currentTerm" \notin DOMAIN Corrupt
        BY DEF Corrupt
    <2> QED
        BY <2>1
<1>7. /\ WellFormed(LogAppend(NewLog, es))
      /\ LogAppend(NewLog, es).entries = es
    BY <1>2, CopyIntoNewLog
<1> DEFINE r == [NewNode EXCEPT !.currentTerm = n.currentTerm,
                                !.votedFor    = n.votedFor,
                                !.log         = LogAppend(NewLog, es)]
<1>8. NodeRestart(n) = r
    <2>1. s.currentTerm = n.currentTerm /\ s.votedFor = n.votedFor /\ s.entries = es
        OBVIOUS
    <2> HIDE DEF s
    <2>2. Deserialize(Persist(n)) = s
        BY <1>4, <1>5
    <2> QED
        BY <1>6, <2>1, <2>2, Zenon DEF NodeRestart
<1>9. GoodNode(r)
    <2>1. NewNode \in NodeState
        BY NewNodeGood DEF GoodNode
    <2>2. LogAppend(NewLog, es) \in Log
        BY <1>7 DEF WellFormed
    <2>3. r \in NodeState /\ r.log = LogAppend(NewLog, es)
        BY <1>2, <2>1, <2>2, Zenon DEF NodeState
    <2> QED
        BY <1>7, <2>3 DEF GoodNode
<1> QED
    BY <1>7, <1>8, <1>9 DEF es

(***************************************************************************)
(* What a node's own messages, its proposals, a crash and a restart do to  *)
(* it.                                                                     *)
(***************************************************************************)

\* A batch that the log holds changes nothing (log.go:134-162).
LEMMA HeldBatch ==
    ASSUME NEW l, WellFormed(l), NEW m, GoodMessage(m), m.type = "AppendEntries", IsPartOfLog(m, l)
    PROVE  /\ LogAppend(l, m.entries) = l
           /\ Contiguous(m.entries)
           /\ MatchesPrevLogTerm(l, m.prevLogIndex, m.prevLogTerm)
<1>. DEFINE es == m.entries
            prev == m.prevLogIndex
            n == Len(l.entries)
<1>1. /\ l.entries \in Seq(Entry) /\ n \in Nat
      /\ es \in Seq(Entry) /\ Len(es) \in Nat /\ prev \in Nat
      /\ \A k \in 1 .. Len(es) : es[k].index = prev + k
    BY LastIndexIsLength, MessageFields, LengthOfSeq DEF GoodMessage
<1>2. /\ prev + Len(es) <= n
      /\ prev # 0 => m.prevLogTerm = l.entries[prev].term
      /\ \A k \in 1 .. Len(es) : es[k] = l.entries[prev + k]
    BY DEF IsPartOfLog
<1>. HIDE DEF es, prev, n
<1>3. ASSUME NEW k \in 1 .. Len(es)
      PROVE  InRange(l, es[k].index) /\ TermAt(l, es[k].index) = es[k].term
    <2>1. es[k].index = prev + k /\ prev + k # 0 /\ prev + k <= n
        BY <1>1, <1>2
    <2>2. es[k] = l.entries[prev + k]
        BY <1>2
    <2>. QED
        BY <2>1, <2>2 DEF InRange, TermAt, At, n
<1>4. Missing(l, es) = {}
    BY <1>3 DEF Missing
<1>5. LogAppend(l, es) = l
    BY <1>4 DEF LogAppend
<1>6. Contiguous(es)
    <2>1. ASSUME NEW k \in 2 .. Len(es) PROVE es[k].index = es[k - 1].index + 1
        <3>1. k \in 1 .. Len(es) /\ k - 1 \in 1 .. Len(es)
            BY <1>1
        <3>2. es[k].index = prev + k /\ es[k - 1].index = prev + (k - 1)
            BY <1>1, <3>1
        <3>. QED
            BY <1>1, <3>1, <3>2
    <2>. QED
        BY <2>1 DEF Contiguous
<1>7. MatchesPrevLogTerm(l, prev, m.prevLogTerm)
    <2>1. CASE prev = 0
        BY <2>1 DEF MatchesPrevLogTerm
    <2>2. CASE prev # 0
        <3>1. prev <= n /\ m.prevLogTerm = l.entries[prev].term
            BY <1>1, <1>2, <2>2
        <3>. QED
            BY <2>2, <3>1 DEF MatchesPrevLogTerm, InRange, TermAt, At, n
    <2>. QED
        BY <2>1, <2>2
<1>. QED
    BY <1>5, <1>6, <1>7 DEF es, prev

\* What recognizing a leader of the same term changes (node.go:410-418).
LEMMA RecognizeOwn ==
    ASSUME NEW n, GoodNode(n), NEW m \in Message, m.term = n.currentTerm
    PROVE  LET f == RecognizeLeader(n, m)
           IN  /\ f.currentTerm = n.currentTerm /\ f.state # Leader
               /\ f.leaderID = m.from
<1>. DEFINE f == IF n.state # Follower \/ m.term > n.currentTerm
                 THEN [n EXCEPT !.currentTerm = m.term,
                                !.state       = Follower,
                                !.votedFor    = Nil]
                 ELSE n
<1>1. n \in NodeState /\ m.from \in Server /\ m.term \in Nat
    BY MessageFields DEF GoodNode
<1>2. f \in NodeState /\ f.currentTerm = n.currentTerm /\ f.state = Follower
    <2>1. CASE n.state # Follower \/ m.term > n.currentTerm
        BY <1>1, <2>1, Zenon DEF NodeState, Follower
    <2>2. CASE ~(n.state # Follower \/ m.term > n.currentTerm)
        BY <1>1, <2>2
    <2>. QED
        BY <2>1, <2>2
<1>3. RecognizeLeader(n, m) = [f EXCEPT !.leaderID = m.from]
    BY DEF RecognizeLeader
<1>. HIDE DEF f
<1>4. /\ [f EXCEPT !.leaderID = m.from].currentTerm = f.currentTerm
      /\ [f EXCEPT !.leaderID = m.from].state = f.state
      /\ [f EXCEPT !.leaderID = m.from].leaderID = m.from
    BY <1>1, <1>2, Zenon DEF NodeState
<1>. QED
    BY <1>2, <1>3, <1>4 DEF Follower, Leader

\* A heartbeat of its own makes a leader a follower and may raise a commit index that
\* a restart has lowered; it stores nothing (node.go:406-444).
LEMMA OwnHeartbeat ==
    ASSUME NEW i \in Server, NEW n, GoodNode(n), NEW m, GoodMessage(m),
           m.type = "AppendEntries", m.from = i, m.term <= n.currentTerm, IsPartOfLog(m, n.log)
    PROVE  LET x == HandleAppendEntries(i, n, m).node
           IN  /\ x.currentTerm = n.currentTerm
               /\ x.log.entries = n.log.entries
               /\ x.state = Leader => n.state = Leader
               /\ x.leaderID \in {n.leaderID, i}
               /\ \/ x.log.commitIndex = n.log.commitIndex
                  \/ m.leaderCommit > n.log.commitIndex /\ x.log.commitIndex <= m.leaderCommit
<1>. DEFINE f == RecognizeLeader(n, m)
            l == n.log
            a == AcceptEntries(l, m)
            x == HandleAppendEntries(i, n, m).node
<1>0. /\ n \in NodeState /\ WellFormed(l) /\ m \in Message /\ m.term \in Nat
      /\ n.currentTerm \in Nat /\ m.leaderCommit \in Nat
    BY MessageFields DEF GoodNode, GoodMessage, NodeState
<1>1. CASE m.term < n.currentTerm
    <2>1. x = n
        BY <1>1 DEF HandleAppendEntries, Returns
    <2>. QED
        BY <2>1
<1>2. CASE m.term = n.currentTerm
    <2>1. /\ f.log = l /\ f \in NodeState
          /\ f.currentTerm = n.currentTerm /\ f.state # Leader /\ f.leaderID = i
        BY <1>0, <1>2, RecognizeOwn, RecognizeLeaderGood DEF GoodNode
    <2>2. /\ LogAppend(l, m.entries) = l
          /\ MatchesPrevLogTerm(l, m.prevLogIndex, m.prevLogTerm) /\ Contiguous(m.entries)
        BY <1>0, HeldBatch
    <2>3. x = [f EXCEPT !.log = a]
        <3>1. ~(m.term < n.currentTerm)
            BY <1>0, <1>2
        <3>2. x = IF MatchesPrevLogTerm(f.log, m.prevLogIndex, m.prevLogTerm) /\ Contiguous(m.entries)
                  THEN [f EXCEPT !.log = AcceptEntries(f.log, m)] ELSE f
            BY <3>1, Zenon DEF HandleAppendEntries, Returns
        <3>. HIDE DEF f, x
        <3>. QED
            BY <2>1, <2>2, <3>2
    <2>. HIDE DEF f, x
    <2>4. /\ x.currentTerm = f.currentTerm /\ x.state = f.state /\ x.leaderID = f.leaderID
          /\ x.log = a
        BY <2>1, <2>3, Zenon DEF NodeState
    <2>5. l \in Log /\ l.commitIndex \in Nat /\ LastIndex(l) \in Nat
        BY <1>0, LastIndexIsLength DEF WellFormed, Log
    <2>6. CASE m.leaderCommit > l.commitIndex
        <3>. DEFINE c == Min({m.leaderCommit, LastIndex(l)})
        <3>1. c \in Nat /\ c <= m.leaderCommit
            BY <1>0, <2>5, MinOfTwo
        <3>. HIDE DEF c
        <3>2. a = CommitTo(l, c)
            BY <2>2, <2>6 DEF AcceptEntries, c
        <3>. HIDE DEF a
        <3>3. /\ a.entries = l.entries
              /\ a.commitIndex = l.commitIndex \/ a.commitIndex = c
            BY <2>5, <3>2 DEF CommitTo, Log
        <3>. QED
            BY <2>1, <2>4, <2>6, <3>1, <3>3 DEF x
    <2>7. CASE ~(m.leaderCommit > l.commitIndex)
        <3>1. a = l
            BY <2>2, <2>7 DEF AcceptEntries
        <3>. QED
            BY <2>1, <2>4, <3>1 DEF x
    <2>. QED
        BY <2>6, <2>7
<1>3. m.term < n.currentTerm \/ m.term = n.currentTerm
    <2>1. m.term <= n.currentTerm
        OBVIOUS
    <2>. QED
        BY <1>0, <2>1
<1>. QED
    BY <1>1, <1>2, <1>3, Zenon

\* A vote request of its own changes at most the vote (node.go:371-388).
LEMMA OwnVoteRequest ==
    ASSUME NEW i \in Server, NEW n, GoodNode(n), NEW m \in Message, m.term <= n.currentTerm
    PROVE  LET x == HandleRequestVote(i, n, m).node
           IN  /\ x.currentTerm = n.currentTerm /\ x.log = n.log
               /\ x.state = n.state /\ x.leaderID = n.leaderID
<1>. DEFINE x == HandleRequestVote(i, n, m).node
<1>0. n \in NodeState /\ n.currentTerm \in Nat /\ m.term \in Nat
    BY MessageFields DEF GoodNode, NodeState
<1>1. ~(m.term > n.currentTerm)
    BY <1>0
<1>2. x = n \/ x = [n EXCEPT !.votedFor = m.from]
    BY <1>1, Zenon DEF HandleRequestVote, Returns
<1>. HIDE DEF x
<1>3. [n EXCEPT !.votedFor = m.from].currentTerm = n.currentTerm
          /\ [n EXCEPT !.votedFor = m.from].log = n.log
          /\ [n EXCEPT !.votedFor = m.from].state = n.state
          /\ [n EXCEPT !.votedFor = m.from].leaderID = n.leaderID
    BY <1>0 DEF NodeState
<1>. QED
    BY <1>2, <1>3, Zenon DEF x

\* Propose adds one entry at the end (node.go:510-524).
LEMMA ProposeAddsOne ==
    ASSUME NEW n, GoodNode(n), NEW cmd \in Command
    PROVE  LET x == NodePropose(n, cmd)
           IN  /\ x.currentTerm = n.currentTerm /\ x.leaderID = n.leaderID
               /\ x.state = n.state /\ x.crashed = n.crashed
               /\ x.log.commitIndex = n.log.commitIndex
               /\ \E e \in Entry : x.log.entries = Append(n.log.entries, e)
<1>. DEFINE l == n.log
            e == [term |-> n.currentTerm, index |-> LastIndex(l) + 1, command |-> cmd]
            a == LogAppend(l, <<e>>)
            x == NodePropose(n, cmd)
<1>1. n \in NodeState /\ WellFormed(l) /\ l \in Log
    BY DEF GoodNode, WellFormed
<1>2. /\ l.entries \in Seq(Entry) /\ Len(l.entries) \in Nat
      /\ LastIndex(l) = Len(l.entries) /\ n.currentTerm \in Nat
    BY <1>1, LastIndexIsLength DEF NodeState
<1>3. e \in Entry /\ e.index = Len(l.entries) + 1
    BY <1>2 DEF Entry
<1>4. x = [n EXCEPT !.log = a]
    BY DEF NodePropose
<1>. HIDE DEF e, l
<1>5. Contiguous(<<e>>) /\ Missing(l, <<e>>) = {1}
    BY <1>2, <1>3 DEF Contiguous, Missing, InRange
<1>6. Min({1}) = 1
    BY DEF Min
<1>7. a = AppendTail(l, SubSeq(<<e>>, 1, 1))
    <2>1. <<e>>[1] = e /\ Len(<<e>>) = 1 /\ ~InRange(l, e.index) /\ {1} # {}
        BY <1>2, <1>3 DEF InRange
    <2>. QED
        BY <1>5, <1>6, <2>1, Zenon DEF LogAppend, AppendFrom
<1>8. SubSeq(<<e>>, 1, 1) = <<e>>
    <2>1. <<e>> \in Seq(Entry) /\ Len(<<e>>) = 1
        BY <1>3
    <2>. QED
        BY <2>1, WholeSeq, Zenon
<1>. HIDE DEF a, x
<1>9. a.entries = l.entries \o <<e>> /\ a.commitIndex = l.commitIndex
    BY <1>1, <1>7, <1>8 DEF AppendTail, Log
<1>10. l.entries \o <<e>> = Append(l.entries, e)
    BY <1>2, <1>3, OneMore
<1>11. /\ x.currentTerm = n.currentTerm /\ x.leaderID = n.leaderID
       /\ x.state = n.state /\ x.crashed = n.crashed /\ x.log = a
    BY <1>1, <1>4, Zenon DEF NodeState
<1>. QED
    BY <1>3, <1>9, <1>10, <1>11 DEF x, l

\* A restarted node has its term and its entries back, and nothing committed
\* (node.go:545-575).
LEMMA RestartedNode ==
    ASSUME NEW n, GoodNode(n)
    PROVE  LET x == NodeRestart(n)
           IN  /\ x.currentTerm = n.currentTerm /\ x.leaderID = Nil /\ x.state = Follower
               /\ x.log.entries = n.log.entries /\ x.log.commitIndex = 0 /\ ~x.crashed
<1>. DEFINE x == NodeRestart(n)
            es == n.log.entries
            a == LogAppend(NewLog, es)
<1>1. x = [NewNode EXCEPT !.currentTerm = n.currentTerm, !.votedFor = n.votedFor, !.log = a]
      /\ a.entries = es
    BY NodeRestartRestores, Zenon
<1>2. /\ es \in Seq(Entry) /\ Len(es) \in Nat
      /\ \A k \in 1 .. Len(es) : es[k].index = k
    BY LastIndexIsLength, LengthOfSeq DEF GoodNode, WellFormed
<1>3. a.commitIndex = 0
    <2>0. NewLog.commitIndex = 0 /\ Len(NewLog.entries) = 0
        BY DEF NewLog
    <2>1. CASE Contiguous(es) /\ Missing(NewLog, es) # {}
        <3>. DEFINE k == Min(Missing(NewLog, es))
        <3>1. Missing(NewLog, es) \subseteq 1 .. Len(es) /\ Missing(NewLog, es) \subseteq Nat
            BY <1>2 DEF Missing
        <3>2. k \in 1 .. Len(es)
            BY <2>1, <3>1, MinOfNaturals
        <3>3. a = AppendFrom(NewLog, es, k)
            BY <2>1 DEF LogAppend
        <3>. HIDE DEF k
        <3>4. ~InRange(NewLog, es[k].index)
            BY <1>2, <2>0, <3>2 DEF InRange
        <3>5. a = AppendTail(NewLog, SubSeq(es, k, Len(es)))
            BY <3>3, <3>4 DEF AppendFrom
        <3>. QED
            BY <3>5 DEF AppendTail, NewLog
    <2>2. CASE ~(Contiguous(es) /\ Missing(NewLog, es) # {})
        <3>1. a = NewLog
            BY <2>2 DEF LogAppend
        <3>. QED
            BY <2>0, <3>1
    <2>. QED
        BY <2>1, <2>2
<1>. HIDE DEF a, x
<1>4. /\ x.currentTerm = n.currentTerm /\ x.leaderID = Nil /\ x.state = Follower
      /\ x.log = a /\ x.crashed = FALSE
    BY <1>1, Zenon DEF NewNode
<1>. QED
    BY <1>1, <1>3, <1>4 DEF x

\* A crash keeps the term and the log (node.go:528-540).
LEMMA CrashedNode ==
    ASSUME NEW n, GoodNode(n)
    PROVE  LET x == NodeCrash(n)
           IN  /\ x.currentTerm = n.currentTerm /\ x.leaderID = Nil /\ x.state = Follower
               /\ x.log = n.log
BY Zenon DEF NodeCrash, GoodNode, NodeState

\* A node answers in its own name (node.go:371-465).
LEMMA HandlersAnswerForThemselves ==
    ASSUME NEW i \in Server, NEW n, NEW m \in Message
    PROVE  /\ \A a \in HandleRequestVote(i, n, m).out : a.from = i
           /\ \A a \in HandleRequestVoteResp(i, n, m).out : a.from = i
           /\ \A a \in HandleAppendEntries(i, n, m).out : a.from = i
           /\ \A a \in HandleAppendEntriesResp(i, n, m).out : a.from = i
<1>1. \A k, t, g : RequestVoteResp(i, k, t, g).from = i
    BY DEF RequestVoteResp
<1>2. \A k, t, g, x : AppendEntriesResp(i, k, t, g, x).from = i
    BY DEF AppendEntriesResp
<1>3. \A x : \A a \in BroadcastAppendEntries(i, x) : a.from = i
    BY DEF BroadcastAppendEntries, AppendEntriesTo, AppendEntries
<1>4. \A x : \A a \in BecomeLeader(i, x).out : a.from = i
    BY <1>3 DEF BecomeLeader, Returns
<1>5. \A x, t : StepDown(x, t).out = {}
    BY DEF StepDown, Returns
<1>6. \A x, o, b : Returns(x, o, b).out = o
    BY DEF Returns
<1>7. \A a \in HandleRequestVote(i, n, m).out : a.from = i
    BY <1>1, Zenon DEF HandleRequestVote, Returns
<1>8. \A a \in HandleRequestVoteResp(i, n, m).out : a.from = i
    BY <1>4, <1>5, <1>6, Zenon DEF HandleRequestVoteResp
<1>9. \A a \in HandleAppendEntries(i, n, m).out : a.from = i
    <2>. DEFINE f       == RecognizeLeader(n, m)
                success == /\ MatchesPrevLogTerm(f.log, m.prevLogIndex, m.prevLogTerm)
                           /\ Contiguous(m.entries)
                g       == IF success THEN [f EXCEPT !.log = AcceptEntries(@, m)] ELSE f
                no      == AppendEntriesResp(i, m.from, n.currentTerm, FALSE, 0)
                yes     == AppendEntriesResp(i, m.from, g.currentTerm, success, LastIndex(g.log))
    <2>1. HandleAppendEntries(i, n, m) =
              IF m.term < n.currentTerm THEN Returns(n, {no}, FALSE) ELSE Returns(g, {yes}, TRUE)
        BY Zenon DEF HandleAppendEntries
    <2>2. no.from = i /\ yes.from = i
        BY <1>2, Zenon
    <2>. HIDE DEF f, success, g, no, yes
    <2>3. HandleAppendEntries(i, n, m).out \in {{no}, {yes}}
        <3>1. Returns(n, {no}, FALSE).out = {no} /\ Returns(g, {yes}, TRUE).out = {yes}
            BY <1>6, Zenon
        <3>. QED
            BY <2>1, <3>1, Zenon
    <2>. QED
        BY <2>2, <2>3
<1>10. \A a \in HandleAppendEntriesResp(i, n, m).out : a.from = i
    BY <1>5, <1>6 DEF HandleAppendEntriesResp
<1>. QED
    BY <1>7, <1>8, <1>9, <1>10

\* Handling a message does not crash a node (node.go:371-465).
LEMMA HandlersKeepRunning ==
    ASSUME NEW i \in Server, NEW n, GoodNode(n), NEW m \in Message, ~n.crashed
    PROVE  /\ ~HandleRequestVote(i, n, m).node.crashed
           /\ ~HandleRequestVoteResp(i, n, m).node.crashed
           /\ ~HandleAppendEntries(i, n, m).node.crashed
           /\ ~HandleAppendEntriesResp(i, n, m).node.crashed
<1>0. n \in NodeState
    BY DEF GoodNode
<1>1. ~HandleRequestVote(i, n, m).node.crashed
    <2>. DEFINE f == IF m.term > n.currentTerm
                     THEN [n EXCEPT !.currentTerm = m.term,
                                    !.votedFor    = Nil,
                                    !.state       = Follower,
                                    !.leaderID    = Nil]
                     ELSE n
                x == HandleRequestVote(i, n, m).node
    <2>1. f.crashed = n.crashed
        BY <1>0, Zenon DEF NodeState
    <2>2. [f EXCEPT !.votedFor = m.from].crashed = f.crashed
        BY <1>0, Zenon DEF NodeState
    <2>3. x = f \/ x = [f EXCEPT !.votedFor = m.from]
        BY DEF HandleRequestVote, Returns
    <2>. HIDE DEF f, x
    <2>. QED
        BY <2>1, <2>2, <2>3, Zenon DEF x
<1>2. ~HandleRequestVoteResp(i, n, m).node.crashed
    <2>. DEFINE c == IF (m.term = n.currentTerm /\ n.state = Candidate) /\ m.granted
                     THEN [n EXCEPT !.votesGranted = @ \cup {m.from}]
                     ELSE n
                x == HandleRequestVoteResp(i, n, m).node
    <2>1. c.crashed = n.crashed
        BY <1>0, Zenon DEF NodeState
    <2>2. BecomeLeader(i, c).node.crashed = c.crashed
        <3>1. DOMAIN c = DOMAIN n /\ "crashed" \in DOMAIN n
            BY <1>0 DEF NodeState
        <3>. HIDE DEF c
        <3>. QED
            BY <1>0, <3>1, Zenon DEF BecomeLeader, Returns
    <2>3. StepDown(n, m.term).node.crashed = n.crashed
        BY <1>0, Zenon DEF StepDown, Returns, NodeState
    <2>4. x = StepDown(n, m.term).node \/ x = BecomeLeader(i, c).node \/ x = c
        <3>1. Returns(c, {}, FALSE).node = c
            BY DEF Returns
        <3>. QED
            BY <3>1, Zenon DEF HandleRequestVoteResp
    <2>. HIDE DEF c, x
    <2>. QED
        BY <2>1, <2>2, <2>3, <2>4 DEF x
<1>3. ~HandleAppendEntries(i, n, m).node.crashed
    <2>. DEFINE f == IF n.state # Follower \/ m.term > n.currentTerm
                     THEN [n EXCEPT !.currentTerm = m.term,
                                    !.state       = Follower,
                                    !.votedFor    = Nil]
                     ELSE n
                g == RecognizeLeader(n, m)
                x == HandleAppendEntries(i, n, m).node
    <2>1. f.crashed = n.crashed /\ DOMAIN f = DOMAIN n /\ "crashed" \in DOMAIN n
        BY <1>0, Zenon DEF NodeState
    <2>2. g = [f EXCEPT !.leaderID = m.from]
        BY DEF RecognizeLeader
    <2>. HIDE DEF f
    <2>3. g.crashed = n.crashed /\ DOMAIN g = DOMAIN n
        BY <2>1, <2>2
    <2>4. x = n \/ x = g \/ x = [g EXCEPT !.log = AcceptEntries(g.log, m)]
        BY Zenon DEF HandleAppendEntries, Returns
    <2>. HIDE DEF g, x
    <2>. QED
        BY <2>1, <2>3, <2>4 DEF x
<1>4. ~HandleAppendEntriesResp(i, n, m).node.crashed
    <2>. DEFINE a == [n EXCEPT !.matchIndex[m.from] = m.matchIndex,
                               !.nextIndex[m.from]  = m.matchIndex + 1]
                k == [n EXCEPT !.nextIndex[m.from] = IF @ > 1 THEN @ - 1 ELSE @]
                x == HandleAppendEntriesResp(i, n, m).node
    <2>1. /\ a.crashed = n.crashed /\ DOMAIN a = DOMAIN n /\ "crashed" \in DOMAIN n
          /\ k.crashed = n.crashed
        BY <1>0, Zenon DEF NodeState
    <2>2. StepDown(n, m.term).node.crashed = n.crashed
        BY <1>0, Zenon DEF StepDown, Returns, NodeState
    <2>3. x = StepDown(n, m.term).node \/ x = AdvanceCommit(i, a) \/ x = k \/ x = n
        <3>1. \A z : Returns(z, {}, FALSE).node = z
            BY DEF Returns
        <3>. QED
            BY <3>1, Zenon DEF HandleAppendEntriesResp
    <2>. HIDE DEF a, k, x
    <2>4. AdvanceCommit(i, a).crashed = a.crashed
        BY <2>1 DEF AdvanceCommit
    <2>. QED
        BY <2>1, <2>2, <2>3, <2>4 DEF x
<1>. QED
    BY <1>1, <1>2, <1>3, <1>4

-----------------------------------------------------------------------------
(***************************************************************************)
(* One message, as far as votes are concerned.                             *)
(***************************************************************************)

\* Node n becomes z by giving the vote that m asks for.
GivesVote(n, m, z) ==
    /\ m.type = "RequestVote" /\ z.currentTerm = m.term /\ z.votedFor = m.from
    /\ m.term > n.currentTerm \/ n.votedFor \in {Nil, m.from}

\* Candidate n becomes z, in the same term, with no vote but those it had and m.
Counts(n, m, z) ==
    /\ n.state = Candidate /\ z.currentTerm = n.currentTerm
    /\ \A u \in z.votesGranted :
         \/ u \in n.votesGranted
         \/ m.type = "RequestVoteResp" /\ m.granted /\ m.term = n.currentTerm /\ u = m.from

\* What handling m at node i, in state n, may do if it returns r.
Votes(i, n, m, r) ==
    LET z == r.node
    IN  /\ z.currentTerm = IF m.term > n.currentTerm THEN m.term ELSE n.currentTerm
        /\ \/ z.currentTerm = n.currentTerm /\ z.votedFor = n.votedFor
           \/ z.currentTerm > n.currentTerm /\ z.votedFor = Nil
           \/ GivesVote(n, m, z)
           \/ m.type = "AppendEntries" /\ m.term = n.currentTerm
        /\ z.state = Candidate => Counts(n, m, z)
        /\ z.state = Leader => n.state = Leader \/ (Counts(n, m, z) /\ CountVotes(i, z) >= Majority(i))
        /\ \A a \in r.out :
             /\ a.type # "RequestVote" /\ a.term = z.currentTerm
             /\ a.type = "RequestVoteResp" /\ a.granted => GivesVote(n, m, z) /\ a.to = m.from

\* handleRequestVote (node.go:371-388).
LEMMA RequestVoteVotes ==
    ASSUME NEW i \in Server, NEW n \in NodeState, NEW m \in Message, m.type = "RequestVote"
    PROVE  Votes(i, n, m, HandleRequestVote(i, n, m))
<1>. DEFINE later == m.term > n.currentTerm
            f == IF later
                 THEN [n EXCEPT !.currentTerm = m.term,
                                !.votedFor    = Nil,
                                !.state       = Follower,
                                !.leaderID    = Nil]
                 ELSE n
            grant == /\ m.term >= n.currentTerm
                     /\ f.votedFor \in {Nil, m.from}
                     /\ IsUpToDate(f, m.lastLogIndex, m.lastLogTerm)
            a == RequestVoteResp(i, m.from, f.currentTerm, grant)
            r == HandleRequestVote(i, n, m)
            z == r.node
<1>1. m.term \in Nat /\ n.currentTerm \in Nat
    BY MessageFields DEF NodeState
<1>2. r.node = (IF grant THEN [f EXCEPT !.votedFor = m.from] ELSE f) /\ r.out = {a}
    BY DEF HandleRequestVote, Returns
<1>3. later => /\ f.currentTerm = m.term /\ f.votedFor = Nil /\ f.state = Follower
               /\ DOMAIN f = DOMAIN n
    BY Zenon DEF NodeState
<1>4. ~later => f = n
    OBVIOUS
<1>5. grant => f.votedFor \in {Nil, m.from} /\ m.term >= n.currentTerm
    OBVIOUS
<1>6. a.type = "RequestVoteResp" /\ a.term = f.currentTerm /\ a.granted = grant /\ a.to = m.from
    BY DEF RequestVoteResp
<1>7. {"currentTerm", "votedFor", "state", "votesGranted"} \subseteq DOMAIN n
    BY DEF NodeState
<1>. HIDE DEF f, grant, a, r
<1>8. /\ z.currentTerm = f.currentTerm /\ z.state = f.state /\ z.votesGranted = f.votesGranted
      /\ grant => z.votedFor = m.from
      /\ ~grant => z.votedFor = f.votedFor
    BY <1>2, <1>3, <1>4, <1>7
<1>9. grant \in BOOLEAN
    BY DEF grant
<1>. HIDE DEF z
<1>10. z.currentTerm = IF later THEN m.term ELSE n.currentTerm
    BY <1>3, <1>4, <1>8
<1>11. grant => GivesVote(n, m, z)
    BY <1>1, <1>3, <1>4, <1>5, <1>8, <1>10 DEF GivesVote
<1>12. ~grant => \/ z.currentTerm = n.currentTerm /\ z.votedFor = n.votedFor
                 \/ z.currentTerm > n.currentTerm /\ z.votedFor = Nil
    BY <1>1, <1>3, <1>4, <1>8
<1>13. z.state = Candidate => Counts(n, m, z)
    <2>1. z.state = Candidate => ~later
        BY <1>3, <1>8 DEF Candidate, Follower
    <2>. QED
        BY <1>4, <1>8, <2>1, Zenon DEF Counts
<1>14. z.state = Leader => n.state = Leader
    BY <1>3, <1>4, <1>8, Zenon DEF Leader, Follower
<1>15. ASSUME NEW b \in r.out
       PROVE  /\ b.type # "RequestVote" /\ b.term = z.currentTerm
              /\ b.type = "RequestVoteResp" /\ b.granted => GivesVote(n, m, z) /\ b.to = m.from
    <2>1. b = a
        BY <1>2
    <2>. QED
        BY <1>6, <1>8, <1>9, <1>11, <2>1
<1>. QED
    BY <1>9, <1>10, <1>11, <1>12, <1>13, <1>14, <1>15, Zenon DEF Votes, z, r

\* stepDown (node.go:496-506), as the two answers call it.
LEMMA StepDownVotes ==
    ASSUME NEW i \in Server, NEW n \in NodeState, NEW m \in Message, m.term > n.currentTerm
    PROVE  Votes(i, n, m, StepDown(n, m.term))
<1>. DEFINE r == StepDown(n, m.term)
            z == r.node
<1>1. z.currentTerm = m.term /\ z.votedFor = Nil /\ z.state = Follower
    BY Zenon DEF StepDown, Returns, NodeState
<1>2. r.out = {}
    BY DEF StepDown, Returns
<1>3. Follower # Leader /\ Follower # Candidate
    BY DEF Follower, Candidate, Leader
<1>4. z.state # Leader /\ z.state # Candidate /\ z.currentTerm > n.currentTerm
    BY <1>1, <1>3, Zenon
<1>. HIDE DEF r
<1>5. Votes(i, n, m, r)
    BY <1>1, <1>2, <1>4, Zenon DEF Votes
<1>. QED
    BY <1>5 DEF r

\* A node that keeps its term, its vote and its state and sends nothing.
LEMMA NothingVotes ==
    ASSUME NEW i \in Server, NEW n \in NodeState, NEW m \in Message, ~(m.term > n.currentTerm),
           NEW z, z.currentTerm = n.currentTerm, z.votedFor = n.votedFor,
           z.state = n.state, z.votesGranted = n.votesGranted
    PROVE  Votes(i, n, m, Returns(z, {}, FALSE))
<1>. DEFINE r == Returns(z, {}, FALSE)
<1>1. r.node = z /\ r.out = {}
    BY DEF Returns
<1>2. z.state = Candidate => Counts(n, m, z)
    BY Zenon DEF Counts
<1>. HIDE DEF r
<1>3. Votes(i, n, m, r)
    BY <1>1, <1>2 DEF Votes
<1>. QED
    BY <1>3, Zenon DEF r

\* handleRequestVoteResp (node.go:390-404).
LEMMA RequestVoteRespVotes ==
    ASSUME NEW i \in Server, NEW n \in NodeState, NEW m \in Message, m.type = "RequestVoteResp"
    PROVE  Votes(i, n, m, HandleRequestVoteResp(i, n, m))
<1>. DEFINE counts == m.term = n.currentTerm /\ n.state = Candidate
            c == IF counts /\ m.granted
                 THEN [n EXCEPT !.votesGranted = n.votesGranted \cup {m.from}]
                 ELSE n
            r == HandleRequestVoteResp(i, n, m)
            w == Returns(c, {}, FALSE)
<1>0. m.term \in Nat /\ n.currentTerm \in Nat
    BY MessageFields DEF NodeState
<1>1. /\ c.currentTerm = n.currentTerm /\ c.votedFor = n.votedFor /\ c.state = n.state
      /\ DOMAIN c = DOMAIN n
      /\ c.votesGranted = IF counts /\ m.granted THEN n.votesGranted \cup {m.from}
                                                 ELSE n.votesGranted
    <2>1. CASE counts /\ m.granted
        BY <2>1, Zenon DEF NodeState
    <2>2. CASE ~(counts /\ m.granted)
        BY <2>2, Zenon
    <2>. QED
        BY <2>1, <2>2, Zenon
<1>2. w.node = c /\ w.out = {}
    BY DEF Returns
<1>. HIDE DEF c, w
<1>3. c.state = Candidate => Counts(n, m, c)
    BY <1>1 DEF Counts
<1>4. CASE m.term > n.currentTerm
    <2>1. r = StepDown(n, m.term)
        BY <1>4 DEF HandleRequestVoteResp
    <2>. HIDE DEF r
    <2>2. Votes(i, n, m, r)
        BY <1>4, <2>1, StepDownVotes
    <2>. QED
        BY <2>2 DEF r
<1>5. CASE ~(m.term > n.currentTerm) /\ counts /\ CountVotes(i, c) >= Majority(i)
    <2>. DEFINE l == [c EXCEPT !.state      = Leader,
                               !.leaderID   = i,
                               !.nextIndex  = [p \in Server |->
                                    IF p \in Peers[i] THEN LastIndex(c.log) + 1 ELSE 0],
                               !.matchIndex = NoIndexes]
    <2>1. r = BecomeLeader(i, c)
        BY <1>5, Zenon DEF HandleRequestVoteResp, c
    <2>2. r.node = l /\ r.out = BroadcastAppendEntries(i, l)
        BY <2>1 DEF BecomeLeader, Returns
    <2>3. {"currentTerm", "votedFor", "state", "votesGranted"} \subseteq DOMAIN n
        BY DEF NodeState
    <2>4. /\ l.currentTerm = c.currentTerm /\ l.votedFor = c.votedFor
          /\ l.votesGranted = c.votesGranted /\ l.state = Leader
        BY <1>1, <2>3
    <2>. HIDE DEF l, r
    <2>5. \A a \in BroadcastAppendEntries(i, l) : a.type = "AppendEntries" /\ a.term = l.currentTerm
        BY DEF BroadcastAppendEntries, AppendEntriesTo, AppendEntries
    <2>6. CountVotes(i, l) = CountVotes(i, c)
        BY <2>4, Zenon DEF CountVotes
    <2>7. Counts(n, m, l)
        BY <1>1, <1>3, <1>5, <2>4, Zenon DEF Counts
    <2>8. CountVotes(i, l) >= Majority(i)
        BY <1>5, <2>6, Zenon
    <2>9. Leader # Candidate
        BY DEF Leader, Candidate
    <2>10. \A a \in r.out : a.type # "RequestVote" /\ a.type # "RequestVoteResp"
        BY <2>2, <2>5
    <2>11. Votes(i, n, m, r)
        BY <1>1, <1>5, <2>2, <2>4, <2>5, <2>7, <2>8, <2>9, <2>10, Zenon DEF Votes
    <2>. QED
        BY <2>11 DEF r
<1>6. CASE ~(m.term > n.currentTerm) /\ ~(counts /\ CountVotes(i, c) >= Majority(i))
    <2>1. r = w
        BY <1>6, Zenon DEF HandleRequestVoteResp, c, w
    <2>. HIDE DEF r
    <2>2. Votes(i, n, m, r)
        BY <1>1, <1>2, <1>3, <1>6, <2>1, Zenon DEF Votes
    <2>. QED
        BY <2>2 DEF r
<1>. QED
    BY <1>4, <1>5, <1>6

\* handleAppendEntries (node.go:406-444).
LEMMA AppendEntriesVotes ==
    ASSUME NEW i \in Server, NEW n \in NodeState, NEW m \in Message, m.type = "AppendEntries"
    PROVE  Votes(i, n, m, HandleAppendEntries(i, n, m))
<1>. DEFINE r == HandleAppendEntries(i, n, m)
            f == IF n.state # Follower \/ m.term > n.currentTerm
                 THEN [n EXCEPT !.currentTerm = m.term,
                                !.state       = Follower,
                                !.votedFor    = Nil]
                 ELSE n
            g == RecognizeLeader(n, m)
            z == r.node
<1>0. m.term \in Nat /\ n.currentTerm \in Nat /\ Follower # Leader /\ Follower # Candidate
    BY MessageFields DEF NodeState, Follower, Leader, Candidate
<1>1. {"currentTerm", "votedFor", "state", "votesGranted"} \subseteq DOMAIN n
    BY DEF NodeState
<1>2. \A a \in r.out : a.type = "AppendEntriesResp" /\ a.term = z.currentTerm
    BY DEF HandleAppendEntries, Returns, AppendEntriesResp
<1>3. m.term < n.currentTerm => z = n
    BY DEF HandleAppendEntries, Returns
<1>4. ~(m.term < n.currentTerm) => z = g \/ z = [g EXCEPT !.log = AcceptEntries(g.log, m)]
    BY Zenon DEF HandleAppendEntries, Returns
<1>5. /\ n.state # Follower \/ m.term > n.currentTerm =>
           f.currentTerm = m.term /\ f.state = Follower /\ f.votedFor = Nil
      /\ ~(n.state # Follower \/ m.term > n.currentTerm) => f = n
      /\ DOMAIN f = DOMAIN n
    BY Zenon DEF NodeState
<1>6. g = [f EXCEPT !.leaderID = m.from]
    BY DEF RecognizeLeader
<1>. HIDE DEF f, g, r
<1>7. /\ g.currentTerm = f.currentTerm /\ g.state = f.state /\ g.votedFor = f.votedFor
      /\ DOMAIN g = DOMAIN n
    BY <1>1, <1>5, <1>6
<1>8. ~(m.term < n.currentTerm) =>
         z.currentTerm = f.currentTerm /\ z.state = f.state /\ z.votedFor = f.votedFor
    BY <1>1, <1>4, <1>7
<1>9. \A a \in r.out : a.type # "RequestVote" /\ a.type # "RequestVoteResp" /\ a.term = z.currentTerm
    BY <1>2
<1>. HIDE DEF z
<1>10. CASE m.term < n.currentTerm
    <2>1. z = n /\ ~(m.term > n.currentTerm)
        BY <1>0, <1>3, <1>10
    <2>2. z.state = Candidate => Counts(n, m, z)
        BY <2>1, Zenon DEF Counts
    <2>3. Votes(i, n, m, r)
        BY <1>9, <2>1, <2>2, Zenon DEF Votes, z
    <2>. QED
        BY <2>3 DEF r
<1>11. CASE ~(m.term < n.currentTerm)
    <2>1. f.currentTerm = IF m.term > n.currentTerm THEN m.term ELSE n.currentTerm
        BY <1>0, <1>5, <1>11
    <2>2. f.state = Follower
        BY <1>5, Zenon
    <2>3. \/ m.term > n.currentTerm /\ f.currentTerm = m.term /\ f.votedFor = Nil
          \/ m.term = n.currentTerm
        BY <1>0, <1>5, <1>11
    <2>4. z.state # Leader /\ z.state # Candidate
        BY <1>0, <1>8, <1>11, <2>2, Zenon
    <2>5. z.currentTerm = f.currentTerm /\ z.votedFor = f.votedFor
        BY <1>8, <1>11, Zenon
    <2>6. Votes(i, n, m, r)
        BY <1>9, <2>1, <2>3, <2>4, <2>5, Zenon DEF Votes, z
    <2>. QED
        BY <2>6 DEF r
<1>. QED
    BY <1>10, <1>11

\* handleAppendEntriesResp (node.go:446-465).
LEMMA AppendEntriesRespVotes ==
    ASSUME NEW i \in Server, NEW n \in NodeState, NEW m \in Message, m.type = "AppendEntriesResp"
    PROVE  Votes(i, n, m, HandleAppendEntriesResp(i, n, m))
<1>. DEFINE a == [n EXCEPT !.matchIndex[m.from] = m.matchIndex,
                           !.nextIndex[m.from]  = m.matchIndex + 1]
            k == [n EXCEPT !.nextIndex[m.from] = IF @ > 1 THEN @ - 1 ELSE @]
            b == AdvanceCommit(i, a)
            r == HandleAppendEntriesResp(i, n, m)
            Like(z) == /\ z.currentTerm = n.currentTerm /\ z.votedFor = n.votedFor
                       /\ z.state = n.state /\ z.votesGranted = n.votesGranted
<1>0. {"currentTerm", "votedFor", "state", "votesGranted"} \subseteq DOMAIN n
    BY DEF NodeState
<1>1. Like(a) /\ Like(k) /\ DOMAIN a = DOMAIN n
    BY Zenon DEF NodeState
<1>2. Like(n)
    OBVIOUS
<1>3. CASE m.term > n.currentTerm
    <2>1. r = StepDown(n, m.term)
        BY <1>3 DEF HandleAppendEntriesResp
    <2>. HIDE DEF r
    <2>2. Votes(i, n, m, r)
        BY <1>3, <2>1, StepDownVotes
    <2>. QED
        BY <2>2 DEF r
<1>4. CASE ~(m.term > n.currentTerm)
    <2>1. r = Returns(b, {}, FALSE) \/ r = Returns(k, {}, FALSE) \/ r = Returns(n, {}, FALSE)
        BY <1>4, Zenon DEF HandleAppendEntriesResp
    <2>. HIDE DEF a, k, r
    <2>2. b = a \/ b = [a EXCEPT !.log = CommitTo(a.log, Max(Committable(i, a)))]
        BY Zenon DEF AdvanceCommit
    <2>. HIDE DEF b
    <2>3. Like(b)
        BY <1>0, <1>1, <2>2
    <2>4. Votes(i, n, m, Returns(b, {}, FALSE))
        BY <1>4, <2>3, NothingVotes, Zenon
    <2>5. Votes(i, n, m, Returns(k, {}, FALSE))
        BY <1>1, <1>4, NothingVotes, Zenon
    <2>6. Votes(i, n, m, Returns(n, {}, FALSE))
        BY <1>2, <1>4, NothingVotes, Zenon
    <2>7. Votes(i, n, m, r)
        BY <2>1, <2>4, <2>5, <2>6, Zenon
    <2>. QED
        BY <2>7 DEF r
<1>. QED
    BY <1>3, <1>4

\* Terms, as all natural numbers, are in order.
LEMMA NoLater ==
    ASSUME NEW a \in Nat, NEW b \in Nat, NEW c \in Nat, a <= b, b <= c
    PROVE  a <= c
    OBVIOUS

-----------------------------------------------------------------------------
(***************************************************************************)
(* The ballots B cast so far, and the nodes N, queues q and elections E    *)
(* that go with them.                                                      *)
(***************************************************************************)

\* In term t node v voted for c.
Cast(B, t, v, c) == <<t, v, c>> \in B

\* Node v remembers the vote it gave in its term.
Remembers(B, N, v) == \A c \in Server : Cast(B, N[v].currentTerm, v, c) => c = N[v].votedFor

\* A request for a vote of term t waits for node v, behind the first k messages.
Asked(q, v, k, t) ==
    \E l \in k + 1 .. Len(q[v]) : q[v][l].type = "RequestVote" /\ q[v][l].term = t

\* The ballots are one for each node and term, none of them of a term the node has
\* not reached, and a candidate counts only votes it was given.
BallotsOf(B, N) ==
    /\ \A t \in Nat : \A v, c, d \in Server : Cast(B, t, v, c) /\ Cast(B, t, v, d) => c = d
    /\ \A t \in Nat : \A v, c \in Server : Cast(B, t, v, c) => t <= N[v].currentTerm
    /\ \A v \in Server : N[v].state = Candidate =>
           \A u \in N[v].votesGranted : Cast(B, N[v].currentTerm, u, v)

\* A vote on its way was given, and behind a heartbeat there are only requests for
\* votes of later terms.
LettersOf(B, q) ==
    \A v \in Server : \A k \in 1 .. Len(q[v]) :
        /\ q[v][k].type = "RequestVoteResp" /\ q[v][k].granted =>
               Cast(B, q[v][k].term, q[v][k].from, v)
        /\ q[v][k].type = "AppendEntries" =>
               \A l \in k + 1 .. Len(q[v]) :
                   q[v][l].type = "RequestVote" => q[v][l].term > q[v][k].term

\* Q is more than half of the nodes.
IsMajority(Q) == Q \subseteq Server /\ 2 * Cardinality(Q) > Cardinality(Server)

\* Who was elected had the votes of more than half of the nodes.
ElectionsOf(B, E) ==
    \A e \in E : \E Q : IsMajority(Q) /\ \A u \in Q : Cast(B, e.term, u, e.leader)

\* No term is later than M, and who has not reached M is asked for its vote there,
\* node v behind the h[v] messages it has handled.
TermsOf(M, N, q, h) ==
    /\ M \in Nat
    /\ \A v \in Server : /\ N[v].currentTerm <= M
                         /\ \A k \in 1 .. Len(q[v]) : q[v][k].term <= M
                         /\ N[v].currentTerm = M \/ Asked(q, v, h[v], M)

\* Who has forgotten the vote it gave in its term is not asked for another.
NotAskedTwice(B, N, q, h) ==
    \A v \in Server : Remembers(B, N, v) \/ ~Asked(q, v, h[v], N[v].currentTerm)

\* All of this, in the middle of a round as well.
InRound(B, M, N, q, E, h) ==
    /\ \A v \in Server : ~N[v].crashed
    /\ BallotsOf(B, N) /\ LettersOf(B, q) /\ ElectionsOf(B, E)
    /\ TermsOf(M, N, q, h) /\ NotAskedTwice(B, N, q, h)

\* Between rounds: no node is behind a leader, a heartbeat on its way, or a node that
\* has forgotten its vote.
Settled(B, N, q) ==
    /\ \A v, u \in Server : N[v].state = Leader => N[v].currentTerm <= N[u].currentTerm
    /\ \A v, u \in Server : \A k \in 1 .. Len(q[v]) :
           q[v][k].type = "AppendEntries" => q[v][k].term <= N[u].currentTerm
    /\ \A v, u \in Server : Remembers(B, N, v) \/ N[v].currentTerm <= N[u].currentTerm

\* The messages that node i has handled, and nobody else.
Handled(i, k) == [v \in Server |-> IF v = i THEN k ELSE 0]
NoneHandled == [v \in Server |-> 0]

\* Queue w is queue u with some of the messages of out behind it.
Longer(u, w, out) ==
    /\ u \in Seq(Message) /\ w \in Seq(Message) /\ Len(u) \in Nat /\ Len(w) \in Nat
    /\ Len(u) <= Len(w)
    /\ \A k \in 1 .. Len(u) : w[k] = u[k]
    /\ \A k \in Len(u) + 1 .. Len(w) : w[k] \in out

\* Messages that are no requests for votes change nothing about who is asked.
LEMMA SameAsked ==
    ASSUME NEW q, NEW w, NEW v, NEW out, Longer(q[v], w[v], out),
           \A m \in out : m.type # "RequestVote", NEW k \in Nat, NEW t
    PROVE  Asked(w, v, k, t) <=> Asked(q, v, k, t)
<1>. DEFINE a == q[v]
            b == w[v]
<1>1. /\ Len(a) \in Nat /\ Len(b) \in Nat /\ Len(a) <= Len(b)
      /\ \A l \in 1 .. Len(a) : b[l] = a[l]
      /\ \A l \in Len(a) + 1 .. Len(b) : b[l].type # "RequestVote"
    BY Zenon DEF Longer
<1>. HIDE DEF a, b
<1>2. ASSUME NEW l \in k + 1 .. Len(a), a[l].type = "RequestVote", a[l].term = t
      PROVE  \E j \in k + 1 .. Len(b) : b[j].type = "RequestVote" /\ b[j].term = t
    <2>1. l \in 1 .. Len(a) /\ l \in k + 1 .. Len(b)
        BY <1>1
    <2>. QED
        BY <1>1, <1>2, <2>1, Zenon
<1>3. ASSUME NEW l \in k + 1 .. Len(b), b[l].type = "RequestVote", b[l].term = t
      PROVE  \E j \in k + 1 .. Len(a) : a[j].type = "RequestVote" /\ a[j].term = t
    <2>1. l \in Len(a) + 1 .. Len(b) \/ (l \in 1 .. Len(a) /\ l \in k + 1 .. Len(a))
        BY <1>1
    <2>. QED
        BY <1>1, <1>3, <2>1, Zenon
<1>. QED
    BY <1>2, <1>3, Zenon DEF Asked, a, b

\* D has the ballots of B.
Grown(B, D) == \A s, u, d : Cast(B, s, u, d) => Cast(D, s, u, d)

\* The messages of out are routed to the queues q, which become w.
Routed(q, w, out) == \A v \in Server : Longer(q[v], w[v], {m \in out : m.to = v})

\* The messages of out ask for no votes, and tell of none that was not given.
Answers(D, out) ==
    \A m \in out : /\ m.type # "RequestVote"
                   /\ m.type = "RequestVoteResp" /\ m.granted => Cast(D, m.term, m.from, m.to)

\* Messages that are no requests for votes, and carry votes only that were given, keep
\* the letters true.
LEMMA LettersKept ==
    ASSUME NEW B, NEW D, Grown(B, D), NEW q, NEW w, LettersOf(B, q), NEW out,
           Routed(q, w, out), Answers(D, out)
    PROVE  LettersOf(D, w)
<1>. SUFFICES ASSUME NEW v \in Server, NEW k \in 1 .. Len(w[v])
              PROVE  /\ w[v][k].type = "RequestVoteResp" /\ w[v][k].granted =>
                            Cast(D, w[v][k].term, w[v][k].from, v)
                     /\ w[v][k].type = "AppendEntries" =>
                            \A l \in k + 1 .. Len(w[v]) :
                                w[v][l].type = "RequestVote" => w[v][l].term > w[v][k].term
    BY Zenon DEF LettersOf
<1>. DEFINE a == q[v]
            b == w[v]
<1>1. /\ Len(a) \in Nat /\ Len(b) \in Nat /\ Len(a) <= Len(b)
      /\ \A l \in 1 .. Len(a) : b[l] = a[l]
      /\ \A l \in Len(a) + 1 .. Len(b) : b[l] \in out /\ b[l].to = v
    BY Zenon DEF Longer, Routed
<1>2. \A l \in 1 .. Len(a) :
        /\ a[l].type = "RequestVoteResp" /\ a[l].granted => Cast(B, a[l].term, a[l].from, v)
        /\ a[l].type = "AppendEntries" =>
               \A j \in l + 1 .. Len(a) : a[j].type = "RequestVote" => a[j].term > a[l].term
    BY Zenon DEF LettersOf
<1>. HIDE DEF a, b
<1>3. k \in 1 .. Len(b) /\ (k \in 1 .. Len(a) \/ k \in Len(a) + 1 .. Len(b))
    BY <1>1 DEF b
<1>4. b[k].type = "RequestVoteResp" /\ b[k].granted => Cast(D, b[k].term, b[k].from, v)
    <2>1. CASE k \in 1 .. Len(a)
        BY <1>1, <1>2, <2>1, Zenon DEF Grown
    <2>2. CASE k \in Len(a) + 1 .. Len(b)
        BY <1>1, <2>2, Zenon DEF Answers
    <2>. QED
        BY <1>3, <2>1, <2>2
<1>5. ASSUME b[k].type = "AppendEntries", NEW l \in k + 1 .. Len(b), b[l].type = "RequestVote"
      PROVE  b[l].term > b[k].term
    <2>1. l \notin Len(a) + 1 .. Len(b)
        BY <1>1, <1>5, Zenon DEF Answers
    <2>2. l \in 1 .. Len(a) /\ k \in 1 .. Len(a) /\ l \in k + 1 .. Len(a)
        BY <1>1, <1>3, <2>1
    <2>. QED
        BY <1>1, <1>2, <1>5, <2>2, Zenon
<1>. QED
    BY <1>4, <1>5 DEF b

\* The messages that are no requests for votes, and the queues of such messages.
NoRequest == {a \in Message : a.type # "RequestVote"}
RequestFree(u) == \A k \in 1 .. Len(u) : u[k].type # "RequestVote"

\* Longer is reflexive and transitive, and keeps a queue free of requests for votes.
LEMMA LongerOrder ==
    ASSUME NEW u, NEW v, NEW w, NEW out
    PROVE  /\ u \in Seq(Message) => Longer(u, u, out)
           /\ Longer(u, v, out) /\ Longer(v, w, out) => Longer(u, w, out)
           /\ Longer(u, v, NoRequest) /\ RequestFree(u) => RequestFree(v)
<1>1. ASSUME u \in Seq(Message) PROVE Longer(u, u, out)
    <2>1. Len(u) \in Nat
        BY <1>1, LengthOfSeq
    <2>2. Len(u) <= Len(u) /\ \A k \in Len(u) + 1 .. Len(u) : FALSE
        BY <2>1
    <2>. QED
        BY <1>1, <2>1, <2>2, Zenon DEF Longer
<1>2. ASSUME Longer(u, v, out), Longer(v, w, out) PROVE Longer(u, w, out)
    <2>1. /\ Len(u) \in Nat /\ Len(v) \in Nat /\ Len(w) \in Nat
          /\ Len(u) <= Len(v) /\ Len(v) <= Len(w)
          /\ \A k \in 1 .. Len(u) : v[k] = u[k]
          /\ \A k \in Len(u) + 1 .. Len(v) : v[k] \in out
          /\ \A k \in 1 .. Len(v) : w[k] = v[k]
          /\ \A k \in Len(v) + 1 .. Len(w) : w[k] \in out
        BY <1>2, Zenon DEF Longer
    <2>2. \A k \in 1 .. Len(u) : k \in 1 .. Len(v)
        BY <2>1
    <2>3. \A k \in Len(u) + 1 .. Len(w) :
              k \in Len(v) + 1 .. Len(w) \/ (k \in 1 .. Len(v) /\ k \in Len(u) + 1 .. Len(v))
        BY <2>1
    <2>4. Len(u) <= Len(w)
        BY <2>1
    <2>5. \A k \in 1 .. Len(u) : w[k] = u[k]
        BY <2>1, <2>2, Zenon
    <2>6. \A k \in Len(u) + 1 .. Len(w) : w[k] \in out
        BY <2>1, <2>3, Zenon
    <2>. QED
        BY <1>2, <2>4, <2>5, <2>6, Zenon DEF Longer
<1>3. ASSUME Longer(u, v, NoRequest), RequestFree(u) PROVE RequestFree(v)
    <2>1. /\ Len(u) \in Nat /\ Len(v) \in Nat
          /\ \A k \in 1 .. Len(u) : v[k] = u[k]
          /\ \A k \in Len(u) + 1 .. Len(v) : v[k] \in NoRequest
        BY <1>3, Zenon DEF Longer
    <2>2. \A k \in 1 .. Len(v) : k \in 1 .. Len(u) \/ k \in Len(u) + 1 .. Len(v)
        BY <2>1
    <2>. QED
        BY <1>3, <2>1, <2>2, Zenon DEF RequestFree, NoRequest
<1>. QED
    BY <1>1, <1>2, <1>3

\* Node i handles the message at position k of its queue, with the result r; the nodes
\* N, the queues q and the elections E become P, w and F.
Handles(i, k, r, N, P, q, w, E, F) ==
    /\ N \in [Server -> NodeState] /\ r.node \in NodeState /\ ~r.node.crashed
    /\ Len(q[i]) \in Nat /\ k \in 1 .. Len(q[i]) /\ q[i][k] \in Message
    /\ Votes(i, N[i], q[i][k], r) /\ \A a \in r.out : a.from = i
    /\ P = [N EXCEPT ![i] = r.node] /\ Routed(q, w, r.out)
    /\ F = IF N[i].state # Leader /\ r.node.state = Leader
           THEN E \cup {[leader |-> i, term |-> r.node.currentTerm]}
           ELSE E

\* A message that is handled leaves the ballots in order (node.go:371-465), if whoever
\* counts enough votes has those of more than half of the nodes.
LEMMA HandlesInRound ==
    ASSUME NEW i \in Server, NEW k, NEW r, NEW N, NEW P, NEW q, NEW w, NEW E, NEW F,
           Handles(i, k, r, N, P, q, w, E, F),
           CountVotes(i, r.node) >= Majority(i) => IsMajority(r.node.votesGranted),
           NEW B, NEW M, InRound(B, M, N, q, E, Handled(i, k - 1))
    PROVE  \E D : InRound(D, M, P, w, F, Handled(i, k))
<1>. DEFINE n == N[i]
            m == q[i][k]
            z == r.node
            D == IF GivesVote(n, m, z) THEN B \cup {<<m.term, i, m.from>>} ELSE B
<1>0. N \in [Server -> NodeState] /\ Len(q[i]) \in Nat /\ k \in 1 .. Len(q[i]) /\ m \in Message
    BY Zenon DEF Handles
<1>1. n \in NodeState
    BY <1>0
<1>2. m.from \in Server /\ m.term \in Nat /\ \A v \in Server : N[v].currentTerm \in Nat
    BY <1>0, MessageFields DEF NodeState
<1>3. k \in Nat /\ k - 1 \in Nat
    BY <1>0
<1>4. /\ \A v \in Server : ~N[v].crashed
      /\ BallotsOf(B, N) /\ LettersOf(B, q) /\ ElectionsOf(B, E)
      /\ TermsOf(M, N, q, Handled(i, k - 1)) /\ NotAskedTwice(B, N, q, Handled(i, k - 1))
    BY Zenon DEF InRound
<1>5. Votes(i, n, m, r) /\ ~z.crashed /\ z \in NodeState /\ \A a \in r.out : a.from = i
    BY Zenon DEF Handles
<1>6. /\ P = [N EXCEPT ![i] = z]
      /\ F = IF n.state # Leader /\ z.state = Leader
             THEN E \cup {[leader |-> i, term |-> z.currentTerm]}
             ELSE E
    BY Zenon DEF Handles
<1>7. \A v \in Server : Longer(q[v], w[v], {a \in r.out : a.to = v})
    BY Zenon DEF Handles, Routed
<1>. HIDE DEF n, m, z
<1>8. \A s, u, d : Cast(D, s, u, d) <=>
          Cast(B, s, u, d) \/ (GivesVote(n, m, z) /\ s = m.term /\ u = i /\ d = m.from)
    <2>1. CASE GivesVote(n, m, z)
        <3>1. D = B \cup {<<m.term, i, m.from>>}
            BY <2>1
        <3>. HIDE DEF D
        <3>. QED
            BY <2>1, <3>1 DEF Cast
    <2>2. CASE ~GivesVote(n, m, z)
        BY <2>2, Zenon
    <2>. QED
        BY <2>1, <2>2, Zenon
<1>9. /\ z.currentTerm = IF m.term > n.currentTerm THEN m.term ELSE n.currentTerm
      /\ z.state = Candidate => Counts(n, m, z)
      /\ z.state = Leader => n.state = Leader \/ (Counts(n, m, z) /\ CountVotes(i, z) >= Majority(i))
      /\ \A a \in r.out :
             /\ a.type # "RequestVote" /\ a.term = z.currentTerm
             /\ a.type = "RequestVoteResp" /\ a.granted => GivesVote(n, m, z) /\ a.to = m.from
    BY <1>5, Zenon DEF Votes, z
<1>10. \/ z.currentTerm = n.currentTerm /\ z.votedFor = n.votedFor
       \/ z.currentTerm > n.currentTerm /\ z.votedFor = Nil
       \/ GivesVote(n, m, z)
       \/ m.type = "AppendEntries" /\ m.term = n.currentTerm
    BY <1>5, Zenon DEF Votes, z
<1>11. P[i] = z /\ (\A v \in Server \ {i} : P[v] = N[v]) /\ z \in NodeState
    BY <1>0, <1>5, <1>6
<1>12. /\ z.currentTerm \in Nat /\ z.votesGranted \subseteq Server /\ n.currentTerm \in Nat
       /\ n.currentTerm <= z.currentTerm /\ m.term <= z.currentTerm
    <2>1. z.currentTerm \in Nat /\ z.votesGranted \subseteq Server /\ n.currentTerm \in Nat
        BY <1>1, <1>11 DEF NodeState
    <2>. QED
        BY <1>2, <1>9, <2>1
<1>. HIDE DEF D
<1>13. /\ \A v \in Server : N[v].currentTerm <= P[v].currentTerm /\ P[v].currentTerm \in Nat
       /\ \A v \in Server : ~P[v].crashed
    <2>. SUFFICES ASSUME NEW v \in Server
                  PROVE  N[v].currentTerm <= P[v].currentTerm /\ P[v].currentTerm \in Nat /\ ~P[v].crashed
        BY Zenon
    <2>1. CASE v = i
        BY <1>5, <1>11, <1>12, <2>1 DEF n
    <2>2. CASE v # i
        BY <1>2, <1>4, <1>11, <2>2
    <2>. QED
        BY <2>1, <2>2
<1>14. \A s : Asked(q, i, k - 1, s) <=> (m.type = "RequestVote" /\ m.term = s) \/ Asked(q, i, k, s)
    <2>1. \A l : l \in (k - 1) + 1 .. Len(q[i]) <=> l = k \/ l \in k + 1 .. Len(q[i])
        <3>1. k \in 1 .. Len(q[i])
            BY <1>0
        <3>. QED
            BY <1>3, <3>1
    <2>. QED
        BY <2>1, Zenon DEF Asked, m
<1>15. \A v \in Server : \A j \in Nat : \A s : Asked(w, v, j, s) <=> Asked(q, v, j, s)
    <2>. SUFFICES ASSUME NEW v \in Server, NEW j \in Nat, NEW s
                  PROVE  Asked(w, v, j, s) <=> Asked(q, v, j, s)
        BY Zenon
    <2>1. \A a \in {b \in r.out : b.to = v} : a.type # "RequestVote"
        BY <1>9
    <2>. QED
        BY <1>7, <2>1, SameAsked, Zenon
<1>16. /\ Handled(i, k - 1)[i] = k - 1 /\ Handled(i, k)[i] = k
       /\ \A v \in Server \ {i} : Handled(i, k - 1)[v] = 0 /\ Handled(i, k)[v] = 0
    BY DEF Handled
<1>17. ASSUME GivesVote(n, m, z), NEW c \in Server, Cast(B, m.term, i, c)
       PROVE  c = m.from
    <2>1. m.term <= n.currentTerm
        BY <1>2, <1>4, <1>17, Zenon DEF BallotsOf, n
    <2>2. /\ m.type = "RequestVote" /\ m.term = z.currentTerm
          /\ m.term > n.currentTerm \/ n.votedFor \in {Nil, m.from}
        BY <1>17, Zenon DEF GivesVote
    <2>3. m.term = n.currentTerm /\ ~(m.term > n.currentTerm)
        BY <1>2, <1>12, <2>1, <2>2
    <2>4. Asked(q, i, Handled(i, k - 1)[i], n.currentTerm)
        BY <1>14, <1>16, <2>2, <2>3, Zenon
    <2>5. Remembers(B, N, i)
        BY <1>4, <2>4, Zenon DEF NotAskedTwice, n
    <2>6. c = n.votedFor
        BY <1>17, <2>3, <2>5, Zenon DEF Remembers, n
    <2>. QED
        BY <2>2, <2>3, <2>6, NilAssumption
<1>18. Counts(n, m, z) => \A u \in z.votesGranted : Cast(D, z.currentTerm, u, i)
    <2>. SUFFICES ASSUME Counts(n, m, z), NEW u \in z.votesGranted
                  PROVE  Cast(B, z.currentTerm, u, i)
        BY <1>8, Zenon
    <2>1. CASE u \in n.votesGranted
        BY <1>4, <2>1, Zenon DEF Counts, BallotsOf, n
    <2>2. CASE m.type = "RequestVoteResp" /\ m.granted /\ m.term = n.currentTerm /\ u = m.from
        <3>1. k \in 1 .. Len(q[i])
            BY <1>0
        <3>2. Cast(B, m.term, m.from, i)
            BY <1>4, <2>2, <3>1, Zenon DEF LettersOf, m
        <3>. QED
            BY <2>2, <3>2, Zenon DEF Counts
    <2>. QED
        BY <2>1, <2>2, Zenon DEF Counts
<1>19. BallotsOf(D, P)
    <2>1. ASSUME NEW s \in Nat, NEW v \in Server, NEW c \in Server, NEW d \in Server,
                 Cast(D, s, v, c), Cast(D, s, v, d)
          PROVE  c = d
        <3>1. CASE GivesVote(n, m, z) /\ s = m.term /\ v = i
            <4>1. \A b \in Server : Cast(D, m.term, i, b) => b = m.from
                BY <1>8, <1>17, <3>1
            <4>. QED
                BY <2>1, <3>1, <4>1
        <3>2. CASE ~(GivesVote(n, m, z) /\ s = m.term /\ v = i)
            <4>1. Cast(B, s, v, c) /\ Cast(B, s, v, d)
                BY <1>8, <2>1, <3>2
            <4>. QED
                BY <1>4, <4>1, Zenon DEF BallotsOf
        <3>. QED
            BY <3>1, <3>2
    <2>2. ASSUME NEW s \in Nat, NEW v \in Server, NEW c \in Server, Cast(D, s, v, c)
          PROVE  s <= P[v].currentTerm
        <3>1. CASE Cast(B, s, v, c)
            <4>1. s <= N[v].currentTerm
                BY <1>4, <3>1, Zenon DEF BallotsOf
            <4>. QED
                BY <1>2, <1>13, <4>1, NoLater
        <3>2. CASE s = m.term /\ v = i
            BY <1>11, <1>12, <3>2
        <3>. QED
            BY <1>8, <2>2, <3>1, <3>2
    <2>3. ASSUME NEW v \in Server, P[v].state = Candidate, NEW u \in P[v].votesGranted
          PROVE  Cast(D, P[v].currentTerm, u, v)
        <3>1. CASE v = i
            BY <1>9, <1>11, <1>18, <2>3, <3>1, Zenon
        <3>2. CASE v # i
            BY <1>4, <1>8, <1>11, <2>3, <3>2, Zenon DEF BallotsOf
        <3>. QED
            BY <3>1, <3>2
    <2>. QED
        BY <2>1, <2>2, <2>3, Zenon DEF BallotsOf
<1>20. LettersOf(D, w)
    <2>1. \A a \in r.out : a.type = "RequestVoteResp" /\ a.granted => Cast(D, a.term, a.from, a.to)
        BY <1>5, <1>8, <1>9, Zenon DEF GivesVote
    <2>2. Answers(D, r.out)
        BY <1>9, <2>1, Zenon DEF Answers
    <2>3. Grown(B, D) /\ Routed(q, w, r.out)
        BY <1>7, <1>8, Zenon DEF Grown, Routed
    <2>4. LettersOf(B, q)
        BY <1>4
    <2>. QED
        BY <2>2, <2>3, <2>4, LettersKept
<1>21. ElectionsOf(D, F)
    <2>. SUFFICES ASSUME NEW e \in F
                  PROVE  \E Q : IsMajority(Q) /\ \A u \in Q : Cast(D, e.term, u, e.leader)
        BY Zenon DEF ElectionsOf
    <2>1. CASE e \in E
        BY <1>4, <1>8, <2>1, Zenon DEF ElectionsOf
    <2>2. CASE n.state # Leader /\ z.state = Leader /\ e = [leader |-> i, term |-> z.currentTerm]
        <3>1. IsMajority(z.votesGranted)
            BY <1>9, <2>2, Zenon DEF z
        <3>2. e.leader = i /\ e.term = z.currentTerm
            BY <2>2
        <3>. QED
            BY <1>9, <1>18, <2>2, <3>1, <3>2, Zenon
    <2>. QED
        BY <1>6, <2>1, <2>2
<1>22. TermsOf(M, P, w, Handled(i, k))
    <2>1. /\ M \in Nat
          /\ \A v \in Server : /\ N[v].currentTerm <= M
                               /\ \A l \in 1 .. Len(q[v]) : q[v][l].term <= M
                               /\ N[v].currentTerm = M \/ Asked(q, v, Handled(i, k - 1)[v], M)
        BY <1>4, Zenon DEF TermsOf
    <2>2. m.term <= M /\ n.currentTerm <= M
        BY <1>0, <2>1 DEF m, n
    <2>3. z.currentTerm <= M
        BY <1>2, <1>9, <1>12, <2>2
    <2>. SUFFICES ASSUME NEW v \in Server
                  PROVE  /\ P[v].currentTerm <= M
                         /\ \A l \in 1 .. Len(w[v]) : w[v][l].term <= M
                         /\ P[v].currentTerm = M \/ Asked(w, v, Handled(i, k)[v], M)
        BY <2>1, Zenon DEF TermsOf
    <2>4. \A l \in 1 .. Len(w[v]) : w[v][l].term <= M
        <3>1. /\ Len(q[v]) \in Nat /\ Len(w[v]) \in Nat
              /\ \A l \in 1 .. Len(q[v]) : w[v][l] = q[v][l]
              /\ \A l \in Len(q[v]) + 1 .. Len(w[v]) : w[v][l] \in r.out
            BY <1>7, Zenon DEF Longer
        <3>2. ASSUME NEW l \in 1 .. Len(w[v])
              PROVE  l \in 1 .. Len(q[v]) \/ l \in Len(q[v]) + 1 .. Len(w[v])
            BY <3>1
        <3>. QED
            BY <1>9, <2>1, <2>3, <3>1, <3>2, Zenon
    <2>5. CASE v # i
        <3>1. P[v] = N[v] /\ Handled(i, k)[v] = 0 /\ Handled(i, k - 1)[v] = 0 /\ 0 \in Nat
            BY <1>11, <1>16, <2>5
        <3>. QED
            BY <1>15, <2>1, <2>4, <3>1, Zenon
    <2>6. CASE v = i
        <3>1. n.currentTerm = M \/ (m.type = "RequestVote" /\ m.term = M) \/ Asked(q, i, k, M)
            BY <1>14, <1>16, <2>1, Zenon DEF n
        <3>2. z.currentTerm = M \/ Asked(q, i, k, M)
            BY <1>2, <1>12, <2>1, <2>3, <3>1
        <3>. QED
            BY <1>3, <1>11, <1>15, <1>16, <2>3, <2>4, <2>6, <3>2, Zenon
    <2>. QED
        BY <2>5, <2>6
<1>23. NotAskedTwice(D, P, w, Handled(i, k))
    <2>. SUFFICES ASSUME NEW v \in Server
                  PROVE  Remembers(D, P, v) \/ ~Asked(w, v, Handled(i, k)[v], P[v].currentTerm)
        BY Zenon DEF NotAskedTwice
    <2>0. Remembers(B, N, v) \/ ~Asked(q, v, Handled(i, k - 1)[v], N[v].currentTerm)
        BY <1>4, Zenon DEF NotAskedTwice
    <2>1. CASE v # i
        <3>1. P[v] = N[v] /\ Handled(i, k)[v] = 0 /\ Handled(i, k - 1)[v] = 0 /\ 0 \in Nat
            BY <1>11, <1>16, <2>1
        <3>2. \A s, c : Cast(D, s, v, c) => Cast(B, s, v, c)
            BY <1>8, <2>1
        <3>. QED
            BY <1>15, <2>0, <3>1, <3>2, Zenon DEF Remembers
    <2>2. CASE v = i /\ GivesVote(n, m, z)
        BY <1>8, <1>11, <1>17, <2>2, Zenon DEF Remembers, GivesVote
    <2>3. CASE v = i /\ ~GivesVote(n, m, z)
        <3>1. \A s, u, c : Cast(D, s, u, c) => Cast(B, s, u, c)
            BY <1>8, <2>3, Zenon
        <3>2. CASE z.currentTerm = n.currentTerm /\ z.votedFor = n.votedFor
            <4>1. Remembers(D, P, i) \/ ~Asked(q, i, k, n.currentTerm)
                BY <1>11, <1>14, <1>16, <2>0, <2>3, <3>1, <3>2, Zenon DEF Remembers, n
            <4>. QED
                BY <1>3, <1>11, <1>15, <1>16, <2>3, <3>2, <4>1, Zenon
        <3>3. CASE z.currentTerm > n.currentTerm
            <4>1. ~(z.currentTerm <= n.currentTerm)
                BY <1>12, <3>3
            <4>2. \A c \in Server : ~Cast(D, z.currentTerm, i, c)
                BY <1>4, <1>12, <3>1, <4>1, Zenon DEF BallotsOf, n
            <4>. QED
                BY <1>11, <2>3, <4>2, Zenon DEF Remembers
        <3>4. CASE m.type = "AppendEntries" /\ m.term = n.currentTerm
            <4>1. z.currentTerm = m.term
                BY <1>9, <3>4
            <4>2. k \in 1 .. Len(q[i])
                BY <1>0
            <4>3. \A l \in k + 1 .. Len(q[i]) : q[i][l].type = "RequestVote" => q[i][l].term > m.term
                BY <1>4, <3>4, <4>2, Zenon DEF LettersOf, m
            <4>4. ~(m.term > m.term)
                BY <1>2
            <4>5. ~Asked(q, i, k, m.term)
                BY <4>3, <4>4, Zenon DEF Asked
            <4>. QED
                BY <1>3, <1>11, <1>15, <1>16, <2>3, <4>1, <4>5, Zenon
        <3>. QED
            BY <1>10, <2>3, <3>2, <3>3, <3>4
    <2>. QED
        BY <2>1, <2>2, <2>3
<1>24. InRound(D, M, P, w, F, Handled(i, k))
    BY <1>13, <1>19, <1>20, <1>21, <1>22, <1>23, Zenon DEF InRound
<1>. QED
    BY <1>24, Zenon

\* Nothing that matters to a vote differs.
SameVote(n, x) ==
    /\ x.currentTerm = n.currentTerm /\ x.votedFor = n.votedFor /\ x.state = n.state
    /\ x.votesGranted = n.votesGranted /\ x.crashed = n.crashed

\* Node i, which becomes x from n and sends out, only replicates or starts an election.
Ticked(i, n, x, out) ==
    \/ /\ SameVote(n, x)
       /\ \A m \in out : m.type = "AppendEntries" /\ n.state = Leader /\ m.term = n.currentTerm
    \/ /\ x.currentTerm = n.currentTerm + 1 /\ x.state = Candidate /\ ~x.crashed
       /\ x.votedFor = i /\ x.votesGranted = {i}
       /\ \A m \in out : m.type = "RequestVote" /\ m.term = n.currentTerm + 1
       /\ \A p \in Server : \E m \in out : m.to = p

\* The nodes that start an election when the nodes N become P, and what is sent then.
Electors(N, P) == {i \in Server : P[i].currentTerm = N[i].currentTerm + 1}
SentBetween(N, P) ==
    {m \in Message : \E i \in Server :
        \/ m.type = "AppendEntries" /\ N[i].state = Leader /\ m.term = N[i].currentTerm
        \/ m.type = "RequestVote" /\ i \in Electors(N, P) /\ m.term = N[i].currentTerm + 1}

\* The nodes N, with the queues q, do no more than this.
AllTicked(N, P, q, w) ==
    /\ \A v \in Server : \E out : Ticked(v, N[v], P[v], out)
    /\ \A v \in Server : Longer(q[v], w[v], SentBetween(N, P))
    /\ \A i \in Electors(N, P) : \A v \in Server : Asked(w, v, 0, N[i].currentTerm + 1)

\* Who is asked for a vote stays asked.
LEMMA StillAsked ==
    ASSUME NEW q, NEW w, NEW v, NEW out, Longer(q[v], w[v], out), NEW t, Asked(q, v, 0, t)
    PROVE  Asked(w, v, 0, t)
<1>1. PICK l \in 0 + 1 .. Len(q[v]) : q[v][l].type = "RequestVote" /\ q[v][l].term = t
    BY Zenon DEF Asked
<1>2. /\ Len(q[v]) \in Nat /\ Len(w[v]) \in Nat /\ Len(q[v]) <= Len(w[v])
      /\ \A k \in 1 .. Len(q[v]) : w[v][k] = q[v][k]
    BY Zenon DEF Longer
<1>3. l \in 1 .. Len(q[v]) /\ l \in 0 + 1 .. Len(w[v])
    BY <1>2
<1>. QED
    BY <1>1, <1>2, <1>3, Zenon DEF Asked

\* Who is asked for a vote by a message at the end.
LEMMA AskedAtTheEnd ==
    ASSUME NEW u \in Seq(Message), NEW m \in Message, m.type = "RequestVote",
           NEW w, NEW v, w[v] = Append(u, m)
    PROVE  Asked(w, v, 0, m.term)
<1>1. Len(u) \in Nat /\ Len(w[v]) = Len(u) + 1 /\ w[v][Len(u) + 1] = m
    BY LengthOfSeq, OneMore
<1>2. Len(u) + 1 \in 0 + 1 .. Len(w[v])
    BY <1>1
<1>. QED
    BY <1>1, <1>2, Zenon DEF Asked

\* Elections and heartbeats that start between rounds.
LEMMA TickInRound ==
    ASSUME NEW B, NEW M, NEW N, NEW P, NEW q, NEW w, NEW E,
           InRound(B, M, N, q, E, NoneHandled), Settled(B, N, q),
           \A v \in Server : N[v].currentTerm \in Nat, AllTicked(N, P, q, w)
    PROVE  \E D, K : InRound(D, K, P, w, E, NoneHandled) /\ Settled(D, P, w)
<1>. DEFINE C == Electors(N, P)
            D == B \cup {<<P[i].currentTerm, i, i>> : i \in C}
            late == \E i \in C : N[i].currentTerm = M
            K == IF late THEN M + 1 ELSE M
            S == SentBetween(N, P)
<1>0. /\ \A v \in Server : \E out : Ticked(v, N[v], P[v], out)
      /\ \A v \in Server : Longer(q[v], w[v], S)
      /\ \A i \in C : \A v \in Server : Asked(w, v, 0, N[i].currentTerm + 1)
    BY Zenon DEF AllTicked
<1>1. /\ \A v \in Server : ~N[v].crashed
      /\ BallotsOf(B, N) /\ LettersOf(B, q) /\ ElectionsOf(B, E)
      /\ TermsOf(M, N, q, NoneHandled) /\ NotAskedTwice(B, N, q, NoneHandled)
    BY Zenon DEF InRound
<1>2. \A s, u, d : Cast(D, s, u, d) <=> Cast(B, s, u, d) \/ (u \in C /\ d = u /\ s = P[u].currentTerm)
    <2>. HIDE DEF C
    <2>. QED
        BY DEF Cast
<1>3. /\ C \subseteq Server
      /\ \A v \in C : P[v].currentTerm = N[v].currentTerm + 1
    BY DEF Electors
<1>4. \A v \in C : /\ P[v].state = Candidate /\ ~P[v].crashed
                   /\ P[v].votedFor = v /\ P[v].votesGranted = {v}
    <2>. SUFFICES ASSUME NEW v \in C
                  PROVE  /\ P[v].state = Candidate /\ ~P[v].crashed
                         /\ P[v].votedFor = v /\ P[v].votesGranted = {v}
        BY Zenon
    <2>1. N[v].currentTerm \in Nat /\ P[v].currentTerm = N[v].currentTerm + 1
        BY <1>3
    <2>2. ~SameVote(N[v], P[v])
        BY <2>1 DEF SameVote
    <2>. QED
        BY <1>0, <1>3, <2>2, Zenon DEF Ticked
<1>5. \A v \in Server \ C :
        /\ P[v].currentTerm = N[v].currentTerm /\ P[v].votedFor = N[v].votedFor
        /\ P[v].state = N[v].state /\ P[v].votesGranted = N[v].votesGranted
        /\ P[v].crashed = N[v].crashed
    BY <1>0, Zenon DEF Ticked, SameVote, Electors
<1>6. \A m \in S :
        \/ m.type = "AppendEntries" /\ \E i \in Server : N[i].state = Leader /\ m.term = N[i].currentTerm
        \/ m.type = "RequestVote" /\ \E i \in C : m.term = N[i].currentTerm + 1
    BY Zenon DEF SentBetween
<1>. HIDE DEF C, D, S
<1>7. \A v \in Server : P[v].currentTerm \in Nat /\ N[v].currentTerm <= P[v].currentTerm
    BY <1>3, <1>5
<1>8. /\ M \in Nat
      /\ \A v \in Server : /\ N[v].currentTerm <= M
                           /\ \A k \in 1 .. Len(q[v]) : q[v][k].term <= M
                           /\ N[v].currentTerm = M \/ Asked(q, v, 0, M)
    <2>1. \A v \in Server : NoneHandled[v] = 0
        BY DEF NoneHandled
    <2>. QED
        BY <1>1, <2>1, Zenon DEF TermsOf
<1>9. K \in Nat /\ M <= K /\ \A i \in C : N[i].currentTerm + 1 <= K
    <2>1. CASE late
        BY <1>3, <1>8, <2>1
    <2>2. CASE ~late
        BY <1>3, <1>8, <2>2
    <2>. QED
        BY <2>1, <2>2
<1>10. \A v \in Server : \A l \in 1 .. Len(w[v]) :
            \/ l \in 1 .. Len(q[v]) /\ w[v][l] = q[v][l]
            \/ l \in Len(q[v]) + 1 .. Len(w[v]) /\ w[v][l] \in S
    <2>. SUFFICES ASSUME NEW v \in Server, NEW l \in 1 .. Len(w[v])
                  PROVE  \/ l \in 1 .. Len(q[v]) /\ w[v][l] = q[v][l]
                         \/ l \in Len(q[v]) + 1 .. Len(w[v]) /\ w[v][l] \in S
        BY Zenon
    <2>1. /\ Len(q[v]) \in Nat /\ Len(w[v]) \in Nat
          /\ \A k \in 1 .. Len(q[v]) : w[v][k] = q[v][k]
          /\ \A k \in Len(q[v]) + 1 .. Len(w[v]) : w[v][k] \in S
        BY <1>0, Zenon DEF Longer
    <2>2. l \in 1 .. Len(q[v]) \/ l \in Len(q[v]) + 1 .. Len(w[v])
        BY <2>1
    <2>. QED
        BY <2>1, <2>2, Zenon
<1>11. \A v \in Server : \A t : Asked(w, v, 0, t) =>
            Asked(q, v, 0, t) \/ \E i \in C : t = N[i].currentTerm + 1
    <2>. SUFFICES ASSUME NEW v \in Server, NEW t, NEW l \in 0 + 1 .. Len(w[v]),
                         w[v][l].type = "RequestVote", w[v][l].term = t
                  PROVE  Asked(q, v, 0, t) \/ \E i \in C : t = N[i].currentTerm + 1
        BY Zenon DEF Asked
    <2>1. 0 + 1 = 1
        OBVIOUS
    <2>2. l \in 1 .. Len(w[v])
        BY <2>1
    <2>3. CASE l \in 1 .. Len(q[v]) /\ w[v][l] = q[v][l]
        BY <2>1, <2>3, Zenon DEF Asked
    <2>4. CASE w[v][l] \in S
        BY <1>6, <2>4
    <2>. QED
        BY <1>10, <2>2, <2>3, <2>4, Zenon
<1>12. \A v \in Server : N[v].state = Leader =>
           \A u \in Server : N[v].currentTerm <= N[u].currentTerm
    BY Zenon DEF Settled
<1>13. \A v \in C : \A c \in Server : ~Cast(B, P[v].currentTerm, v, c)
    <2>. SUFFICES ASSUME NEW v \in C, NEW c \in Server, Cast(B, P[v].currentTerm, v, c)
                  PROVE  FALSE
        BY Zenon
    <2>1. P[v].currentTerm <= N[v].currentTerm
        BY <1>1, <1>3, <1>7, Zenon DEF BallotsOf
    <2>. QED
        BY <1>3, <2>1
<1>14. BallotsOf(D, P)
    <2>1. ASSUME NEW s \in Nat, NEW v \in Server, NEW c \in Server, NEW d \in Server,
                 Cast(D, s, v, c), Cast(D, s, v, d)
          PROVE  c = d
        <3>1. CASE v \in C /\ s = P[v].currentTerm
            BY <1>2, <1>13, <2>1, <3>1
        <3>2. CASE ~(v \in C /\ s = P[v].currentTerm)
            <4>1. Cast(B, s, v, c) /\ Cast(B, s, v, d)
                BY <1>2, <2>1, <3>2
            <4>. QED
                BY <1>1, <4>1, Zenon DEF BallotsOf
        <3>. QED
            BY <3>1, <3>2
    <2>2. ASSUME NEW s \in Nat, NEW v \in Server, NEW c \in Server, Cast(D, s, v, c)
          PROVE  s <= P[v].currentTerm
        <3>1. CASE Cast(B, s, v, c)
            <4>1. s <= N[v].currentTerm
                BY <1>1, <3>1, Zenon DEF BallotsOf
            <4>. QED
                BY <1>7, <4>1, NoLater
        <3>2. CASE s = P[v].currentTerm
            BY <3>2
        <3>. QED
            BY <1>2, <2>2, <3>1, <3>2
    <2>3. ASSUME NEW v \in Server, P[v].state = Candidate, NEW u \in P[v].votesGranted
          PROVE  Cast(D, P[v].currentTerm, u, v)
        <3>1. CASE v \in C
            BY <1>2, <1>4, <2>3, <3>1
        <3>2. CASE v \notin C
            <4>1. /\ P[v].currentTerm = N[v].currentTerm /\ P[v].state = N[v].state
                  /\ P[v].votesGranted = N[v].votesGranted
                BY <1>5, <3>2
            <4>2. Cast(B, N[v].currentTerm, u, v)
                BY <1>1, <2>3, <4>1 DEF BallotsOf
            <4>. QED
                BY <1>2, <4>1, <4>2
        <3>. QED
            BY <3>1, <3>2
    <2>. QED
        BY <2>1, <2>2, <2>3, Zenon DEF BallotsOf
<1>15. \A v \in Server : \A k \in 1 .. Len(q[v]) :
            /\ q[v][k].type = "RequestVoteResp" /\ q[v][k].granted =>
                   Cast(B, q[v][k].term, q[v][k].from, v)
            /\ q[v][k].type = "AppendEntries" =>
                   /\ \A u \in Server : q[v][k].term <= N[u].currentTerm
                   /\ \A l \in k + 1 .. Len(q[v]) :
                          q[v][l].type = "RequestVote" => q[v][l].term > q[v][k].term
    BY <1>1, Zenon DEF LettersOf, Settled
<1>15a. \A v \in Server : \A k \in 1 .. Len(w[v]) : w[v][k].term \in Nat
    <2>. SUFFICES ASSUME NEW v \in Server, NEW k \in 1 .. Len(w[v])
                  PROVE  w[v][k].term \in Nat
        BY Zenon
    <2>1. w[v] \in Seq(Message)
        BY <1>0, Zenon DEF Longer
    <2>2. w[v][k] \in Message
        BY <2>1, ElementIn
    <2>. QED
        BY <2>2, MessageFields
<1>16. \A v \in Server : \A k \in 1 .. Len(w[v]) : w[v][k].type = "AppendEntries" =>
            w[v][k].term \in Nat /\ \A u \in Server : w[v][k].term <= N[u].currentTerm
    <2>. SUFFICES ASSUME NEW v \in Server, NEW k \in 1 .. Len(w[v]), w[v][k].type = "AppendEntries"
                  PROVE  w[v][k].term \in Nat /\ \A u \in Server : w[v][k].term <= N[u].currentTerm
        BY Zenon
    <2>0. w[v][k].term \in Nat
        BY <1>15a, Zenon
    <2>1. CASE k \in 1 .. Len(q[v]) /\ w[v][k] = q[v][k]
        BY <1>15, <2>0, <2>1, Zenon
    <2>2. CASE w[v][k] \in S
        <3>1. PICK i \in Server : N[i].state = Leader /\ w[v][k].term = N[i].currentTerm
            BY <1>6, <2>2
        <3>. QED
            BY <1>12, <2>0, <3>1, Zenon
    <2>. QED
        BY <1>10, <2>1, <2>2, Zenon
<1>17. LettersOf(D, w)
    <2>. SUFFICES ASSUME NEW v \in Server, NEW k \in 1 .. Len(w[v])
                  PROVE  /\ w[v][k].type = "RequestVoteResp" /\ w[v][k].granted =>
                                Cast(D, w[v][k].term, w[v][k].from, v)
                         /\ w[v][k].type = "AppendEntries" =>
                                \A l \in k + 1 .. Len(w[v]) :
                                    w[v][l].type = "RequestVote" => w[v][l].term > w[v][k].term
        BY Zenon DEF LettersOf
    <2>1. ASSUME w[v][k].type = "RequestVoteResp", w[v][k].granted
          PROVE  Cast(D, w[v][k].term, w[v][k].from, v)
        <3>1. w[v][k] \notin S
            BY <1>6, <2>1
        <3>2. k \in 1 .. Len(q[v]) /\ w[v][k] = q[v][k]
            BY <1>10, <3>1, Zenon
        <3>3. Cast(B, w[v][k].term, w[v][k].from, v)
            BY <1>15, <2>1, <3>2, Zenon
        <3>. QED
            BY <1>2, <3>3
    <2>2. ASSUME w[v][k].type = "AppendEntries", NEW l \in k + 1 .. Len(w[v]),
                 w[v][l].type = "RequestVote"
          PROVE  w[v][l].term > w[v][k].term
        <3>0. Len(q[v]) \in Nat /\ Len(w[v]) \in Nat
            BY <1>0, Zenon DEF Longer
        <3>1. l \in 1 .. Len(w[v])
            BY <3>0
        <3>2. CASE l \in 1 .. Len(q[v]) /\ w[v][l] = q[v][l]
            <4>1. k \in 1 .. Len(q[v]) /\ l \in k + 1 .. Len(q[v]) /\ k \notin Len(q[v]) + 1 .. Len(w[v])
                BY <3>0, <3>2
            <4>2. w[v][k] = q[v][k]
                BY <1>10, <4>1, Zenon
            <4>. QED
                BY <1>15, <2>2, <3>2, <4>1, <4>2, Zenon
        <3>3. CASE w[v][l] \in S
            <4>1. PICK i \in C : w[v][l].term = N[i].currentTerm + 1
                BY <1>6, <2>2, <3>3
            <4>2. w[v][k].term \in Nat /\ w[v][k].term <= N[i].currentTerm /\ N[i].currentTerm \in Nat
                BY <1>3, <1>16, <2>2
            <4>. QED
                BY <4>1, <4>2
        <3>. QED
            BY <1>10, <3>1, <3>2, <3>3, Zenon
    <2>. QED
        BY <2>1, <2>2
<1>18. ElectionsOf(D, E)
    BY <1>1, <1>2, Zenon DEF ElectionsOf
<1>19. TermsOf(K, P, w, NoneHandled)
    <2>0. \A v \in Server : NoneHandled[v] = 0
        BY DEF NoneHandled
    <2>1. \A v \in Server : P[v].currentTerm <= K
        <3>1. \A v \in C : P[v].currentTerm <= K
            BY <1>3, <1>9, Zenon
        <3>2. \A v \in Server \ C : P[v].currentTerm <= K
            BY <1>5, <1>8, <1>9, NoLater
        <3>. QED
            BY <3>1, <3>2
    <2>2. ASSUME NEW v \in Server, NEW k \in 1 .. Len(w[v]) PROVE w[v][k].term <= K
        <3>0. w[v][k].term \in Nat
            BY <1>15a, Zenon
        <3>1. CASE k \in 1 .. Len(q[v]) /\ w[v][k] = q[v][k]
            <4>1. w[v][k].term <= M
                BY <1>8, <3>1
            <4>. QED
                BY <1>8, <1>9, <3>0, <4>1, NoLater
        <3>2. CASE w[v][k] \in S
            <4>1. CASE \E i \in Server : w[v][k].term = N[i].currentTerm
                BY <1>8, <1>9, <3>0, <4>1, NoLater
            <4>2. CASE \E i \in C : w[v][k].term = N[i].currentTerm + 1
                BY <1>9, <4>2
            <4>. QED
                BY <1>6, <3>2, <4>1, <4>2, Zenon
        <3>. QED
            BY <1>10, <3>1, <3>2, Zenon
    <2>3. ASSUME NEW v \in Server PROVE P[v].currentTerm = K \/ Asked(w, v, 0, K)
        <3>1. CASE late
            <4>1. PICK i \in C : N[i].currentTerm = M
                BY <3>1
            <4>2. K = N[i].currentTerm + 1
                BY <3>1, <4>1
            <4>. HIDE DEF K
            <4>. QED
                BY <1>0, <4>2, Zenon
        <3>2. CASE ~late
            <4>1. K = M
                BY <3>2
            <4>2. CASE N[v].currentTerm = M
                BY <1>5, <3>2, <4>1, <4>2
            <4>3. CASE Asked(q, v, 0, M)
                <5>. HIDE DEF K
                <5>. QED
                    BY <1>0, <4>1, <4>3, StillAsked, Zenon
            <4>. QED
                BY <1>8, <4>2, <4>3
        <3>. QED
            BY <3>1, <3>2
    <2>. HIDE DEF K
    <2>. QED
        BY <1>9, <2>0, <2>1, <2>2, <2>3, Zenon DEF TermsOf
<1>20. \A v \in Server : Remembers(D, P, v) \/ (v \notin C /\ ~Remembers(B, N, v))
    <2>. SUFFICES ASSUME NEW v \in Server, v \in C \/ Remembers(B, N, v)
                  PROVE  Remembers(D, P, v)
        BY Zenon
    <2>1. CASE v \in C
        <3>. SUFFICES ASSUME NEW c \in Server, Cast(D, P[v].currentTerm, v, c)
                      PROVE  c = P[v].votedFor
            BY Zenon DEF Remembers
        <3>1. ~Cast(B, P[v].currentTerm, v, c)
            BY <1>13, <2>1, Zenon
        <3>2. c = v
            BY <1>2, <3>1
        <3>. QED
            BY <1>4, <2>1, <3>2, Zenon
    <2>2. CASE v \notin C
        BY <1>2, <1>5, <2>2 DEF Remembers
    <2>. QED
        BY <2>1, <2>2
<1>21. \A v \in Server : ~Remembers(B, N, v) => \A u \in Server : N[v].currentTerm <= N[u].currentTerm
    BY Zenon DEF Settled
<1>22. NotAskedTwice(D, P, w, NoneHandled)
    <2>. SUFFICES ASSUME NEW v \in Server, v \notin C, ~Remembers(B, N, v),
                         Asked(w, v, 0, N[v].currentTerm)
                  PROVE  FALSE
        <3>1. \A v \in Server : NoneHandled[v] = 0
            BY DEF NoneHandled
        <3>. QED
            BY <1>5, <1>20, <3>1 DEF NotAskedTwice
    <2>1. NoneHandled[v] = 0
        BY DEF NoneHandled
    <2>2. ~Asked(q, v, 0, N[v].currentTerm)
        BY <1>1, <2>1 DEF NotAskedTwice
    <2>3. PICK i \in C : N[v].currentTerm = N[i].currentTerm + 1
        BY <1>11, <2>2, Zenon
    <2>4. N[v].currentTerm <= N[i].currentTerm /\ N[i].currentTerm \in Nat
        BY <1>3, <1>21
    <2>. QED
        BY <2>3, <2>4
<1>23. Settled(D, P, w)
    <2>1. ASSUME NEW v \in Server, NEW u \in Server, v \notin C, N[v].currentTerm <= N[u].currentTerm
          PROVE  P[v].currentTerm <= P[u].currentTerm
        BY <1>5, <1>7, <2>1, NoLater
    <2>2. ASSUME NEW v \in Server, NEW u \in Server, P[v].state = Leader
          PROVE  P[v].currentTerm <= P[u].currentTerm
        <3>1. v \notin C
            BY <1>4, <2>2 DEF Candidate, Leader
        <3>2. N[v].currentTerm <= N[u].currentTerm
            BY <1>5, <1>12, <2>2, <3>1
        <3>. QED
            BY <2>1, <3>1, <3>2
    <2>3. ASSUME NEW v \in Server, NEW u \in Server, NEW k \in 1 .. Len(w[v]),
                 w[v][k].type = "AppendEntries"
          PROVE  w[v][k].term <= P[u].currentTerm
        BY <1>7, <1>16, <2>3, NoLater
    <2>4. ASSUME NEW v \in Server, NEW u \in Server, ~Remembers(D, P, v)
          PROVE  P[v].currentTerm <= P[u].currentTerm
        BY <1>20, <1>21, <2>1, <2>4
    <2>. QED
        BY <2>2, <2>3, <2>4, Zenon DEF Settled
<1>24. \A v \in Server : ~P[v].crashed
    BY <1>1, <1>4, <1>5
<1>25. InRound(D, K, P, w, E, NoneHandled)
    <2>. HIDE DEF K
    <2>. QED
        BY <1>14, <1>17, <1>18, <1>19, <1>22, <1>24, Zenon DEF InRound
<1>. HIDE DEF K
<1>. QED
    BY <1>23, <1>25, Zenon

=============================================================================
