--------------------------- MODULE StorageProofs ---------------------------
(***************************************************************************)
(* Theorems about the files and the compacted log that Storage composes,   *)
(* for every value of its constants; CodecProofs has those about its other *)
(* parts.                                                                  *)
(*                                                                         *)
(* StorageInv is inductive.  It says of each part                          *)
(*  - files: what a reader finds is a beginning of what one Save was to     *)
(*    write; a beginning decodes to the whole or not at all;                *)
(*  - compacted log: it is the tail of a ghost log of all that was stored.  *)
(***************************************************************************)
EXTENDS Storage, TLAPS

-----------------------------------------------------------------------------
(***************************************************************************)
(* Sequences and numbers.                                                  *)
(***************************************************************************)

\* A sequence is a function on the numbers up to its length.
LEMMA LengthOfSeq ==
    ASSUME NEW S, NEW s \in Seq(S)
    PROVE  Len(s) \in Nat /\ s \in [1 .. Len(s) -> S] /\ DOMAIN s = 1 .. Len(s)
    OBVIOUS

\* The words of a file are where they should be.
LEMMA ElementIn ==
    ASSUME NEW S, NEW s \in Seq(S), NEW n \in 1 .. Len(s)
    PROVE  s[n] \in S
    OBVIOUS

\* The empty file, and one that is not.
LEMMA NoElements ==
    ASSUME NEW S
    PROVE  /\ << >> \in Seq(S) /\ Len(<< >>) = 0
           /\ \A s \in Seq(S) : s # << >> => Len(s) \in Nat \ {0}
    OBVIOUS

\* What a write adds to a file, and append(a, b...) to a slice.
LEMMA TwoSeqs ==
    ASSUME NEW S, NEW s \in Seq(S), NEW t \in Seq(S)
    PROVE  /\ s \o t \in Seq(S) /\ Len(s \o t) = Len(s) + Len(t)
           /\ \A i \in 1 .. Len(s) + Len(t) :
                (s \o t)[i] = IF i <= Len(s) THEN s[i] ELSE t[i - Len(s)]
           /\ s \o << >> = s /\ << >> \o s = s
    OBVIOUS

\* What append(a, x) does.
LEMMA OneMore ==
    ASSUME NEW S, NEW s \in Seq(S), NEW x \in S
    PROVE  /\ Append(s, x) \in Seq(S) /\ Append(s, x) # << >>
           /\ Len(Append(s, x)) = Len(s) + 1 /\ Append(s, x)[Len(s) + 1] = x
           /\ \A i \in 1 .. Len(s) : Append(s, x)[i] = s[i]
           /\ Append(s, x) = s \o <<x>>
    OBVIOUS

\* What a[m : n] is.
LEMMA PartOfSeq ==
    ASSUME NEW S, NEW s, NEW m \in Int, NEW n \in Int, \A i \in m .. n : s[i] \in S
    PROVE  /\ SubSeq(s, m, n) \in Seq(S)
           /\ Len(SubSeq(s, m, n)) = IF m <= n THEN n - m + 1 ELSE 0
           /\ \A i \in 1 .. n - m + 1 : SubSeq(s, m, n)[i] = s[m + i - 1]
    OBVIOUS

\* All of it.
LEMMA WholeSeq ==
    ASSUME NEW S, NEW s \in Seq(S)
    PROVE  SubSeq(s, 1, Len(s)) = s
    OBVIOUS

\* Two sequences of one length with the same elements are the same.
LEMMA SameElements ==
    ASSUME NEW S, NEW s \in Seq(S), NEW t \in Seq(S),
           Len(s) = Len(t), \A i \in 1 .. Len(s) : s[i] = t[i]
    PROVE  s = t
    OBVIOUS

\* Writes can be put together in either order.
LEMMA ThreeSeqs ==
    ASSUME NEW S, NEW s \in Seq(S), NEW t \in Seq(S), NEW u \in Seq(S)
    PROVE  (s \o t) \o u = s \o (t \o u)
    OBVIOUS

\* What is read first, and what remains.
LEMMA FirstAndRest ==
    ASSUME NEW S, NEW s \in Seq(S), s # << >>
    PROVE  /\ Head(s) \in S /\ Tail(s) \in Seq(S) /\ Len(Tail(s)) = Len(s) - 1
           /\ \A i \in 1 .. Len(Tail(s)) : Tail(s)[i] = s[i + 1]
    OBVIOUS

\* The larger of two integers, as Truncate and SeekTo clamp an index.
LEMMA MaxOfTwo ==
    ASSUME NEW a \in Int, NEW b \in Int
    PROVE  Max({a, b}) = IF a >= b THEN a ELSE b
BY DEF Max

\* The least member of a set of integers, where it is known.
LEMMA LeastIsMin ==
    ASSUME NEW S, S \subseteq Int, NEW x \in S, \A y \in S : x <= y
    PROVE  Min(S) = x
<1>1. \A z \in S : (\A y \in S : z <= y) => z = x
    OBVIOUS
<1>. QED
    BY <1>1, Zenon DEF Min

\* The words of a term, a vote and entries: a header, and three words for each
\* entry, from which the entry can be read.
AreWordsOf(d, term, vote, es) ==
    /\ d \in Seq({term, vote} \cup Nat \cup Command)
    /\ Len(d) = 3 + 3 * Len(es)
    /\ d[1] = term /\ d[2] = vote /\ d[3] = Len(es)
    /\ \A k \in 1 .. Len(es) : DecodedEntry(d, k) = es[k]
    /\ [k \in 1 .. Len(es) |-> DecodedEntry(d, k)] = es

\* Serialize writes these words.
LEMMA SerializedWords ==
    ASSUME NEW term, NEW vote, NEW es \in Seq(Entry)
    PROVE  AreWordsOf(Serialize([currentTerm |-> term, votedFor |-> vote, entries |-> es]),
                      term, vote, es)
<1> DEFINE n == Len(es)
           header == <<term, vote, n>>
           WordOf(w) == LET e == es[((w - 1) \div 3) + 1]
                        IN  <<e.term, e.index, e.command>>[((w - 1) % 3) + 1]
           body == [w \in 1 .. 3 * n |-> WordOf(w)]
           Word == {term, vote} \cup Nat \cup Command
           data == header \o body
<1>1. n \in Nat
    BY LengthOfSeq
<1>2. ASSUME NEW k \in 1 .. n
      PROVE  /\ 3 * k - 2 \in 1 .. 3 * n /\ WordOf(3 * k - 2) = es[k].term
             /\ 3 * k - 1 \in 1 .. 3 * n /\ WordOf(3 * k - 1) = es[k].index
             /\ 3 * k \in 1 .. 3 * n /\ WordOf(3 * k) = es[k].command
    <2>1. /\ 3 * k - 2 \in 1 .. 3 * n
          /\ 3 * k - 1 \in 1 .. 3 * n
          /\ 3 * k \in 1 .. 3 * n
        BY <1>1
    <2>2. /\ (((3 * k - 2) - 1) \div 3) + 1 = k
          /\ (((3 * k - 1) - 1) \div 3) + 1 = k
          /\ ((3 * k - 1) \div 3) + 1 = k
        BY <1>1
    <2>3. /\ (((3 * k - 2) - 1) % 3) + 1 = 1
          /\ (((3 * k - 1) - 1) % 3) + 1 = 2
          /\ ((3 * k - 1) % 3) + 1 = 3
        BY <1>1
    <2>4. /\ WordOf(3 * k - 2) = <<es[k].term, es[k].index, es[k].command>>[1]
          /\ WordOf(3 * k - 1) = <<es[k].term, es[k].index, es[k].command>>[2]
          /\ WordOf(3 * k) = <<es[k].term, es[k].index, es[k].command>>[3]
        BY <2>2, <2>3, Zenon
    <2> QED
        BY <2>1, <2>4, Zenon
<1>2a. ASSUME NEW w \in 1 .. 3 * n
      PROVE  WordOf(w) \in Word
    <2> DEFINE k == ((w - 1) \div 3) + 1
               r == ((w - 1) % 3) + 1
    <2>1. k \in 1 .. n /\ r \in 1 .. 3
        BY <1>1
    <2>2. es[k] \in Entry
        BY <2>1, ElementIn
    <2>3. WordOf(w) = <<es[k].term, es[k].index, es[k].command>>[r]
        OBVIOUS
    <2> HIDE DEF k, r, WordOf
    <2>4. es[k].term \in Nat /\ es[k].index \in Nat /\ es[k].command \in Command
        BY <2>2 DEF Entry
    <2> QED
        BY <2>1, <2>3, <2>4
<1> HIDE DEF WordOf
<1>3. header \in Seq(Word) /\ Len(header) = 3
    BY <1>1
<1>4. body \in Seq(Word) /\ Len(body) = 3 * n
    <2>1. 3 * n \in Nat /\ body \in [1 .. 3 * n -> Word]
        BY <1>1, <1>2a
    <2> QED
        BY <2>1
<1> HIDE DEF Word
<1>5. /\ data \in Seq(Word)
      /\ Len(data) = 3 + 3 * n
      /\ \A i \in 1 .. 3 + 3 * n : data[i] = IF i <= 3 THEN header[i] ELSE body[i - 3]
    BY <1>1, <1>3, <1>4, TwoSeqs
<1>6. data[1] = term /\ data[2] = vote /\ data[3] = n
    BY <1>1, <1>5
<1> HIDE DEF data
<1>7. ASSUME NEW k \in 1 .. n
      PROVE  DecodedEntry(data, k) = es[k]
    <2>1. /\ data[3 * k + 1] = body[3 * k - 2]
          /\ data[3 * k + 2] = body[3 * k - 1]
          /\ data[3 * k + 3] = body[3 * k]
        <3>1. ASSUME NEW i \in 1 .. 3
              PROVE  data[3 * k + i] = body[3 * k + i - 3]
            BY <1>1, <1>5
        <3>2. 3 * k + 1 - 3 = 3 * k - 2 /\ 3 * k + 2 - 3 = 3 * k - 1 /\ 3 * k + 3 - 3 = 3 * k
            BY <1>1
        <3> QED
            BY <3>1, <3>2
    <2>2. /\ data[3 * k + 1] = es[k].term
          /\ data[3 * k + 2] = es[k].index
          /\ data[3 * k + 3] = es[k].command
        BY <1>2, <2>1
    <2>3. es[k] \in Entry
        BY ElementIn
    <2> QED
        BY <2>2, <2>3 DEF DecodedEntry, Entry
<1>8. [k \in 1 .. n |-> DecodedEntry(data, k)] = es
    <2>1. es = [k \in 1 .. n |-> es[k]]
        BY LengthOfSeq
    <2> QED
        BY <1>7, <2>1
<1>9. Serialize([currentTerm |-> term, votedFor |-> vote, entries |-> es]) = data
    BY DEF Serialize, data, WordOf
<1>10. AreWordsOf(data, term, vote, es)
    BY <1>5, <1>6, <1>7, <1>8 DEF AreWordsOf, Word
<1> QED
    BY <1>9, <1>10, Zenon

Word == Nat \cup Command \cup {Magic}

\* x is what one Save wrote, or the beginning of it, or there is no file.
IsPartlySaved(x) == x = NoFile \/ \E s \in given : x \in Beginnings(Encode(s))

StateFileInv ==
    /\ given \subseteq State
    /\ ZeroState \in given /\ target \in given
    /\ IsPartlySaved(file) /\ IsPartlySaved(disk)
    /\ status = "none" => file = NoFile /\ disk = NoFile /\ target = ZeroState
    /\ status = "saving" =>
         /\ file \in Seq(Word) /\ pending \in Seq(Word)
         /\ file \o pending = Encode(target)
    /\ status = "ok" => file = Encode(target) /\ disk = file

-----------------------------------------------------------------------------
(***************************************************************************)
(* The encoding.                                                           *)
(***************************************************************************)

\* The words of an encoded state: the magic, the header and the entries.
LEMMA EncodedWords ==
    ASSUME NEW s \in State
    PROVE  /\ Serialize(s) \in Seq(Word)
           /\ Len(s.entries) \in Nat
           /\ Len(Serialize(s)) = 3 + 3 * Len(s.entries)
           /\ Serialize(s)[1] = s.currentTerm
           /\ Serialize(s)[2] = s.votedFor
           /\ Serialize(s)[3] = Len(s.entries)
           /\ \A k \in 1 .. Len(s.entries) : DecodedEntry(Serialize(s), k) = s.entries[k]
           /\ Decoded(Serialize(s), Len(s.entries)) = s
<1> DEFINE d == Serialize(s)
<1>1. /\ s.currentTerm \in Nat /\ s.votedFor \in Nat /\ s.entries \in Seq(Entry)
      /\ s = [currentTerm |-> s.currentTerm, votedFor |-> s.votedFor, entries |-> s.entries]
    BY DEF State
<1>2. Len(s.entries) \in Nat
    BY <1>1, LengthOfSeq
<1>3. /\ d \in Seq({s.currentTerm, s.votedFor} \cup Nat \cup Command)
      /\ Len(d) = 3 + 3 * Len(s.entries)
      /\ d[1] = s.currentTerm /\ d[2] = s.votedFor /\ d[3] = Len(s.entries)
      /\ \A k \in 1 .. Len(s.entries) : DecodedEntry(d, k) = s.entries[k]
      /\ [k \in 1 .. Len(s.entries) |-> DecodedEntry(d, k)] = s.entries
    <2>1. AreWordsOf(d, s.currentTerm, s.votedFor, s.entries)
        BY <1>1, SerializedWords, Zenon
    <2> HIDE DEF d
    <2> QED
        BY <2>1 DEF AreWordsOf
<1> HIDE DEF d
<1>4. d \in Seq(Word)
    <2>1. {s.currentTerm, s.votedFor} \cup Nat \cup Command \subseteq Word
        BY <1>1 DEF Word
    <2> QED
        BY <1>3, <2>1
<1>5. Decoded(d, Len(s.entries)) = s
    BY <1>1, <1>3 DEF Decoded
<1> QED
    BY <1>2, <1>3, <1>4, <1>5 DEF d

\* An encoded state starts with the magic.
LEMMA EncodeSays ==
    ASSUME NEW s \in State
    PROVE  /\ Encode(s) \in Seq(Word)
           /\ Len(Encode(s)) = 1 + Len(Serialize(s))
           /\ Encode(s)[1] = Magic
           /\ \A k \in 1 .. Len(Serialize(s)) : Encode(s)[k + 1] = Serialize(s)[k]
<1>1. Serialize(s) \in Seq(Word) /\ Len(Serialize(s)) \in Nat
    BY EncodedWords, LengthOfSeq
<1>2. <<Magic>> \in Seq(Word) /\ Len(<<Magic>>) = 1 /\ <<Magic>>[1] = Magic
    BY DEF Word
<1>3. /\ Encode(s) \in Seq(Word)
      /\ Len(Encode(s)) = Len(<<Magic>>) + Len(Serialize(s))
      /\ \A i \in 1 .. Len(<<Magic>>) + Len(Serialize(s)) : Encode(s)[i] =
            IF i <= Len(<<Magic>>) THEN <<Magic>>[i] ELSE Serialize(s)[i - Len(<<Magic>>)]
    BY <1>1, <1>2, TwoSeqs DEF Encode
<1>4. 1 \in 1 .. 1 + Len(Serialize(s))
    BY <1>1
<1>5. ASSUME NEW k \in 1 .. Len(Serialize(s))
      PROVE  Encode(s)[k + 1] = Serialize(s)[k]
    <2>1. k + 1 \in 1 .. 1 + Len(Serialize(s)) /\ ~(k + 1 <= 1) /\ (k + 1) - 1 = k
        BY <1>1
    <2> QED
        BY <1>2, <1>3, <2>1
<1> QED
    BY <1>2, <1>3, <1>4, <1>5

\* The beginnings of a sequence are sequences; the sequence is one of them.
LEMMA BeginningsSay ==
    ASSUME NEW S, NEW s \in Seq(S)
    PROVE  /\ s \in Beginnings(s)
           /\ <<>> \in Beginnings(s)
           /\ \A x \in Beginnings(s) :
                /\ x \in Seq(S) /\ Len(x) \in 0 .. Len(s)
                /\ \A k \in 1 .. Len(x) : x[k] = s[k]
                /\ Len(x) = Len(s) => x = s
           /\ \A n \in 0 .. Len(s) : SubSeq(s, 1, n) \in Beginnings(s)
<1>1. Len(s) \in Nat
    BY LengthOfSeq
<1>2. \A n \in 0 .. Len(s) : SubSeq(s, 1, n) \in Beginnings(s)
    BY DEF Beginnings
<1>3. SubSeq(s, 1, Len(s)) = s
    BY WholeSeq
<1>4. s \in Beginnings(s)
    <2>1. Len(s) \in 0 .. Len(s)
        BY <1>1
    <2> QED
        BY <1>2, <1>3, <2>1, Zenon
<1>5. ASSUME NEW n \in 0 .. Len(s)
      PROVE  /\ SubSeq(s, 1, n) \in Seq(S)
             /\ Len(SubSeq(s, 1, n)) = n
             /\ \A k \in 1 .. n : SubSeq(s, 1, n)[k] = s[k]
    <2>1. \A k \in 1 .. n : s[k] \in S
        BY <1>1, ElementIn
    <2>2. /\ SubSeq(s, 1, n) \in Seq(S)
          /\ Len(SubSeq(s, 1, n)) = IF 1 <= n THEN n - 1 + 1 ELSE 0
          /\ \A k \in 1 .. n - 1 + 1 : SubSeq(s, 1, n)[k] = s[1 + k - 1]
        BY <1>1, <2>1, PartOfSeq
    <2> QED
        BY <1>1, <2>2
<1>6. <<>> \in Beginnings(s)
    <2>1. SubSeq(s, 1, 0) = <<>>
        <3>1. 0 \in 0 .. Len(s)
            BY <1>1
        <3>2. SubSeq(s, 1, 0) \in Seq(S) /\ Len(SubSeq(s, 1, 0)) = 0
            BY <1>5, <3>1
        <3> QED
            BY <3>2, NoElements
    <2>2. 0 \in 0 .. Len(s)
        BY <1>1
    <2> QED
        BY <1>2, <2>1, <2>2, Zenon
<1>7. ASSUME NEW x \in Beginnings(s)
      PROVE  /\ x \in Seq(S) /\ Len(x) \in 0 .. Len(s)
             /\ \A k \in 1 .. Len(x) : x[k] = s[k]
             /\ Len(x) = Len(s) => x = s
    <2>1. PICK n \in 0 .. Len(s) : x = SubSeq(s, 1, n)
        BY DEF Beginnings
    <2> QED
        BY <1>3, <1>5, <2>1
<1> QED
    BY <1>2, <1>4, <1>6, <1>7

\* A beginning of a sequence has its elements.
LEMMA BeginningIsLike ==
    ASSUME NEW S, NEW s \in Seq(S), NEW x \in Beginnings(s)
    PROVE  /\ x \in Seq(S) /\ Len(x) \in 0 .. Len(s)
           /\ \A k \in 1 .. Len(x) : x[k] = s[k]
           /\ Len(x) = Len(s) => x = s
BY BeginningsSay, Zenon

\* What has the elements of a sequence, as far as it goes, is a beginning of it.
LEMMA LikeIsBeginning ==
    ASSUME NEW S, NEW s \in Seq(S), NEW x \in Seq(S), Len(x) \in 0 .. Len(s),
           \A k \in 1 .. Len(x) : x[k] = s[k]
    PROVE  x \in Beginnings(s)
<1> DEFINE n == Len(x)
           y == SubSeq(s, 1, n)
<1>1. Len(s) \in Nat /\ n \in Nat
    BY LengthOfSeq
<1>2. \A k \in 1 .. n : s[k] \in S
    BY <1>1, ElementIn
<1>3. /\ y \in Seq(S)
      /\ Len(y) = IF 1 <= n THEN n - 1 + 1 ELSE 0
      /\ \A k \in 1 .. n - 1 + 1 : y[k] = s[1 + k - 1]
    BY <1>1, <1>2, PartOfSeq
<1>4. y \in Beginnings(s)
    BY DEF Beginnings
<1> HIDE DEF y
<1>5. Len(y) = n /\ \A k \in 1 .. n : x[k] = y[k]
    BY <1>1, <1>3
<1>6. x = y
    BY <1>3, <1>5, SameElements
<1> QED
    BY <1>4, <1>6

\* A beginning of a beginning is a beginning.
LEMMA BeginningsNest ==
    ASSUME NEW S, NEW s \in Seq(S), NEW x \in Beginnings(s), NEW y \in Beginnings(x)
    PROVE  y \in Beginnings(s)
<1>1. x \in Seq(S) /\ Len(x) \in 0 .. Len(s) /\ \A k \in 1 .. Len(x) : x[k] = s[k]
    BY BeginningIsLike
<1>2. y \in Seq(S) /\ Len(y) \in 0 .. Len(x) /\ \A k \in 1 .. Len(y) : y[k] = x[k]
    BY <1>1, BeginningIsLike
<1>3. Len(s) \in Nat /\ Len(x) \in Nat /\ Len(y) \in Nat
    BY <1>1, <1>2, LengthOfSeq
<1>4. Len(y) \in 0 .. Len(s) /\ \A k \in 1 .. Len(y) : k \in 1 .. Len(x)
    BY <1>1, <1>2, <1>3
<1>5. \A k \in 1 .. Len(y) : y[k] = s[k]
    BY <1>1, <1>2, <1>4, Zenon
<1> QED
    BY <1>2, <1>4, <1>5, LikeIsBeginning

\* The left part of a concatenation is a beginning of it.
LEMMA LeftIsBeginning ==
    ASSUME NEW S, NEW x \in Seq(S), NEW y \in Seq(S)
    PROVE  x \in Beginnings(x \o y)
<1>1. Len(x) \in Nat /\ Len(y) \in Nat
    BY LengthOfSeq
<1>2. /\ x \o y \in Seq(S) /\ Len(x \o y) = Len(x) + Len(y)
      /\ \A k \in 1 .. Len(x) + Len(y) :
            (x \o y)[k] = IF k <= Len(x) THEN x[k] ELSE y[k - Len(x)]
    BY TwoSeqs
<1>3. Len(x) \in 0 .. Len(x \o y) /\ \A k \in 1 .. Len(x) : x[k] = (x \o y)[k]
    BY <1>1, <1>2
<1> QED
    BY <1>2, <1>3, LikeIsBeginning

-----------------------------------------------------------------------------
(***************************************************************************)
(* Load.                                                                   *)
(***************************************************************************)

\* Words are not the absence of a file.
LEMMA WordsAreAFile ==
    ASSUME NEW x \in Seq(Word)
    PROVE  x # NoFile
BY StateFileAssumption DEF Word

\* After the magic come the words of the state.
LEMMA TailOfBeginning ==
    ASSUME NEW s \in State, NEW x \in Beginnings(Encode(s)), x # <<>>
    PROVE  /\ x \in Seq(Word) /\ x[1] = Magic
           /\ Tail(x) \in Seq(Word) /\ Len(Tail(x)) \in 0 .. Len(Serialize(s))
           /\ \A k \in 1 .. Len(Tail(x)) : Tail(x)[k] = Serialize(s)[k]
           /\ Len(Tail(x)) = Len(Serialize(s)) => Tail(x) = Serialize(s)
           /\ x = Encode(s) => Len(Tail(x)) = Len(Serialize(s))
<1> DEFINE d == Serialize(s)
           e == Encode(s)
           t == Tail(x)
<1>1. d \in Seq(Word) /\ Len(d) \in Nat
    BY EncodedWords, LengthOfSeq
<1>2. e \in Seq(Word) /\ Len(e) = 1 + Len(d) /\ e[1] = Magic
      /\ \A k \in 1 .. Len(d) : e[k + 1] = d[k]
    BY EncodeSays
<1>2a. /\ x \in Seq(Word) /\ Len(x) \in 0 .. Len(Encode(s))
       /\ \A k \in 1 .. Len(x) : x[k] = Encode(s)[k]
    <2>1. Encode(s) \in Seq(Word)
        BY EncodeSays
    <2> QED
        BY <2>1, BeginningIsLike
<1> HIDE DEF d, e
<1>3. x \in Seq(Word) /\ Len(x) \in 0 .. Len(e) /\ \A k \in 1 .. Len(x) : x[k] = e[k]
    BY <1>2a DEF e
<1>4. Len(x) >= 1 /\ Len(x) \in Nat
    BY <1>1, <1>2, <1>3, NoElements
<1>5. /\ t \in Seq(Word) /\ Len(t) = Len(x) - 1
      /\ \A k \in 1 .. Len(t) : t[k] = x[k + 1]
    BY <1>3, FirstAndRest
<1> HIDE DEF t
<1>6. Len(t) \in 0 .. Len(d)
    BY <1>1, <1>2, <1>3, <1>4, <1>5
<1>7. \A k \in 1 .. Len(t) : t[k] = d[k]
    <2> TAKE k \in 1 .. Len(t)
    <2>1. k + 1 \in 1 .. Len(x) /\ k \in 1 .. Len(d)
        BY <1>1, <1>4, <1>5, <1>6
    <2> QED
        BY <1>2, <1>3, <1>5, <2>1
<1>8. Len(t) = Len(d) => t = d
    BY <1>1, <1>5, <1>7, SameElements
<1>9. x[1] = Magic
    BY <1>2, <1>3, <1>4
<1>10. x = e => Len(t) = Len(d)
    BY <1>1, <1>2, <1>5
<1> QED
    BY <1>3, <1>5, <1>6, <1>7, <1>8, <1>9, <1>10 DEF d, e, t

\* A beginning of an encoded state loads as the whole state or not at all: the
\* number of entries comes first, so a shorter file is never taken for a shorter
\* log.
LEMMA BeginningLoads ==
    ASSUME NEW s \in State, NEW x \in Beginnings(Encode(s))
    PROVE  x # NoFile /\ Load(x) \in Errors \cup {s}
<1>1. Encode(s) \in Seq(Word)
    BY EncodeSays
<1>2. x \in Seq(Word) /\ x # NoFile
    BY <1>1, BeginningsSay, WordsAreAFile
<1>3. CASE x = <<>>
    BY <1>2, <1>3 DEF Load, Errors
<1>4. CASE x # <<>>
    <2> DEFINE d == Tail(x)
               n == Len(s.entries)
    <2>1. /\ x[1] = Magic /\ Len(d) \in 0 .. Len(Serialize(s))
          /\ \A k \in 1 .. Len(d) : d[k] = Serialize(s)[k]
          /\ Len(d) = Len(Serialize(s)) => d = Serialize(s)
        BY <1>4, TailOfBeginning
    <2>2. /\ n \in Nat /\ Len(Serialize(s)) = 3 + 3 * n
          /\ Serialize(s)[3] = n /\ Decoded(Serialize(s), n) = s
        BY EncodedWords
    <2>3. Load(x) = Decode(d)
        BY <1>2, <1>4, <2>1 DEF Load
    <2> HIDE DEF d, n
    <2>4. CASE Len(d) < 3
        BY <1>2, <2>3, <2>4, Zenon DEF Decode, Errors
    <2>5. CASE ~(Len(d) < 3)
        <3>1. d[3] = n
            BY <2>1, <2>2, <2>5
        <3>2. CASE Len(d) < 3 + 3 * n
            <4>1. Len(d) < 3 + 3 * d[3]
                BY <3>1, <3>2
            <4>2. Decode(d) \in {ErrCorrupt, ErrEOF}
                BY <2>5, <4>1, Zenon DEF Decode
            <4> QED
                BY <1>2, <2>3, <4>2, Zenon DEF Errors
        <3>3. CASE ~(Len(d) < 3 + 3 * n)
            <4>1. d = Serialize(s)
                BY <2>1, <2>2, <3>3
            <4>2. Decoded(d, d[3]) = s
                BY <2>2, <3>1, <4>1
            <4>3. ~(Len(d) < 3 + 3 * d[3])
                BY <3>1, <3>3
            <4>4. Decode(d) \in {ErrCorrupt, s}
                BY <2>5, <4>2, <4>3, Zenon DEF Decode
            <4> QED
                BY <1>2, <2>3, <4>4, Zenon DEF Errors
        <3> QED
            BY <3>2, <3>3, Zenon
    <2> QED
        BY <2>4, <2>5, Zenon
<1> QED
    BY <1>2, <1>3, <1>4

\* A whole file loads as the state, or is refused if the state is too large.
LEMMA WholeLoads ==
    ASSUME NEW s \in State
    PROVE  Load(Encode(s)) = IF Fits(s) THEN s ELSE ErrCorrupt
<1> DEFINE x == Encode(s)
           d == Serialize(s)
           n == Len(s.entries)
<1>1. /\ d \in Seq(Word) /\ n \in Nat /\ Len(d) = 3 + 3 * n /\ d[3] = n
      /\ \A k \in 1 .. n : DecodedEntry(d, k) = s.entries[k]
      /\ Decoded(d, n) = s
    BY EncodedWords
<1>2. x \in Seq(Word) /\ Len(x) = 1 + Len(d) /\ x # NoFile
    BY EncodeSays, WordsAreAFile
<1>3. x \in Beginnings(Encode(s)) /\ x # <<>>
    <2>1. x \in Beginnings(Encode(s))
        BY <1>2, BeginningsSay, Zenon
    <2>2. Len(x) # 0
        BY <1>1, <1>2
    <2> QED
        BY <1>2, <2>1, <2>2, NoElements
<1>4. x[1] = Magic /\ Tail(x) = d
    BY <1>3, TailOfBeginning
<1>5. Load(x) = Decode(d)
    BY <1>2, <1>3, <1>4, Zenon DEF Load
<1> HIDE DEF x, d
<1>6. Complete(d) = 1 .. n
    BY <1>1 DEF Complete
<1>7. ~(Len(d) < 3) /\ ~(Len(d) < 3 + 3 * n)
    BY <1>1
<1>8. /\ (d[3] > MaxCount) <=> ~(n <= MaxCount)
      /\ (\E k \in Complete(d) : DecodedEntry(d, k).command \in Absurd)
         <=> \E k \in 1 .. n : s.entries[k].command \in Absurd
    <2>1. (d[3] > MaxCount) <=> ~(n <= MaxCount)
        BY <1>1, StateFileAssumption
    <2>2. \A k \in 1 .. n : DecodedEntry(d, k).command = s.entries[k].command
        BY <1>1, Zenon
    <2> QED
        BY <1>6, <2>1, <2>2, Zenon
<1>9. CASE Fits(s)
    BY <1>1, <1>5, <1>7, <1>8, <1>9, Zenon DEF Decode, Fits, x
<1>10. CASE ~Fits(s)
    BY <1>1, <1>5, <1>7, <1>8, <1>10, Zenon DEF Decode, Fits, x
<1> QED
    BY <1>9, <1>10

-----------------------------------------------------------------------------
(***************************************************************************)
(* The invariant.                                                          *)
(***************************************************************************)

\* There is no file before the first Save.
LEMMA StateFileInvInit == Init => StateFileInv
BY DEF Init, FileInit, StateFileInv, IsPartlySaved, ZeroState, State

\* A beginning of something partly saved is partly saved.
LEMMA PartlySavedNests ==
    ASSUME given \subseteq State, NEW x, IsPartlySaved(x), x # NoFile,
           NEW y \in Beginnings(x)
    PROVE  IsPartlySaved(y)
<1>1. PICK s \in given : x \in Beginnings(Encode(s))
    BY DEF IsPartlySaved
<1>2. Encode(s) \in Seq(Word)
    BY EncodeSays
<1>3. y \in Beginnings(Encode(s))
    BY <1>1, <1>2, BeginningsNest
<1> QED
    BY <1>3 DEF IsPartlySaved

\* Save empties the file, whatever it held.
LEMMA SaveKeepsInv ==
    ASSUME StateFileInv, NEW s \in States, Save(s)
    PROVE  StateFileInv'
<1>1. s \in State /\ given' = given \cup {s} /\ target' = s
    BY StateFileAssumption DEF Save
<1>2. file' = <<>> /\ disk' = disk /\ pending' = Encode(s) /\ status' = "saving"
    BY DEF Save, Create
<1>3. Encode(s) \in Seq(Word) /\ <<>> \in Seq(Word) /\ <<>> \o Encode(s) = Encode(s)
    BY <1>1, EncodeSays, TwoSeqs, NoElements
<1>4. <<>> \in Beginnings(Encode(s))
    BY <1>3, BeginningsSay, Zenon
<1>5. IsPartlySaved(file)'
    BY <1>1, <1>2, <1>4 DEF IsPartlySaved
<1>6. IsPartlySaved(disk)'
    BY <1>1, <1>2 DEF StateFileInv, IsPartlySaved
<1> QED
    BY <1>1, <1>2, <1>3, <1>5, <1>6 DEF StateFileInv

\* The next word goes from what is to be written to what is written.
LEMMA OneWordOver ==
    ASSUME NEW S, NEW x \in Seq(S), NEW y \in Seq(S), y # <<>>
    PROVE  /\ Append(x, Head(y)) \in Seq(S) /\ Tail(y) \in Seq(S)
           /\ Append(x, Head(y)) \o Tail(y) = x \o y
<1>1. Head(y) \in S /\ Tail(y) \in Seq(S)
    BY FirstAndRest
<1>2. Append(x, Head(y)) \in Seq(S)
    BY <1>1, OneMore
<1>3. Append(x, Head(y)) \o Tail(y) = x \o y
    <2> DEFINE h == <<Head(y)>>
               t == Tail(y)
    <2>1. h \in Seq(S) /\ Len(h) = 1 /\ h[1] = Head(y)
        BY <1>1
    <2>2. /\ t \in Seq(S) /\ Len(t) = Len(y) - 1
          /\ \A i \in 1 .. Len(t) : t[i] = y[i + 1]
          /\ Len(y) \in Nat \ {0} /\ Head(y) = y[1]
        BY FirstAndRest, NoElements
    <2>3. Append(x, Head(y)) = x \o h
        BY <1>1, OneMore
    <2> HIDE DEF h, t
    <2>4. /\ h \o t \in Seq(S) /\ Len(h \o t) = Len(h) + Len(t)
          /\ \A i \in 1 .. Len(h) + Len(t) :
                (h \o t)[i] = IF i <= Len(h) THEN h[i] ELSE t[i - Len(h)]
        BY <2>1, <2>2, TwoSeqs
    <2>5. \A i \in 1 .. Len(h \o t) : (h \o t)[i] = y[i]
        <3> TAKE i \in 1 .. Len(h \o t)
        <3>1. CASE i = 1
            BY <2>1, <2>2, <2>4, <3>1
        <3>2. CASE i # 1
            <4>1. i \in 1 .. Len(h) + Len(t) /\ ~(i <= Len(h))
                  /\ i - Len(h) \in 1 .. Len(t) /\ (i - Len(h)) + 1 = i
                BY <2>1, <2>2, <2>4, <3>2
            <4> QED
                BY <2>2, <2>4, <4>1
        <3> QED
            BY <3>1, <3>2
    <2>6. h \o t = y
        <3>1. Len(h \o t) = Len(y)
            BY <2>1, <2>2, <2>4
        <3> QED
            BY <2>4, <2>5, <3>1, SameElements
    <2>7. (x \o h) \o t = x \o (h \o t)
        <3>1. x \in Seq(S) /\ h \in Seq(S) /\ t \in Seq(S)
            BY <2>1, <2>2
        <3>. HIDE DEF t
        <3> QED
            BY <3>1, ThreeSeqs, SMTT(20)
    <2> QED
        BY <2>3, <2>6, <2>7 DEF t
<1> QED
    BY <1>1, <1>2, <1>3

\* A Write moves one word from what is to be written to what is written.
LEMMA WriteWordKeepsInv ==
    ASSUME StateFileInv, WriteWord, target' = target, given' = given
    PROVE  StateFileInv'
<1>1. /\ status = "saving" /\ status' = status /\ disk' = disk /\ pending # <<>>
      /\ file' = Append(file, Head(pending)) /\ pending' = Tail(pending)
    BY DEF WriteWord
<1>2. /\ file \in Seq(Word) /\ pending \in Seq(Word) /\ target \in given
      /\ file \o pending = Encode(target)
    BY <1>1 DEF StateFileInv
<1>3. /\ Append(file, Head(pending)) \in Seq(Word) /\ Tail(pending) \in Seq(Word)
      /\ Append(file, Head(pending)) \o Tail(pending) = file \o pending
    BY <1>1, <1>2, OneWordOver
<1>4. file' \in Beginnings(Encode(target))
    BY <1>1, <1>2, <1>3, LeftIsBeginning
<1>5. IsPartlySaved(file)'
    BY <1>2, <1>4 DEF IsPartlySaved
<1>6. IsPartlySaved(disk)'
    BY <1>1 DEF StateFileInv, IsPartlySaved
<1> QED
    BY <1>1, <1>2, <1>3, <1>5, <1>6 DEF StateFileInv

\* Sync makes certain what was written, which is then all of it.
LEMMA SyncKeepsInv ==
    ASSUME StateFileInv, Sync, target' = target, given' = given
    PROVE  StateFileInv'
<1>1. /\ status = "saving" /\ status' = "ok" /\ pending = <<>>
      /\ disk' = file /\ file' = file
    BY DEF Sync
<1>2. file \in Seq(Word) /\ file \o <<>> = Encode(target)
    BY <1>1 DEF StateFileInv
<1>3. file = Encode(target)
    BY <1>2, TwoSeqs
<1>4. IsPartlySaved(file)' /\ IsPartlySaved(disk)'
    BY <1>1 DEF StateFileInv, IsPartlySaved
<1> QED
    BY <1>1, <1>3, <1>4 DEF StateFileInv

\* A failed Save leaves the file as it is.
LEMMA SaveFailsKeepsInv ==
    ASSUME StateFileInv, SaveFails, target' = target, given' = given
    PROVE  StateFileInv'
<1>1. file' = file /\ disk' = disk /\ status' = "failed"
    BY DEF SaveFails
<1>2. IsPartlySaved(file)' /\ IsPartlySaved(disk)'
    BY <1>1 DEF StateFileInv, IsPartlySaved
<1> QED
    BY <1>1, <1>2 DEF StateFileInv

\* A crash leaves a beginning of the file or what was certain.  It finds nothing
\* to take after a Save that returned nil.
LEMMA CrashKeepsInv ==
    ASSUME StateFileInv, Crash, target' = target, given' = given
    PROVE  StateFileInv'
<1>1. status \notin {"none", "ok"} /\ status' = "crashed"
    BY DEF Crash, StateFileInv
<1>2. disk' = file' /\ file' \in Survivors
    BY DEF Crash
<1>3. CASE file' = disk
    BY <1>1, <1>2, <1>3 DEF StateFileInv, IsPartlySaved
<1>4. CASE file # NoFile /\ file' \in Beginnings(file)
    <2>1. PICK y \in Beginnings(file) : file' = y
        BY <1>4
    <2>2. IsPartlySaved(y)
        BY <1>4, <2>1, PartlySavedNests DEF StateFileInv
    <2>3. IsPartlySaved(file)' /\ IsPartlySaved(disk)'
        BY <1>2, <2>1, <2>2 DEF IsPartlySaved
    <2> QED
        BY <1>1, <2>3 DEF StateFileInv
<1> QED
    BY <1>2, <1>3, <1>4 DEF Survivors

\* Every step of the file keeps the invariant (persist.go:29-55 and crashes).
LEMMA StateFileKeepsInv == StateFileInv /\ [Next]_vars => StateFileInv'
<1>. SUFFICES ASSUME StateFileInv, [Next]_vars PROVE StateFileInv'
    OBVIOUS
<1>1. CASE \E s \in States : Save(s)
    BY <1>1, SaveKeepsInv
<1>2. CASE FileStep /\ UNCHANGED <<target, given>>
    BY <1>2, WriteWordKeepsInv, SyncKeepsInv, SaveFailsKeepsInv, CrashKeepsInv
       DEF FileStep
<1>3. CASE UNCHANGED vars
    BY <1>3 DEF StateFileInv, IsPartlySaved, vars, fileVars
<1> QED
    BY <1>1, <1>2, <1>3 DEF Next

\* What is partly saved loads as a state that was saved, or not at all.
LEMMA InvLoads == StateFileInv => NeverBlended
<1> SUFFICES ASSUME StateFileInv PROVE NeverBlended
    OBVIOUS
<1>1. given \subseteq State /\ ZeroState \in given /\ IsPartlySaved(file)
    BY DEF StateFileInv
<1>2. CASE file = NoFile
    BY <1>1, <1>2, Zenon DEF NeverBlended, Load
<1>3. CASE \E s \in given : file \in Beginnings(Encode(s))
    <2>1. PICK s \in given : file \in Beginnings(Encode(s))
        BY <1>3
    <2>2. Load(file) \in Errors \cup {s}
        BY <1>1, <2>1, BeginningLoads
    <2> QED
        BY <2>1, <2>2, Zenon DEF NeverBlended
<1> QED
    BY <1>1, <1>2, <1>3, Zenon DEF IsPartlySaved

\* A Save that returned nil is loaded, unless it is too large for Load.
LEMMA InvKeepsSaved == StateFileInv => SavedIsKept
<1> SUFFICES ASSUME StateFileInv, status \in {"none", "ok"}
             PROVE  Load(file) = IF Fits(target) THEN target ELSE ErrCorrupt
    BY DEF SavedIsKept
<1>1. CASE status = "none"
    <2>1. file = NoFile /\ target = ZeroState
        BY <1>1 DEF StateFileInv
    <2>2. Fits(ZeroState)
        BY StateFileAssumption DEF Fits, ZeroState
    <2> QED
        BY <2>1, <2>2, Zenon DEF Load
<1>2. CASE status = "ok"
    <2>1. file = Encode(target) /\ target \in State
        BY <1>2 DEF StateFileInv
    <2> QED
        BY <2>1, WholeLoads, Zenon
<1> QED
    BY <1>1, <1>2

-----------------------------------------------------------------------------
(***************************************************************************)
(* The snapshot file.                                                      *)
(***************************************************************************)

\* x is what one Save wrote, or the beginning of it, or there is no file.
IsPartlyTaken(x) ==
    x = NoFile \/ \E s \in v6 \cap Snap!Snapshot : x \in Beginnings(Snap!Encode(s))

SnapshotInv ==
    /\ Snap!NoSnapshot \in v6
    /\ IsPartlyTaken(v1) /\ IsPartlyTaken(v2)
    /\ v4 = "none" => v1 = NoFile /\ v2 = NoFile
    /\ v4 = "saving" =>
         /\ v5 \in v6 \cap Snap!Snapshot
         /\ v1 \in Seq(Word) /\ v3 \in Seq(Word)
         /\ v1 \o v3 = Snap!Encode(v5)
    /\ v4 = "ok" => v5 \in Snap!Snapshot /\ v1 = Snap!Encode(v5) /\ v2 = v1

\* The words of an encoded snapshot: what comes first says how many peers follow.
LEMMA EncodedSnapshot ==
    ASSUME NEW s \in Snap!Snapshot
    PROVE  /\ Snap!Encode(s) \in Seq(Word)
           /\ Len(s.peers) \in Nat
           /\ Len(Snap!Encode(s)) = 5 + Len(s.peers)
           /\ Snap!Encode(s)[1] = Magic
           /\ Snap!Encode(s)[2] = s.lastIndex
           /\ Snap!Encode(s)[3] = s.lastTerm
           /\ Snap!Encode(s)[4] = Len(s.peers)
           /\ Snap!Encode(s)[5 + Len(s.peers)] = s.data
           /\ SubSeq(Snap!Encode(s), 5, 4 + Len(s.peers)) = s.peers
<1>. DEFINE n == Len(s.peers)
            h == <<Magic, s.lastIndex, s.lastTerm, n>>
            m == h \o s.peers
            e == m \o <<s.data>>
<1>1. /\ s.lastIndex \in Nat /\ s.lastTerm \in Nat /\ s.peers \in Seq(Nat)
      /\ s.data \in Command
    BY DEF Snap!Snapshot
<1>2. n \in Nat
    BY <1>1, LengthOfSeq
<1>3. h \in Seq(Word) /\ Len(h) = 4 /\ s.peers \in Seq(Word) /\ <<s.data>> \in Seq(Word)
    BY <1>1, <1>2 DEF Word
<1>4. /\ h[1] = Magic /\ h[2] = s.lastIndex /\ h[3] = s.lastTerm /\ h[4] = n
    BY DEF h
<1>5. Snap!Encode(s) = e
    BY DEF Snap!Encode
<1>. HIDE DEF h, n
<1>6. /\ m \in Seq(Word) /\ Len(m) = 4 + n
      /\ \A k \in 1 .. 4 : m[k] = h[k]
      /\ \A k \in 1 .. n : m[4 + k] = s.peers[k]
    <2>1. /\ m \in Seq(Word) /\ Len(m) = Len(h) + n
          /\ \A k \in 1 .. Len(h) + n :
                m[k] = IF k <= Len(h) THEN h[k] ELSE s.peers[k - Len(h)]
        BY <1>3, TwoSeqs DEF n
    <2>. HIDE DEF m
    <2>2. \A k \in 1 .. n : 4 + k \in 1 .. 4 + n /\ ~(4 + k <= 4) /\ (4 + k) - 4 = k
        BY <1>2
    <2>3. \A k \in 1 .. 4 : k \in 1 .. 4 + n /\ k <= 4
        BY <1>2
    <2>. QED
        BY <1>3, <2>1, <2>2, <2>3
<1>. HIDE DEF m
<1>7. /\ e \in Seq(Word) /\ Len(e) = 5 + n
      /\ \A k \in 1 .. 4 + n : e[k] = m[k]
      /\ e[5 + n] = s.data
    BY <1>2, <1>3, <1>6
<1>. HIDE DEF e
<1>8. e[1] = Magic /\ e[2] = s.lastIndex /\ e[3] = s.lastTerm /\ e[4] = n
    BY <1>2, <1>4, <1>6, <1>7
<1>9. SubSeq(e, 5, 4 + n) = s.peers
    <2>1. SubSeq(e, 5, 4 + n) \in Seq(Word) /\ Len(SubSeq(e, 5, 4 + n)) = n
        BY <1>2, <1>7
    <2>2. \A k \in 1 .. n : SubSeq(e, 5, 4 + n)[k] = s.peers[k]
        BY <1>2, <1>6, <1>7
    <2>. QED
        BY <1>3, <2>1, <2>2, SameElements DEF n
<1>. QED
    BY <1>2, <1>5, <1>7, <1>8, <1>9 DEF n

\* The files of both packages are the same.
LEMMA SameBeginnings == \A s : Snap!Beginnings(s) = Beginnings(s)
BY DEF Snap!Beginnings, Beginnings

\* A beginning of an encoded snapshot loads as the snapshot or not at all.
LEMMA TakenLoads ==
    ASSUME NEW s \in Snap!Snapshot, NEW x \in Beginnings(Snap!Encode(s))
    PROVE  /\ Snap!Load(x) \in Snap!Errors \cup {s}
           /\ x = Snap!Encode(s) =>
                Snap!Load(x) = IF s.data \in Absurd THEN Snap!ErrCorrupt ELSE s
<1>. DEFINE e == Snap!Encode(s)
            n == Len(s.peers)
<1>1. /\ e \in Seq(Word) /\ n \in Nat /\ Len(e) = 5 + n
      /\ e[1] = Magic /\ e[2] = s.lastIndex /\ e[3] = s.lastTerm /\ e[4] = n
      /\ e[5 + n] = s.data /\ SubSeq(e, 5, 4 + n) = s.peers
    BY EncodedSnapshot
<1>. HIDE DEF e, n
<1>2. /\ x \in Seq(Word) /\ Len(x) \in 0 .. Len(e)
      /\ \A k \in 1 .. Len(x) : x[k] = e[k]
      /\ Len(x) = Len(e) => x = e
    BY <1>1, BeginningIsLike DEF e
<1>3. x # NoFile
    BY <1>2, WordsAreAFile
<1>4. CASE Len(x) < 5 + n
    <2>1. Snap!Load(x) \in {Snap!ErrCorrupt, Snap!ErrEOF}
        <3>1. CASE x = <<>> \/ Len(x) < 4
            BY <1>3, <3>1 DEF Snap!Load
        <3>2. CASE x # <<>> /\ ~(Len(x) < 4)
            <4>1. x[1] = Magic /\ x[4] = n
                BY <1>1, <1>2, <3>2
            <4>. QED
                BY <1>3, <1>4, <3>2, <4>1 DEF Snap!Load, Snap!Decode
        <3>. QED
            BY <3>1, <3>2
    <2>2. x # e
        BY <1>1, <1>4
    <2>. QED
        BY <2>1, <2>2 DEF Snap!Errors, e
<1>5. CASE ~(Len(x) < 5 + n)
    <2>1. x = e
        BY <1>1, <1>2, <1>5
    <2>2. x # <<>> /\ ~(Len(x) < 4) /\ x[1] = Magic /\ x[4] = n
        BY <1>1, <2>1
    <2>3. s = [lastIndex |-> e[2], lastTerm |-> e[3], peers |-> SubSeq(e, 5, 4 + n),
               data |-> e[5 + n]]
        BY <1>1 DEF Snap!Snapshot
    <2>4. Snap!Load(x) = IF s.data \in Absurd THEN Snap!ErrCorrupt ELSE s
        BY <1>1, <1>3, <1>5, <2>1, <2>2, <2>3, Zenon DEF Snap!Load, Snap!Decode
    <2>. QED
        BY <2>4 DEF Snap!Errors
<1>. QED
    BY <1>4, <1>5

\* There is no file before the first Save.
LEMMA SnapshotStart == Snap!Init => SnapshotInv
BY DEF Snap!Init, Snap!FileInit, SnapshotInv, IsPartlyTaken

\* A beginning of something partly taken is partly taken.
LEMMA PartlyTakenNests ==
    ASSUME NEW x, IsPartlyTaken(x), x # NoFile, NEW y \in Beginnings(x)
    PROVE  IsPartlyTaken(y)
<1>1. PICK s \in v6 \cap Snap!Snapshot : x \in Beginnings(Snap!Encode(s))
    BY DEF IsPartlyTaken
<1>2. Snap!Encode(s) \in Seq(Word)
    BY EncodedSnapshot
<1>3. y \in Beginnings(Snap!Encode(s))
    BY <1>1, <1>2, BeginningsNest
<1>. QED
    BY <1>3 DEF IsPartlyTaken

\* Every step of the file keeps the invariant (snapshot.go:33-64 and crashes).
LEMMA SnapshotKeepsInv == SnapshotInv /\ [Snap!Next]_others => SnapshotInv'
<1>. SUFFICES ASSUME SnapshotInv, [Snap!Next]_others PROVE SnapshotInv'
    OBVIOUS
<1>1. ASSUME NEW s \in Snapshots, Snap!Save(s) PROVE SnapshotInv'
    <2>1. s \in Snap!Snapshot /\ v6' = v6 \cup {s} /\ v5' = s
        BY <1>1, StorageAssumption DEF Snap!Save
    <2>2. v1' = <<>> /\ v2' = v2 /\ v3' = Snap!Encode(s) /\ v4' = "saving"
        BY <1>1 DEF Snap!Save, Snap!Create
    <2>3. Snap!Encode(s) \in Seq(Word) /\ <<>> \in Seq(Word) /\ <<>> \o Snap!Encode(s) = Snap!Encode(s)
        BY <2>1, EncodedSnapshot, TwoSeqs, NoElements
    <2>4. <<>> \in Beginnings(Snap!Encode(s))
        BY <2>3, BeginningsSay, Zenon
    <2>5. IsPartlyTaken(v1)'
        BY <2>1, <2>2, <2>4 DEF IsPartlyTaken
    <2>6. IsPartlyTaken(v2)'
        BY <2>1, <2>2 DEF SnapshotInv, IsPartlyTaken
    <2>. QED
        BY <2>1, <2>2, <2>3, <2>5, <2>6 DEF SnapshotInv
<1>2. ASSUME Snap!WriteWord, UNCHANGED <<v5, v6>> PROVE SnapshotInv'
    <2>1. /\ v4 = "saving" /\ v4' = v4 /\ v2' = v2 /\ v3 # <<>>
          /\ v1' = Append(v1, Head(v3)) /\ v3' = Tail(v3)
        BY <1>2 DEF Snap!WriteWord
    <2>2. /\ v1 \in Seq(Word) /\ v3 \in Seq(Word) /\ v5 \in v6 \cap Snap!Snapshot
          /\ v1 \o v3 = Snap!Encode(v5)
        BY <2>1 DEF SnapshotInv
    <2>3. /\ Append(v1, Head(v3)) \in Seq(Word) /\ Tail(v3) \in Seq(Word)
          /\ Append(v1, Head(v3)) \o Tail(v3) = v1 \o v3
        BY <2>1, <2>2, OneWordOver, Zenon
    <2>4. v1' \in Beginnings(Snap!Encode(v5))
        BY <2>1, <2>2, <2>3, LeftIsBeginning
    <2>5. IsPartlyTaken(v1)'
        BY <1>2, <2>2, <2>4 DEF IsPartlyTaken
    <2>6. IsPartlyTaken(v2)'
        BY <1>2, <2>1 DEF SnapshotInv, IsPartlyTaken
    <2>. QED
        BY <1>2, <2>1, <2>2, <2>3, <2>5, <2>6 DEF SnapshotInv
<1>3. ASSUME Snap!Sync, UNCHANGED <<v5, v6>> PROVE SnapshotInv'
    <2>1. v4 = "saving" /\ v4' = "ok" /\ v3 = <<>> /\ v2' = v1 /\ v1' = v1
        BY <1>3 DEF Snap!Sync
    <2>2. v1 \in Seq(Word) /\ v1 \o <<>> = Snap!Encode(v5) /\ v5 \in Snap!Snapshot
        BY <2>1 DEF SnapshotInv
    <2>3. v1 = Snap!Encode(v5)
        BY <2>2, TwoSeqs
    <2>4. IsPartlyTaken(v1)' /\ IsPartlyTaken(v2)'
        BY <1>3, <2>1 DEF SnapshotInv, IsPartlyTaken
    <2>. QED
        BY <1>3, <2>1, <2>2, <2>3, <2>4 DEF SnapshotInv
<1>4. ASSUME Snap!SaveFails, UNCHANGED <<v5, v6>> PROVE SnapshotInv'
    <2>1. v1' = v1 /\ v2' = v2 /\ v4' = "failed"
        BY <1>4 DEF Snap!SaveFails
    <2>2. IsPartlyTaken(v1)' /\ IsPartlyTaken(v2)'
        BY <1>4, <2>1 DEF SnapshotInv, IsPartlyTaken
    <2>. QED
        BY <1>4, <2>1, <2>2 DEF SnapshotInv
<1>5. ASSUME Snap!Crash, UNCHANGED <<v5, v6>> PROVE SnapshotInv'
    <2>1. v4 \notin {"none", "ok"} /\ v4' = "crashed"
        BY <1>5 DEF Snap!Crash, SnapshotInv
    <2>2. /\ v2' = v1'
          /\ v1' = v2 \/ (v1 # NoFile /\ v1' \in Beginnings(v1))
        <3>1. v2' = v1' /\ v1' \in Snap!Survivors
            BY <1>5 DEF Snap!Crash
        <3>2. CASE v1 = NoFile
            BY <3>1, <3>2 DEF Snap!Survivors
        <3>3. CASE v1 # NoFile
            <4>1. Snap!Survivors = {v2} \cup Beginnings(v1)
                BY <3>3, SameBeginnings, Zenon DEF Snap!Survivors
            <4>. QED
                BY <3>1, <3>3, <4>1
        <3>. QED
            BY <3>2, <3>3
    <2>3. CASE v1' = v2
        BY <1>5, <2>1, <2>2, <2>3 DEF SnapshotInv, IsPartlyTaken
    <2>4. CASE v1 # NoFile /\ v1' \in Beginnings(v1)
        <3>1. PICK y \in Beginnings(v1) : v1' = y
            BY <2>4
        <3>2. IsPartlyTaken(y)
            BY <2>4, <3>1, PartlyTakenNests DEF SnapshotInv
        <3>3. IsPartlyTaken(v1)' /\ IsPartlyTaken(v2)'
            BY <1>5, <2>2, <3>1, <3>2 DEF IsPartlyTaken
        <3>. QED
            BY <1>5, <2>1, <3>3 DEF SnapshotInv
    <2>. QED
        BY <2>2, <2>3, <2>4
<1>6. CASE UNCHANGED others
    BY <1>6 DEF SnapshotInv, IsPartlyTaken, others
<1>. QED
    BY <1>1, <1>2, <1>3, <1>4, <1>5, <1>6 DEF Snap!Next, Snap!FileStep

\* What the invariant says of Load.
LEMMA SnapshotsLoad == SnapshotInv => Snap!NeverBlended /\ Snap!SavedIsKept
<1>. SUFFICES ASSUME SnapshotInv PROVE Snap!NeverBlended /\ Snap!SavedIsKept
    OBVIOUS
<1>1. Snap!NeverBlended
    <2>1. CASE v1 = NoFile
        BY <2>1, Zenon DEF SnapshotInv, Snap!NeverBlended, Snap!Load
    <2>2. CASE \E s \in v6 \cap Snap!Snapshot : v1 \in Beginnings(Snap!Encode(s))
        <3>1. PICK s \in v6 \cap Snap!Snapshot : v1 \in Beginnings(Snap!Encode(s))
            BY <2>2
        <3>2. Snap!Load(v1) \in Snap!Errors \cup {s}
            BY <3>1, TakenLoads
        <3>. QED
            BY <3>1, <3>2, Zenon DEF Snap!NeverBlended
    <2>. QED
        BY <2>1, <2>2, Zenon DEF SnapshotInv, IsPartlyTaken
<1>2. CASE v4 = "none"
    BY <1>1, <1>2 DEF SnapshotInv, Snap!SavedIsKept, Snap!Load
<1>3. CASE v4 = "ok"
    <2>1. v5 \in Snap!Snapshot /\ v1 = Snap!Encode(v5)
        BY <1>3 DEF SnapshotInv
    <2>2. Snap!Encode(v5) \in Seq(Word)
        BY <2>1, EncodedSnapshot
    <2>3. v1 \in Beginnings(Snap!Encode(v5))
        BY <2>1, <2>2, BeginningsSay, Zenon
    <2>4. Snap!Load(v1) = IF v5.data \in Absurd THEN Snap!ErrCorrupt ELSE v5
        BY <2>1, <2>3, TakenLoads
    <2>. QED
        BY <1>1, <1>3, <2>4 DEF Snap!SavedIsKept
<1>4. CASE v4 \notin {"none", "ok"}
    BY <1>1, <1>4 DEF Snap!SavedIsKept
<1>. QED
    BY <1>2, <1>3, <1>4

-----------------------------------------------------------------------------
(***************************************************************************)
(* The log that is compacted.  Entries keep their indexes; their positions *)
(* in the slice move with the base.                                        *)
(***************************************************************************)

CompactedInv ==
    LET base == v1.base.index
    IN  /\ v1 \in Log
        /\ v4 \in Seq(Entry) /\ \A k \in 1 .. Len(v4) : v4[k].index = k
        /\ base <= Len(v4) /\ (base # 0 => base < Len(v4))
        /\ Len(v1.entries) = Len(v4) - base
        /\ \A k \in 1 .. Len(v1.entries) : v1.entries[k] = v4[base + k]
        /\ v1.base.term = IF base = 0 THEN 0 ELSE v4[base].term
        /\ base <= v1.commitIndex /\ v1.commitIndex <= Len(v4)
        /\ v2 \in Seq(Entry)
        /\ v2 # <<>> => v2[1].index <= Len(v4) + 1 /\ Len(v4) < v2[1].index + Len(v2)
        /\ \A k \in 1 .. Len(v2) :
             /\ v2[k].index = v2[1].index + k - 1 /\ v2[k].index # 0
             /\ v2[k].index <= Len(v4) => v2[k] = v4[v2[k].index]
        /\ v3 \in Nat \ {0} /\ v5 \in Nat
        /\ v5 # 0 => v5 = base + v3 - 1

\* The operators of the instance are those of RaftLog.
LEMMA SameLog ==
    /\ Compaction!NewLog = NewLog /\ Compaction!Sentinel = Sentinel
    /\ \A l : Compaction!LastIndex(l) = LastIndex(l)
    /\ \A l : Compaction!LastTerm(l) = LastTerm(l)
    /\ \A l, i : Compaction!CommitTo(l, i) = CommitTo(l, i)
    /\ \A l, es : Compaction!LogAppend(l, es) = LogAppend(l, es)
    /\ \A S : Compaction!Max(S) = Max(S)
    /\ \A S : Compaction!Cardinality(S) = Cardinality(S)
<1>1. Compaction!NewLog = NewLog /\ Compaction!Sentinel = Sentinel
    BY DEF Compaction!NewLog, Compaction!Sentinel, NewLog, Sentinel
<1>2. \A l : Compaction!LastIndex(l) = LastIndex(l)
    BY DEF Compaction!LastIndex, LastIndex
<1>3. \A l : Compaction!LastTerm(l) = LastTerm(l)
    BY DEF Compaction!LastTerm, LastTerm
<1>4. \A l, i : Compaction!CommitTo(l, i) = CommitTo(l, i)
    BY <1>2 DEF Compaction!CommitTo, CommitTo
<1>5. \A S : Compaction!Max(S) = Max(S) /\ Compaction!Min(S) = Min(S)
    BY Zenon DEF Compaction!Max, Max, Compaction!Min, Min
<1>6. \A l, i : Compaction!InRange(l, i) = InRange(l, i) /\ Compaction!TermAt(l, i) = TermAt(l, i)
    BY DEF Compaction!InRange, InRange, Compaction!TermAt, TermAt, Compaction!At, At
<1>7. \A l, es : Compaction!Missing(l, es) = Missing(l, es)
    BY <1>6 DEF Compaction!Missing, Missing
<1>8. \A es : Compaction!Contiguous(es) = Contiguous(es)
    BY DEF Compaction!Contiguous, Contiguous
<1>9. \A l, i : Compaction!Truncate(l, i) = Truncate(l, i)
    BY <1>2, <1>5, Zenon DEF Compaction!Truncate, Truncate
<1>10. \A l, es, k : Compaction!AppendFrom(l, es, k) = AppendFrom(l, es, k)
    BY <1>6, <1>9, Zenon DEF Compaction!AppendFrom, AppendFrom, Compaction!AppendTail, AppendTail
<1>11. \A l, es : Compaction!LogAppend(l, es) = LogAppend(l, es)
    BY <1>5, <1>7, <1>8, <1>10, Zenon DEF Compaction!LogAppend, LogAppend
<1>12. \A S : Compaction!Cardinality(S) = Cardinality(S)
    BY Zenon DEF Compaction!Cardinality, Cardinality
<1>. QED
    BY <1>1, <1>2, <1>3, <1>4, <1>5, <1>11, <1>12

\* Last of a compacted log: its index is the number of entries ever stored.
LEMMA LastIsStored ==
    ASSUME CompactedInv
    PROVE  /\ Len(v4) \in Nat /\ Len(v1.entries) \in Nat /\ v1.base.index \in Nat
           /\ v1.entries \in Seq(Entry)
           /\ Compaction!LastIndex(v1) = Len(v4)
<1>1. /\ v4 \in Seq(Entry) /\ v1.entries \in Seq(Entry) /\ v1.base.index \in Nat
      /\ \A k \in 1 .. Len(v4) : v4[k].index = k
      /\ v1.base.index <= Len(v4) /\ (v1.base.index # 0 => v1.base.index < Len(v4))
      /\ Len(v1.entries) = Len(v4) - v1.base.index
      /\ \A k \in 1 .. Len(v1.entries) : v1.entries[k] = v4[v1.base.index + k]
    BY DEF CompactedInv, Log
<1>2. Len(v4) \in Nat /\ Len(v1.entries) \in Nat
    BY <1>1, LengthOfSeq
<1>3. LastIndex(v1) = Len(v4)
    <2>1. CASE v1.entries = <<>>
        <3>1. Len(v1.entries) = 0
            BY <2>1
        <3>. QED
            BY <1>1, <1>2, <2>1, <3>1 DEF LastIndex
    <2>2. CASE v1.entries # <<>>
        <3>1. Len(v1.entries) \in 1 .. Len(v1.entries) /\ Len(v4) \in 1 .. Len(v4)
            BY <1>1, <1>2, <2>2, NoElements
        <3>2. v1.base.index + Len(v1.entries) = Len(v4)
            BY <1>1, <1>2
        <3>3. v1.entries[Len(v1.entries)] = v4[Len(v4)]
            BY <1>1, <3>1, <3>2
        <3>. QED
            BY <1>1, <2>2, <3>1, <3>3 DEF LastIndex
    <2>. QED
        BY <2>1, <2>2
<1>. QED
    BY <1>1, <1>2, <1>3, SameLog

\* Append of a batch of which the log holds the first known entries, and ends
\* before the others, adds these others.
LEMMA AppendAddsNew ==
    ASSUME NEW l \in Log, NEW es \in Seq(Entry), Contiguous(es),
           NEW known \in 0 .. Len(es),
           \A k \in 1 .. known : InRange(l, es[k].index) /\ TermAt(l, es[k].index) = es[k].term,
           \A k \in known + 1 .. Len(es) : ~InRange(l, es[k].index)
    PROVE  LogAppend(l, es) = [l EXCEPT !.entries = @ \o SubSeq(es, known + 1, Len(es))]
<1>1. Len(es) \in Nat /\ l.entries \in Seq(Entry)
    BY LengthOfSeq DEF Log
<1>2. Missing(l, es) = known + 1 .. Len(es)
    <2>1. \A k \in 1 .. Len(es) : k \in 1 .. known \/ k \in known + 1 .. Len(es)
        BY <1>1
    <2>2. \A k \in known + 1 .. Len(es) : k \in 1 .. Len(es) /\ k \notin 1 .. known
        BY <1>1
    <2>. QED
        BY <2>1, <2>2 DEF Missing
<1>3. CASE known = Len(es)
    <2>1. Missing(l, es) = {}
        BY <1>1, <1>2, <1>3
    <2>2. SubSeq(es, known + 1, Len(es)) = <<>>
        BY <1>1, <1>3
    <2>3. l.entries \o <<>> = l.entries
        BY <1>1, TwoSeqs
    <2>4. LogAppend(l, es) = l
        BY <2>1 DEF LogAppend
    <2>5. [l EXCEPT !.entries = l.entries] = l
        BY DEF Log
    <2>. QED
        BY <2>2, <2>3, <2>4, <2>5
<1>4. CASE known # Len(es)
    <2>1. known + 1 \in known + 1 .. Len(es)
        BY <1>1, <1>4
    <2>2. Min(Missing(l, es)) = known + 1
        <3>1. Missing(l, es) \subseteq Int /\ known + 1 \in Missing(l, es)
            BY <1>1, <1>2, <2>1
        <3>2. \A y \in Missing(l, es) : known + 1 <= y
            BY <1>1, <1>2
        <3>. QED
            BY <3>1, <3>2, LeastIsMin
    <2>3. LogAppend(l, es) = AppendFrom(l, es, known + 1)
        BY <1>2, <2>1, <2>2 DEF LogAppend
    <2>4. ~InRange(l, es[known + 1].index)
        BY <2>1
    <2>. QED
        BY <2>3, <2>4, Zenon DEF AppendFrom, AppendTail
<1>. QED
    BY <1>3, <1>4

\* A new log and an empty batch.
LEMMA CompactedStart == Compaction!Init => CompactedInv
BY SameLog DEF Compaction!Init, CompactedInv, NewLog, Sentinel, Log, Entry

\* An entry that is added to the batch goes on from the batch or from the log.
LEMMA BatchAddKeepsInv ==
    ASSUME CompactedInv, NEW term \in Nat, NEW cmd \in Command, Compaction!BatchAdd(term, cmd)
    PROVE  CompactedInv'
<1>. DEFINE index == IF v2 = <<>> THEN Len(v4) + 1 ELSE v2[Len(v2)].index + 1
            e == [term |-> term, index |-> index, command |-> cmd]
<1>1. Len(v4) \in Nat /\ Compaction!LastIndex(v1) = Len(v4)
    BY LastIsStored
<1>2. v2' = Append(v2, e) /\ UNCHANGED <<v1, v3, v4, v5>>
    BY <1>1 DEF Compaction!BatchAdd, Compaction!Last
<1>3. /\ v2 \in Seq(Entry) /\ Len(v2) \in Nat
      /\ v2 # <<>> => v2[1].index <= Len(v4) + 1 /\ Len(v4) < v2[1].index + Len(v2)
      /\ \A k \in 1 .. Len(v2) :
           /\ v2[k].index = v2[1].index + k - 1 /\ v2[k].index # 0
           /\ v2[k].index <= Len(v4) => v2[k] = v4[v2[k].index]
    BY LengthOfSeq DEF CompactedInv
<1>4. /\ index \in Nat /\ index > Len(v4)
      /\ v2 # <<>> => index = v2[1].index + Len(v2) /\ v2[1].index \in Nat
    <2>1. CASE v2 = <<>>
        BY <1>1, <2>1
    <2>2. CASE v2 # <<>>
        <3>1. Len(v2) \in 1 .. Len(v2) /\ 1 \in 1 .. Len(v2)
            BY <1>3, <2>2, NoElements
        <3>2. v2[1] \in Entry /\ v2[Len(v2)].index = v2[1].index + Len(v2) - 1
            BY <1>3, <3>1, ElementIn
        <3>3. v2[1].index \in Nat
            BY <3>2 DEF Entry
        <3>4. index = v2[1].index + Len(v2)
            BY <1>3, <2>2, <3>2, <3>3
        <3>. HIDE DEF index
        <3>. QED
            BY <1>1, <1>3, <2>2, <3>3, <3>4
    <2>. QED
        BY <2>1, <2>2
<1>5. e \in Entry /\ e.index = index
    BY <1>4 DEF Entry
<1>. HIDE DEF e, index
<1>6. /\ v2' \in Seq(Entry) /\ Len(v2') = Len(v2) + 1 /\ v2'[Len(v2) + 1] = e
      /\ \A k \in 1 .. Len(v2) : v2'[k] = v2[k]
    BY <1>2, <1>3, <1>5, OneMore
<1>7. v2' # <<>> /\ v2'[1].index <= Len(v4) + 1 /\ Len(v4) < v2'[1].index + Len(v2')
    <2>1. CASE v2 = <<>>
        <3>1. Len(v2) = 0 /\ index = Len(v4) + 1
            BY <2>1 DEF index
        <3>. QED
            BY <1>1, <1>5, <1>6, <3>1
    <2>2. CASE v2 # <<>>
        <3>1. 1 \in 1 .. Len(v2)
            BY <1>3, <2>2, NoElements
        <3>. QED
            BY <1>1, <1>3, <1>4, <1>6, <2>2, <3>1
    <2>. QED
        BY <2>1, <2>2
<1>8. ASSUME NEW k \in 1 .. Len(v2')
      PROVE  /\ v2'[k].index = v2'[1].index + k - 1 /\ v2'[k].index # 0
             /\ v2'[k].index <= Len(v4) => v2'[k] = v4[v2'[k].index]
    <2>1. CASE k \in 1 .. Len(v2)
        <3>1. 1 \in 1 .. Len(v2)
            BY <1>3, <2>1
        <3>. QED
            BY <1>3, <1>6, <2>1, <3>1
    <2>2. CASE k = Len(v2) + 1
        <3>1. v2'[k].index = index
            BY <1>5, <1>6, <2>2
        <3>2. CASE v2 = <<>>
            <4>1. Len(v2) = 0
                BY <3>2
            <4>. QED
                BY <1>1, <1>4, <2>2, <3>1, <4>1
        <3>3. CASE v2 # <<>>
            <4>1. 1 \in 1 .. Len(v2)
                BY <1>3, <3>3, NoElements
            <4>2. v2'[1].index = v2[1].index
                BY <1>6, <4>1
            <4>. QED
                BY <1>1, <1>3, <1>4, <2>2, <3>1, <3>3, <4>2
        <3>. QED
            BY <3>2, <3>3
    <2>. QED
        BY <1>3, <1>6, <2>1, <2>2
<1>. QED
    BY <1>2, <1>6, <1>7, <1>8 DEF CompactedInv

\* Apply adds to the log what it does not hold of the batch, also when the batch
\* was applied before and has grown since.
LEMMA BatchApplyKeepsInv ==
    ASSUME CompactedInv, Compaction!BatchApply
    PROVE  CompactedInv'
<1>. DEFINE n == Len(v4)
            base == v1.base.index
            first == v2[1].index
            known == n + 1 - first
            new == SubSeq(v2, known + 1, Len(v2))
<1>1. /\ n \in Nat /\ Len(v1.entries) \in Nat /\ base \in Nat /\ v1.entries \in Seq(Entry)
      /\ Compaction!LastIndex(v1) = n
    BY LastIsStored
<1>2. /\ v2 # <<>> /\ (base = 0 \/ first = n + 1)
      /\ v1' = LogAppend(v1, v2)
      /\ v4' = v4 \o SubSeq(v2, n - first + 2, Len(v2))
      /\ UNCHANGED <<v2, v3, v5>>
    BY <1>1, SameLog DEF Compaction!BatchApply, Compaction!CompactedIndex
<1>3. /\ v1 \in Log /\ v4 \in Seq(Entry) /\ v2 \in Seq(Entry) /\ Len(v2) \in Nat \ {0}
      /\ \A k \in 1 .. n : v4[k].index = k
      /\ base <= n /\ Len(v1.entries) = n - base
      /\ \A k \in 1 .. n - base : v1.entries[k] = v4[base + k]
      /\ first <= n + 1 /\ n < first + Len(v2)
      /\ \A k \in 1 .. Len(v2) :
           /\ v2[k].index = first + k - 1 /\ v2[k].index # 0
           /\ v2[k].index <= n => v2[k] = v4[v2[k].index]
    BY <1>2, LengthOfSeq, NoElements DEF CompactedInv
<1>4. first \in Nat \ {0}
    <2>1. 1 \in 1 .. Len(v2)
        BY <1>3
    <2>2. v2[1] \in Entry /\ first # 0
        BY <1>3, <2>1, ElementIn
    <2>. QED
        BY <2>2 DEF Entry
<1>. HIDE DEF n, base, first
<1>5. known \in 0 .. Len(v2) /\ n - first + 2 = known + 1
    BY <1>1, <1>3, <1>4
<1>6. Contiguous(v2)
    <2>. SUFFICES ASSUME NEW k \in 2 .. Len(v2) PROVE v2[k].index = v2[k - 1].index + 1
        BY DEF Contiguous
    <2>1. k \in 1 .. Len(v2) /\ k - 1 \in 1 .. Len(v2)
        BY <1>3
    <2>2. v2[k].index = first + k - 1 /\ v2[k - 1].index = first + (k - 1) - 1
        BY <1>3, <2>1
    <2>. QED
        BY <1>4, <2>1, <2>2
<1>7. ASSUME NEW k \in 1 .. known
      PROVE  InRange(v1, v2[k].index) /\ TermAt(v1, v2[k].index) = v2[k].term
    <2>1. base = 0
        BY <1>1, <1>2, <1>3, <1>4
    <2>2. k \in 1 .. Len(v2) /\ first + k - 1 \in 1 .. n
        BY <1>1, <1>3, <1>4, <1>5
    <2>3. v2[k].index = first + k - 1 /\ v2[k] = v4[first + k - 1]
        <3>1. v2[k].index = first + k - 1
            BY <1>3, <2>2
        <3>2. v2[k].index <= n
            BY <1>1, <2>2, <3>1
        <3>3. v2[k] = v4[v2[k].index]
            BY <1>3, <2>2, <3>2
        <3>. QED
            BY <3>1, <3>3
    <2>4. v1.entries[first + k - 1] = v4[first + k - 1] /\ Len(v1.entries) = n
        BY <1>1, <1>3, <2>1, <2>2
    <2>. QED
        BY <1>1, <1>4, <2>2, <2>3, <2>4 DEF InRange, TermAt, At
<1>8. ASSUME NEW k \in known + 1 .. Len(v2) PROVE ~InRange(v1, v2[k].index)
    <2>1. k \in 1 .. Len(v2) /\ first + k - 1 > n
        BY <1>1, <1>3, <1>4, <1>5
    <2>2. v2[k].index > Len(v1.entries)
        BY <1>1, <1>3, <1>4, <2>1
    <2>. QED
        BY <1>1, <1>3, <1>4, <2>1, <2>2 DEF InRange
<1>9. /\ v1' = [v1 EXCEPT !.entries = @ \o new]
      /\ v4' = v4 \o new
    <2>. HIDE DEF known
    <2>1. LogAppend(v1, v2) = [v1 EXCEPT !.entries = @ \o SubSeq(v2, known + 1, Len(v2))]
        <3>1. \A k \in 1 .. known : InRange(v1, v2[k].index) /\ TermAt(v1, v2[k].index) = v2[k].term
            BY <1>7
        <3>2. \A k \in known + 1 .. Len(v2) : ~InRange(v1, v2[k].index)
            BY <1>8
        <3>3. v1 \in Log /\ v2 \in Seq(Entry) /\ Contiguous(v2) /\ known \in 0 .. Len(v2)
            BY <1>3, <1>5, <1>6
        <3>. QED
            BY <3>1, <3>2, <3>3, AppendAddsNew
    <2>. QED
        BY <1>2, <1>5, <2>1
<1>10. /\ new \in Seq(Entry) /\ Len(new) = Len(v2) - known
       /\ \A k \in 1 .. Len(new) : new[k] = v2[known + k]
    <2>. HIDE DEF known
    <2>. QED
        BY <1>3, <1>5
<1>. HIDE DEF new
<1>11. /\ v1'.entries = v1.entries \o new /\ v1'.base = v1.base
       /\ v1'.commitIndex = v1.commitIndex /\ v1' \in Log
    <2>1. v1.entries \o new \in Seq(Entry)
        BY <1>1, <1>10, TwoSeqs
    <2>. QED
        BY <1>3, <1>9, <2>1 DEF Log
<1>12. /\ Len(v1'.entries) = Len(v1.entries) + Len(new)
       /\ \A k \in 1 .. Len(v1.entries) + Len(new) :
            v1'.entries[k] = IF k <= Len(v1.entries) THEN v1.entries[k] ELSE new[k - Len(v1.entries)]
    <2>1. /\ Len(v1.entries \o new) = Len(v1.entries) + Len(new)
          /\ \A k \in 1 .. Len(v1.entries) + Len(new) :
               (v1.entries \o new)[k] =
                  IF k <= Len(v1.entries) THEN v1.entries[k] ELSE new[k - Len(v1.entries)]
        BY <1>1, <1>10, TwoSeqs
    <2>. QED
        BY <1>11, <2>1
<1>13. /\ v4' \in Seq(Entry) /\ Len(v4') = n + Len(new)
       /\ \A k \in 1 .. n + Len(new) : v4'[k] = IF k <= n THEN v4[k] ELSE new[k - n]
    BY <1>3, <1>9, <1>10, TwoSeqs DEF n
<1>14. Len(new) \in Nat /\ Len(v4') = first + Len(v2) - 1
    BY <1>1, <1>3, <1>4, <1>5, <1>10, <1>13
<1>15. ASSUME NEW k \in 1 .. Len(new)
       PROVE  /\ new[k] = v2[known + k] /\ known + k \in 1 .. Len(v2)
              /\ new[k].index = n + k
    <2>1. known + k \in 1 .. Len(v2) /\ first + (known + k) - 1 = n + k
        BY <1>1, <1>3, <1>4, <1>5, <1>10, <1>14
    <2>2. v2[known + k].index = first + (known + k) - 1
        BY <1>3, <2>1
    <2>. QED
        BY <1>10, <2>1, <2>2
<1>16. \A k \in 1 .. Len(v4') : v4'[k].index = k
    <2>. TAKE k \in 1 .. Len(v4')
    <2>1. CASE k <= n
        <3>1. k \in 1 .. n /\ k \in 1 .. n + Len(new)
            BY <1>1, <1>13, <1>14, <2>1
        <3>. QED
            BY <1>3, <1>13, <2>1, <3>1
    <2>2. CASE ~(k <= n)
        <3>1. k \in 1 .. n + Len(new) /\ k - n \in 1 .. Len(new) /\ n + (k - n) = k
            BY <1>1, <1>13, <1>14, <2>2
        <3>. QED
            BY <1>13, <1>15, <2>2, <3>1
    <2>. QED
        BY <2>1, <2>2
<1>17. /\ Len(v1'.entries) = Len(v4') - base
       /\ \A k \in 1 .. Len(v1'.entries) : v1'.entries[k] = v4'[base + k]
    <2>1. Len(v1'.entries) = Len(v4') - base
        BY <1>1, <1>3, <1>12, <1>13, <1>14
    <2>2. ASSUME NEW k \in 1 .. Len(v1'.entries) PROVE v1'.entries[k] = v4'[base + k]
        <3>1. k \in 1 .. Len(v1.entries) + Len(new) /\ base + k \in 1 .. n + Len(new)
            BY <1>1, <1>3, <1>12, <1>14
        <3>2. CASE k <= Len(v1.entries)
            <4>1. k \in 1 .. n - base /\ base + k <= n
                BY <1>1, <1>3, <3>1, <3>2
            <4>. QED
                BY <1>3, <1>12, <1>13, <3>1, <3>2, <4>1
        <3>3. CASE ~(k <= Len(v1.entries))
            <4>1. ~(base + k <= n) /\ (base + k) - n = k - Len(v1.entries)
                BY <1>1, <1>3, <3>1, <3>3
            <4>. QED
                BY <1>12, <1>13, <3>1, <3>3, <4>1
        <3>. QED
            BY <3>2, <3>3
    <2>. QED
        BY <2>1, <2>2
<1>18. ASSUME NEW k \in 1 .. Len(v2), v2[k].index <= Len(v4')
       PROVE  v2[k] = v4'[v2[k].index]
    <2>1. v2[k].index = first + k - 1
        BY <1>3
    <2>2. CASE v2[k].index <= n
        <3>1. v2[k] = v4[v2[k].index]
            BY <1>3, <2>2
        <3>2. first + k - 1 \in 1 .. n + Len(new)
            BY <1>1, <1>3, <1>4, <1>14, <2>1, <2>2
        <3>. QED
            BY <1>13, <2>1, <2>2, <3>1, <3>2
    <2>3. CASE ~(v2[k].index <= n)
        <3>1. /\ k - known \in 1 .. Len(new) /\ known + (k - known) = k
              /\ (first + k - 1) - n = k - known /\ first + k - 1 \in 1 .. n + Len(new)
            BY <1>1, <1>3, <1>4, <1>5, <1>10, <1>14, <2>1, <2>3
        <3>2. new[k - known] = v2[k]
            BY <1>10, <3>1
        <3>. QED
            BY <1>13, <2>1, <2>3, <3>1, <3>2
    <2>. QED
        BY <2>2, <2>3
<1>19. base # 0 => base < Len(v4')
    BY <1>1, <1>3, <1>13, <1>14 DEF CompactedInv, base, n
<1>20. v1'.base.term = IF base = 0 THEN 0 ELSE v4'[base].term
    <2>1. base # 0 => base \in 1 .. n /\ base \in 1 .. n + Len(new)
        BY <1>1, <1>3, <1>14
    <2>2. v1.base.term = IF base = 0 THEN 0 ELSE v4[base].term
        BY DEF CompactedInv, base
    <2>. QED
        BY <1>11, <1>13, <2>1, <2>2
<1>21. base <= v1.commitIndex /\ v1.commitIndex <= Len(v4')
    <2>1. v1.commitIndex \in Nat /\ base <= v1.commitIndex /\ v1.commitIndex <= n
        BY DEF CompactedInv, Log, n, base
    <2>. QED
        BY <1>1, <1>13, <1>14, <2>1
<1>22. v2[1].index <= Len(v4') + 1 /\ Len(v4') < v2[1].index + Len(v2)
    BY <1>3, <1>4, <1>14 DEF first
<1>23. v3 \in Nat \ {0} /\ v5 \in Nat /\ (v5 # 0 => v5 = base + v3 - 1)
    BY DEF CompactedInv, base
<1>24. base <= Len(v4') /\ v1'.base.index = base
    BY <1>1, <1>3, <1>11, <1>13, <1>14 DEF base
<1>. QED
    BY <1>2, <1>3, <1>11, <1>13, <1>16, <1>17, <1>18, <1>19, <1>20, <1>21, <1>22, <1>23, <1>24
       DEF CompactedInv, first

\* Compact moves the base to an entry that is committed and not the last one.
LEMMA CompactKeepsInv ==
    ASSUME CompactedInv, NEW i \in Nat, Compaction!DoCompact(i)
    PROVE  CompactedInv'
<1>. DEFINE n == Len(v4)
            base == v1.base.index
            p == i - base
<1>1. /\ n \in Nat /\ Len(v1.entries) \in Nat /\ base \in Nat /\ v1.entries \in Seq(Entry)
      /\ Compaction!LastIndex(v1) = n
    BY LastIsStored
<1>2. /\ i < n /\ v1' = Compaction!Compact(v1, i)
      /\ v5' = IF v1' = v1 THEN v5 ELSE 0
      /\ UNCHANGED <<v2, v3, v4>>
    BY <1>1 DEF Compaction!DoCompact
<1>3. CASE v1' = v1
    BY <1>2, <1>3 DEF CompactedInv
<1>4. CASE v1' # v1
    <2>1. /\ i <= v1.commitIndex /\ p >= 1 /\ p <= Len(v1.entries)
          /\ v1' = [v1 EXCEPT !.base = [v1.entries[p] EXCEPT !.command = NoCommand],
                              !.entries = SubSeq(v1.entries, p + 1, Len(v1.entries))]
        BY <1>2, <1>4 DEF Compaction!Compact
    <2>2. /\ v1 \in Log /\ v4 \in Seq(Entry) /\ \A k \in 1 .. n : v4[k].index = k
          /\ base <= n /\ Len(v1.entries) = n - base
          /\ \A k \in 1 .. n - base : v1.entries[k] = v4[base + k]
          /\ v1.commitIndex \in Nat /\ v1.commitIndex <= n
        BY DEF CompactedInv, Log
    <2>. HIDE DEF n, base
    <2>3. p \in 1 .. n - base /\ base + p = i /\ i \in 1 .. n
        BY <1>1, <2>1, <2>2
    <2>4. v1.entries[p] = v4[i] /\ v4[i].index = i /\ v4[i] \in Entry
        BY <2>2, <2>3, ElementIn DEF n
    <2>. DEFINE es == SubSeq(v1.entries, p + 1, Len(v1.entries))
                b == [v4[i] EXCEPT !.command = NoCommand]
    <2>. HIDE DEF p
    <2>5. /\ es \in Seq(Entry) /\ Len(es) = Len(v1.entries) - p
          /\ \A k \in 1 .. Len(es) : es[k] = v1.entries[p + k]
        BY <1>1, <2>2, <2>3
    <2>6. b \in [term : Nat, index : Nat, command : {NoCommand}] /\ b.index = i /\ b.term = v4[i].term
        BY <2>4 DEF Entry
    <2>. HIDE DEF es, b
    <2>7. v1' = [v1 EXCEPT !.base = b, !.entries = es]
        BY <2>1, <2>4 DEF es, b
    <2>8. v1' \in Log /\ v1'.base = b /\ v1'.entries = es /\ v1'.commitIndex = v1.commitIndex
        BY <2>2, <2>5, <2>6, <2>7 DEF Log
    <2>9. Len(es) = n - i
        BY <1>1, <2>2, <2>3, <2>5
    <2>10. \A k \in 1 .. n - i : es[k] = v4[i + k]
        <3>. TAKE k \in 1 .. n - i
        <3>1. p + k \in 1 .. n - base /\ base + (p + k) = i + k
            BY <1>1, <2>2, <2>3
        <3>. QED
            BY <2>2, <2>5, <2>9, <3>1
    <2>11. i <= n /\ i # 0 /\ i <= v1.commitIndex /\ v5' = 0
        BY <1>2, <1>4, <2>1, <2>3
    <2>12. Len(v1'.entries) = n - i /\ v1'.base.index = i /\ v1'.base.term = v4[i].term
        BY <2>6, <2>8, <2>9, Zenon
    <2>13. i <= n /\ (i # 0 => i < n) /\ i <= v1'.commitIndex /\ v1'.commitIndex <= n
        BY <1>2, <2>2, <2>8, <2>11
    <2>14. \A k \in 1 .. Len(v1'.entries) : v1'.entries[k] = v4[i + k]
        BY <2>8, <2>10, <2>12, Zenon
    <2>15. v1'.base.term = IF i = 0 THEN 0 ELSE v4[i].term
        BY <2>11, <2>12, Zenon
    <2>16. /\ v4 \in Seq(Entry) /\ (\A k \in 1 .. Len(v4) : v4[k].index = k)
           /\ v2 \in Seq(Entry)
           /\ v2 # <<>> => v2[1].index <= Len(v4) + 1 /\ Len(v4) < v2[1].index + Len(v2)
           /\ \A k \in 1 .. Len(v2) :
                /\ v2[k].index = v2[1].index + k - 1 /\ v2[k].index # 0
                /\ v2[k].index <= Len(v4) => v2[k] = v4[v2[k].index]
           /\ v3 \in Nat \ {0}
        BY Zenon DEF CompactedInv
    <2>17. v2' = v2 /\ v3' = v3 /\ v4' = v4 /\ v5' \in Nat /\ (v5' # 0 => v5' = i + v3 - 1)
        BY <1>2, <2>11
    <2>. QED
        BY <2>8, <2>12, <2>13, <2>14, <2>15, <2>16, <2>17, Zenon DEF CompactedInv, n
<1>. QED
    BY <1>3, <1>4

\* Every call keeps the invariant (compact.go, batch.go, iter.go).
LEMMA CompactedKeepsInv ==
    CompactedInv /\ [Compaction!Next]_<<v1, v2, v3, v4, v5>> => CompactedInv'
<1>. SUFFICES ASSUME CompactedInv, [Compaction!Next]_<<v1, v2, v3, v4, v5>>
              PROVE  CompactedInv'
    OBVIOUS
<1>1. /\ Len(v4) \in Nat /\ Len(v1.entries) \in Nat /\ v1.base.index \in Nat
      /\ Compaction!LastIndex(v1) = Len(v4)
    BY LastIsStored
<1>2. ASSUME NEW t \in 1 .. MaxTerm, NEW cmd \in Command, Compaction!BatchAdd(t, cmd)
      PROVE  CompactedInv'
    <2>1. t \in Nat
        OBVIOUS
    <2>. QED
        BY <1>2, <2>1, BatchAddKeepsInv
<1>3. CASE Compaction!BatchApply
    BY <1>3, BatchApplyKeepsInv
<1>4. CASE Compaction!BatchReset
    BY <1>4 DEF Compaction!BatchReset, CompactedInv
<1>5. ASSUME NEW i \in 1 .. MaxStored, Compaction!Commit(i) PROVE CompactedInv'
    <2>1. v1' = CommitTo(v1, i) /\ UNCHANGED <<v2, v3, v4, v5>>
        BY <1>5, SameLog DEF Compaction!Commit
    <2>2. CASE v1' = v1
        BY <2>1, <2>2 DEF CompactedInv
    <2>3. CASE v1' # v1
        <3>1. v1' = [v1 EXCEPT !.commitIndex = i] /\ i \in v1.commitIndex .. Len(v4)
            BY <1>1, <2>1, <2>3, SameLog DEF CommitTo
        <3>2. v1 \in Log /\ v1.base.index <= v1.commitIndex /\ v1.commitIndex \in Nat
            BY DEF CompactedInv, Log
        <3>3. v1.base.index <= i /\ i <= Len(v4) /\ i \in Nat
            BY <1>1, <3>1, <3>2
        <3>4. v1' \in Log /\ v1'.base = v1.base /\ v1'.entries = v1.entries /\ v1'.commitIndex = i
            BY <3>1, <3>2, <3>3 DEF Log
        <3>. QED
            BY <2>1, <3>3, <3>4 DEF CompactedInv
    <2>. QED
        BY <2>2, <2>3
<1>6. ASSUME NEW i \in 1 .. MaxStored, Compaction!DoCompact(i) PROVE CompactedInv'
    <2>1. i \in Nat
        OBVIOUS
    <2>. QED
        BY <1>6, <2>1, CompactKeepsInv
<1>7. ASSUME NEW q \in Nat \ {0}, Compaction!Place(q) PROVE CompactedInv'
    BY <1>7 DEF Compaction!Place, CompactedInv
<1>8. ASSUME NEW i \in 1 .. MaxStored, Compaction!Place(Compaction!SeekTo(v1, i))
      PROVE  CompactedInv'
    <2>1. Compaction!SeekTo(v1, i) = Max({i - v1.base.index, 1})
        BY SameLog DEF Compaction!SeekTo
    <2>2. Compaction!SeekTo(v1, i) \in Nat \ {0}
        <3>1. i - v1.base.index \in Int /\ 1 \in Int
            BY <1>1
        <3>2. \A x, y \in Int : Max({x, y}) = IF x >= y THEN x ELSE y
            BY MaxOfTwo
        <3>. QED
            BY <2>1, <3>1, <3>2
    <2>. QED
        BY <1>7, <1>8, <2>2
<1>9. CASE Compaction!Walk
    <2>1. /\ v3 <= Len(v1.entries) /\ v3' = v3 + 1 /\ UNCHANGED <<v1, v2, v4>>
          /\ v5' = Compaction!EntryAt(v1, v3).index
        BY <1>9 DEF Compaction!Walk, Compaction!Valid
    <2>2. v3 \in 1 .. Len(v1.entries) /\ v1.base.index + v3 \in 1 .. Len(v4)
        <3>1. v3 \in Nat \ {0} /\ Len(v1.entries) = Len(v4) - v1.base.index
            BY Zenon DEF CompactedInv
        <3>. QED
            BY <1>1, <2>1, <3>1
    <2>3. v5' = v1.base.index + v3
        BY <2>1, <2>2 DEF Compaction!EntryAt, CompactedInv
    <2>4. v5' \in Nat /\ v3' \in Nat \ {0} /\ v5' = v1.base.index + v3' - 1
        BY <1>1, <2>1, <2>2, <2>3
    <2>. QED
        BY <2>1, <2>4 DEF CompactedInv
<1>10. CASE UNCHANGED <<v1, v2, v3, v4, v5>>
    BY <1>10 DEF CompactedInv
<1>. QED
    BY <1>2, <1>3, <1>4, <1>5, <1>6, <1>7, <1>8, <1>9, <1>10 DEF Compaction!Next

\* The entries of the log, their terms and how often each occurs are those of the
\* entries stored last.
LEMMA CompactedHoldsTail == CompactedInv => Compaction!HoldsTheTail
<1>. SUFFICES ASSUME CompactedInv PROVE Compaction!HoldsTheTail
    OBVIOUS
<1>. DEFINE n == Len(v4)
            base == v1.base.index
            es == v1.entries
            m == Len(es)
<1>1. n \in Nat /\ m \in Nat /\ base \in Nat /\ es \in Seq(Entry)
    BY LastIsStored
<1>2. /\ v4 \in Seq(Entry) /\ base <= n /\ m = n - base
      /\ \A k \in 1 .. m : es[k] = v4[base + k]
      /\ v1.base.term = IF base = 0 THEN 0 ELSE v4[base].term
    BY DEF CompactedInv
<1>. HIDE DEF n, base, es, m
<1>3. es = SubSeq(v4, base + 1, n)
    <2>1. /\ SubSeq(v4, base + 1, n) \in Seq(Entry) /\ Len(SubSeq(v4, base + 1, n)) = n - base
          /\ \A k \in 1 .. n - base : SubSeq(v4, base + 1, n)[k] = v4[base + k]
        BY <1>1, <1>2 DEF n
    <2>. QED
        BY <1>1, <1>2, <2>1, SameElements DEF m
<1>4. {es[k].term : k \in 1 .. m} = {v4[base + k].term : k \in 1 .. m}
    BY <1>2
<1>5. \A t : {k \in 1 .. m : es[k].term = t} = {k \in 1 .. m : v4[base + k].term = t}
    BY <1>2
<1>6. Compaction!TermDistribution(v1) =
        [t \in {v4[base + k].term : k \in 1 .. n - base} |->
            Compaction!Cardinality({k \in 1 .. n - base : v4[base + k].term = t})]
    <2>1. Compaction!TermDistribution(v1) =
            [t \in {es[k].term : k \in 1 .. m} |->
                Compaction!Cardinality({k \in 1 .. m : es[k].term = t})]
        BY Zenon DEF Compaction!TermDistribution, es, m
    <2>2. [t \in {es[k].term : k \in 1 .. m} |->
              Compaction!Cardinality({k \in 1 .. m : es[k].term = t})] =
          [t \in {v4[base + k].term : k \in 1 .. m} |->
              Compaction!Cardinality({k \in 1 .. m : v4[base + k].term = t})]
        BY <1>4, <1>5, Zenon
    <2>. QED
        BY <1>2, <2>1, <2>2, Zenon
<1>7. Compaction!ComputeStats(v1).entryCount = n - base
    BY <1>2 DEF Compaction!ComputeStats, m, es
<1>. QED
    BY <1>2, <1>3, <1>6, <1>7
       DEF Compaction!HoldsTheTail, Compaction!CompactedIndex, Compaction!CompactedTerm, n, base, es

\* The commit index lies between the base and the last entry.
LEMMA CompactedCommit == CompactedInv => Compaction!CommitIsInTheLog
<1>. SUFFICES ASSUME CompactedInv PROVE Compaction!CommitIsInTheLog
    OBVIOUS
<1>1. Compaction!LastIndex(v1) = Len(v4)
    BY LastIsStored
<1>. QED
    BY <1>1 DEF CompactedInv, Compaction!CommitIsInTheLog, Compaction!CompactedIndex,
                Compaction!ComputeStats

\* An index that is clamped after the base is subtracted, or before.
LEMMA ClampedIndex ==
    ASSUME CompactedInv, NEW i \in Nat
    PROVE  LET a == Compaction!Max({i - v1.base.index, 1})
           IN  /\ a \in Nat \ {0}
               /\ Compaction!Max({i, Compaction!CompactedIndex(v1) + 1}) = v1.base.index + a
<1>. DEFINE b == v1.base.index
<1>1. b \in Nat
    BY LastIsStored
<1>. HIDE DEF b
<1>2. Max({i - b, 1}) = IF i - b >= 1 THEN i - b ELSE 1
    <2>1. i - b \in Int /\ 1 \in Int
        BY <1>1
    <2>. QED
        BY <2>1, MaxOfTwo
<1>3. Max({i, b + 1}) = IF i >= b + 1 THEN i ELSE b + 1
    <2>1. i \in Int /\ b + 1 \in Int
        BY <1>1
    <2>. QED
        BY <2>1, MaxOfTwo
<1>4. Max({i - b, 1}) \in Nat \ {0} /\ Max({i, b + 1}) = b + Max({i - b, 1})
    BY <1>1, <1>2, <1>3
<1>. QED
    BY <1>4, SameLog DEF b, Compaction!CompactedIndex

\* EntrySince and Seek find the entries stored under the indexes.
LEMMA CompactedByIndex == CompactedInv => Compaction!SinceIsByIndex /\ Compaction!SeekFinds
<1>. SUFFICES ASSUME CompactedInv PROVE Compaction!SinceIsByIndex /\ Compaction!SeekFinds
    OBVIOUS
<1>. DEFINE n == Len(v4)
            b == v1.base.index
            es == v1.entries
            m == Len(es)
            A(i) == Compaction!Max({i - b, 1})
            B(i) == Compaction!Max({i, Compaction!CompactedIndex(v1) + 1})
<1>1. n \in Nat /\ m \in Nat /\ b \in Nat /\ es \in Seq(Entry)
    BY LastIsStored
<1>2. /\ v4 \in Seq(Entry) /\ b <= n /\ m = n - b
      /\ \A k \in 1 .. m : es[k] = v4[b + k]
    BY DEF CompactedInv
<1>3. \A i \in Nat : A(i) \in Nat \ {0} /\ B(i) = b + A(i)
    BY ClampedIndex
<1>. HIDE DEF n, b, es, m, A, B
<1>4. ASSUME NEW a \in Nat \ {0} PROVE SubSeq(es, a, m) = SubSeq(v4, b + a, n)
    <2>1. CASE a > m
        BY <1>1, <1>2, <2>1
    <2>2. CASE ~(a > m)
        <3>1. /\ SubSeq(es, a, m) \in Seq(Entry) /\ Len(SubSeq(es, a, m)) = m - a + 1
              /\ \A k \in 1 .. m - a + 1 : SubSeq(es, a, m)[k] = es[a + k - 1]
            BY <1>1, <2>2 DEF m
        <3>2. /\ SubSeq(v4, b + a, n) \in Seq(Entry) /\ Len(SubSeq(v4, b + a, n)) = m - a + 1
              /\ \A k \in 1 .. m - a + 1 : SubSeq(v4, b + a, n)[k] = v4[b + a + k - 1]
            BY <1>1, <1>2, <2>2 DEF n
        <3>3. \A k \in 1 .. m - a + 1 : a + k - 1 \in 1 .. m /\ b + (a + k - 1) = b + a + k - 1
            BY <1>1, <2>2
        <3>4. \A k \in 1 .. m - a + 1 : SubSeq(es, a, m)[k] = SubSeq(v4, b + a, n)[k]
            <4>. TAKE k \in 1 .. m - a + 1
            <4>1. SubSeq(es, a, m)[k] = es[a + k - 1] /\ es[a + k - 1] = v4[b + (a + k - 1)]
                BY <1>2, <3>1, <3>3, Zenon
            <4>. QED
                BY <3>2, <3>3, <4>1, Zenon
        <3>. QED
            BY <3>1, <3>2, <3>4, SameElements, Zenon
    <2>. QED
        BY <2>1, <2>2, Zenon
<1>5. Compaction!SinceIsByIndex
    <2>. SUFFICES ASSUME NEW i \in 0 .. MaxStored + 1
                  PROVE  SubSeq(es, A(i), m) = SubSeq(v4, B(i), n)
        BY Zenon DEF Compaction!SinceIsByIndex, Compaction!EntrySince, A, B, es, m, n, b
    <2>1. i \in Nat
        OBVIOUS
    <2>. QED
        BY <1>3, <1>4, <2>1
<1>6. ASSUME NEW i \in 1 .. MaxStored + 1
      PROVE  LET e == Compaction!EntryAt(v1, Compaction!SeekTo(v1, i))
             IN  IF B(i) <= n THEN e = v4[B(i)] ELSE e = Compaction!Sentinel
    <2>1. A(i) \in Nat \ {0} /\ B(i) = b + A(i)
        BY <1>3
    <2>2. Compaction!SeekTo(v1, i) = A(i)
        BY DEF Compaction!SeekTo, A, b
    <2>3. CASE A(i) <= m
        <3>1. A(i) \in 1 .. m /\ B(i) <= n
            BY <1>1, <1>2, <2>1, <2>3
        <3>2. Compaction!EntryAt(v1, A(i)) = es[A(i)]
            BY <3>1 DEF Compaction!EntryAt, es, m
        <3>. QED
            BY <1>2, <2>1, <2>2, <3>1, <3>2
    <2>4. CASE ~(A(i) <= m)
        <3>1. A(i) \notin 1 .. m /\ ~(B(i) <= n)
            BY <1>1, <1>2, <2>1, <2>4
        <3>2. Compaction!EntryAt(v1, A(i)) = Compaction!Sentinel
            BY <3>1 DEF Compaction!EntryAt, es, m
        <3>. QED
            BY <2>2, <3>1, <3>2
    <2>. QED
        BY <2>3, <2>4
<1>7. Compaction!SeekFinds
    BY <1>6 DEF Compaction!SeekFinds, B, n
<1>. QED
    BY <1>5, <1>7

\* An iterator that was not placed again shows the entry after the last it showed.
LEMMA CompactedWalk == CompactedInv => Compaction!WalkIsSequential
<1>. SUFFICES ASSUME CompactedInv, v5 # 0, v3 <= Len(v1.entries)
              PROVE  Compaction!EntryAt(v1, v3).index = v5 + 1
    BY DEF Compaction!WalkIsSequential, Compaction!Valid
<1>1. Len(v4) \in Nat /\ Len(v1.entries) \in Nat /\ v1.base.index \in Nat
    BY LastIsStored
<1>2. /\ Len(v1.entries) = Len(v4) - v1.base.index /\ v3 \in Nat \ {0}
      /\ v5 = v1.base.index + v3 - 1
    BY DEF CompactedInv
<1>3. v3 \in 1 .. Len(v1.entries) /\ v1.base.index + v3 \in 1 .. Len(v4)
    BY <1>1, <1>2
<1>4. Compaction!EntryAt(v1, v3).index = v1.base.index + v3
    BY <1>3 DEF Compaction!EntryAt, CompactedInv
<1>. QED
    BY <1>1, <1>2, <1>4

-----------------------------------------------------------------------------
(***************************************************************************)
(* The composition.                                                        *)
(***************************************************************************)
StorageInv ==
    /\ StateFileInv
    /\ part = "snapshot" => SnapshotInv
    /\ part = "log" => CompactedInv

\* The invariant of the part that runs is kept; the state file's always is.
LEMMA StorageInvariant == StorageSpec => []StorageInv
<1>1. StorageInit => StorageInv
    BY StateFileInvInit, SnapshotStart, CompactedStart, Zenon
       DEF StorageInit, StorageInv
<1>2. StorageInv /\ [StorageNext]_storageVars => StorageInv'
    <2>. SUFFICES ASSUME StorageInv, [StorageNext]_storageVars PROVE StorageInv'
        OBVIOUS
    <2>1. CASE part = "state" /\ Next /\ UNCHANGED <<part, others>>
        <3>1. StateFileInv' /\ part' = "state"
            BY <2>1, StateFileKeepsInv, Zenon DEF StorageInv
        <3>. QED
            BY <3>1 DEF StorageInv
    <2>2. CASE part = "snapshot" /\ Snap!Next /\ UNCHANGED <<part, vars>>
        <3>1. StateFileInv' /\ SnapshotInv' /\ part' = "snapshot"
            BY <2>2, StateFileKeepsInv, SnapshotKeepsInv, Zenon DEF StorageInv
        <3>. QED
            BY <3>1 DEF StorageInv
    <2>3. CASE part = "log" /\ Compaction!Next /\ UNCHANGED <<part, vars, v6>>
        <3>1. StateFileInv' /\ CompactedInv' /\ part' = "log"
            BY <2>3, StateFileKeepsInv, CompactedKeepsInv, Zenon DEF StorageInv
        <3>. QED
            BY <3>1 DEF StorageInv
    <2>4. CASE part \in {"codec", "kv", "counter"} /\ part' = part /\ UNCHANGED vars
        <3>1. StateFileInv'
            BY <2>4, StateFileKeepsInv, Zenon DEF StorageInv
        <3>. QED
            BY <2>4, <3>1 DEF StorageInv
    <2>5. CASE UNCHANGED storageVars
        <3>1. /\ UNCHANGED vars /\ part' = part /\ UNCHANGED others
              /\ UNCHANGED <<v1, v2, v3, v4, v5>> /\ UNCHANGED <<v1, v2, v3, v4>>
            BY <2>5 DEF storageVars, others
        <3>2. StateFileInv'
            BY <3>1, StateFileKeepsInv, Zenon DEF StorageInv
        <3>3. part = "snapshot" => SnapshotInv'
            BY <3>1, SnapshotKeepsInv, Zenon DEF StorageInv
        <3>4. part = "log" => CompactedInv'
            BY <3>1, CompactedKeepsInv, Zenon DEF StorageInv
        <3>. QED
            BY <3>1, <3>2, <3>3, <3>4, Zenon DEF StorageInv
    <2>. QED
        BY <2>1, <2>2, <2>3, <2>4, <2>5 DEF StorageNext
<1>. QED
    BY <1>1, <1>2, PTL DEF StorageSpec

\* Load of the state file never returns a state that was not saved: every write of
\* a Save can fail and a crash can come at any moment, and what is read is an error
\* or one saved state as it was (persist.go:44-158).
THEOREM LoadNeverBlends == StorageSpec => []NeverBlended
<1>1. StorageInv => NeverBlended
    BY InvLoads, Zenon DEF StorageInv
<1>. QED
    BY <1>1, StorageInvariant, PTL

\* A state whose Save returned nil is what Load returns until the next Save begins
\* (persist.go:44-69, 141-143).
THEOREM SavedStatesLast == StorageSpec => []SavedIsKept
<1>1. StorageInv => SavedIsKept
    BY InvKeepsSaved, Zenon DEF StorageInv
<1>. QED
    BY <1>1, StorageInvariant, PTL

\* Load of a snapshot file returns an error or a snapshot that was saved, whole,
\* with its peers and its data (snapshot.go:33-120).
THEOREM SnapshotsLoadWhole == StorageSpec => []SnapshotsNeverBlended
<1>1. StorageInv => SnapshotsNeverBlended
    BY SnapshotsLoad, Zenon DEF StorageInv, SnapshotsNeverBlended
<1>. QED
    BY <1>1, StorageInvariant, PTL

\* A snapshot whose Save returned nil is what Load returns until the next Save
\* begins, if its data is within Load's limit (snapshot.go:64, 109-111).
THEOREM SavedSnapshotsLast == StorageSpec => []SnapshotsAreKept
<1>1. StorageInv => SnapshotsAreKept
    BY SnapshotsLoad, Zenon DEF StorageInv, SnapshotsAreKept
<1>. QED
    BY <1>1, StorageInvariant, PTL

\* A log that is compacted and appended to in any order holds the tail of all that
\* was stored (compact.go:6-31, batch.go:28-34).
THEOREM CompactionHoldsTheTail == StorageSpec => []HoldsTheTail
<1>1. StorageInv => HoldsTheTail
    BY CompactedHoldsTail, Zenon DEF StorageInv, HoldsTheTail
<1>. QED
    BY <1>1, StorageInvariant, PTL

\* The commit index stays within the log that is compacted (compact.go:7-9).
THEOREM CommitStaysInTheLog == StorageSpec => []CommitIsInTheLog
<1>1. StorageInv => CommitIsInTheLog
    BY CompactedCommit, Zenon DEF StorageInv, CommitIsInTheLog
<1>. QED
    BY <1>1, StorageInvariant, PTL

\* EntrySince goes by index on every log that compaction and batches can make
\* (compact.go:49-62).
THEOREM SinceGoesByIndex == StorageSpec => []SinceIsByIndex
<1>1. StorageInv => SinceIsByIndex
    BY CompactedByIndex, Zenon DEF StorageInv, SinceIsByIndex
<1>. QED
    BY <1>1, StorageInvariant, PTL

\* Seek goes by index on every log that compaction and batches can make
\* (iter.go:45-52).
THEOREM SeekGoesByIndex == StorageSpec => []SeekFinds
<1>1. StorageInv => SeekFinds
    BY CompactedByIndex, Zenon DEF StorageInv, SeekFinds
<1>. QED
    BY <1>1, StorageInvariant, PTL

\* An iterator goes from one index to the next, while the log grows and shrinks
\* under it (iter.go:3-52).
THEOREM IteratorIsSequential == StorageSpec => []WalkIsSequential
<1>1. StorageInv => WalkIsSequential
    BY CompactedWalk, Zenon DEF StorageInv, WalkIsSequential
<1>. QED
    BY <1>1, StorageInvariant, PTL

=============================================================================
