---------------------------- MODULE CodecProofs ----------------------------
(***************************************************************************)
(* Theorems about the codec and the state machines that Storage composes,  *)
(* for every value of its constants.                                       *)
(*                                                                         *)
(* DataInv is inductive.  It says of each part                             *)
(*  - codec: the stream is a row of batches, of which only the last may be  *)
(*    cut, and begins where the next unread one begins;                     *)
(*  - state machines: the committed commands determine, by one history of   *)
(*    states, what a machine holds at each position.                        *)
(***************************************************************************)
EXTENDS Storage, WellFoundedInduction, TLAPS

-----------------------------------------------------------------------------
(***************************************************************************)
(* Sequences and counting.                                                 *)
(***************************************************************************)

\* A sequence is a function on the numbers up to its length.
LEMMA LengthOfSeq ==
    ASSUME NEW S, NEW s \in Seq(S)
    PROVE  Len(s) \in Nat /\ s \in [1 .. Len(s) -> S] /\ DOMAIN s = 1 .. Len(s)
    OBVIOUS

\* Its elements are where they should be.
LEMMA ElementIn ==
    ASSUME NEW S, NEW s \in Seq(S), NEW n \in 1 .. Len(s)
    PROVE  s[n] \in S
    OBVIOUS

\* The empty stream, and one that is not.
LEMMA NoElements ==
    ASSUME NEW S
    PROVE  /\ << >> \in Seq(S) /\ Len(<< >>) = 0
           /\ \A s \in Seq(S) : s # << >> => Len(s) \in Nat \ {0}
    OBVIOUS

\* Two sequences of one length with the same elements are the same.
LEMMA SameElements ==
    ASSUME NEW S, NEW s \in Seq(S), NEW t \in Seq(S),
           Len(s) = Len(t), \A i \in 1 .. Len(s) : s[i] = t[i]
    PROVE  s = t
    OBVIOUS

\* What a write adds to a stream.
LEMMA TwoSeqs ==
    ASSUME NEW S, NEW s \in Seq(S), NEW t \in Seq(S)
    PROVE  /\ s \o t \in Seq(S) /\ Len(s \o t) = Len(s) + Len(t)
           /\ \A i \in 1 .. Len(s) + Len(t) :
                (s \o t)[i] = IF i <= Len(s) THEN s[i] ELSE t[i - Len(s)]
    OBVIOUS

\* What append of one element does.
LEMMA OneMore ==
    ASSUME NEW S, NEW s \in Seq(S), NEW x \in S
    PROVE  /\ Append(s, x) \in Seq(S) /\ Append(s, x) # << >>
           /\ Len(Append(s, x)) = Len(s) + 1 /\ Append(s, x)[Len(s) + 1] = x
           /\ \A i \in 1 .. Len(s) : Append(s, x)[i] = s[i]
    OBVIOUS

\* Induction over the naturals, for a set: a loop goes one step further each time.
LEMMA ByCounting ==
    ASSUME NEW T, 0 \in T, \A n \in Nat : n \in T => n + 1 \in T
    PROVE  Nat \subseteq T
<1>. SUFFICES ASSUME ~(Nat \subseteq T) PROVE FALSE
    OBVIOUS
<1>. DEFINE S == Nat \ T
            R == OpToRel(<, Nat)
<1>1. S \subseteq Nat /\ S # {} /\ 0 \notin S
    OBVIOUS
<1>2. IsWellFoundedOn(R, Nat)
    BY NatLessThanWellFounded
<1>3. \A x, y \in Nat : <<x, y>> \in R <=> x < y
    BY DEF OpToRel
<1>. HIDE DEF R
<1>4. PICK x \in S : \A y \in S : ~(<<y, x>> \in R)
    <2>. HIDE DEF S
    <2>. QED
        BY <1>1, <1>2, WFMin
<1>5. x \in Nat /\ x \notin T /\ x # 0
    BY <1>1
<1>6. x - 1 \in Nat /\ x - 1 < x /\ (x - 1) + 1 = x
    BY <1>5
<1>7. x - 1 \notin S
    BY <1>3, <1>4, <1>5, <1>6
<1>8. x - 1 \in T
    BY <1>6, <1>7
<1>9. (x - 1) + 1 \in T
    BY <1>6, <1>8
<1>. QED
    BY <1>5, <1>6, <1>9

-----------------------------------------------------------------------------
(***************************************************************************)
(* Replicas.  The committed log determines what every machine at a         *)
(* position answers: h[n] is the answer after the first n commands.        *)
(***************************************************************************)

\* The map after a command, which does not depend on the index.
KVAfter(d, c) == KVR!Apply([data |-> d, applied |-> 0], 0, c).data

IsMap(d) ==
    /\ d = [k \in DOMAIN d |-> d[k]]
    /\ \A k \in DOMAIN d : k \in Strings /\ d[k] \in Strings

IsKVHistory(h) ==
    /\ h[0] = <<>>
    /\ \A n \in 0 .. Len(v1) : IsMap(h[n])
    /\ \A n \in 1 .. Len(v1) : h[n] = KVAfter(h[n - 1], v1[n])

KVInv ==
    /\ v1 \in Seq(KVR!Requests)
    /\ v3 \in [Replica -> Nat] /\ \A r \in Replica : v3[r] <= Len(v1)
    /\ v2 = [r \in Replica |-> [data |-> v2[r].data, applied |-> v2[r].applied]]
    /\ \A r \in Replica : v2[r].applied \in 0 .. v3[r]
    /\ \E h :
         /\ IsKVHistory(h)
         /\ \A r \in Replica : v2[r].data = h[v3[r]]
         /\ v4 # NoneTaken => v4.lastIndex \in 0 .. Len(v1) /\ v4.data = h[v4.lastIndex]

\* Apply changes the map as the command says, and sets LastApplied or leaves it.
LEMMA KVApplies ==
    ASSUME NEW kv, NEW index, NEW c \in KVR!Requests, IsMap(kv.data),
           kv = [data |-> kv.data, applied |-> kv.applied]
    PROVE  LET a == KVR!Apply(kv, index, c)
           IN  /\ a = [data |-> KVAfter(kv.data, c), applied |-> a.applied]
               /\ a.applied \in {index, kv.applied}
               /\ IsMap(KVAfter(kv.data, c))
<1>. DEFINE d == kv.data
            kv0 == [data |-> d, applied |-> 0]
<1>1. CASE \E k, v \in Strings : c = KVR!Set(k, v)
    <2>1. PICK k \in Strings, v \in Strings : c = KVR!Set(k, v)
        BY <1>1
    <2>. DEFINE new == [i \in DOMAIN d \cup {k} |-> IF i = k THEN v ELSE d[i]]
    <2>2. c.verb = "set" /\ c.key = k /\ c.value = v
        BY <2>1 DEF KVR!Set
    <2>3. KVR!Apply(kv, index, c) = [data |-> new, applied |-> index]
        BY <2>2 DEF KVR!Apply
    <2>4. KVAfter(d, c) = new
        BY <2>2 DEF KVR!Apply, KVAfter
    <2>5. IsMap(new)
        BY DEF IsMap
    <2>. HIDE DEF new
    <2>. QED
        BY <2>3, <2>4, <2>5
<1>2. CASE \E k \in Strings : c = KVR!Delete(k)
    <2>1. PICK k \in Strings : c = KVR!Delete(k)
        BY <1>2
    <2>. DEFINE new == [i \in DOMAIN d \ {k} |-> d[i]]
    <2>2. c.verb = "delete" /\ c.key = k
        BY <2>1 DEF KVR!Delete
    <2>3. KVR!Apply(kv, index, c) = [data |-> new, applied |-> index]
        BY <2>2 DEF KVR!Apply
    <2>4. KVAfter(d, c) = new
        BY <2>2 DEF KVR!Apply, KVAfter
    <2>5. IsMap(new)
        BY DEF IsMap
    <2>. HIDE DEF new
    <2>. QED
        BY <2>3, <2>4, <2>5
<1>3. CASE c = KVR!BadCommand
    <2>1. c.verb = "bad"
        BY <1>3 DEF KVR!BadCommand
    <2>2. KVR!Apply(kv, index, c) = kv /\ KVAfter(d, c) = d
        BY <2>1 DEF KVR!Apply, KVAfter
    <2>. QED
        BY <2>2
<1>. QED
    BY <1>1, <1>2, <1>3 DEF KVR!Requests

\* What json.Marshal writes of valid strings reads back as it was.
LEMMA KVSnapshotIsMap ==
    ASSUME NEW kv, IsMap(kv.data)
    PROVE  KVR!Snapshot(kv) = kv.data
<1>. DEFINE d == kv.data
<1>1. \A k \in DOMAIN d : k \in Nat /\ Json(k) = k /\ Json(d[k]) = d[k]
    BY StorageAssumption DEF IsMap
<1>2. {Json(k) : k \in DOMAIN d} = DOMAIN d
    BY <1>1
<1>3. ASSUME NEW j \in DOMAIN d
      PROVE  (CHOOSE k \in KVR!Written(kv, j) : \A i \in KVR!Written(kv, j) : i <= k) = j
    <2>1. KVR!Written(kv, j) = {j}
        BY <1>1 DEF KVR!Written
    <2>2. j <= j
        BY <1>1
    <2>. QED
        BY <2>1, <2>2
<1>4. KVR!Snapshot(kv) = [j \in DOMAIN d |-> d[j]]
    BY <1>1, <1>2, <1>3 DEF KVR!Snapshot
<1>. QED
    BY <1>4, Zenon DEF IsMap

\* No command is committed and every machine is new.
LEMMA KVStart == KVR!Init => KVInv
<1>. SUFFICES ASSUME KVR!Init PROVE KVInv
    OBVIOUS
<1>1. /\ v1 = <<>> /\ v4 = NoneTaken
      /\ v2 = [r \in Replica |-> [data |-> <<>>, applied |-> 0]]
      /\ v3 = [r \in Replica |-> 0]
    BY DEF KVR!Init, KVR!NewKV
<1>2. IsMap(<<>>)
    BY DEF IsMap
<1>. DEFINE h == [n \in {0} |-> <<>>]
<1>3. IsKVHistory(h)
    BY <1>1, <1>2 DEF IsKVHistory
<1>. QED
    BY <1>1, <1>3 DEF KVInv

\* Every step of a replica and of its driver keeps the invariant
\* (kv.go:29-54, 83-107).
LEMMA KVKeepsInv == KVInv /\ [KVR!Next]_<<v1, v2, v3, v4>> => KVInv'
<1>. SUFFICES ASSUME KVInv, [KVR!Next]_<<v1, v2, v3, v4>> PROVE KVInv'
    OBVIOUS
<1>1. PICK h : /\ IsKVHistory(h)
               /\ \A r \in Replica : v2[r].data = h[v3[r]]
               /\ v4 # NoneTaken => v4.lastIndex \in 0 .. Len(v1) /\ v4.data = h[v4.lastIndex]
    BY DEF KVInv
<1>2. /\ v1 \in Seq(KVR!Requests) /\ Len(v1) \in Nat
      /\ v3 \in [Replica -> Nat] /\ \A r \in Replica : v3[r] <= Len(v1)
      /\ v2 = [r \in Replica |-> [data |-> v2[r].data, applied |-> v2[r].applied]]
      /\ \A r \in Replica : v2[r].applied \in 0 .. v3[r]
    BY LengthOfSeq DEF KVInv
<1>3. ASSUME NEW c \in KVR!Requests, KVR!Commit(c) PROVE KVInv'
    <2>0. PICK n \in Nat : n = Len(v1)
        BY <1>2
    <2>. DEFINE g == [k \in 0 .. n + 1 |-> IF k <= n THEN h[k] ELSE KVAfter(h[n], c)]
    <2>1. v1' = Append(v1, c) /\ UNCHANGED <<v2, v3, v4>>
        BY <1>3 DEF KVR!Commit
    <2>2. /\ v1' \in Seq(KVR!Requests) /\ Len(v1') = n + 1 /\ v1'[n + 1] = c
          /\ \A k \in 1 .. n : v1'[k] = v1[k]
        BY <1>2, <2>0, <2>1, OneMore
    <2>3. n \in Nat /\ (\A k \in 0 .. n : g[k] = h[k]) /\ g[n + 1] = KVAfter(h[n], c)
        OBVIOUS
    <2>. HIDE DEF g
    <2>4. IsMap(h[n]) /\ IsMap(KVAfter(h[n], c))
        <3>1. IsMap(h[n])
            BY <1>1, <2>0, <2>3 DEF IsKVHistory
        <3>. DEFINE kv == [data |-> h[n], applied |-> 0]
        <3>2. kv.data = h[n] /\ kv = [data |-> kv.data, applied |-> kv.applied]
            OBVIOUS
        <3>. HIDE DEF kv
        <3>. QED
            BY <3>1, <3>2, KVApplies
    <2>5. IsKVHistory(g)'
        <3>1. g[0] = <<>>
            BY <1>1, <2>3 DEF IsKVHistory
        <3>2. \A k \in 0 .. n + 1 : IsMap(g[k])
            <4>. TAKE k \in 0 .. n + 1
            <4>1. CASE k \in 0 .. n
                BY <1>1, <2>0, <2>3, <4>1 DEF IsKVHistory
            <4>2. CASE k = n + 1
                BY <2>3, <2>4, <4>2
            <4>. QED
                BY <2>3, <4>1, <4>2
        <3>3. \A k \in 1 .. n + 1 : g[k] = KVAfter(g[k - 1], v1'[k])
            <4>. TAKE k \in 1 .. n + 1
            <4>1. CASE k \in 1 .. n
                <5>1. k \in 0 .. n /\ k - 1 \in 0 .. n
                    BY <2>3, <4>1
                <5>2. h[k] = KVAfter(h[k - 1], v1[k])
                    BY <1>1, <2>0, <4>1 DEF IsKVHistory
                <5>. QED
                    BY <2>2, <2>3, <4>1, <5>1, <5>2
            <4>2. CASE k = n + 1
                <5>1. k - 1 = n /\ n \in 0 .. n
                    BY <2>3, <4>2
                <5>. QED
                    BY <2>2, <2>3, <4>2, <5>1
            <4>. QED
                BY <2>3, <4>1, <4>2
        <3>. QED
            BY <2>2, <3>1, <3>2, <3>3 DEF IsKVHistory
    <2>6. \A r \in Replica : v3[r] \in 0 .. n
        BY <1>2, <2>0
    <2>7. \A r \in Replica : v2'[r].data = g[v3'[r]]
        BY <1>1, <2>1, <2>3, <2>6
    <2>8. v4' # NoneTaken => v4'.lastIndex \in 0 .. n + 1 /\ v4'.data = g[v4'.lastIndex]
        BY <1>1, <2>0, <2>1, <2>3
    <2>9. \A r \in Replica : v3'[r] <= n + 1
        BY <2>1, <2>3, <2>6
    <2>. QED
        BY <1>2, <2>1, <2>2, <2>5, <2>7, <2>8, <2>9 DEF KVInv
<1>4. ASSUME NEW r \in Replica, KVR!ApplyNext(r) PROVE KVInv'
    <2>. DEFINE i == v3[r] + 1
                a == KVR!Apply(v2[r], i, v1[i])
    <2>1. /\ i <= Len(v1) /\ v2' = [v2 EXCEPT ![r] = a] /\ v3' = [v3 EXCEPT ![r] = i]
          /\ UNCHANGED <<v1, v4>>
        BY <1>4 DEF KVR!ApplyNext
    <2>2. i \in 1 .. Len(v1) /\ i - 1 = v3[r] /\ v3[r] \in 0 .. Len(v1)
        BY <1>2, <2>1
    <2>3. v1[i] \in KVR!Requests
        BY <1>2, <2>2, ElementIn
    <2>4. v2[r].data = h[v3[r]] /\ IsMap(v2[r].data)
        BY <1>1, <2>2 DEF IsKVHistory
    <2>5. v2[r] = [data |-> v2[r].data, applied |-> v2[r].applied]
        BY <1>2
    <2>6. /\ a = [data |-> KVAfter(v2[r].data, v1[i]), applied |-> a.applied]
          /\ a.applied \in {i, v2[r].applied}
        BY <2>3, <2>4, <2>5, KVApplies
    <2>7. h[i] = KVAfter(v2[r].data, v1[i])
        BY <1>1, <2>2, <2>4 DEF IsKVHistory
    <2>. HIDE DEF a
    <2>8. a = [data |-> a.data, applied |-> a.applied] /\ a.data = h[i] /\ a.applied \in 0 .. i
        BY <1>2, <2>2, <2>6, <2>7
    <2>. HIDE DEF i
    <2>9. /\ v2' = [s \in Replica |-> [data |-> v2'[s].data, applied |-> v2'[s].applied]]
          /\ \A s \in Replica : v2'[s] = IF s = r THEN a ELSE v2[s]
        BY <1>2, <2>1, <2>8
    <2>10. v3' \in [Replica -> Nat] /\ \A s \in Replica : v3'[s] = IF s = r THEN i ELSE v3[s]
        BY <1>2, <2>1, <2>2
    <2>11. \A s \in Replica : /\ v3'[s] <= Len(v1) /\ v2'[s].applied \in 0 .. v3'[s]
                              /\ v2'[s].data = h[v3'[s]]
        BY <1>1, <1>2, <2>1, <2>8, <2>9, <2>10
    <2>12. IsKVHistory(h)'
        BY <1>1, <2>1 DEF IsKVHistory
    <2>. QED
        BY <1>1, <1>2, <2>1, <2>9, <2>10, <2>11, <2>12 DEF KVInv
<1>5. ASSUME NEW r \in Replica, KVR!TakeSnapshot(r) PROVE KVInv'
    <2>1. /\ v4' = [lastIndex |-> v3[r], data |-> KVR!Snapshot(v2[r])]
          /\ UNCHANGED <<v1, v2, v3>>
        BY <1>5 DEF KVR!TakeSnapshot
    <2>2. v3[r] \in 0 .. Len(v1)
        BY <1>2
    <2>3. IsMap(v2[r].data) /\ v2[r].data = h[v3[r]]
        BY <1>1, <2>2 DEF IsKVHistory
    <2>4. v4'.lastIndex = v3[r] /\ v4'.data = h[v3[r]]
        BY <2>1, <2>3, KVSnapshotIsMap
    <2>5. IsKVHistory(h)'
        BY <1>1, <2>1 DEF IsKVHistory
    <2>. QED
        BY <1>1, <1>2, <2>1, <2>2, <2>4, <2>5 DEF KVInv
<1>6. ASSUME NEW r \in Replica, KVR!StartOver(r) PROVE KVInv'
    <2>1. /\ v2' = [v2 EXCEPT ![r] = KVR!Clear(@)] /\ v3' = [v3 EXCEPT ![r] = 0]
          /\ UNCHANGED <<v1, v4>>
        BY <1>6 DEF KVR!StartOver
    <2>2. KVR!Clear(v2[r]) = [data |-> <<>>, applied |-> 0]
        <3>1. v2[r] = [data |-> v2[r].data, applied |-> v2[r].applied]
            BY <1>2
        <3>. DEFINE x == KVR!Clear(v2[r])
        <3>2. x \in [data : {<<>>}, applied : {0}]
            BY <3>1 DEF KVR!Clear
        <3>. HIDE DEF x
        <3>. QED
            BY <3>2 DEF x
    <2>3. h[0] = <<>>
        BY <1>1 DEF IsKVHistory
    <2>4. /\ v2' = [s \in Replica |-> [data |-> v2'[s].data, applied |-> v2'[s].applied]]
          /\ \A s \in Replica : v2'[s] = IF s = r THEN [data |-> <<>>, applied |-> 0] ELSE v2[s]
        BY <1>2, <2>1, <2>2
    <2>5. v3' \in [Replica -> Nat] /\ \A s \in Replica : v3'[s] = IF s = r THEN 0 ELSE v3[s]
        BY <1>2, <2>1
    <2>6. \A s \in Replica : /\ v3'[s] <= Len(v1) /\ v2'[s].applied \in 0 .. v3'[s]
                             /\ v2'[s].data = h[v3'[s]]
        <3>. TAKE s \in Replica
        <3>1. CASE s = r
            BY <1>2, <2>3, <2>4, <2>5, <3>1
        <3>2. CASE s # r
            BY <1>1, <1>2, <2>4, <2>5, <3>2
        <3>. QED
            BY <3>1, <3>2
    <2>7. IsKVHistory(h)'
        BY <1>1, <2>1 DEF IsKVHistory
    <2>. QED
        BY <1>1, <1>2, <2>1, <2>4, <2>5, <2>6, <2>7 DEF KVInv
<1>7. ASSUME NEW r \in Replica, KVR!Install(r) PROVE KVInv'
    <2>. DEFINE a == KVR!Restore(v2[r], v4.data)
    <2>1. /\ v4 # NoneTaken /\ v4.lastIndex >= v3[r]
          /\ v2' = [v2 EXCEPT ![r] = a] /\ v3' = [v3 EXCEPT ![r] = v4.lastIndex]
          /\ UNCHANGED <<v1, v4>>
        BY <1>7 DEF KVR!Install
    <2>2. v4.lastIndex \in 0 .. Len(v1) /\ v4.data = h[v4.lastIndex]
        BY <1>1, <2>1
    <2>3. a = [data |-> v4.data, applied |-> v2[r].applied]
        BY <1>2 DEF KVR!Restore
    <2>. HIDE DEF a
    <2>4. /\ v2' = [s \in Replica |-> [data |-> v2'[s].data, applied |-> v2'[s].applied]]
          /\ \A s \in Replica : v2'[s] = IF s = r THEN a ELSE v2[s]
        BY <1>2, <2>1, <2>3
    <2>5. v3' \in [Replica -> Nat] /\ \A s \in Replica : v3'[s] = IF s = r THEN v4.lastIndex ELSE v3[s]
        BY <1>2, <2>1, <2>2
    <2>6. \A s \in Replica : /\ v3'[s] <= Len(v1) /\ v2'[s].applied \in 0 .. v3'[s]
                             /\ v2'[s].data = h[v3'[s]]
        BY <1>1, <1>2, <2>1, <2>2, <2>3, <2>4, <2>5
    <2>7. IsKVHistory(h)'
        BY <1>1, <2>1 DEF IsKVHistory
    <2>. QED
        BY <1>1, <1>2, <2>1, <2>4, <2>5, <2>6, <2>7 DEF KVInv
<1>8. CASE UNCHANGED <<v1, v2, v3, v4>>
    <2>1. IsKVHistory(h)'
        BY <1>1, <1>8 DEF IsKVHistory
    <2>. QED
        BY <1>1, <1>2, <1>8, <2>1 DEF KVInv
<1>. QED
    BY <1>3, <1>4, <1>5, <1>6, <1>7, <1>8 DEF KVR!Next

\* Machines at the same position hold the same map.
LEMMA KVAgree == KVInv => KVR!ReplicasAgree /\ KVR!NothingIsSkipped
<1>. SUFFICES ASSUME KVInv PROVE KVR!ReplicasAgree /\ KVR!NothingIsSkipped
    OBVIOUS
<1>1. KVR!ReplicasAgree
    BY DEF KVInv, KVR!ReplicasAgree, KVR!Queries
<1>2. KVR!NothingIsSkipped
    BY DEF KVInv, KVR!NothingIsSkipped, KVR!LastApplied
<1>. QED
    BY <1>1, <1>2

-----------------------------------------------------------------------------
\* The replicas of the counter: again the committed commands determine the value
\* at every position, now through the wrap-around of int64.

\* The value after a command.
CounterAfter(x, c) == CTR!Apply([value |-> x, applied |-> 0], 0, c).value

Int64s == -Half .. Half - 1

IsCounterHistory(h) ==
    /\ h[0] = 0
    /\ \A n \in 0 .. Len(v1) : h[n] \in Int64s
    /\ \A n \in 1 .. Len(v1) : h[n] = CounterAfter(h[n - 1], v1[n])

CounterInv ==
    /\ v1 \in Seq(CTR!Requests)
    /\ v3 \in [Replica -> Nat] /\ \A r \in Replica : v3[r] <= Len(v1)
    /\ v2 = [r \in Replica |-> [value |-> v2[r].value, applied |-> v2[r].applied]]
    /\ \E h :
         /\ IsCounterHistory(h)
         /\ \A r \in Replica : v2[r].value = h[v3[r]]
         /\ v4 # NoneTaken => /\ v4.lastIndex \in 0 .. Len(v1)
                              /\ v4.data = h[v4.lastIndex] % (2 * Half)

\* A sum wraps around into the range of an int64, and an int64 is what comes back
\* from its uint64.
LEMMA WrapsAround ==
    /\ \A x \in Int : CTR!Int64(x) \in Int64s
    /\ \A x \in Int64s : CTR!Int64(x % (2 * Half)) = x
<1>. DEFINE M == 2 * Half
<1>1. Half \in Nat \ {0} /\ M \in Nat \ {0} /\ M = Half + Half
    BY StorageAssumption
<1>. HIDE DEF M
<1>2. \A y \in Int : y % M \in 0 .. M - 1
    BY <1>1
<1>3. \A y \in 0 .. M - 1 : y % M = y /\ (y + M) % M = y /\ (y - M) % M = y
    BY <1>1
<1>4. \A x \in Int : CTR!Int64(x) = ((x + Half) % M) - Half
    BY DEF CTR!Int64, M
<1>5. ASSUME NEW x \in Int PROVE CTR!Int64(x) \in Int64s
    <2>1. x + Half \in Int
        BY <1>1
    <2>2. (x + Half) % M \in 0 .. M - 1
        BY <1>2, <2>1
    <2>. QED
        BY <1>1, <1>4, <2>2 DEF Int64s
<1>6. ASSUME NEW x \in Int64s PROVE CTR!Int64(x % M) = x
    <2>1. x \in Int /\ x + Half \in 0 .. M - 1
        BY <1>1 DEF Int64s
    <2>2. (x + Half) % M = x + Half /\ (x + Half + M) % M = x + Half
        BY <1>3, <2>1
    <2>3. CASE x >= 0
        <3>1. x \in 0 .. M - 1
            BY <1>1, <2>1, <2>3
        <3>2. x % M = x
            BY <1>3, <3>1
        <3>3. CTR!Int64(x) = ((x + Half) % M) - Half
            BY <1>4, <2>1
        <3>. QED
            BY <1>1, <2>1, <2>2, <3>2, <3>3
    <2>4. CASE x < 0
        <3>1. x + M \in 0 .. M - 1 /\ (x + M) - M = x
            BY <1>1, <2>1, <2>4
        <3>2. x % M = x + M
            BY <1>3, <3>1
        <3>3. (x + M) + Half = x + Half + M /\ x + M \in Int
            BY <1>1, <2>1
        <3>4. CTR!Int64(x + M) = (((x + M) + Half) % M) - Half
            BY <1>4, <3>3
        <3>. QED
            BY <1>1, <2>1, <2>2, <3>2, <3>3, <3>4
    <2>. QED
        BY <2>1, <2>3, <2>4
<1>. QED
    BY <1>5, <1>6 DEF M

\* Apply changes the value as the command says.
LEMMA CounterApplies ==
    ASSUME NEW m, NEW index, NEW c \in CTR!Requests, m.value \in Int64s,
           m = [value |-> m.value, applied |-> m.applied]
    PROVE  LET a == CTR!Apply(m, index, c)
           IN  /\ a = [value |-> CounterAfter(m.value, c), applied |-> a.applied]
               /\ CounterAfter(m.value, c) \in Int64s
<1>. DEFINE x == m.value
<1>1. Half \in Nat \ {0} /\ x \in Int /\ 0 \in Int64s
    BY StorageAssumption DEF Int64s
<1>2. CASE \E n \in -Half .. Half - 1 : c = CTR!Incr(n)
    <2>1. PICK n \in -Half .. Half - 1 : c = CTR!Incr(n)
        BY <1>2
    <2>2. c.verb = "incr" /\ c.delta = n
        BY <2>1 DEF CTR!Incr
    <2>. DEFINE y == CTR!Int64(x + n)
    <2>3. CTR!Apply(m, index, c) = [value |-> y, applied |-> index]
        BY <2>2 DEF CTR!Apply
    <2>4. CounterAfter(x, c) = y
        BY <2>2 DEF CTR!Apply, CounterAfter
    <2>5. y \in Int64s
        <3>1. x + n \in Int
            BY <1>1
        <3>. QED
            BY <3>1, WrapsAround
    <2>. HIDE DEF y
    <2>. QED
        BY <2>3, <2>4, <2>5
<1>3. CASE c = CTR!ResetTo0
    <2>1. c.verb = "reset"
        BY <1>3 DEF CTR!ResetTo0
    <2>2. CTR!Apply(m, index, c) = [value |-> 0, applied |-> index] /\ CounterAfter(x, c) = 0
        BY <2>1 DEF CTR!Apply, CounterAfter
    <2>. QED
        BY <1>1, <2>2
<1>4. CASE c = CTR!BadCommand
    <2>1. c.verb = "bad"
        BY <1>4 DEF CTR!BadCommand
    <2>2. CTR!Apply(m, index, c) = m /\ CounterAfter(x, c) = x
        BY <2>1 DEF CTR!Apply, CounterAfter
    <2>. QED
        BY <2>2
<1>. QED
    BY <1>2, <1>3, <1>4 DEF CTR!Requests

\* No command is committed and every machine is new.
LEMMA CounterStart == CTR!Init => CounterInv
<1>. SUFFICES ASSUME CTR!Init PROVE CounterInv
    OBVIOUS
<1>1. /\ v1 = <<>> /\ v4 = NoneTaken
      /\ v2 = [r \in Replica |-> [value |-> 0, applied |-> 0]]
      /\ v3 = [r \in Replica |-> 0]
    BY DEF CTR!Init, CTR!NewCounter
<1>2. 0 \in Int64s
    BY StorageAssumption DEF Int64s
<1>. DEFINE h == [n \in {0} |-> 0]
<1>3. IsCounterHistory(h)
    BY <1>1, <1>2 DEF IsCounterHistory
<1>. QED
    BY <1>1, <1>3 DEF CounterInv

\* Every step of a replica and of its driver keeps the invariant
\* (counter.go:24-87).
LEMMA CounterKeepsInv == CounterInv /\ [CTR!Next]_<<v1, v2, v3, v4>> => CounterInv'
<1>. SUFFICES ASSUME CounterInv, [CTR!Next]_<<v1, v2, v3, v4>> PROVE CounterInv'
    OBVIOUS
<1>1. PICK h : /\ IsCounterHistory(h)
               /\ \A r \in Replica : v2[r].value = h[v3[r]]
               /\ v4 # NoneTaken => v4.lastIndex \in 0 .. Len(v1) /\ v4.data = h[v4.lastIndex] % (2 * Half)
    BY DEF CounterInv
<1>2. /\ v1 \in Seq(CTR!Requests) /\ Len(v1) \in Nat
      /\ v3 \in [Replica -> Nat] /\ \A r \in Replica : v3[r] <= Len(v1)
      /\ v2 = [r \in Replica |-> [value |-> v2[r].value, applied |-> v2[r].applied]]
    BY LengthOfSeq DEF CounterInv
<1>3. ASSUME NEW c \in CTR!Requests, CTR!Commit(c) PROVE CounterInv'
    <2>0. PICK n \in Nat : n = Len(v1)
        BY <1>2
    <2>. DEFINE g == [k \in 0 .. n + 1 |-> IF k <= n THEN h[k] ELSE CounterAfter(h[n], c)]
    <2>1. v1' = Append(v1, c) /\ UNCHANGED <<v2, v3, v4>>
        BY <1>3 DEF CTR!Commit
    <2>2. /\ v1' \in Seq(CTR!Requests) /\ Len(v1') = n + 1 /\ v1'[n + 1] = c
          /\ \A k \in 1 .. n : v1'[k] = v1[k]
        BY <1>2, <2>0, <2>1, OneMore
    <2>3. n \in Nat /\ (\A k \in 0 .. n : g[k] = h[k]) /\ g[n + 1] = CounterAfter(h[n], c)
        OBVIOUS
    <2>. HIDE DEF g
    <2>4. h[n] \in Int64s /\ CounterAfter(h[n], c) \in Int64s
        <3>1. h[n] \in Int64s
            BY <1>1, <2>0, <2>3 DEF IsCounterHistory
        <3>. DEFINE m == [value |-> h[n], applied |-> 0]
        <3>2. m.value = h[n] /\ m = [value |-> m.value, applied |-> m.applied]
            OBVIOUS
        <3>. HIDE DEF m
        <3>. QED
            BY <3>1, <3>2, CounterApplies
    <2>5. IsCounterHistory(g)'
        <3>1. g[0] = 0
            BY <1>1, <2>3 DEF IsCounterHistory
        <3>2. \A k \in 0 .. n + 1 : g[k] \in Int64s
            <4>. TAKE k \in 0 .. n + 1
            <4>1. CASE k \in 0 .. n
                BY <1>1, <2>0, <2>3, <4>1 DEF IsCounterHistory
            <4>2. CASE k = n + 1
                BY <2>3, <2>4, <4>2
            <4>. QED
                BY <2>3, <4>1, <4>2
        <3>3. \A k \in 1 .. n + 1 : g[k] = CounterAfter(g[k - 1], v1'[k])
            <4>. TAKE k \in 1 .. n + 1
            <4>1. CASE k \in 1 .. n
                <5>1. k \in 0 .. n /\ k - 1 \in 0 .. n
                    BY <2>3, <4>1
                <5>2. h[k] = CounterAfter(h[k - 1], v1[k])
                    BY <1>1, <2>0, <4>1 DEF IsCounterHistory
                <5>. QED
                    BY <2>2, <2>3, <4>1, <5>1, <5>2
            <4>2. CASE k = n + 1
                <5>1. k - 1 = n /\ n \in 0 .. n
                    BY <2>3, <4>2
                <5>. QED
                    BY <2>2, <2>3, <4>2, <5>1
            <4>. QED
                BY <2>3, <4>1, <4>2
        <3>. QED
            BY <2>2, <3>1, <3>2, <3>3 DEF IsCounterHistory
    <2>6. \A r \in Replica : v3[r] \in 0 .. n
        BY <1>2, <2>0
    <2>7. \A r \in Replica : v2'[r].value = g[v3'[r]]
        BY <1>1, <2>1, <2>3, <2>6
    <2>8. v4' # NoneTaken => v4'.lastIndex \in 0 .. n + 1 /\ v4'.data = g[v4'.lastIndex] % (2 * Half)
        BY <1>1, <2>0, <2>1, <2>3
    <2>9. \A r \in Replica : v3'[r] <= n + 1
        BY <2>1, <2>3, <2>6
    <2>. QED
        BY <1>2, <2>1, <2>2, <2>5, <2>7, <2>8, <2>9 DEF CounterInv
<1>4. ASSUME NEW r \in Replica, CTR!ApplyNext(r) PROVE CounterInv'
    <2>. DEFINE i == v3[r] + 1
                a == CTR!Apply(v2[r], i, v1[i])
    <2>1. /\ i <= Len(v1) /\ v2' = [v2 EXCEPT ![r] = a] /\ v3' = [v3 EXCEPT ![r] = i]
          /\ UNCHANGED <<v1, v4>>
        BY <1>4 DEF CTR!ApplyNext
    <2>2. i \in 1 .. Len(v1) /\ i - 1 = v3[r] /\ v3[r] \in 0 .. Len(v1)
        BY <1>2, <2>1
    <2>3. v1[i] \in CTR!Requests
        BY <1>2, <2>2, ElementIn
    <2>4. v2[r].value = h[v3[r]] /\ v2[r].value \in Int64s
        BY <1>1, <2>2 DEF IsCounterHistory
    <2>5. v2[r] = [value |-> v2[r].value, applied |-> v2[r].applied]
        BY <1>2
    <2>6. a = [value |-> CounterAfter(v2[r].value, v1[i]), applied |-> a.applied]
        BY <2>3, <2>4, <2>5, CounterApplies
    <2>7. h[i] = CounterAfter(v2[r].value, v1[i])
        BY <1>1, <2>2, <2>4 DEF IsCounterHistory
    <2>. HIDE DEF a
    <2>8. a = [value |-> a.value, applied |-> a.applied] /\ a.value = h[i]
        BY <1>2, <2>2, <2>6, <2>7
    <2>. HIDE DEF i
    <2>9. /\ v2' = [s \in Replica |-> [value |-> v2'[s].value, applied |-> v2'[s].applied]]
          /\ \A s \in Replica : v2'[s] = IF s = r THEN a ELSE v2[s]
        BY <1>2, <2>1, <2>8
    <2>10. v3' \in [Replica -> Nat] /\ \A s \in Replica : v3'[s] = IF s = r THEN i ELSE v3[s]
        BY <1>2, <2>1, <2>2
    <2>11. \A s \in Replica : v3'[s] <= Len(v1) /\ v2'[s].value = h[v3'[s]]
        BY <1>1, <1>2, <2>1, <2>8, <2>9, <2>10
    <2>12. IsCounterHistory(h)'
        BY <1>1, <2>1 DEF IsCounterHistory
    <2>. QED
        BY <1>1, <1>2, <2>1, <2>9, <2>10, <2>11, <2>12 DEF CounterInv
<1>5. ASSUME NEW r \in Replica, CTR!TakeSnapshot(r) PROVE CounterInv'
    <2>1. /\ v4' = [lastIndex |-> v3[r], data |-> CTR!Snapshot(v2[r])]
          /\ UNCHANGED <<v1, v2, v3>>
        BY <1>5 DEF CTR!TakeSnapshot
    <2>2. v3[r] \in 0 .. Len(v1)
        BY <1>2
    <2>3. v2[r].value \in Int64s /\ v2[r].value = h[v3[r]]
        BY <1>1, <2>2 DEF IsCounterHistory
    <2>4. v4'.lastIndex = v3[r] /\ v4'.data = h[v3[r]] % (2 * Half)
        BY <2>1, <2>3 DEF CTR!Snapshot
    <2>5. IsCounterHistory(h)'
        BY <1>1, <2>1 DEF IsCounterHistory
    <2>. QED
        BY <1>1, <1>2, <2>1, <2>2, <2>4, <2>5 DEF CounterInv
<1>6. ASSUME NEW r \in Replica, CTR!StartOver(r) PROVE CounterInv'
    <2>1. /\ v2' = [v2 EXCEPT ![r] = CTR!Replaced(@)] /\ v3' = [v3 EXCEPT ![r] = 0]
          /\ UNCHANGED <<v1, v4>>
        BY <1>6 DEF CTR!StartOver
    <2>2. CTR!Replaced(v2[r]) = [value |-> 0, applied |-> 0]
        BY DEF CTR!Replaced, CTR!NewCounter
    <2>3. h[0] = 0
        BY <1>1 DEF IsCounterHistory
    <2>4. /\ v2' = [s \in Replica |-> [value |-> v2'[s].value, applied |-> v2'[s].applied]]
          /\ \A s \in Replica : v2'[s] = IF s = r THEN [value |-> 0, applied |-> 0] ELSE v2[s]
        BY <1>2, <2>1, <2>2
    <2>5. v3' \in [Replica -> Nat] /\ \A s \in Replica : v3'[s] = IF s = r THEN 0 ELSE v3[s]
        BY <1>2, <2>1
    <2>6. \A s \in Replica : v3'[s] <= Len(v1) /\ v2'[s].value = h[v3'[s]]
        <3>. TAKE s \in Replica
        <3>1. CASE s = r
            BY <1>2, <2>3, <2>4, <2>5, <3>1
        <3>2. CASE s # r
            BY <1>1, <1>2, <2>4, <2>5, <3>2
        <3>. QED
            BY <3>1, <3>2
    <2>7. IsCounterHistory(h)'
        BY <1>1, <2>1 DEF IsCounterHistory
    <2>. QED
        BY <1>1, <1>2, <2>1, <2>4, <2>5, <2>6, <2>7 DEF CounterInv
<1>7. ASSUME NEW r \in Replica, CTR!Install(r) PROVE CounterInv'
    <2>. DEFINE a == CTR!Restore(v2[r], v4.data)
    <2>1. /\ v4 # NoneTaken /\ v4.lastIndex >= v3[r]
          /\ v2' = [v2 EXCEPT ![r] = a] /\ v3' = [v3 EXCEPT ![r] = v4.lastIndex]
          /\ UNCHANGED <<v1, v4>>
        BY <1>7 DEF CTR!Install
    <2>2. v4.lastIndex \in 0 .. Len(v1) /\ v4.data = h[v4.lastIndex] % (2 * Half)
        BY <1>1, <2>1
    <2>3. a = [value |-> h[v4.lastIndex], applied |-> v2[r].applied]
        <3>1. v2[r] = [value |-> v2[r].value, applied |-> v2[r].applied]
            BY <1>2
        <3>2. h[v4.lastIndex] \in Int64s
            BY <1>1, <2>2 DEF IsCounterHistory
        <3>3. CTR!Int64(v4.data) = h[v4.lastIndex]
            BY <2>2, <3>2, WrapsAround
        <3>. QED
            BY <3>1, <3>3 DEF CTR!Restore
    <2>. HIDE DEF a
    <2>4. /\ v2' = [s \in Replica |-> [value |-> v2'[s].value, applied |-> v2'[s].applied]]
          /\ \A s \in Replica : v2'[s] = IF s = r THEN a ELSE v2[s]
        BY <1>2, <2>1, <2>3
    <2>5. v3' \in [Replica -> Nat] /\ \A s \in Replica : v3'[s] = IF s = r THEN v4.lastIndex ELSE v3[s]
        BY <1>2, <2>1, <2>2
    <2>6. \A s \in Replica : v3'[s] <= Len(v1) /\ v2'[s].value = h[v3'[s]]
        BY <1>1, <1>2, <2>1, <2>2, <2>3, <2>4, <2>5
    <2>7. IsCounterHistory(h)'
        BY <1>1, <2>1 DEF IsCounterHistory
    <2>. QED
        BY <1>1, <1>2, <2>1, <2>4, <2>5, <2>6, <2>7 DEF CounterInv
<1>8. CASE UNCHANGED <<v1, v2, v3, v4>>
    <2>1. IsCounterHistory(h)'
        BY <1>1, <1>8 DEF IsCounterHistory
    <2>. QED
        BY <1>1, <1>2, <1>8, <2>1 DEF CounterInv
<1>. QED
    BY <1>3, <1>4, <1>5, <1>6, <1>7, <1>8 DEF CTR!Next

\* Counters at the same position hold the same value.
LEMMA CounterAgree == CounterInv => CTR!ReplicasAgree
    BY DEF CounterInv, CTR!ReplicasAgree, CTR!Value

-----------------------------------------------------------------------------
\* The codec.  WriteEntries puts every word of a batch at a place of its own, a
\* reader finds them there as far as the stream goes, and what is on the stream is
\* a row of whole batches of which only the last may be cut.

\* A length below the modulus is written as it is.
LEMMA SmallIsKept == \A m \in Nat : \A x \in Nat : x < m => x % m = x
    OBVIOUS

\* What stands where in two sequences written one after the other.
LEMMA Joined ==
    ASSUME NEW S, NEW s \in Seq(S), NEW t \in Seq(S)
    PROVE  /\ s \o t \in Seq(S) /\ Len(s \o t) = Len(s) + Len(t)
           /\ \A i \in 1 .. Len(s) : (s \o t)[i] = s[i]
           /\ \A i \in 1 .. Len(t) : (s \o t)[Len(s) + i] = t[i]
<1>1. /\ s \o t \in Seq(S) /\ Len(s \o t) = Len(s) + Len(t)
      /\ \A i \in 1 .. Len(s) + Len(t) :
            (s \o t)[i] = IF i <= Len(s) THEN s[i] ELSE t[i - Len(s)]
    BY TwoSeqs
<1>2. Len(s) \in Nat /\ Len(t) \in Nat
    BY LengthOfSeq
<1>3. ASSUME NEW i \in 1 .. Len(t) PROVE (s \o t)[Len(s) + i] = t[i]
    <2>1. /\ Len(s) + i \in 1 .. Len(s) + Len(t)
          /\ ~(Len(s) + i <= Len(s)) /\ (Len(s) + i) - Len(s) = i
        BY <1>2
    <2>. QED
        BY <1>1, <2>1
<1>. QED
    BY <1>1, <1>2, <1>3

\* What is left of a stream when n words were read.
LEMMA RestOfSeq ==
    ASSUME NEW s \in Seq(Nat), NEW n \in 0 .. Len(s)
    PROVE  /\ SubSeq(s, n + 1, Len(s)) \in Seq(Nat)
           /\ Len(SubSeq(s, n + 1, Len(s))) = Len(s) - n
           /\ \A i \in 1 .. Len(s) - n : SubSeq(s, n + 1, Len(s))[i] = s[n + i]
    BY LengthOfSeq, SMTT(30)

\* The words after the first three, where the bytes of a command are.
LEMMA MiddleOfSeq ==
    ASSUME NEW s \in Seq(Nat), NEW d \in Nat, 3 + d <= Len(s)
    PROVE  /\ SubSeq(s, 4, 3 + d) \in Seq(Nat) /\ Len(SubSeq(s, 4, 3 + d)) = d
           /\ \A i \in 1 .. d : SubSeq(s, 4, 3 + d)[i] = s[3 + i]
    BY LengthOfSeq, SMTT(30)

\* The first k elements are the first k - 1 and the k-th.
LEMMA OneLonger ==
    ASSUME NEW S, NEW s \in Seq(S), NEW k \in 1 .. Len(s)
    PROVE  Append(SubSeq(s, 1, k - 1), s[k]) = SubSeq(s, 1, k)
    BY LengthOfSeq

WireEntry == [term : Nat, index : Nat, command : Seq(Nat)]

IsBatch(es) ==
    /\ es \in Seq(WireEntry)
    /\ Len(es) < U32
    /\ \A k \in 1 .. Len(es) : Len(es[k].command) < U32

\* The words of a batch: its size, then for each entry term, index, length and
\* bytes of the command; at[k] words are those of the first k entries.
InPlace(at, w, es) ==
    /\ at \in [0 .. Len(es) -> Nat]
    /\ at[0] = 1 /\ at[Len(es)] = Len(w) /\ w[1] = Len(es)
    /\ \A k \in 1 .. Len(es) :
         /\ at[k] = at[k - 1] + 3 + Len(es[k].command)
         /\ at[k] <= Len(w)
         /\ w[at[k - 1] + 1] = es[k].term
         /\ w[at[k - 1] + 2] = es[k].index
         /\ w[at[k - 1] + 3] = Len(es[k].command)
         /\ \A i \in 1 .. Len(es[k].command) : w[at[k - 1] + 3 + i] = es[k].command[i]

\* The loop of WriteEntries runs once for each entry (codec.go:57-68).
LEMMA WritesInTurn ==
    ASSUME NEW es, IsBatch(es)
    PROVE  \E out : /\ Wire!WriteEntries(es) = out[Len(es)]
                    /\ out[0] = <<Len(es) % U32>>
                    /\ \A k \in 1 .. Len(es) : out[k] = out[k - 1] \o Wire!WriteEntry(es[k])
<1>. DEFINE z == <<Len(es) % U32>>
            P(x, k) == x \o Wire!WriteEntry(es[k])
            F(g, k) == IF k = 0 THEN z ELSE P(g[k - 1], k)
            Out(g, n) == g = [k \in 0 .. n |-> F(g, k)]
            E == {n \in Nat : \E g : Out(g, n)}
<1>. HIDE DEF z, P
<1>1. 0 \in E
    <2>. DEFINE g == [k \in 0 .. 0 |-> z]
    <2>1. Out(g, 0)
        OBVIOUS
    <2>. QED
        BY <2>1, Zenon
<1>2. ASSUME NEW n \in Nat, n \in E PROVE n + 1 \in E
    <2>1. PICK g : Out(g, n)
        BY <1>2
    <2>2. \A k \in 0 .. n : g[k] = F(g, k)
        <3>. HIDE DEF F
        <3>. QED
            BY <2>1
    <2>. DEFINE h == [k \in 0 .. n + 1 |->
                        IF k <= n THEN g[k] ELSE P(g[n], n + 1)]
    <2>3. ASSUME NEW k \in 0 .. n + 1 PROVE h[k] = F(h, k)
        <3>1. CASE k = 0
            BY <2>2, <3>1
        <3>2. CASE k \in 1 .. n
            <4>1. g[k] = F(g, k) /\ h[k] = g[k] /\ h[k - 1] = g[k - 1]
                BY <2>2, <3>2
            <4>. QED
                BY <3>2, <4>1
        <3>3. CASE k = n + 1
            <4>1. h[k - 1] = g[n] /\ k # 0
                BY <3>3
            <4>. QED
                BY <3>3, <4>1
        <3>. QED
            BY <3>1, <3>2, <3>3
    <2>4. Out(h, n + 1)
        <3>. DEFINE q == [k \in 0 .. n + 1 |-> F(h, k)]
        <3>1. h = q
            BY <2>3
        <3>. QED
            BY <3>1
    <2>. HIDE DEF Out, h
    <2>. QED
        BY <2>4
<1>3. Len(es) \in Nat
    BY DEF IsBatch
<1>4. Len(es) \in E
    <2>. HIDE DEF E
    <2>. QED
        BY <1>1, <1>2, <1>3, ByCounting
<1>. DEFINE out == CHOOSE g : Out(g, Len(es))
<1>5. Out(out, Len(es))
    BY <1>4
<1>6. Wire!WriteEntries(es) = out[Len(es)]
    BY DEF Wire!WriteEntries, z, P
<1>. HIDE DEF out
<1>7. \A k \in 0 .. Len(es) : out[k] = F(out, k)
    <2>. HIDE DEF F
    <2>. QED
        BY <1>5
<1>8. out[0] = z
    BY <1>3, <1>7
<1>9. \A k \in 1 .. Len(es) : out[k] = P(out[k - 1], k)
    BY <1>3, <1>7
<1>. QED
    BY <1>6, <1>8, <1>9 DEF z, P

\* What is written is the words of the batch, in place (codec.go:14-30, 57-68).
LEMMA WrittenInPlace ==
    ASSUME NEW es, IsBatch(es)
    PROVE  /\ Wire!WriteEntries(es) \in Seq(Nat)
           /\ \E at : InPlace(at, Wire!WriteEntries(es), es)
<1>1. PICK out : /\ Wire!WriteEntries(es) = out[Len(es)]
                 /\ out[0] = <<Len(es) % U32>>
                 /\ \A k \in 1 .. Len(es) : out[k] = out[k - 1] \o Wire!WriteEntry(es[k])
    BY WritesInTurn
<1>. DEFINE n == Len(es)
<1>2. U32 \in Nat /\ n \in Nat /\ n % U32 = n
    <2>1. U32 \in Nat /\ n \in Nat /\ n < U32
        BY StorageAssumption DEF IsBatch
    <2>. QED
        BY <2>1, SmallIsKept
<1>3. ASSUME NEW k \in 1 .. n
      PROVE  /\ es[k].term \in Nat /\ es[k].index \in Nat /\ es[k].command \in Seq(Nat)
             /\ Len(es[k].command) \in Nat
             /\ Wire!WriteEntry(es[k])
                  = <<es[k].term, es[k].index, Len(es[k].command)>> \o es[k].command
    <2>1. es[k] \in WireEntry
        BY ElementIn DEF IsBatch
    <2>2. Len(es[k].command) < U32 /\ Len(es[k].command) \in Nat
        BY <2>1 DEF IsBatch, WireEntry
    <2>3. Len(es[k].command) % U32 = Len(es[k].command)
        BY <1>2, <2>2, SmallIsKept
    <2>. QED
        BY <2>1, <2>2, <2>3 DEF Wire!WriteEntry, WireEntry
<1>. DEFINE Good(k) == out[k] \in Seq(Nat) /\ Len(out[k]) \in Nat
            Adds(k) ==
              /\ Len(out[k]) = Len(out[k - 1]) + 3 + Len(es[k].command)
              /\ out[k][Len(out[k - 1]) + 1] = es[k].term
              /\ out[k][Len(out[k - 1]) + 2] = es[k].index
              /\ out[k][Len(out[k - 1]) + 3] = Len(es[k].command)
              /\ \A i \in 1 .. Len(es[k].command) :
                    out[k][Len(out[k - 1]) + 3 + i] = es[k].command[i]
              /\ \A i \in 1 .. Len(out[k - 1]) : out[k][i] = out[k - 1][i]
            G == {k \in Nat : k <= n => Good(k)}
<1>4. ASSUME NEW k \in 1 .. n, Good(k - 1) PROVE Good(k) /\ Adds(k)
    <2>. DEFINE o == out[k - 1]
                c == es[k].command
                h == <<es[k].term, es[k].index, Len(c)>>
                e == h \o c
    <2>1. out[k] = o \o e /\ o \in Seq(Nat) /\ Len(o) \in Nat
        BY <1>1, <1>3, <1>4
    <2>0. /\ c \in Seq(Nat) /\ Len(c) \in Nat
          /\ es[k].term \in Nat /\ es[k].index \in Nat
        BY <1>3
    <2>. HIDE DEF o, c
    <2>2. /\ c \in Seq(Nat) /\ Len(c) \in Nat
          /\ h \in Seq(Nat) /\ Len(h) = 3
          /\ h[1] = es[k].term /\ h[2] = es[k].index /\ h[3] = Len(c)
        BY <2>0
    <2>. HIDE DEF h
    <2>3. /\ e \in Seq(Nat) /\ Len(e) = 3 + Len(c)
          /\ \A i \in 1 .. 3 : e[i] = h[i]
          /\ \A i \in 1 .. Len(c) : e[3 + i] = c[i]
        <3>1. h \in Seq(Nat) /\ c \in Seq(Nat)
            BY <2>2
        <3>2. /\ h \o c \in Seq(Nat) /\ Len(h \o c) = Len(h) + Len(c)
              /\ \A i \in 1 .. Len(h) : (h \o c)[i] = h[i]
              /\ \A i \in 1 .. Len(c) : (h \o c)[Len(h) + i] = c[i]
            BY <3>1, Joined, SMTT(30)
        <3>3. Len(h) = 3
            BY <2>2
        <3>. QED
            BY <3>2, <3>3, Zenon
    <2>. HIDE DEF e
    <2>4. /\ out[k] \in Seq(Nat) /\ Len(out[k]) = Len(o) + Len(e)
          /\ \A i \in 1 .. Len(o) : out[k][i] = o[i]
          /\ \A i \in 1 .. Len(e) : out[k][Len(o) + i] = e[i]
        <3>1. o \in Seq(Nat) /\ e \in Seq(Nat)
            BY <2>1, <2>3
        <3>2. /\ o \o e \in Seq(Nat) /\ Len(o \o e) = Len(o) + Len(e)
              /\ \A i \in 1 .. Len(o) : (o \o e)[i] = o[i]
              /\ \A i \in 1 .. Len(e) : (o \o e)[Len(o) + i] = e[i]
            BY <3>1, Joined, SMTT(30)
        <3>. QED
            BY <2>1, <3>2, Zenon
    <2>5. /\ out[k][Len(o) + 1] = h[1] /\ out[k][Len(o) + 2] = h[2]
          /\ out[k][Len(o) + 3] = h[3]
        <3>1. \A i \in {1, 2, 3} : i \in 1 .. 3 /\ i \in 1 .. Len(e)
            BY <2>2, <2>3
        <3>2. \A i \in {1, 2, 3} : out[k][Len(o) + i] = h[i]
            BY <2>3, <2>4, <3>1
        <3>. QED
            BY <3>2
    <2>6. ASSUME NEW i \in 1 .. Len(c) PROVE out[k][Len(o) + 3 + i] = c[i]
        <3>1. 3 + i \in 1 .. Len(e) /\ Len(o) + (3 + i) = Len(o) + 3 + i
            BY <2>1, <2>2, <2>3
        <3>. QED
            BY <2>3, <2>4, <3>1
    <2>7. Len(out[k]) = Len(o) + 3 + Len(c) /\ Len(out[k]) \in Nat
        BY <2>1, <2>2, <2>3, <2>4
    <2>. QED
        BY <2>2, <2>4, <2>5, <2>6, <2>7 DEF o, c
<1>5. Good(0)
    BY <1>1, <1>2
<1>6. 0 \in G
    BY <1>5
<1>7. ASSUME NEW k \in Nat, k \in G PROVE k + 1 \in G
    <2>. SUFFICES ASSUME k + 1 <= n PROVE Good(k + 1)
        OBVIOUS
    <2>1. k + 1 \in 1 .. n /\ (k + 1) - 1 = k /\ Good(k)
        BY <1>2, <1>7
    <2>. HIDE DEF Good
    <2>. QED
        BY <1>4, <2>1
<1>8. Nat \subseteq G
    <2>. HIDE DEF G
    <2>. QED
        BY <1>6, <1>7, ByCounting
<1>9. \A k \in 0 .. n : Good(k)
    BY <1>2, <1>8
<1>10. \A k \in 1 .. n : Adds(k)
    <2>. HIDE DEF Good, Adds
    <2>1. \A k \in 1 .. n : k - 1 \in 0 .. n
        BY <1>2
    <2>. QED
        BY <1>4, <1>9, <2>1
\* No word moves when more entries follow.
<1>. DEFINE w == out[n]
            Kept(k) == /\ Len(out[k]) <= Len(w)
                       /\ \A i \in 1 .. Len(out[k]) : w[i] = out[k][i]
            H == {m \in Nat : m <= n => Kept(n - m)}
<1>11. 0 \in H
    <2>1. n - 0 = n /\ Len(w) \in Nat
        BY <1>2, <1>9
    <2>. QED
        BY <2>1
<1>12. ASSUME NEW m \in Nat, m \in H PROVE m + 1 \in H
    <2>. SUFFICES ASSUME m + 1 <= n PROVE Kept(n - (m + 1))
        OBVIOUS
    <2>. DEFINE k == n - m
    <2>1. k \in 1 .. n /\ n - (m + 1) = k - 1 /\ k - 1 \in 0 .. n /\ k \in 0 .. n
        BY <1>2
    <2>2. Kept(k) /\ Adds(k)
        <3>1. m <= n
            BY <1>2
        <3>. HIDE DEF Kept, Adds
        <3>. QED
            BY <1>10, <1>12, <2>1, <3>1
    <2>3. Len(out[k]) \in Nat /\ Len(out[k - 1]) \in Nat
        <3>. HIDE DEF k
        <3>. QED
            BY <1>9, <2>1
    <2>4. Len(out[k]) = Len(out[k - 1]) + 3 + Len(es[k].command) /\ Len(es[k].command) \in Nat
        BY <1>3, <2>1, <2>2
    <2>5. \A i \in 1 .. Len(out[k - 1]) : out[k][i] = out[k - 1][i]
        BY <2>2
    <2>6. Len(w) \in Nat
        <3>1. n \in 0 .. n
            BY <1>2
        <3>. QED
            BY <1>9, <3>1
    <2>7. Kept(k - 1)
        <3>. DEFINE a == Len(out[k - 1])
                    b == Len(out[k])
                    d == Len(es[k].command)
                    l == Len(w)
        <3>1. b <= l /\ \A i \in 1 .. b : w[i] = out[k][i]
            BY <2>2
        <3>. HIDE DEF k, w, a, b, d, l
        <3>2. a \in Nat /\ b \in Nat /\ d \in Nat /\ l \in Nat /\ b = a + 3 + d
            BY <2>3, <2>4, <2>6 DEF a, b, d, l
        <3>3. a <= l /\ \A i \in 1 .. a : i \in 1 .. b
            BY <3>1, <3>2
        <3>4. \A i \in 1 .. a : w[i] = out[k - 1][i]
            BY <2>5, <3>1, <3>3 DEF a
        <3>. QED
            BY <3>3, <3>4 DEF a, l
    <2>. QED
        BY <2>1, <2>7
<1>13. ASSUME NEW k \in 0 .. n PROVE Kept(k)
    <2>1. Nat \subseteq H
        <3>. HIDE DEF H
        <3>. QED
            BY <1>11, <1>12, ByCounting
    <2>2. n - k \in Nat /\ n - k <= n /\ n - (n - k) = k
        BY <1>2
    <2>3. n - k \in H
        BY <2>1, <2>2
    <2>4. Kept(n - (n - k))
        <3>. HIDE DEF Kept
        <3>. QED
            BY <2>2, <2>3
    <2>. HIDE DEF Kept
    <2>. QED
        BY <2>2, <2>4
<1>. DEFINE at == [k \in 0 .. n |-> Len(out[k])]
<1>14. at \in [0 .. n -> Nat] /\ at[0] = 1 /\ at[n] = Len(w) /\ w[1] = n
    <2>1. 0 \in 0 .. n /\ n \in 0 .. n /\ Len(out[0]) = 1 /\ out[0][1] = n
        BY <1>1, <1>2
    <2>2. w[1] = out[0][1]
        BY <1>13, <2>1
    <2>. QED
        BY <1>9, <2>1, <2>2
<1>15. ASSUME NEW k \in 1 .. n
       PROVE  /\ at[k] = at[k - 1] + 3 + Len(es[k].command)
              /\ at[k] <= Len(w)
              /\ w[at[k - 1] + 1] = es[k].term
              /\ w[at[k - 1] + 2] = es[k].index
              /\ w[at[k - 1] + 3] = Len(es[k].command)
              /\ \A i \in 1 .. Len(es[k].command) : w[at[k - 1] + 3 + i] = es[k].command[i]
    <2>1. k \in 0 .. n /\ k - 1 \in 0 .. n
        BY <1>2
    <2>2. Adds(k) /\ Kept(k)
        BY <1>10, <1>13, <2>1
    <2>3. at[k] = Len(out[k]) /\ at[k - 1] = Len(out[k - 1])
        BY <2>1
    <2>4. Len(out[k]) \in Nat /\ Len(out[k - 1]) \in Nat /\ Len(es[k].command) \in Nat
        BY <1>3, <1>9, <2>1
    <2>. HIDE DEF at, w, n
    <2>8. Len(out[k]) = Len(out[k - 1]) + 3 + Len(es[k].command)
        BY <2>2
    <2>5. /\ Len(out[k - 1]) + 1 \in 1 .. Len(out[k])
          /\ Len(out[k - 1]) + 2 \in 1 .. Len(out[k])
          /\ Len(out[k - 1]) + 3 \in 1 .. Len(out[k])
          /\ \A i \in 1 .. Len(es[k].command) : Len(out[k - 1]) + 3 + i \in 1 .. Len(out[k])
        <3>. DEFINE a == Len(out[k - 1])
                    b == Len(out[k])
                    d == Len(es[k].command)
        <3>. HIDE DEF a, b, d
        <3>1. a \in Nat /\ b \in Nat /\ d \in Nat /\ b = a + 3 + d
            BY <2>4, <2>8 DEF a, b, d
        <3>2. /\ a + 1 \in 1 .. b /\ a + 2 \in 1 .. b /\ a + 3 \in 1 .. b
              /\ \A i \in 1 .. d : a + 3 + i \in 1 .. b
            BY <3>1
        <3>. QED
            BY <3>2 DEF a, b, d
    <2>6. \A i \in 1 .. Len(out[k]) : w[i] = out[k][i]
        BY <2>2
    <2>7. /\ at[k] = at[k - 1] + 3 + Len(es[k].command) /\ at[k] <= Len(w)
        BY <2>2, <2>3, <2>8
    <2>9. /\ w[at[k - 1] + 1] = es[k].term
          /\ w[at[k - 1] + 2] = es[k].index
          /\ w[at[k - 1] + 3] = Len(es[k].command)
        <3>1. /\ out[k][Len(out[k - 1]) + 1] = es[k].term
              /\ out[k][Len(out[k - 1]) + 2] = es[k].index
              /\ out[k][Len(out[k - 1]) + 3] = Len(es[k].command)
            BY <2>2
        <3>2. /\ w[Len(out[k - 1]) + 1] = out[k][Len(out[k - 1]) + 1]
              /\ w[Len(out[k - 1]) + 2] = out[k][Len(out[k - 1]) + 2]
              /\ w[Len(out[k - 1]) + 3] = out[k][Len(out[k - 1]) + 3]
            BY <2>5, <2>6
        <3>. QED
            BY <2>3, <3>1, <3>2
    <2>10. \A i \in 1 .. Len(es[k].command) : w[at[k - 1] + 3 + i] = es[k].command[i]
        BY <2>2, <2>3, <2>5, <2>6
    <2>. QED
        BY <2>7, <2>9, <2>10
<1>16. InPlace(at, w, es)
    <2>. HIDE DEF at, w
    <2>. QED
        BY <1>14, <1>15 DEF InPlace
<1>17. w \in Seq(Nat)
    BY <1>2, <1>9
<1>. QED
    BY <1>1, <1>16, <1>17

\* The loop of ReadEntries runs as often as the first word says, once it has found
\* that word and found it within the limit (codec.go:70-91).
LEMMA ReadsInTurn ==
    ASSUME NEW s \in Seq(Nat), s # <<>>, s[1] <= MaxBatch
    PROVE  \E got : /\ Wire!ReadEntries(s) = got[s[1]]
                    /\ got[0] = Wire!Got(<<>>, Tail(s))
                    /\ \A k \in 1 .. s[1] : got[k] = Wire!ReadAnother(got[k - 1])
<1>. DEFINE z == Wire!Got(<<>>, Tail(s))
            P(x) == Wire!ReadAnother(x)
            F(g, k) == IF k = 0 THEN z ELSE P(g[k - 1])
            Out(g, n) == g = [k \in 0 .. n |-> F(g, k)]
            E == {n \in Nat : \E g : Out(g, n)}
<1>. HIDE DEF z, P
<1>1. 0 \in E
    <2>. DEFINE g == [k \in 0 .. 0 |-> z]
    <2>1. Out(g, 0)
        OBVIOUS
    <2>. QED
        BY <2>1, Zenon
<1>2. ASSUME NEW n \in Nat, n \in E PROVE n + 1 \in E
    <2>1. PICK g : Out(g, n)
        BY <1>2
    <2>2. \A k \in 0 .. n : g[k] = F(g, k)
        <3>. HIDE DEF F
        <3>. QED
            BY <2>1
    <2>. DEFINE h == [k \in 0 .. n + 1 |-> IF k <= n THEN g[k] ELSE P(g[n])]
    <2>3. ASSUME NEW k \in 0 .. n + 1 PROVE h[k] = F(h, k)
        <3>1. CASE k = 0
            BY <2>2, <3>1
        <3>2. CASE k \in 1 .. n
            <4>1. g[k] = F(g, k) /\ h[k] = g[k] /\ h[k - 1] = g[k - 1]
                BY <2>2, <3>2
            <4>. QED
                BY <3>2, <4>1
        <3>3. CASE k = n + 1
            <4>1. h[k - 1] = g[n] /\ k # 0
                BY <3>3
            <4>. QED
                BY <3>3, <4>1
        <3>. QED
            BY <3>1, <3>2, <3>3
    <2>4. Out(h, n + 1)
        <3>. DEFINE q == [k \in 0 .. n + 1 |-> F(h, k)]
        <3>1. h = q
            BY <2>3
        <3>. QED
            BY <3>1
    <2>. HIDE DEF Out, h
    <2>. QED
        BY <2>4
<1>3. s[1] \in Nat
    <2>1. 1 \in 1 .. Len(s)
        BY NoElements, LengthOfSeq
    <2>. QED
        BY <2>1, ElementIn
<1>4. s[1] \in E
    <2>. HIDE DEF E
    <2>. QED
        BY <1>1, <1>2, <1>3, ByCounting
<1>. DEFINE got == CHOOSE g : Out(g, s[1])
<1>5. Out(got, s[1])
    BY <1>4
<1>6. Wire!ReadEntries(s) = got[s[1]]
    <2>1. ~(s = <<>> \/ s[1] > MaxBatch)
        BY <1>3, StorageAssumption
    <2>. QED
        BY <2>1 DEF Wire!ReadEntries, z, P
<1>. HIDE DEF got
<1>7. \A k \in 0 .. s[1] : got[k] = F(got, k)
    <2>. HIDE DEF F
    <2>. QED
        BY <1>5
<1>8. got[0] = z
    BY <1>3, <1>7
<1>9. \A k \in 1 .. s[1] : got[k] = P(got[k - 1])
    BY <1>3, <1>7
<1>. QED
    BY <1>6, <1>8, <1>9 DEF z, P

\* The limits of ReadEntry, on the first k entries of a batch.
Accepted(es, k) == \A j \in 1 .. k : Len(es[j].command) <= MaxCommand

\* What a reader of s has when it has read k entries of a batch es whose words s
\* begins with, at[k] of them.
Reads(s, es, at, k) ==
    IF at[k] <= Len(s) /\ Accepted(es, k)
    THEN Wire!Got(SubSeq(es, 1, k), SubSeq(s, at[k] + 1, Len(s)))
    ELSE Wire!Failed

\* One more entry is read as it was written, or refused (codec.go:32-55).
LEMMA ReadsAnother ==
    ASSUME NEW s \in Seq(Nat), NEW es, IsBatch(es), NEW w \in Seq(Nat), NEW at,
           InPlace(at, w, es), \A i \in 1 .. Len(s) : i <= Len(w) => s[i] = w[i],
           NEW k \in 1 .. Len(es)
    PROVE  Wire!ReadAnother(Reads(s, es, at, k - 1)) = Reads(s, es, at, k)
<1>. DEFINE a == at[k - 1]
            c == es[k].command
            d == Len(c)
            r == SubSeq(s, a + 1, Len(s))
<1>1. /\ Len(es) \in Nat /\ k \in Nat /\ k - 1 \in 0 .. Len(es) /\ k \in 0 .. Len(es)
      /\ Len(s) \in Nat /\ MaxCommand \in Nat
    BY StorageAssumption DEF IsBatch
<1>2. es \in Seq(WireEntry) /\ es[k] \in WireEntry
    BY ElementIn DEF IsBatch
<1>3. c \in Seq(Nat) /\ d \in Nat /\ es[k] = [term |-> es[k].term, index |-> es[k].index, command |-> c]
    BY <1>2 DEF WireEntry
<1>4. a \in Nat /\ at[k] = a + 3 + d /\ at[k] <= Len(w)
    BY <1>1 DEF InPlace
<1>5. /\ w[a + 1] = es[k].term /\ w[a + 2] = es[k].index /\ w[a + 3] = d
      /\ \A i \in 1 .. d : w[a + 3 + i] = c[i]
    BY DEF InPlace
<1>6. Accepted(es, k) <=> Accepted(es, k - 1) /\ d <= MaxCommand
    BY <1>1 DEF Accepted
<1>. HIDE DEF a, c, d
<1>7. CASE ~(a <= Len(s) /\ Accepted(es, k - 1))
    <2>1. Reads(s, es, at, k - 1) = Wire!Failed
        BY <1>7 DEF Reads, a
    <2>2. ~(at[k] <= Len(s) /\ Accepted(es, k))
        BY <1>1, <1>3, <1>4, <1>6, <1>7
    <2>3. Reads(s, es, at, k) = Wire!Failed
        BY <2>2 DEF Reads
    <2>. QED
        BY <2>1, <2>3 DEF Wire!ReadAnother, Wire!Failed
<1>8. CASE a <= Len(s) /\ Accepted(es, k - 1)
    <2>1. Reads(s, es, at, k - 1) = Wire!Got(SubSeq(es, 1, k - 1), r)
        BY <1>8 DEF Reads, a
    <2>2. /\ r \in Seq(Nat) /\ Len(r) = Len(s) - a
          /\ \A i \in 1 .. Len(r) : r[i] = s[a + i]
        <3>1. a \in 0 .. Len(s)
            BY <1>1, <1>4, <1>8
        <3>. QED
            BY <3>1, RestOfSeq
    <2>. HIDE DEF r
    <2>2a. d \in Nat /\ Len(r) \in Nat /\ Len(r) = Len(s) - a
        BY <1>3, <2>2, LengthOfSeq
    <2>2b. a \in Nat /\ Len(s) \in Nat /\ MaxCommand \in Nat /\ at[k] = a + 3 + d
        BY <1>1, <1>4
    <2>3. /\ Len(r) >= 1 => r[1] = es[k].term
          /\ Len(r) >= 2 => r[2] = es[k].index
          /\ Len(r) >= 3 => r[3] = d
          /\ \A i \in 1 .. d : 3 + i <= Len(r) => r[3 + i] = c[i]
        <3>1. \A j \in 1 .. 3 + d : j <= Len(r) => r[j] = w[a + j]
            <4>. TAKE j \in 1 .. 3 + d
            <4>. SUFFICES ASSUME j <= Len(r) PROVE r[j] = w[a + j]
                OBVIOUS
            <4>1. j \in 1 .. Len(r) /\ a + j \in 1 .. Len(s) /\ a + j <= Len(w)
                BY <1>1, <1>3, <1>4, <2>2
            <4>. QED
                BY <2>2, <4>1
        <3>2. ASSUME NEW i \in 1 .. d, 3 + i <= Len(r) PROVE r[3 + i] = c[i]
            <4>1. 3 + i \in 1 .. 3 + d /\ a + (3 + i) = a + 3 + i
                BY <1>3, <1>4
            <4>. QED
                BY <1>5, <3>1, <3>2, <4>1
        <3>3. 1 \in 1 .. 3 + d /\ 2 \in 1 .. 3 + d /\ 3 \in 1 .. 3 + d
            BY <1>3
        <3>. QED
            BY <1>5, <3>1, <3>2, <3>3
    <2>4. CASE ~(at[k] <= Len(s) /\ d <= MaxCommand)
        <3>1. Len(r) < 3 \/ r[3] > MaxCommand \/ Len(r) < 3 + r[3]
            <4>1. Len(r) \in Nat /\ (Len(r) >= 3 => r[3] = d)
                BY <2>2a, <2>3, Zenon
            <4>2. d > MaxCommand \/ Len(r) < 3 + d
                <5>1. ~(a + 3 + d <= Len(s)) \/ ~(d <= MaxCommand)
                    BY <2>2b, <2>4, Zenon
                <5>. QED
                    BY <2>2a, <2>2b, <5>1
            <4>3. CASE Len(r) >= 3
                <5>1. r[3] = d
                    BY <4>1, <4>3, Zenon
                <5>2. r[3] > MaxCommand \/ Len(r) < 3 + r[3]
                    BY <4>2, <5>1, Zenon
                <5>. QED
                    BY <5>2, Zenon
            <4>. QED
                BY <2>2a, <4>3
        <3>2. Wire!ReadEntry(r) = Wire!Failed
            BY <3>1 DEF Wire!ReadEntry
        <3>3. Wire!ReadAnother(Wire!Got(SubSeq(es, 1, k - 1), r)) = Wire!Failed
            BY <3>2 DEF Wire!ReadAnother, Wire!Got, Wire!Failed
        <3>4. Reads(s, es, at, k) = Wire!Failed
            BY <1>6, <2>4 DEF Reads
        <3>. QED
            BY <2>1, <3>3, <3>4
    <2>5. CASE at[k] <= Len(s) /\ d <= MaxCommand
        <3>1. Len(r) >= 3 + d /\ r[3] = d /\ r[1] = es[k].term /\ r[2] = es[k].index
            <4>1. a + 3 + d <= Len(s)
                BY <2>2b, <2>5, Zenon
            <4>2. Len(r) >= 3 + d /\ Len(r) >= 1 /\ Len(r) >= 2 /\ Len(r) >= 3
                BY <2>2a, <2>2b, <4>1
            <4>. QED
                BY <2>3, <4>2
        <3>2. ~(Len(r) < 3 \/ r[3] > MaxCommand \/ Len(r) < 3 + r[3])
            BY <1>1, <2>2a, <2>5, <3>1
        <3>3. SubSeq(r, 4, 3 + d) = c
            <4>1. /\ SubSeq(r, 4, 3 + d) \in Seq(Nat) /\ Len(SubSeq(r, 4, 3 + d)) = d
                  /\ \A i \in 1 .. d : SubSeq(r, 4, 3 + d)[i] = r[3 + i]
                BY <1>3, <2>2, <3>1, MiddleOfSeq
            <4>2. \A i \in 1 .. d : r[3 + i] = c[i]
                BY <1>1, <1>3, <1>4, <2>2, <2>3, <3>1
            <4>. QED
                BY <1>3, <4>1, <4>2, SameElements DEF d
        <3>4. SubSeq(r, 4 + d, Len(r)) = SubSeq(s, at[k] + 1, Len(s))
            <4>1. /\ SubSeq(r, 4 + d, Len(r)) \in Seq(Nat)
                  /\ Len(SubSeq(r, 4 + d, Len(r))) = Len(r) - (3 + d)
                  /\ \A i \in 1 .. Len(r) - (3 + d) : SubSeq(r, 4 + d, Len(r))[i] = r[3 + d + i]
                <5>1. 3 + d \in 0 .. Len(r) /\ (3 + d) + 1 = 4 + d
                    <6>1. Len(r) \in Nat
                        BY <2>2, LengthOfSeq
                    <6>. QED
                        BY <1>3, <3>1, <6>1
                <5>2. /\ SubSeq(r, (3 + d) + 1, Len(r)) \in Seq(Nat)
                      /\ Len(SubSeq(r, (3 + d) + 1, Len(r))) = Len(r) - (3 + d)
                      /\ \A i \in 1 .. Len(r) - (3 + d) :
                            SubSeq(r, (3 + d) + 1, Len(r))[i] = r[(3 + d) + i]
                    BY <2>2, <5>1, RestOfSeq
                <5>. QED
                    BY <5>1, <5>2, Zenon
            <4>2. /\ SubSeq(s, at[k] + 1, Len(s)) \in Seq(Nat)
                  /\ Len(SubSeq(s, at[k] + 1, Len(s))) = Len(s) - at[k]
                  /\ \A i \in 1 .. Len(s) - at[k] : SubSeq(s, at[k] + 1, Len(s))[i] = s[at[k] + i]
                <5>1. at[k] \in 0 .. Len(s)
                    BY <1>1, <1>3, <1>4, <2>5
                <5>. QED
                    BY <5>1, RestOfSeq
            <4>3. Len(r) - (3 + d) = Len(s) - at[k]
                BY <2>2a, <2>2b
            <4>4. ASSUME NEW i \in 1 .. Len(s) - at[k] PROVE r[3 + d + i] = s[at[k] + i]
                <5>1. 3 + d + i \in 1 .. Len(r) /\ a + (3 + d + i) = at[k] + i
                    <6>1. i \in Nat /\ 1 <= i /\ i <= Len(r) - (3 + d)
                        BY <2>2a, <2>2b, <4>3
                    <6>. QED
                        BY <2>2a, <2>2b, <6>1
                <5>. QED
                    BY <2>2, <5>1
            <4>. DEFINE x == SubSeq(r, 4 + d, Len(r))
                        y == SubSeq(s, at[k] + 1, Len(s))
            <4>5. /\ x \in Seq(Nat) /\ y \in Seq(Nat) /\ Len(x) = Len(y)
                  /\ \A i \in 1 .. Len(x) : x[i] = y[i]
                BY <4>1, <4>2, <4>3, <4>4, Zenon
            <4>. HIDE DEF x, y
            <4>6. x = y
                BY <4>5, SameElements
            <4>. QED
                BY <4>6 DEF x, y
        <3>5. Append(SubSeq(es, 1, k - 1), es[k]) = SubSeq(es, 1, k)
            BY <1>1, <1>2, OneLonger
        <3>6. Wire!ReadEntry(r) = Wire!Got(es[k], SubSeq(s, at[k] + 1, Len(s)))
            BY <1>3, <3>1, <3>2, <3>3, <3>4 DEF Wire!ReadEntry
        <3>7. Wire!ReadAnother(Wire!Got(SubSeq(es, 1, k - 1), r))
                = Wire!Got(SubSeq(es, 1, k), SubSeq(s, at[k] + 1, Len(s)))
            <4>. DEFINE x == Wire!Got(SubSeq(es, 1, k - 1), r)
            <4>1. x.ok /\ x.value = SubSeq(es, 1, k - 1) /\ x.rest = r
                BY DEF Wire!Got
            <4>. HIDE DEF x
            <4>2. /\ Wire!ReadEntry(r).ok /\ Wire!ReadEntry(r).value = es[k]
                  /\ Wire!ReadEntry(r).rest = SubSeq(s, at[k] + 1, Len(s))
                <5>. DEFINE e == es[k]
                            q == SubSeq(s, at[k] + 1, Len(s))
                <5>1. Wire!ReadEntry(r) = Wire!Got(e, q)
                    BY <3>6
                <5>. HIDE DEF e, q
                <5>2. Wire!Got(e, q).ok /\ Wire!Got(e, q).value = e /\ Wire!Got(e, q).rest = q
                    BY DEF Wire!Got
                <5>. QED
                    BY <5>1, <5>2, Zenon DEF e, q
            <4>3. Wire!ReadAnother(x) = Wire!Got(SubSeq(es, 1, k), SubSeq(s, at[k] + 1, Len(s)))
                BY <3>5, <4>1, <4>2, Zenon DEF Wire!ReadAnother
            <4>. QED
                BY <4>3 DEF x
        <3>8. Reads(s, es, at, k) = Wire!Got(SubSeq(es, 1, k), SubSeq(s, at[k] + 1, Len(s)))
            BY <1>6, <1>8, <2>5 DEF Reads
        <3>. QED
            BY <2>1, <3>7, <3>8
    <2>. QED
        BY <2>4, <2>5
<1>. QED
    BY <1>7, <1>8

\* A reader of a stream that begins with the words of a batch, as far as it goes,
\* gets the batch and the rest when they are all there and the batch is within the
\* limits, and an error otherwise (codec.go:70-91).
LEMMA ReadsABatch ==
    ASSUME NEW s \in Seq(Nat), s # <<>>, NEW es, IsBatch(es),
           \A i \in 1 .. Len(s) : i <= Len(Wire!WriteEntries(es)) => s[i] = Wire!WriteEntries(es)[i]
    PROVE  Wire!ReadEntries(s) =
              IF Wire!Readable(es) /\ Len(Wire!WriteEntries(es)) <= Len(s)
              THEN Wire!Got(es, SubSeq(s, Len(Wire!WriteEntries(es)) + 1, Len(s)))
              ELSE Wire!Failed
<1>. DEFINE w == Wire!WriteEntries(es)
            n == Len(es)
<1>1. w \in Seq(Nat)
    BY WrittenInPlace
<1>2. PICK at : InPlace(at, w, es)
    BY WrittenInPlace
<1>. HIDE DEF w
<1>3. \A i \in 1 .. Len(s) : i <= Len(w) => s[i] = w[i]
    BY DEF w
<1>4. n \in Nat /\ n <= n /\ n \in 0 .. n /\ 0 \in 0 .. n /\ MaxBatch \in Nat /\ Len(s) \in Nat
    BY StorageAssumption DEF IsBatch
<1>5. s[1] = n
    <2>1. 1 \in 1 .. Len(s)
        BY NoElements, LengthOfSeq
    <2>2. at[0] \in Nat /\ at[n] \in Nat /\ at[0] = 1 /\ at[n] = Len(w) /\ w[1] = n
        BY <1>2, <1>4 DEF InPlace
    <2>3. 1 <= Len(w)
        <3>1. CASE n = 0
            BY <2>2, <3>1
        <3>2. CASE n # 0
            <4>1. n \in 1 .. n /\ n - 1 \in 0 .. n
                BY <1>4, <3>2
            <4>2. es[n] \in WireEntry
                BY <4>1, ElementIn DEF IsBatch
            <4>3. at[n] = at[n - 1] + 3 + Len(es[n].command) /\ at[n - 1] \in Nat
                BY <1>2, <4>1 DEF InPlace
            <4>4. Len(es[n].command) \in Nat
                BY <4>2 DEF WireEntry
            <4>. HIDE DEF n
            <4>. QED
                BY <2>2, <4>3, <4>4
        <3>. QED
            BY <3>1, <3>2
    <2>. QED
        BY <1>3, <2>1, <2>2, <2>3
<1>6. Wire!Readable(es) <=> n <= MaxBatch /\ Accepted(es, n)
    BY DEF Wire!Readable, Accepted
<1>7. CASE ~(n <= MaxBatch)
    <2>1. n > MaxBatch
        BY <1>4, <1>7
    <2>2. Wire!ReadEntries(s) = Wire!Failed
        BY <1>5, <2>1 DEF Wire!ReadEntries
    <2>. QED
        BY <1>6, <1>7, <2>2
<1>8. CASE n <= MaxBatch
    <2>1. PICK got : /\ Wire!ReadEntries(s) = got[n]
                     /\ got[0] = Wire!Got(<<>>, Tail(s))
                     /\ \A k \in 1 .. n : got[k] = Wire!ReadAnother(got[k - 1])
        <3>1. s[1] <= MaxBatch
            BY <1>5, <1>8
        <3>2. \E got : /\ Wire!ReadEntries(s) = got[s[1]]
                       /\ got[0] = Wire!Got(<<>>, Tail(s))
                       /\ \A k \in 1 .. s[1] : got[k] = Wire!ReadAnother(got[k - 1])
            BY <3>1, ReadsInTurn
        <3>. HIDE DEF n
        <3>. QED
            BY <1>5, <3>2
    <2>. DEFINE Right(k) == got[k] = Reads(s, es, at, k)
                G == {k \in Nat : k <= n => Right(k)}
    <2>2. 0 \in G
        <3>1. at[0] = 1 /\ 1 <= Len(s) /\ SubSeq(es, 1, 0) = <<>>
            BY <1>2, <1>4, NoElements, LengthOfSeq DEF InPlace, IsBatch
        <3>2. SubSeq(s, 2, Len(s)) = Tail(s)
            BY LengthOfSeq
        <3>3. Accepted(es, 0)
            BY DEF Accepted
        <3>4. at[0] + 1 = 2 /\ at[0] <= Len(s)
            BY <3>1
        <3>5. Reads(s, es, at, 0) = Wire!Got(SubSeq(es, 1, 0), SubSeq(s, at[0] + 1, Len(s)))
            BY <3>3, <3>4, Zenon DEF Reads
        <3>6. Reads(s, es, at, 0) = Wire!Got(<<>>, Tail(s))
            BY <3>1, <3>2, <3>4, <3>5, Zenon
        <3>. QED
            BY <2>1, <3>6
    <2>3. ASSUME NEW k \in Nat, k \in G PROVE k + 1 \in G
        <3>. SUFFICES ASSUME k + 1 <= n PROVE Right(k + 1)
            OBVIOUS
        <3>1. k + 1 \in 1 .. n /\ (k + 1) - 1 = k /\ k <= n
            BY <1>4
        <3>2. got[k] = Reads(s, es, at, k) /\ got[k + 1] = Wire!ReadAnother(got[k])
            BY <2>1, <2>3, <3>1
        <3>3. Wire!ReadAnother(Reads(s, es, at, (k + 1) - 1)) = Reads(s, es, at, k + 1)
            BY <1>1, <1>2, <1>3, <3>1, ReadsAnother
        <3>. QED
            BY <3>1, <3>2, <3>3
    <2>4. Right(n)
        <3>. HIDE DEF G
        <3>1. n \in G
            BY <1>4, <2>2, <2>3, ByCounting
        <3>. QED
            BY <1>4, <3>1 DEF G
    <2>5. at[n] = Len(w) /\ SubSeq(es, 1, n) = es
        BY <1>2 DEF InPlace, IsBatch
    <2>. QED
        BY <1>6, <1>8, <2>1, <2>4, <2>5 DEF Reads, w
<1>. QED
    BY <1>7, <1>8

\* The stream s holds the batches of ws from number r + 1 on: at[k] words of it are
\* those of the batches up to number k, and only the last may be cut.
Layout(at, s, isCut, ws, r) ==
    /\ at \in [r .. Len(ws) -> Nat]
    /\ at[r] = 0 /\ at[Len(ws)] = Len(s)
    /\ \A k \in r + 1 .. Len(ws) :
         /\ at[k - 1] <= at[k] /\ at[k] <= Len(s)
         /\ IF isCut /\ k = Len(ws)
            THEN at[k] - at[k - 1] < Len(Wire!WriteEntries(ws[k]))
            ELSE at[k] - at[k - 1] = Len(Wire!WriteEntries(ws[k]))
         /\ \A i \in 1 .. at[k] - at[k - 1] : s[at[k - 1] + i] = Wire!WriteEntries(ws[k])[i]

\* Batches are batches.
LEMMA BatchesAreBatches == \A es \in Batches : IsBatch(es)
    BY StorageAssumption DEF IsBatch, WireEntry

\* A write puts another batch, or a part of it, after the others.
LEMMA LayoutGrows ==
    ASSUME NEW s \in Seq(Nat), NEW ws \in Seq(Batches), NEW r \in 0 .. Len(ws), NEW at,
           Layout(at, s, FALSE, ws, r), NEW es \in Batches, NEW p \in Seq(Nat),
           NEW isCut \in BOOLEAN,
           IF isCut THEN Len(p) < Len(Wire!WriteEntries(es))
                    ELSE Len(p) = Len(Wire!WriteEntries(es)),
           \A i \in 1 .. Len(p) : p[i] = Wire!WriteEntries(es)[i]
    PROVE  \E b : Layout(b, s \o p, isCut, Append(ws, es), r)
<1>. DEFINE n == Len(ws)
            x == s \o p
            v == Append(ws, es)
            b == [k \in r .. n + 1 |-> IF k <= n THEN at[k] ELSE Len(x)]
<1>1. /\ x \in Seq(Nat) /\ Len(x) = Len(s) + Len(p)
      /\ \A i \in 1 .. Len(s) : x[i] = s[i]
      /\ \A i \in 1 .. Len(p) : x[Len(s) + i] = p[i]
    BY Joined, SMTT(30)
<1>2. n \in Nat /\ r \in Nat /\ r <= n /\ Len(s) \in Nat /\ Len(p) \in Nat
    BY LengthOfSeq
<1>3. Len(v) = n + 1 /\ v[n + 1] = es /\ \A k \in 1 .. n : v[k] = ws[k]
    BY <1>2, OneMore
<1>. HIDE DEF x, v
<1>4. /\ at \in [r .. n -> Nat] /\ at[r] = 0 /\ at[n] = Len(s)
      /\ \A k \in r + 1 .. n :
           /\ at[k - 1] <= at[k] /\ at[k] <= Len(s)
           /\ at[k] - at[k - 1] = Len(Wire!WriteEntries(ws[k]))
           /\ \A i \in 1 .. at[k] - at[k - 1] : s[at[k - 1] + i] = Wire!WriteEntries(ws[k])[i]
    BY DEF Layout
<1>. HIDE DEF n
<1>5. /\ b \in [r .. n + 1 -> Nat] /\ b[r] = 0 /\ b[n + 1] = Len(s) + Len(p)
      /\ \A k \in r .. n : b[k] = at[k]
    <2>1. r \in r .. n + 1 /\ n + 1 \in r .. n + 1 /\ ~(n + 1 <= n)
        BY <1>2
    <2>2. \A k \in r .. n : k \in r .. n + 1 /\ k <= n
        BY <1>2
    <2>3. \A k \in r .. n + 1 : k <= n => k \in r .. n
        BY <1>2
    <2>4. \A k \in r .. n : at[k] \in Nat
        BY <1>4
    <2>5. Len(x) \in Nat
        BY <1>1, <1>2
    <2>. QED
        BY <1>1, <1>2, <1>4, <2>1, <2>2, <2>3, <2>4, <2>5
<1>. HIDE DEF b
<1>6. ASSUME NEW k \in r + 1 .. n + 1
      PROVE  /\ b[k - 1] <= b[k] /\ b[k] <= Len(x)
             /\ IF isCut /\ k = n + 1
                THEN b[k] - b[k - 1] < Len(Wire!WriteEntries(v[k]))
                ELSE b[k] - b[k - 1] = Len(Wire!WriteEntries(v[k]))
             /\ \A i \in 1 .. b[k] - b[k - 1] : x[b[k - 1] + i] = Wire!WriteEntries(v[k])[i]
    <2>1. CASE k = n + 1
        <3>1. b[k] = Len(s) + Len(p) /\ b[k - 1] = Len(s) /\ b[k] - b[k - 1] = Len(p)
            <4>1. k - 1 = n /\ n \in r .. n
                BY <1>2, <2>1
            <4>2. b[k - 1] = Len(s)
                BY <1>4, <1>5, <4>1
            <4>. QED
                BY <1>2, <1>5, <2>1, <4>2
        <3>2. v[k] = es
            BY <1>3, <2>1
        <3>3. b[k - 1] <= b[k] /\ b[k] <= Len(x)
            BY <1>1, <1>2, <3>1
        <3>4. \A i \in 1 .. Len(p) : x[Len(s) + i] = Wire!WriteEntries(es)[i]
            BY <1>1
        <3>5. IF isCut THEN b[k] - b[k - 1] < Len(Wire!WriteEntries(es))
                       ELSE b[k] - b[k - 1] = Len(Wire!WriteEntries(es))
            BY <3>1
        <3>. QED
            BY <2>1, <3>1, <3>2, <3>3, <3>4, <3>5, Zenon
    <2>2. CASE k \in r + 1 .. n
        <3>1. k \in 1 .. n /\ k \in r .. n /\ k - 1 \in r .. n /\ k # n + 1
            BY <1>2, <2>2
        <3>2. v[k] = ws[k] /\ b[k] = at[k] /\ b[k - 1] = at[k - 1]
            BY <1>3, <1>5, <3>1
        <3>3. at[k] \in Nat /\ at[k - 1] \in Nat
            BY <1>4, <3>1
        <3>4. at[k - 1] <= at[k] /\ at[k] <= Len(s)
            BY <1>4, <2>2
        <3>5. \A i \in 1 .. at[k] - at[k - 1] : at[k - 1] + i \in 1 .. Len(s)
            <4>. DEFINE c == at[k - 1]
                        d == at[k]
            <4>. HIDE DEF c, d
            <4>1. c \in Nat /\ d \in Nat /\ c <= d /\ d <= Len(s)
                BY <3>3, <3>4 DEF c, d
            <4>2. \A i \in 1 .. d - c : c + i \in 1 .. Len(s)
                BY <1>2, <4>1
            <4>. QED
                BY <4>2 DEF c, d
        <3>6. \A i \in 1 .. at[k] - at[k - 1] : x[at[k - 1] + i] = Wire!WriteEntries(v[k])[i]
            <4>1. \A i \in 1 .. at[k] - at[k - 1] :
                    s[at[k - 1] + i] = Wire!WriteEntries(ws[k])[i]
                BY <1>4, <2>2
            <4>2. \A i \in 1 .. at[k] - at[k - 1] : x[at[k - 1] + i] = s[at[k - 1] + i]
                BY <1>1, <3>5
            <4>. QED
                BY <3>2, <4>1, <4>2
        <3>7. at[k] <= Len(x)
            <4>. DEFINE d == at[k]
            <4>1. d \in Nat /\ d <= Len(s)
                BY <3>3, <3>4, Zenon
            <4>2. Len(x) = Len(s) + Len(p) /\ Len(s) \in Nat /\ Len(p) \in Nat
                BY <1>1, <1>2
            <4>. HIDE DEF d
            <4>3. d <= Len(s) + Len(p)
                BY <4>1, <4>2
            <4>. QED
                BY <4>2, <4>3, Zenon DEF d
        <3>. QED
            BY <1>4, <2>2, <3>1, <3>2, <3>4, <3>6, <3>7
    <2>. QED
        BY <1>2, <2>1, <2>2
<1>7. Layout(b, x, isCut, v, r)
    BY <1>1, <1>3, <1>5, <1>6 DEF Layout
<1>. QED
    BY <1>7 DEF x, v

\* A read takes the first batch off the stream, whole; or it fails because that
\* batch is cut or beyond the limits (codec.go:70-91).
LEMMA LayoutShrinks ==
    ASSUME NEW s \in Seq(Nat), s # <<>>, NEW ws \in Seq(Batches), NEW r \in 0 .. Len(ws),
           NEW at, NEW isCut \in BOOLEAN, Layout(at, s, isCut, ws, r)
    PROVE  /\ r + 1 \in 1 .. Len(ws)
           /\ LET got == Wire!ReadEntries(s)
              IN  \/ /\ got.ok /\ got.value = ws[r + 1] /\ got.rest \in Seq(Nat)
                     /\ \E b : Layout(b, got.rest, isCut, ws, r + 1)
                  \/ /\ ~got.ok /\ got.rest = <<>>
                     /\ \/ isCut /\ r = Len(ws) - 1
                        \/ ~Wire!Readable(ws[r + 1])
<1>. DEFINE n == Len(ws)
            es == ws[r + 1]
            w == Wire!WriteEntries(es)
            l == Len(w)
            got == Wire!ReadEntries(s)
<1>1. n \in Nat /\ r \in Nat /\ r <= n /\ Len(s) \in Nat /\ Len(s) > 0
    BY NoElements, LengthOfSeq
<1>2. /\ at \in [r .. n -> Nat] /\ at[r] = 0 /\ at[n] = Len(s)
      /\ \A k \in r + 1 .. n :
           /\ at[k - 1] <= at[k] /\ at[k] <= Len(s)
           /\ IF isCut /\ k = n
              THEN at[k] - at[k - 1] < Len(Wire!WriteEntries(ws[k]))
              ELSE at[k] - at[k - 1] = Len(Wire!WriteEntries(ws[k]))
           /\ \A i \in 1 .. at[k] - at[k - 1] : s[at[k - 1] + i] = Wire!WriteEntries(ws[k])[i]
    BY DEF Layout
<1>3. r < n
    BY <1>1, <1>2
<1>4. r + 1 \in r + 1 .. n /\ (r + 1) - 1 = r /\ r + 1 \in 1 .. n /\ r + 1 \in r .. n
    BY <1>1, <1>3
<1>5. IsBatch(es)
    BY <1>4, BatchesAreBatches, ElementIn
<1>6. w \in Seq(Nat) /\ l \in Nat
    BY <1>5, WrittenInPlace, LengthOfSeq
<1>. HIDE DEF n
<1>7. /\ at[r + 1] \in Nat /\ at[r + 1] <= Len(s)
      /\ IF isCut /\ r + 1 = n THEN at[r + 1] < l ELSE at[r + 1] = l
      /\ \A i \in 1 .. at[r + 1] : s[i] = w[i]
    <2>. DEFINE c == at[(r + 1) - 1]
                d == at[r + 1]
    <2>1. /\ c <= d /\ d <= Len(s)
          /\ IF isCut /\ r + 1 = n THEN d - c < l ELSE d - c = l
          /\ \A i \in 1 .. d - c : s[c + i] = w[i]
        BY <1>2, <1>4
    <2>2. c = 0 /\ d \in Nat
        BY <1>2, <1>4
    <2>. HIDE DEF c, d, l, w
    <2>3. d - c = d /\ \A i \in 1 .. d : c + i = i
        BY <2>2
    <2>4. /\ d \in Nat /\ d <= Len(s) /\ IF isCut /\ r + 1 = n THEN d < l ELSE d = l
        BY <2>1, <2>2, <2>3
    <2>5. \A i \in 1 .. d : s[i] = w[i]
        BY <2>1, <2>3
    <2>. QED
        BY <2>4, <2>5 DEF d
<1>8. \A i \in 1 .. Len(s) : i <= l => s[i] = w[i]
    <2>1. CASE isCut /\ r + 1 = n
        <3>1. at[r + 1] = Len(s)
            BY <1>2, <2>1
        <3>. QED
            BY <1>7, <3>1
    <2>2. CASE ~(isCut /\ r + 1 = n)
        <3>. HIDE DEF l, w
        <3>1. at[r + 1] = l
            BY <1>7, <2>2
        <3>2. \A i \in 1 .. Len(s) : i <= l => i \in 1 .. l
            BY <1>1, <1>6
        <3>. QED
            BY <1>7, <3>1, <3>2
    <2>. QED
        BY <2>1, <2>2
<1>9. got = IF Wire!Readable(es) /\ l <= Len(s)
            THEN Wire!Got(es, SubSeq(s, l + 1, Len(s)))
            ELSE Wire!Failed
    <2>. HIDE DEF es
    <2>. QED
        BY <1>5, <1>8, ReadsABatch
<1>. HIDE DEF got, w, l, es
<1>10. CASE ~(Wire!Readable(es) /\ l <= Len(s))
    <2>1. ~got.ok /\ got.rest = <<>>
        BY <1>9, <1>10 DEF Wire!Failed
    <2>2. CASE ~Wire!Readable(es)
        BY <1>4, <2>1, <2>2 DEF es, n, got
    <2>3. CASE ~(l <= Len(s))
        <3>1. isCut /\ r + 1 = n
            BY <1>1, <1>6, <1>7, <2>3
        <3>2. r = n - 1
            BY <1>1, <3>1
        <3>. QED
            BY <1>4, <2>1, <3>1, <3>2 DEF n, got
    <2>. QED
        BY <1>10, <2>2, <2>3
<1>11. CASE Wire!Readable(es) /\ l <= Len(s)
    <2>. DEFINE q == SubSeq(s, l + 1, Len(s))
    <2>0. l \in 0 .. Len(s)
        BY <1>1, <1>6, <1>11
    <2>1. /\ q \in Seq(Nat) /\ Len(q) = Len(s) - l
          /\ \A i \in 1 .. Len(s) - l : q[i] = s[l + i]
        BY <2>0, RestOfSeq
    <2>2. got = Wire!Got(es, q)
        BY <1>9, <1>11
    <2>. HIDE DEF q
    <2>3. got.ok /\ got.value = es /\ got.rest = q
        BY <2>2 DEF Wire!Got
    <2>4. at[r + 1] = l
        <3>1. ~(isCut /\ r + 1 = n)
            BY <1>1, <1>2, <1>6, <1>7, <1>11
        <3>. QED
            BY <1>7, <3>1
    <2>. DEFINE b == [k \in r + 1 .. n |-> at[k] - l]
                M == {k \in Nat : k \in r + 1 .. n => at[k] >= l}
    <2>5. \A k \in r + 1 .. n : at[k] \in Nat /\ k \in r .. n
        BY <1>1, <1>2
    <2>6. \A k \in r + 1 .. n : at[k] >= l
        <3>1. 0 \in M
            BY <1>1
        <3>2. ASSUME NEW k \in Nat, k \in M PROVE k + 1 \in M
            <4>. SUFFICES ASSUME k + 1 \in r + 1 .. n PROVE at[k + 1] >= l
                OBVIOUS
            <4>1. CASE k = r
                BY <1>6, <2>4, <4>1
            <4>2. CASE k # r
                <5>1. k \in r + 1 .. n /\ (k + 1) - 1 = k
                    BY <1>1, <4>2
                <5>2. at[k] >= l /\ at[k] \in Nat /\ at[k + 1] \in Nat
                    BY <2>5, <3>2, <5>1
                <5>3. at[k] <= at[k + 1]
                    BY <1>2, <5>1
                <5>. QED
                    BY <1>6, <5>2, <5>3
            <4>. QED
                BY <4>1, <4>2
        <3>3. Nat \subseteq M
            <4>. HIDE DEF M
            <4>. QED
                BY <3>1, <3>2, ByCounting
        <3>. QED
            BY <1>1, <3>3
    <2>7. /\ b \in [r + 1 .. n -> Nat] /\ b[r + 1] = 0 /\ b[n] = Len(q)
          /\ \A k \in r + 1 .. n : b[k] = at[k] - l
        <3>1. \A k \in r + 1 .. n : at[k] - l \in Nat
            BY <1>6, <2>5, <2>6
        <3>2. r + 1 \in r + 1 .. n /\ n \in r + 1 .. n
            BY <1>1, <1>3
        <3>3. at[n] = Len(s) /\ l - l = 0
            BY <1>2, <1>6
        <3>. QED
            BY <2>1, <2>4, <3>1, <3>2, <3>3
    <2>. HIDE DEF b
    <2>8. ASSUME NEW k \in (r + 1) + 1 .. n
          PROVE  /\ b[k - 1] <= b[k] /\ b[k] <= Len(q)
                 /\ IF isCut /\ k = n
                    THEN b[k] - b[k - 1] < Len(Wire!WriteEntries(ws[k]))
                    ELSE b[k] - b[k - 1] = Len(Wire!WriteEntries(ws[k]))
                 /\ \A i \in 1 .. b[k] - b[k - 1] : q[b[k - 1] + i] = Wire!WriteEntries(ws[k])[i]
        <3>1. k \in r + 1 .. n /\ k - 1 \in r + 1 .. n
            BY <1>1
        <3>. DEFINE c == at[k - 1]
                    d == at[k]
                    u == Wire!WriteEntries(ws[k])
        <3>2. b[k] = d - l /\ b[k - 1] = c - l
            BY <2>7, <3>1
        <3>3. c \in Nat /\ d \in Nat /\ c >= l /\ d >= l
            BY <2>5, <2>6, <3>1
        <3>4. /\ c <= d /\ d <= Len(s)
              /\ IF isCut /\ k = n THEN d - c < Len(u) ELSE d - c = Len(u)
              /\ \A i \in 1 .. d - c : s[c + i] = u[i]
            BY <1>2, <3>1
        <3>. HIDE DEF c, d, u
        <3>5. (d - l) - (c - l) = d - c /\ c - l <= d - l /\ d - l <= Len(s) - l
            BY <1>1, <1>6, <3>3, <3>4
        <3>6. ASSUME NEW i \in 1 .. d - c PROVE q[(c - l) + i] = u[i]
            <4>1. (c - l) + i \in 1 .. Len(s) - l /\ l + ((c - l) + i) = c + i
                BY <1>1, <1>6, <3>3, <3>4
            <4>. QED
                BY <2>1, <3>4, <4>1
        <3>7. \A i \in 1 .. b[k] - b[k - 1] : q[b[k - 1] + i] = u[i]
            BY <3>2, <3>5, <3>6
        <3>8. IF isCut /\ k = n THEN b[k] - b[k - 1] < Len(u) ELSE b[k] - b[k - 1] = Len(u)
            BY <3>2, <3>4, <3>5
        <3>9. b[k - 1] <= b[k] /\ b[k] <= Len(q)
            BY <2>1, <3>2, <3>5
        <3>. QED
            BY <3>7, <3>8, <3>9 DEF u
    <2>9. Layout(b, q, isCut, ws, r + 1)
        BY <2>7, <2>8 DEF Layout, n
    <2>. QED
        BY <1>4, <2>1, <2>3, <2>9 DEF n, es, got
<1>. QED
    BY <1>10, <1>11

\* The reader has got the first batches, and the stream holds the others as long as
\* no read has failed.
CodecInv ==
    /\ v1 \in Seq(Nat)
    /\ v2 \in BOOLEAN
    /\ v3 \in BOOLEAN
    /\ v4 \in Seq(Batches)
    /\ v5 \in Seq(Batches)
    /\ Wire!ReadIsWritten
    /\ Wire!ErrorsAreJustified
    /\ ~v3 => \E at : Layout(at, v1, v2, v4, Len(v5))

\* Nothing is written.
LEMMA CodecStart == Wire!Init => CodecInv
<1>. SUFFICES ASSUME Wire!Init PROVE CodecInv
    OBVIOUS
<1>1. v1 = <<>> /\ v2 = FALSE /\ v3 = FALSE /\ v4 = <<>> /\ v5 = <<>>
    BY DEF Wire!Init
<1>2. SubSeq(v4, 1, Len(v5)) = <<>> /\ Len(v5) <= Len(v4)
    BY <1>1
<1>. DEFINE at == [k \in 0 .. 0 |-> 0]
<1>3. Layout(at, v1, v2, v4, Len(v5))
    BY <1>1 DEF Layout
<1>4. Wire!ReadIsWritten /\ Wire!ErrorsAreJustified
    BY <1>1, <1>2 DEF Wire!ReadIsWritten, Wire!ErrorsAreJustified
<1>. HIDE DEF at
<1>5. \E b : Layout(b, v1, v2, v4, Len(v5))
    BY <1>3, Zenon
<1>6. /\ v1 \in Seq(Nat) /\ v2 \in BOOLEAN /\ v3 \in BOOLEAN
      /\ v4 \in Seq(Batches) /\ v5 \in Seq(Batches)
    <2>1. <<>> \in Seq(Nat) /\ <<>> \in Seq(Batches)
        OBVIOUS
    <2>. QED
        BY <1>1, <2>1, Zenon
<1>. QED
    BY <1>4, <1>5, <1>6, Zenon DEF CodecInv

\* Writes and reads, failed ones included, keep the invariant.
LEMMA CodecKeepsInv == CodecInv /\ [Wire!Next]_<<v1, v2, v3, v4, v5>> => CodecInv'
<1>. SUFFICES ASSUME CodecInv, [Wire!Next]_<<v1, v2, v3, v4, v5>> PROVE CodecInv'
    OBVIOUS
<1>1. /\ v1 \in Seq(Nat) /\ v2 \in BOOLEAN /\ v3 \in BOOLEAN
      /\ v4 \in Seq(Batches) /\ v5 \in Seq(Batches)
      /\ Len(v4) \in Nat /\ Len(v5) \in Nat
      /\ Len(v5) <= Len(v4) /\ v5 = SubSeq(v4, 1, Len(v5)) /\ Len(v5) \in 0 .. Len(v4)
    BY LengthOfSeq DEF CodecInv, Wire!ReadIsWritten
<1>2. ~v3 => \E at : Layout(at, v1, v2, v4, Len(v5))
    BY DEF CodecInv
<1>3. v3 => \/ v2 /\ Len(v5) = Len(v4) - 1
            \/ Len(v5) < Len(v4) /\ ~Wire!Readable(v4[Len(v5) + 1])
    BY DEF CodecInv, Wire!ErrorsAreJustified
<1>4. ASSUME NEW es \in Batches, Wire!Write(es) PROVE CodecInv'
    <2>. DEFINE w == Wire!WriteEntries(es)
    <2>1. /\ ~v2 /\ v4' = Append(v4, es) /\ v3' = v3 /\ v5' = v5
          /\ \/ v1' = v1 \o w /\ v2' = v2
             \/ v2' = TRUE /\ \E n \in 0 .. Len(w) - 1 : v1' = v1 \o SubSeq(w, 1, n)
        BY <1>4 DEF Wire!Write
    <2>2. w \in Seq(Nat) /\ Len(w) \in Nat
        BY BatchesAreBatches, WrittenInPlace, LengthOfSeq
    <2>3. PICK p \in Seq(Nat) : /\ v1' = v1 \o p
                                /\ IF v2' THEN Len(p) < Len(w) ELSE Len(p) = Len(w)
                                /\ \A i \in 1 .. Len(p) : p[i] = w[i]
        <3>. HIDE DEF w
        <3>1. CASE v1' = v1 \o w /\ v2' = v2
            BY <2>1, <2>2, <3>1
        <3>2. ASSUME v2' = TRUE, NEW n \in 0 .. Len(w) - 1, v1' = v1 \o SubSeq(w, 1, n)
              PROVE  \E p \in Seq(Nat) : /\ v1' = v1 \o p
                                         /\ IF v2' THEN Len(p) < Len(w) ELSE Len(p) = Len(w)
                                         /\ \A i \in 1 .. Len(p) : p[i] = w[i]
            <4>. DEFINE p == SubSeq(w, 1, n)
            <4>1. /\ p \in Seq(Nat) /\ Len(p) = n /\ \A i \in 1 .. n : p[i] = w[i]
                BY <2>2
            <4>2. n < Len(w)
                BY <2>2
            <4>. QED
                BY <3>2, <4>1, <4>2
        <3>. QED
            BY <2>1, <3>1, <3>2
    <2>4. /\ v4' \in Seq(Batches) /\ Len(v4') = Len(v4) + 1
          /\ \A k \in 1 .. Len(v4) : v4'[k] = v4[k]
        BY <1>1, <2>1, OneMore
    <2>5. v1' \in Seq(Nat) /\ v2' \in BOOLEAN
        BY <1>1, <2>1, <2>3, TwoSeqs
    <2>6. Wire!ReadIsWritten'
        <3>1. SubSeq(v4', 1, Len(v5)) = SubSeq(v4, 1, Len(v5))
            BY <1>1, <2>1
        <3>2. Len(v5') <= Len(v4') /\ v5' = SubSeq(v4', 1, Len(v5'))
            BY <1>1, <2>1, <2>4, <3>1
        <3>. QED
            BY <3>2 DEF Wire!ReadIsWritten
    <2>7. Wire!ErrorsAreJustified'
        <3>1. v3' => Len(v5') < Len(v4') /\ ~Wire!Readable(v4'[Len(v5') + 1])
            <4>. SUFFICES ASSUME v3 PROVE Len(v5) < Len(v4') /\ ~Wire!Readable(v4'[Len(v5) + 1])
                BY <2>1
            <4>1. Len(v5) < Len(v4) /\ ~Wire!Readable(v4[Len(v5) + 1])
                BY <1>3, <2>1
            <4>2. Len(v5) + 1 \in 1 .. Len(v4) /\ Len(v5) < Len(v4) + 1
                BY <1>1, <4>1
            <4>. QED
                BY <2>4, <4>1, <4>2
        <3>. QED
            BY <3>1 DEF Wire!ErrorsAreJustified
    <2>8. ~v3' => \E at : Layout(at, v1', v2', v4', Len(v5'))
        <3>. SUFFICES ASSUME ~v3 PROVE \E b : Layout(b, v1 \o p, v2', Append(v4, es), Len(v5))
            BY <2>1, <2>3
        <3>1. PICK at : Layout(at, v1, FALSE, v4, Len(v5))
            BY <1>1, <1>2, <2>1
        <3>2. IF v2' THEN Len(p) < Len(Wire!WriteEntries(es))
                     ELSE Len(p) = Len(Wire!WriteEntries(es))
            BY <2>3
        <3>3. \A i \in 1 .. Len(p) : p[i] = Wire!WriteEntries(es)[i]
            BY <2>3, Zenon
        <3>4. v1 \in Seq(Nat) /\ v4 \in Seq(Batches) /\ Len(v5) \in 0 .. Len(v4) /\ v2' \in BOOLEAN
            BY <1>1, <2>5
        <3>. QED
            BY <3>1, <3>2, <3>3, <3>4, LayoutGrows, Zenon
    <2>. QED
        BY <1>1, <2>1, <2>4, <2>5, <2>6, <2>7, <2>8 DEF CodecInv
<1>5. ASSUME Wire!Read PROVE CodecInv'
    <2>. DEFINE got == Wire!ReadEntries(v1)
                r == Len(v5)
    <2>1. /\ ~v3 /\ v1 # <<>> /\ v3' = ~got.ok /\ v1' = got.rest
          /\ v5' = (IF got.ok THEN Append(v5, got.value) ELSE v5)
          /\ v2' = v2 /\ v4' = v4
        BY <1>5 DEF Wire!Read
    <2>2. PICK at : Layout(at, v1, v2, v4, r)
        BY <1>2, <2>1
    <2>3. /\ r + 1 \in 1 .. Len(v4)
          /\ \/ /\ got.ok /\ got.value = v4[r + 1] /\ got.rest \in Seq(Nat)
                /\ \E b : Layout(b, got.rest, v2, v4, r + 1)
             \/ /\ ~got.ok /\ got.rest = <<>>
                /\ \/ v2 /\ r = Len(v4) - 1
                   \/ ~Wire!Readable(v4[r + 1])
        BY <1>1, <2>1, <2>2, LayoutShrinks
    <2>. HIDE DEF got
    <2>4. CASE got.ok
        <3>1. v3' = FALSE /\ v5' = Append(v5, v4[r + 1]) /\ v1' \in Seq(Nat)
            BY <2>1, <2>3, <2>4
        <3>2. \E b : Layout(b, v1', v2', v4', r + 1)
            BY <2>1, <2>3, <2>4
        <3>3. v4[r + 1] \in Batches
            BY <1>1, <2>3, ElementIn
        <3>4. v5' \in Seq(Batches) /\ Len(v5') = r + 1
            BY <1>1, <3>1, <3>3, OneMore
        <3>5. v5' = SubSeq(v4, 1, r + 1)
            <4>1. (r + 1) - 1 = r
                BY <1>1
            <4>2. Append(SubSeq(v4, 1, (r + 1) - 1), v4[r + 1]) = SubSeq(v4, 1, r + 1)
                BY <1>1, <2>3, OneLonger
            <4>. QED
                BY <1>1, <3>1, <4>1, <4>2
        <3>6. Wire!ReadIsWritten'
            <4>1. Len(v5') <= Len(v4')
                <5>1. r + 1 \in 1 .. Len(v4) /\ v4' = v4 /\ Len(v5') = r + 1
                    BY <2>1, <2>3, <3>4, Zenon
                <5>. QED
                    BY <1>1, <5>1
            <4>2. v5' = SubSeq(v4', 1, Len(v5'))
                BY <2>1, <3>4, <3>5
            <4>. QED
                BY <4>1, <4>2 DEF Wire!ReadIsWritten
        <3>7. Wire!ErrorsAreJustified'
            BY <3>1 DEF Wire!ErrorsAreJustified
        <3>. QED
            BY <1>1, <2>1, <3>1, <3>2, <3>4, <3>6, <3>7 DEF CodecInv
    <2>5. CASE ~got.ok
        <3>1. v3' = TRUE /\ v5' = v5 /\ v1' = <<>> /\ v1' \in Seq(Nat)
            <4>1. <<>> \in Seq(Nat)
                OBVIOUS
            <4>. QED
                BY <2>1, <2>3, <2>5, <4>1, Zenon
        <3>2. Wire!ReadIsWritten'
            BY <1>1, <2>1, <3>1 DEF Wire!ReadIsWritten
        <3>3. r < Len(v4) /\ ((v2 /\ r = Len(v4) - 1) \/ ~Wire!Readable(v4[r + 1]))
            BY <1>1, <2>3, <2>5
        <3>4. Wire!ErrorsAreJustified'
            BY <2>1, <3>1, <3>3 DEF Wire!ErrorsAreJustified
        <3>. QED
            BY <1>1, <2>1, <3>1, <3>2, <3>4 DEF CodecInv
    <2>. QED
        BY <2>4, <2>5
<1>6. CASE UNCHANGED <<v1, v2, v3, v4, v5>>
    BY <1>6 DEF CodecInv, Wire!ReadIsWritten, Wire!ErrorsAreJustified
<1>. QED
    BY <1>4, <1>5, <1>6 DEF Wire!Next

-----------------------------------------------------------------------------
(***************************************************************************)
(* The composition.                                                        *)
(***************************************************************************)
DataInv ==
    /\ part = "codec" => CodecInv
    /\ part = "kv" => KVInv
    /\ part = "counter" => CounterInv

\* The invariant of the part that runs is kept.
LEMMA DataInvariant == StorageSpec => []DataInv
<1>1. StorageInit => DataInv
    BY CodecStart, KVStart, CounterStart, Zenon DEF StorageInit, DataInv
<1>2. DataInv /\ [StorageNext]_storageVars => DataInv'
    <2>. SUFFICES ASSUME DataInv, [StorageNext]_storageVars PROVE DataInv'
        OBVIOUS
    <2>1. CASE part \in {"state", "snapshot", "log"} /\ part' = part
        BY <2>1 DEF DataInv
    <2>2. CASE part = "codec" /\ Wire!Next /\ UNCHANGED <<part, vars, v6>>
        <3>1. CodecInv' /\ part' = "codec"
            BY <2>2, CodecKeepsInv, Zenon DEF DataInv
        <3>. QED
            BY <3>1 DEF DataInv
    <2>3. CASE part = "kv" /\ KVR!Next /\ UNCHANGED <<part, vars, v5, v6>>
        <3>1. KVInv' /\ part' = "kv"
            BY <2>3, KVKeepsInv, Zenon DEF DataInv
        <3>. QED
            BY <3>1 DEF DataInv
    <2>4. CASE part = "counter" /\ CTR!Next /\ UNCHANGED <<part, vars, v5, v6>>
        <3>1. CounterInv' /\ part' = "counter"
            BY <2>4, CounterKeepsInv, Zenon DEF DataInv
        <3>. QED
            BY <3>1 DEF DataInv
    <2>5. CASE UNCHANGED storageVars
        <3>1. /\ part' = part
              /\ UNCHANGED <<v1, v2, v3, v4, v5>> /\ UNCHANGED <<v1, v2, v3, v4>>
            BY <2>5 DEF storageVars, others
        <3>2. part = "codec" => CodecInv'
            BY <3>1, CodecKeepsInv, Zenon DEF DataInv
        <3>3. part = "kv" => KVInv'
            BY <3>1, KVKeepsInv, Zenon DEF DataInv
        <3>4. part = "counter" => CounterInv'
            BY <3>1, CounterKeepsInv, Zenon DEF DataInv
        <3>. QED
            BY <3>1, <3>2, <3>3, <3>4, Zenon DEF DataInv
    <2>. QED
        BY <2>1, <2>2, <2>3, <2>4, <2>5 DEF StorageNext
<1>. QED
    BY <1>1, <1>2, PTL DEF StorageSpec

\* ReadEntries gives back what WriteEntries was given, batch for batch, for commands
\* of any bytes and wherever the stream was cut (codec.go:14-91).
THEOREM CodecGivesBack == StorageSpec => []ReadIsWritten
<1>1. DataInv => ReadIsWritten
    BY Zenon DEF DataInv, CodecInv, ReadIsWritten
<1>. QED
    BY <1>1, DataInvariant, PTL

\* ReadEntries fails only at a batch that is cut or that is beyond its limits: no
\* earlier read ever leaves the stream between two words (codec.go:47-49, 79-81).
THEOREM CodecErrorsAreJustified == StorageSpec => []ErrorsAreJustified
<1>1. DataInv => ErrorsAreJustified
    BY Zenon DEF DataInv, CodecInv, ErrorsAreJustified
<1>. QED
    BY <1>1, DataInvariant, PTL

\* Key-value replicas that have applied the same commands hold the same map,
\* whatever snapshots they were restored from (kv.go:29-54, 83-107).
THEOREM KVReplicasStayEqual == StorageSpec => []KVReplicasAgree
<1>1. DataInv => KVReplicasAgree
    BY KVAgree, Zenon DEF DataInv, KVReplicasAgree
<1>. QED
    BY <1>1, DataInvariant, PTL

\* LastApplied of a key-value machine is never beyond what it holds
\* (kv.go:83-107).
THEOREM KVSkipsNothing == StorageSpec => []NothingIsSkipped
<1>1. DataInv => NothingIsSkipped
    BY KVAgree, Zenon DEF DataInv, NothingIsSkipped
<1>. QED
    BY <1>1, DataInvariant, PTL

\* Counter replicas that have applied the same commands hold the same value: sums
\* wrap around, and snapshots carry negative values as uint64
\* (counter.go:24-53, 69-87).
THEOREM CountersStayEqual == StorageSpec => []CounterReplicasAgree
<1>1. DataInv => CounterReplicasAgree
    BY CounterAgree, Zenon DEF DataInv, CounterReplicasAgree
<1>. QED
    BY <1>1, DataInvariant, PTL

=============================================================================
