----------------------- MODULE RaftLogMatchingProofs -----------------------
(***************************************************************************)
(* The Log Matching Property, and that a leader holds every entry of its   *)
(* term, for any number of nodes that are each other's peers.              *)
(*                                                                         *)
(* The first part is about fragments: which ways to make a fragment from   *)
(* others keep all of them matching.  The second part shows that a step of *)
(* Raft changes the fragments in one of these ways only.                   *)
(***************************************************************************)
EXTENDS RaftElectionProofs

Fragment == [start : Nat, startTerm : Nat, entries : Seq(Entry)]

\* h says nothing that f does not say.
IsPartOf(h, f) ==
    /\ h.start >= f.start
    /\ Positions(h) \subseteq Positions(f)
    /\ \A p \in Positions(h) : Agree(h, f, p)

-----------------------------------------------------------------------------
(***************************************************************************)
(* Fragments.                                                              *)
(***************************************************************************)

\* The positions of a fragment are an interval without 0.
LEMMA PositionsSay ==
    ASSUME NEW f \in Fragment
    PROVE  /\ f.start \in Nat /\ Len(f.entries) \in Nat
           /\ \A p : p \in Positions(f) <=>
                       p \in Nat /\ 1 <= p /\ f.start <= p /\ p <= f.start + Len(f.entries)
<1>1. f.start \in Nat /\ Len(f.entries) \in Nat
    BY LengthOfSeq DEF Fragment
<1> QED
    BY <1>1 DEF Positions

\* Matching is symmetric.
LEMMA MatchingSymmetric ==
    ASSUME NEW f, NEW g, Matching(f, g)
    PROVE  Matching(g, f)
BY DEF Matching, Agree

\* A fragment matches itself.
LEMMA MatchingReflexive ==
    ASSUME NEW f
    PROVE  Matching(f, f)
BY DEF Matching, Agree

\* A part of a fragment matches what the fragment matches: a batch copied from
\* a log is as good as the log.
LEMMA PartMatches ==
    ASSUME NEW f \in Fragment, NEW g \in Fragment, NEW h \in Fragment,
           IsPartOf(h, f), Matching(f, g)
    PROVE  Matching(h, g)
<1> SUFFICES ASSUME NEW p \in Positions(h) \cap Positions(g),
                    TermIn(h, p) = TermIn(g, p),
                    NEW q \in Positions(h) \cap Positions(g), q <= p
             PROVE  Agree(h, g, q)
    BY DEF Matching
<1>1. Agree(h, f, p) /\ Agree(h, f, q) /\ p \in Positions(f) /\ q \in Positions(f)
    BY DEF IsPartOf
<1>2. TermIn(f, p) = TermIn(g, p)
    BY <1>1 DEF Agree
<1>3. Agree(f, g, q)
    BY <1>1, <1>2 DEF Matching
<1>4. q > h.start => q > f.start
    BY PositionsSay DEF IsPartOf
<1> QED
    BY <1>1, <1>3, <1>4 DEF Agree

\* The beginning of l followed by the batch m, where l holds the entry that m
\* names as the one before it, matches what both l and m match.
LEMMA SplicedMatches ==
    ASSUME NEW r \in Fragment, NEW l \in Fragment, NEW m \in Fragment, NEW g \in Fragment,
           r.start = 0, l.start = 0, Matching(l, g), Matching(m, g),
           \A p \in Positions(r) : p <= m.start => p \in Positions(l) /\ Agree(r, l, p),
           \A p \in Positions(r) : p > m.start => p \in Positions(m) /\ Agree(r, m, p),
           m.start # 0 => m.start \in Positions(l) /\ TermIn(l, m.start) = m.startTerm
    PROVE  Matching(r, g)
<1> SUFFICES ASSUME NEW p \in Positions(r) \cap Positions(g),
                    TermIn(r, p) = TermIn(g, p),
                    NEW q \in Positions(r) \cap Positions(g), q <= p
             PROVE  Agree(r, g, q)
    BY DEF Matching
<1>1. /\ p \in Nat /\ q \in Nat /\ 1 <= q /\ m.start \in Nat
      /\ q > r.start /\ q > l.start
    BY PositionsSay
<1>2. CASE q <= m.start
    <2>1. q \in Positions(l) /\ Agree(r, l, q)
        BY <1>2
    <2>2. Agree(l, g, q)
        <3>1. CASE p <= m.start
            <4>1. p \in Positions(l) /\ TermIn(l, p) = TermIn(g, p)
                BY <3>1 DEF Agree
            <4> QED
                BY <2>1, <4>1 DEF Matching
        <3>2. CASE p > m.start
            <4>1. p \in Positions(m) /\ TermIn(m, p) = TermIn(g, p)
                BY <3>2 DEF Agree
            <4>2. m.start \in Positions(m) /\ m.start \in Positions(g) /\ m.start <= p
                BY <1>1, <1>2, <3>2, PositionsSay
            <4>3. TermIn(m, m.start) = TermIn(g, m.start)
                BY <4>1, <4>2 DEF Matching, Agree
            <4>4. m.start \in Positions(l) /\ TermIn(l, m.start) = TermIn(g, m.start)
                BY <1>1, <1>2, <4>3 DEF TermIn
            <4> QED
                BY <1>2, <2>1, <4>2, <4>4 DEF Matching
        <3> QED
            BY <1>1, <3>1, <3>2
    <2> QED
        BY <1>1, <2>1, <2>2 DEF Agree
<1>3. CASE q > m.start
    <2>1. p > m.start
        BY <1>1, <1>3
    <2>2. /\ p \in Positions(m) /\ TermIn(m, p) = TermIn(g, p)
          /\ q \in Positions(m) /\ Agree(r, m, q)
        BY <1>3, <2>1 DEF Agree
    <2>3. Agree(m, g, q)
        BY <2>2 DEF Matching
    <2> QED
        BY <1>1, <1>3, <2>2, <2>3 DEF Agree
<1> QED
    BY <1>1, <1>2, <1>3

\* A log with one more entry, of a term that no other fragment has at that
\* position, matches what the log matches.
LEMMA ExtendedMatches ==
    ASSUME NEW r \in Fragment, NEW l \in Fragment, NEW g \in Fragment, NEW x,
           r.start = 0, l.start = 0, Matching(l, g),
           \A p \in Positions(r) : p # x => p \in Positions(l) /\ Agree(r, l, p),
           \A p \in Positions(r) : p <= x,
           x \in Positions(g) => TermIn(g, x) # TermIn(r, x)
    PROVE  Matching(r, g)
<1> SUFFICES ASSUME NEW p \in Positions(r) \cap Positions(g),
                    TermIn(r, p) = TermIn(g, p),
                    NEW q \in Positions(r) \cap Positions(g), q <= p
             PROVE  Agree(r, g, q)
    BY DEF Matching
<1>1. p # x /\ q # x
    <2>1. p # x
        OBVIOUS
    <2>2. p \in Nat /\ q \in Nat /\ (x \in Positions(r) => x \in Nat /\ p <= x)
        BY PositionsSay
    <2> QED
        BY <2>1, <2>2
<1>2. /\ p \in Positions(l) /\ TermIn(l, p) = TermIn(g, p)
      /\ q \in Positions(l) /\ Agree(r, l, q)
    BY <1>1 DEF Agree
<1>3. Agree(l, g, q)
    BY <1>2 DEF Matching
<1>4. q > l.start /\ q > r.start
    BY PositionsSay
<1> QED
    BY <1>2, <1>3, <1>4 DEF Agree

-----------------------------------------------------------------------------
(***************************************************************************)
(* Steps.                                                                  *)
(***************************************************************************)

\* Node i keeps its entries, and every batch it sends is a part of its log.
KeepsLog(i) ==
    /\ node'[i].log.entries = node[i].log.entries
    /\ Batches \subseteq Batches'
    /\ \A m \in Batches' : m \in Batches \/ IsPartOfLog(m, node[i].log)

\* Leader i adds an entry of its term.
ExtendsLog(i) ==
    /\ node[i].state = Leader
    /\ node'[i].currentTerm = node[i].currentTerm
    /\ Batches' = Batches
    /\ \E e \in Entry : /\ e.term = node[i].currentTerm
                       /\ node'[i].log.entries = Append(node[i].log.entries, e)

\* Follower i splices a batch into its log.
SplicesLog(i, m) ==
    /\ node'[i].state = Follower
    /\ Batches' = Batches
    /\ MatchesPrevLogTerm(node[i].log, m.prevLogIndex, m.prevLogTerm)
    /\ Spliced(node'[i].log.entries, node[i].log, m.entries, m.prevLogIndex)

\* What any step of node i is to the logs.
LogStep(i) ==
    \/ KeepsLog(i)
    \/ ExtendsLog(i)
    \/ \E m \in Batches : SplicesLog(i, m)

\* Logs and batches are fragments.
LEMMA FragmentTypes ==
    ASSUME LogInv
    PROVE  \A f \in Fragments : f \in Fragment
<1>1. \A i \in Server : Entries(i) \in Seq(Entry)
    BY DEF LogInv, WellFormed, Log, Entries
<1>2. \A m \in Batches : /\ m.prevLogIndex \in Nat
                         /\ m.prevLogTerm \in Nat
                         /\ m.entries \in Seq(Entry)
    BY MessageFields DEF LogInv, TypeOK, Batches
<1> QED
    BY <1>1, <1>2 DEF Fragments, Fragment, LogFragment, BatchFragment

\* So they are after a step.
LEMMA FragmentTypesNext ==
    ASSUME LogInv'
    PROVE  \A f \in Fragments' : f \in Fragment
<1>1. \A i \in Server : Entries(i)' \in Seq(Entry)
    BY DEF LogInv, WellFormed, Log, Entries
<1>2. \A m \in Batches' : /\ m.prevLogIndex \in Nat
                          /\ m.prevLogTerm \in Nat
                          /\ m.entries \in Seq(Entry)
    BY MessageFields DEF LogInv, TypeOK, Batches
<1> QED
    BY <1>1, <1>2 DEF Fragments, Fragment, LogFragment, BatchFragment

\* A leader was the leader of the same term before, or has just won it.
LEMMA LeaderBefore ==
    ASSUME NEW i \in Server, ElectionStep(i),
           NEW j \in Server, node'[j].state = Leader
    PROVE  \/ node[j].state = Leader /\ node'[j].currentTerm = node[j].currentTerm
           \/ j = i /\ Wins(i)
BY DEF ElectionStep, OthersStay, Stays, GivesWay, EntersTerm, GrantsVote,
       Leader, Follower, Candidate

\* Claims are never lost.
LEMMA ClaimsGrow ==
    ASSUME NEW i \in Server, ElectionStep(i)
    PROVE  SentClaims \subseteq SentClaims'
BY DEF ElectionStep, Stays, GivesWay, EntersTerm, GrantsVote, Wins

\* Every leader has told somebody that it leads: becomeLeader broadcasts.
LEMMA LeadersHaveSpoken ==
    ASSUME NEW i \in Server, ElectionStep(i),
           \A j \in Server :
               node[j].state = Leader => Claim(j, node[j].currentTerm) \in SentClaims
    PROVE  \A j \in Server :
               node'[j].state = Leader => Claim(j, node'[j].currentTerm) \in SentClaims'
<1> SUFFICES ASSUME NEW j \in Server, node'[j].state = Leader
             PROVE  Claim(j, node'[j].currentTerm) \in SentClaims'
    OBVIOUS
<1>1. SentClaims \subseteq SentClaims'
    BY ClaimsGrow
<1>2. CASE node[j].state = Leader /\ node'[j].currentTerm = node[j].currentTerm
    BY <1>1, <1>2
<1>3. CASE j = i /\ Wins(i)
    BY <1>3 DEF Wins
<1> QED
    BY <1>2, <1>3, LeaderBefore

\* The term a node just won stamps no entry yet.
LEMMA WonTermIsNew ==
    ASSUME LogInv, ElectionInv, LeaderInv, MatchInv, NEW i \in Server, Wins(i),
           NEW f \in Fragments, NEW p \in Positions(f)
    PROVE  TermIn(f, p) # node[i].currentTerm
<1> SUFFICES ASSUME TermIn(f, p) = node[i].currentTerm PROVE FALSE
    OBVIOUS
<1>1. PICK c \in SentClaims : c.term = node[i].currentTerm
    BY DEF MatchInv, TermsAreClaimed
<1>2. c.leader = i
    BY <1>1, WinnerIsAlone DEF Claims, Wins
<1> QED
    BY <1>1, <1>2 DEF LeaderInv, Wins

\* When no position gets a new term, terms stay claimed and leaders that keep
\* their logs go on holding their terms.
LEMMA OldStampsPreserve ==
    ASSUME LogInv, LogInv', ElectionInv, LeaderInv, MatchInv,
           NEW i \in Server, ElectionStep(i),
           \A f \in Fragments' : \A p \in Positions(f) :
               \E g \in Fragments : p \in Positions(g) /\ TermIn(g, p) = TermIn(f, p),
           \A j \in Server :
               node'[j].state = Leader => node'[j].log.entries = node[j].log.entries
    PROVE  TermsAreClaimed' /\ LeadersHoldTheirTerm'
<1>1. ASSUME NEW f \in Fragments', NEW p \in Positions(f)
      PROVE  \E c \in SentClaims' : c.term = TermIn(f, p)
    <2>1. PICK g \in Fragments : p \in Positions(g) /\ TermIn(g, p) = TermIn(f, p)
        OBVIOUS
    <2>2. PICK c \in SentClaims : c.term = TermIn(g, p)
        BY <2>1 DEF MatchInv, TermsAreClaimed
    <2> QED
        BY <2>1, <2>2, ClaimsGrow
<1>2. ASSUME NEW j \in Server, node'[j].state = Leader,
             NEW f \in Fragments', NEW p \in Positions(f),
             TermIn(f, p) = node'[j].currentTerm
      PROVE  /\ p <= Len(node'[j].log.entries)
             /\ node'[j].log.entries[p].term = node'[j].currentTerm
    <2>1. PICK g \in Fragments : p \in Positions(g) /\ TermIn(g, p) = TermIn(f, p)
        OBVIOUS
    <2>2. CASE node[j].state = Leader /\ node'[j].currentTerm = node[j].currentTerm
        BY <1>2, <2>1, <2>2 DEF MatchInv, LeadersHoldTheirTerm, Entries
    <2>3. CASE j = i /\ Wins(i)
        <3>1. TermIn(g, p) # node[i].currentTerm
            BY <2>1, <2>3, WonTermIsNew
        <3> QED
            BY <1>2, <2>1, <2>3, <3>1 DEF Wins
    <2> QED
        BY <1>2, <2>2, <2>3, LeaderBefore
<1>3. TermsAreClaimed'
    BY <1>1 DEF TermsAreClaimed, TermIn, Positions
<1>4. LeadersHoldTheirTerm'
    BY <1>2 DEF LeadersHoldTheirTerm, TermIn, Positions, Entries
<1> QED
    BY <1>3, <1>4

\* The fragments after a step: those from before, the log of the node that moved
\* and the batches it sent.
LEMMA FragmentsNext ==
    ASSUME NEW i \in Server, OthersStay(i), NEW f \in Fragments'
    PROVE  \/ f \in Fragments
           \/ f = LogFragment(i)'
           \/ \E m \in Batches' \ Batches : f = BatchFragment(m)
<1>1. CASE \E j \in Server : f = LogFragment(j)'
    <2>1. PICK j \in Server : f = LogFragment(j)'
        BY <1>1
    <2>2. CASE j # i
        <3>1. node'[j] = node[j]
            BY <2>2 DEF OthersStay
        <3>2. f = LogFragment(j)
            BY <2>1, <3>1 DEF LogFragment, Entries
        <3> QED
            BY <3>2 DEF Fragments
    <2> QED
        BY <2>1, <2>2
<1>2. CASE \E m \in Batches' : f = BatchFragment(m)
    BY <1>2 DEF Fragments
<1>3. (\E j \in Server : f = LogFragment(j)') \/ (\E m \in Batches' : f = BatchFragment(m))
    BY DEF Fragments, BatchFragment
<1> QED
    BY <1>1, <1>2, <1>3

\* A batch with entries of a log is a part of the log as a fragment.
LEMMA BatchIsPart ==
    ASSUME LogInv, NEW i \in Server, NEW m, BatchFragment(m) \in Fragment,
           IsPartOfLog(m, node[i].log)
    PROVE  IsPartOf(BatchFragment(m), LogFragment(i))
<1> DEFINE h == BatchFragment(m)
           f == LogFragment(i)
<1>1. /\ h.start = m.prevLogIndex /\ h.startTerm = m.prevLogTerm /\ h.entries = m.entries
      /\ f.start = 0 /\ f.entries = node[i].log.entries
    BY DEF BatchFragment, LogFragment, Entries
<1>2. f \in Fragment /\ h \in Fragment
    BY FragmentTypes DEF Fragments
<1> HIDE DEF h, f
<1>3. \A p \in Positions(h) : p \in Positions(f)
    BY <1>1, <1>2, PositionsSay DEF IsPartOfLog
<1>4. ASSUME NEW p \in Positions(h)
      PROVE  Agree(h, f, p)
    <2>1. p \in Nat /\ p >= 1 /\ h.start \in Nat /\ h.start <= p
          /\ p <= h.start + Len(h.entries) /\ Len(h.entries) \in Nat
        BY <1>2, PositionsSay
    <2>2. p - f.start = p /\ p # f.start
        BY <1>1, <2>1
    <2>3. CASE p = h.start
        BY <1>1, <2>1, <2>2, <2>3 DEF IsPartOfLog, Agree, TermIn
    <2>4. CASE p # h.start
        <3>1. p - h.start \in 1 .. Len(h.entries) /\ h.start + (p - h.start) = p
            BY <2>1, <2>4
        <3>2. h.entries[p - h.start] = f.entries[p]
            BY <1>1, <3>1 DEF IsPartOfLog
        <3> QED
            BY <2>2, <2>4, <3>2 DEF Agree, TermIn
    <2> QED
        BY <2>3, <2>4
<1>5. h.start >= f.start
    BY <1>1, <1>2, PositionsSay
<1>6. IsPartOf(h, f)
    BY <1>3, <1>4, <1>5 DEF IsPartOf
<1> QED
    BY <1>6 DEF h, f

\* Keeping the log and sending parts of it keeps everything matching.
LEMMA KeepsPreserves ==
    ASSUME LogInv, LogInv', ElectionInv, LeaderInv, MatchInv,
           NEW i \in Server, ElectionStep(i), KeepsLog(i)
    PROVE  MatchInv'
<1>1. OthersStay(i)
    BY DEF ElectionStep
<1>2. ASSUME NEW f \in Fragments'
      PROVE  \E g \in Fragments : IsPartOf(f, g)
    <2>1. f \in Fragment
        BY FragmentTypesNext
    <2>2. CASE f \in Fragments
        <3>1. IsPartOf(f, f)
            BY <2>1, PositionsSay DEF IsPartOf, Agree
        <3> QED
            BY <2>2, <3>1
    <2>3. CASE f = LogFragment(i)'
        <3>1. f = LogFragment(i)
            BY <2>3 DEF LogFragment, Entries, KeepsLog
        <3> QED
            BY <2>2, <3>1 DEF Fragments
    <2>4. CASE \E m \in Batches' \ Batches : f = BatchFragment(m)
        <3>1. PICK m \in Batches' \ Batches : f = BatchFragment(m)
            BY <2>4
        <3>2. IsPartOfLog(m, node[i].log)
            BY <3>1 DEF KeepsLog
        <3>3. IsPartOf(f, LogFragment(i))
            BY <2>1, <3>1, <3>2, BatchIsPart
        <3> QED
            BY <3>3 DEF Fragments
    <2> QED
        BY <1>1, <2>2, <2>3, <2>4, FragmentsNext
<1>3. ASSUME NEW f \in Fragments', NEW g \in Fragments'
      PROVE  Matching(f, g)
    <2>1. PICK f0 \in Fragments : IsPartOf(f, f0)
        BY <1>2
    <2>2. PICK g0 \in Fragments : IsPartOf(g, g0)
        BY <1>2
    <2>3. f \in Fragment /\ g \in Fragment /\ f0 \in Fragment /\ g0 \in Fragment
        BY FragmentTypes, FragmentTypesNext
    <2>4. Matching(f0, g0)
        BY DEF MatchInv
    <2>5. Matching(f, g0)
        BY <2>1, <2>3, <2>4, PartMatches
    <2>6. Matching(g0, f)
        BY <2>5, MatchingSymmetric
    <2>7. Matching(g, f)
        BY <2>2, <2>3, <2>6, PartMatches
    <2> QED
        BY <2>7, MatchingSymmetric
<1>4. \A f \in Fragments' : \A p \in Positions(f) :
          \E g \in Fragments : p \in Positions(g) /\ TermIn(g, p) = TermIn(f, p)
    BY <1>2 DEF IsPartOf, Agree
<1>5. \A j \in Server : node'[j].log.entries = node[j].log.entries
    BY <1>1 DEF OthersStay, KeepsLog
<1>6. TermsAreClaimed' /\ LeadersHoldTheirTerm'
    BY <1>4, <1>5, OldStampsPreserve
<1>7. \A j \in Server :
          node'[j].state = Leader => Claim(j, node'[j].currentTerm) \in SentClaims'
    BY LeadersHaveSpoken DEF MatchInv
<1>8. (\A f, g \in Fragments : Matching(f, g))'
    BY <1>3 DEF Matching, Agree, Positions, TermIn
<1> QED
    BY <1>6, <1>7, <1>8 DEF MatchInv, Claim

\* When only the log of node i changes, it is enough that the new log matches
\* what was there before.
LEMMA NewLogMatches ==
    ASSUME LogInv, LogInv', MatchInv, NEW i \in Server, OthersStay(i), Batches' = Batches,
           \A g \in Fragments : Matching(LogFragment(i)', g)
    PROVE  (\A f, g \in Fragments : Matching(f, g))'
<1>1. \A f \in Fragments' : f \in Fragments \/ f = LogFragment(i)'
    BY FragmentsNext
<1>2. ASSUME NEW f \in Fragments', NEW g \in Fragments'
      PROVE  Matching(f, g)
    <2>1. CASE f \in Fragments /\ g \in Fragments
        BY <2>1 DEF MatchInv
    <2>2. CASE f = LogFragment(i)' /\ g \in Fragments
        BY <2>2
    <2>3. CASE f \in Fragments /\ g = LogFragment(i)'
        BY <2>3, MatchingSymmetric
    <2>4. CASE f = LogFragment(i)' /\ g = LogFragment(i)'
        BY <2>4, MatchingReflexive
    <2> QED
        BY <1>1, <2>1, <2>2, <2>3, <2>4
<1> QED
    BY <1>2 DEF Matching, Agree, Positions, TermIn

\* A leader may add an entry of its term: nobody else makes one, and everything
\* of its term is in its log already.
LEMMA ExtendsPreserves ==
    ASSUME LogInv, LogInv', ElectionInv, LeaderInv, MatchInv,
           NEW i \in Server, ElectionStep(i), ExtendsLog(i)
    PROVE  MatchInv'
<1> DEFINE l == LogFragment(i)
           r == LogFragment(i)'
           t == node[i].currentTerm
           x == Len(l.entries) + 1
<1>1. OthersStay(i) /\ Batches' = Batches
    BY DEF ElectionStep, ExtendsLog
<1>2. PICK e \in Entry : e.term = t /\ r.entries = Append(l.entries, e)
    BY DEF ExtendsLog, LogFragment, Entries
<1>3. /\ l \in Fragments /\ l \in Fragment /\ r \in Fragment
      /\ l.start = 0 /\ r.start = 0 /\ l.entries = node[i].log.entries
      /\ r.entries = node'[i].log.entries
    BY FragmentTypes, FragmentTypesNext DEF Fragments, LogFragment, Entries
<1> HIDE DEF l, r
<1>4. /\ l.entries \in Seq(Entry) /\ Len(l.entries) \in Nat
      /\ Len(r.entries) = x
      /\ r.entries[x] = e
      /\ \A k \in 1 .. Len(l.entries) : r.entries[k] = l.entries[k]
    <2>1. l.entries \in Seq(Entry)
        BY <1>3 DEF Fragment
    <2> QED
        BY <1>2, <2>1, OneMore
<1>5. /\ \A p \in Positions(r) : p # x => p \in Positions(l) /\ Agree(r, l, p)
      /\ \A p \in Positions(r) : p <= x
      /\ x \in Positions(r) /\ TermIn(r, x) = t
    <2>0. \A p : p \in Positions(r) <=> p \in Nat /\ 1 <= p /\ 0 <= p /\ p <= 0 + x
        BY <1>3, <1>4, PositionsSay, Zenon
    <2>1. \A p \in Positions(r) : p \in 1 .. x
        BY <1>4, <2>0
    <2>2. x \in Positions(r) /\ TermIn(r, x) = t
        <3>1. x \in Positions(r) /\ x # 0 /\ x - 0 = x
            BY <1>4, <2>0
        <3> QED
            BY <1>2, <1>3, <1>4, <3>1, Zenon DEF TermIn
    <2>3. ASSUME NEW p \in Positions(r), p # x
          PROVE  p \in Positions(l) /\ Agree(r, l, p)
        <3>1. p \in 1 .. Len(l.entries) /\ p - 0 = p /\ p # 0
            BY <1>4, <2>1, <2>3
        <3>2. p \in Positions(l)
            BY <1>3, <1>4, <3>1, PositionsSay
        <3> QED
            BY <1>3, <1>4, <3>1, <3>2 DEF Agree, TermIn
    <2> QED
        BY <1>4, <2>1, <2>2, <2>3
<1>6. \A g \in Fragments : x \in Positions(g) => TermIn(g, x) # t
    BY <1>3, <1>4 DEF MatchInv, LeadersHoldTheirTerm, ExtendsLog, Entries
<1>7. ASSUME NEW g \in Fragments
      PROVE  Matching(r, g)
    <2>1. g \in Fragment /\ Matching(l, g)
        BY <1>3, FragmentTypes DEF MatchInv
    <2>2. x \in Positions(g) => TermIn(g, x) # TermIn(r, x)
        BY <1>5, <1>6
    <2> QED
        BY <1>3, <1>5, <2>1, <2>2, ExtendedMatches
<1>8. (\A f, g \in Fragments : Matching(f, g))'
    BY <1>1, <1>7, NewLogMatches DEF r
<1>9. ASSUME NEW f \in Fragments', NEW p \in Positions(f)
      PROVE  \/ \E g \in Fragments : p \in Positions(g) /\ TermIn(g, p) = TermIn(f, p)
             \/ f = r /\ p = x
    <2>1. f \in Fragments \/ f = r
        BY <1>1, FragmentsNext DEF r
    <2> QED
        BY <1>3, <1>5, <2>1 DEF Agree
<1>10. TermsAreClaimed'
    <2> SUFFICES ASSUME NEW f \in Fragments', NEW p \in Positions(f)
                 PROVE  \E c \in SentClaims' : c.term = TermIn(f, p)
        BY DEF TermsAreClaimed, TermIn, Positions
    <2>1. Claim(i, t) \in SentClaims /\ Claim(i, t).term = t
        BY ClaimFields DEF MatchInv, ExtendsLog
    <2> QED
        BY <1>5, <1>9, <2>1, ClaimsGrow DEF MatchInv, TermsAreClaimed
<1>11. ASSUME NEW j \in Server, node'[j].state = Leader,
              NEW f \in Fragments', NEW p \in Positions(f),
              TermIn(f, p) = node'[j].currentTerm
       PROVE  /\ p <= Len(node'[j].log.entries)
              /\ node'[j].log.entries[p].term = node'[j].currentTerm
    <2>1. node'[i].currentTerm = t /\ node[i].state = Leader
        BY DEF ExtendsLog
    <2>2. node[j].state = Leader /\ node'[j].currentTerm = node[j].currentTerm
        BY <1>11, <2>1, LeaderBefore DEF Wins, Leader, Candidate
    <2>3. CASE f = r /\ p = x
        <3>1. node[j].currentTerm = t
            BY <1>5, <1>11, <2>2, <2>3
        <3>2. Claim(i, t) \in Claims /\ Claim(j, t) \in Claims
            BY <2>1, <2>2, <3>1, LeaderClaimed
        <3>3. i = j
            BY <3>2, ClaimFields DEF ElectionInv, OneLeaderPerTerm
        <3>4. x <= x
            BY <1>4
        <3> QED
            BY <1>2, <1>3, <1>4, <2>1, <2>3, <3>3, <3>4, Zenon
    <2>4. CASE \E g \in Fragments : p \in Positions(g) /\ TermIn(g, p) = TermIn(f, p)
        <3>1. /\ p <= Len(node[j].log.entries)
              /\ node[j].log.entries[p].term = node[j].currentTerm
            BY <1>11, <2>2, <2>4 DEF MatchInv, LeadersHoldTheirTerm, Entries
        <3>2. CASE j # i
            BY <1>1, <2>2, <3>1, <3>2 DEF OthersStay
        <3>3. CASE j = i
            <4>1. f \in Fragment
                BY FragmentTypesNext
            <4>2. p \in Nat /\ 1 <= p
                BY <4>1, PositionsSay
            <4>3. p \in 1 .. Len(l.entries)
                BY <1>3, <1>4, <3>1, <3>3, <4>2
            <4>4. p <= x
                BY <1>4, <4>2, <4>3
            <4> QED
                BY <1>3, <1>4, <2>1, <3>1, <3>3, <4>3, <4>4, Zenon
        <3> QED
            BY <3>2, <3>3
    <2> QED
        BY <1>9, <2>3, <2>4
<1>12. LeadersHoldTheirTerm'
    BY <1>11 DEF LeadersHoldTheirTerm, TermIn, Positions, Entries
<1>13. \A j \in Server :
          node'[j].state = Leader => Claim(j, node'[j].currentTerm) \in SentClaims'
    BY LeadersHaveSpoken DEF MatchInv
<1> QED
    BY <1>8, <1>10, <1>12, <1>13 DEF MatchInv, Claim

\* Splicing a batch into a log, at an entry both agree on, adds nothing that was
\* not in the log or in the batch.
LEMMA SplicesPreserves ==
    ASSUME LogInv, LogInv', ElectionInv, LeaderInv, MatchInv,
           NEW i \in Server, ElectionStep(i), NEW m \in Batches, SplicesLog(i, m)
    PROVE  MatchInv'
<1> DEFINE l == LogFragment(i)
           r == LogFragment(i)'
           b == BatchFragment(m)
<1>1. OthersStay(i) /\ Batches' = Batches /\ node'[i].state = Follower
    BY DEF ElectionStep, SplicesLog
<1>2. /\ l \in Fragments /\ l \in Fragment /\ r \in Fragment
      /\ b \in Fragments /\ b \in Fragment
      /\ l.start = 0 /\ r.start = 0 /\ l.entries = node[i].log.entries
      /\ r.entries = node'[i].log.entries
      /\ b.start = m.prevLogIndex /\ b.startTerm = m.prevLogTerm /\ b.entries = m.entries
    BY FragmentTypes, FragmentTypesNext
       DEF Fragments, LogFragment, BatchFragment, Entries
<1>3. Spliced(r.entries, node[i].log, b.entries, b.start)
    BY <1>2 DEF SplicesLog
<1>4. b.start # 0 => /\ b.start <= Len(l.entries)
                     /\ l.entries[b.start].term = b.startTerm
    BY <1>2 DEF SplicesLog, MatchesPrevLogTerm, InRange, TermAt, At
<1> HIDE DEF l, r, b
<1>5. CASE r.entries = l.entries
    <2>1. KeepsLog(i)
        BY <1>1, <1>2, <1>5 DEF KeepsLog
    <2> QED
        BY <2>1, KeepsPreserves
<1>6. ASSUME NEW first \in 1 .. Len(b.entries),
             b.start + first - 1 <= Len(l.entries),
             Len(r.entries) = b.start + Len(b.entries),
             \A k \in 1 .. b.start + first - 1 : r.entries[k] = l.entries[k],
             \A k \in b.start + first .. b.start + Len(b.entries) :
                 r.entries[k] = b.entries[k - b.start],
             \A k \in 1 .. first - 1 : l.entries[b.start + k].term = b.entries[k].term
      PROVE  MatchInv'
    <2>1. /\ b.start \in Nat /\ Len(b.entries) \in Nat /\ Len(l.entries) \in Nat
          /\ first \in Nat /\ 1 <= first /\ first <= Len(b.entries)
        BY <1>2, <1>6, PositionsSay
    <2>2. /\ \A p : p \in Positions(r) <=> p \in 1 .. b.start + Len(b.entries)
          /\ \A p : p \in Positions(l) <=> p \in 1 .. Len(l.entries)
          /\ \A p : p \in Positions(b) <=>
                     p \in Nat /\ 1 <= p /\ b.start <= p /\ p <= b.start + Len(b.entries)
        <3>1. \A p : p \in Positions(r) <=>
                     p \in Nat /\ 1 <= p /\ 0 <= p /\ p <= 0 + (b.start + Len(b.entries))
            BY <1>2, <1>6, PositionsSay, Zenon
        <3>2. \A p : p \in Positions(l) <=>
                     p \in Nat /\ 1 <= p /\ 0 <= p /\ p <= 0 + Len(l.entries)
            BY <1>2, PositionsSay, Zenon
        <3>3. \A p : p \in Positions(b) <=>
                     p \in Nat /\ 1 <= p /\ b.start <= p /\ p <= b.start + Len(b.entries)
            BY <1>2, PositionsSay, Zenon
        <3> QED
            BY <2>1, <3>1, <3>2, <3>3
    <2>3. /\ \A p \in Positions(r) : TermIn(r, p) = r.entries[p].term /\ p > r.start /\ p - r.start = p
          /\ \A p \in Positions(l) : TermIn(l, p) = l.entries[p].term /\ p > l.start /\ p - l.start = p
        BY <1>2, <2>1, <2>2 DEF TermIn
    <2>4. ASSUME NEW p \in Positions(r), p <= b.start + first - 1
          PROVE  p \in Positions(l) /\ Agree(r, l, p)
        <3>1. p \in 1 .. b.start + first - 1 /\ p \in 1 .. Len(l.entries)
            BY <1>6, <2>1, <2>2, <2>4
        <3>2. p \in Positions(l) /\ r.entries[p] = l.entries[p]
            BY <1>6, <2>2, <3>1
        <3> QED
            BY <2>3, <3>2 DEF Agree
    <2>5. ASSUME NEW p \in Positions(b), p > b.start, p <= b.start + first - 1
          PROVE  l.entries[p] = b.entries[p - b.start]
        <3> DEFINE z == b.start + (first - 1)
        <3>1. /\ z \in Positions(l) /\ z \in Positions(b) /\ p \in Positions(l)
              /\ z # b.start /\ z - b.start = first - 1 /\ first - 1 \in 1 .. first - 1
              /\ p <= z
            <4>1. /\ p \in Nat /\ 1 <= p
                  /\ z \in Nat /\ z > b.start /\ p <= z /\ z <= Len(l.entries)
                  /\ z <= b.start + Len(b.entries)
                BY <1>6, <2>1, <2>2, <2>5
            <4>2. z \in Positions(l) /\ z \in Positions(b) /\ p \in Positions(l)
                BY <2>1, <2>2, <4>1
            <4>3. z # b.start /\ z - b.start = first - 1 /\ first - 1 \in 1 .. first - 1
                BY <2>1, <4>1
            <4> QED
                BY <4>1, <4>2, <4>3
        <3>2. TermIn(l, z) = TermIn(b, z)
            <4>1. TermIn(b, z) = b.entries[first - 1].term
                BY <3>1, Zenon DEF TermIn
            <4>2. TermIn(l, z) = l.entries[z].term
                BY <2>3, <3>1
            <4>3. l.entries[z].term = b.entries[first - 1].term
                BY <1>6, <3>1
            <4> QED
                BY <4>1, <4>2, <4>3
        <3>3. Agree(l, b, p)
            BY <1>2, <2>5, <3>1, <3>2 DEF MatchInv, Matching
        <3> QED
            BY <2>3, <2>5, <3>1, <3>3 DEF Agree
    <2>6. ASSUME NEW p \in Positions(r), p > b.start
          PROVE  p \in Positions(b) /\ Agree(r, b, p)
        <3>1. p \in Positions(b) /\ p # b.start
            BY <2>1, <2>2, <2>6
        <3>2. r.entries[p] = b.entries[p - b.start]
            <4>1. CASE p <= b.start + first - 1
                <5>1. p \in 1 .. b.start + first - 1
                    BY <2>1, <2>2, <4>1
                <5> QED
                    BY <1>6, <2>5, <2>6, <3>1, <4>1, <5>1
            <4>2. CASE ~(p <= b.start + first - 1)
                <5>1. p \in b.start + first .. b.start + Len(b.entries)
                    BY <2>1, <2>2, <4>2
                <5> QED
                    BY <1>6, <5>1
            <4> QED
                BY <4>1, <4>2
        <3> QED
            BY <2>3, <3>1, <3>2 DEF Agree, TermIn
    <2>7. \A p \in Positions(r) : p <= b.start => p \in Positions(l) /\ Agree(r, l, p)
        <3> TAKE p \in Positions(r)
        <3>1. p <= b.start => p <= b.start + first - 1
            BY <2>1, <2>2
        <3> QED
            BY <2>4, <3>1
    <2>8. b.start # 0 => b.start \in Positions(l) /\ TermIn(l, b.start) = b.startTerm
        BY <1>4, <2>1, <2>2, <2>3
    <2>9. ASSUME NEW g \in Fragments
          PROVE  Matching(r, g)
        <3>1. g \in Fragment /\ Matching(l, g) /\ Matching(b, g)
            BY <1>2, FragmentTypes DEF MatchInv
        <3> QED
            BY <1>2, <2>6, <2>7, <2>8, <3>1, SplicedMatches
    <2>10. (\A f, g \in Fragments : Matching(f, g))'
        BY <1>1, <2>9, NewLogMatches DEF r
    <2>11. ASSUME NEW f \in Fragments', NEW p \in Positions(f)
           PROVE  \E g \in Fragments : p \in Positions(g) /\ TermIn(g, p) = TermIn(f, p)
        <3>1. f \in Fragments \/ f = r
            BY <1>1, FragmentsNext DEF r
        <3>2. CASE f = r
            <4>1. p <= b.start \/ p > b.start
                BY <2>1, <2>2, <3>2
            <4> QED
                BY <1>2, <2>6, <2>7, <3>2, <4>1 DEF Agree
        <3> QED
            BY <3>1, <3>2
    <2>12. \A j \in Server :
              node'[j].state = Leader => node'[j].log.entries = node[j].log.entries
        BY <1>1 DEF OthersStay, Leader, Follower
    <2>13. TermsAreClaimed' /\ LeadersHoldTheirTerm'
        BY <2>11, <2>12, OldStampsPreserve
    <2>14. \A j \in Server :
              node'[j].state = Leader => Claim(j, node'[j].currentTerm) \in SentClaims'
        BY LeadersHaveSpoken DEF MatchInv
    <2> QED
        BY <2>10, <2>13, <2>14 DEF MatchInv, Claim
<1> QED
    BY <1>2, <1>3, <1>5, <1>6, Zenon DEF Spliced

-----------------------------------------------------------------------------
(***************************************************************************)
(* Actions.                                                                *)
(***************************************************************************)

\* A call that keeps the entries and sends no batch.
LEMMA QuietLogStep ==
    ASSUME LogInv, NEW i \in Server, NEW r, Apply(i, r),
           r.node.log.entries = node[i].log.entries,
           \A m \in r.out : m.type # "AppendEntries"
    PROVE  LogStep(i)
<1>1. node'[i] = r.node /\ sent' = sent \cup r.out
    BY ApplySays
<1>2. Batches' = Batches
    BY <1>1 DEF Batches
<1> QED
    BY <1>1, <1>2 DEF LogStep, KeepsLog

\* A call that keeps the entries and sends parts of the log.
LEMMA BroadcastLogStep ==
    ASSUME LogInv, NEW i \in Server, NEW r, Apply(i, r), GoodNode(r.node),
           r.node.log.entries = node[i].log.entries,
           r.out = BroadcastAppendEntries(i, r.node)
    PROVE  LogStep(i)
<1>1. node'[i] = r.node /\ sent' = sent \cup r.out
    BY ApplySays
<1>2. \A p \in Peers[i] : IsPartOfLog(AppendEntriesTo(i, r.node, p), r.node.log)
    BY AppendEntriesToGood, PeersAssumption
<1>3. \A m \in r.out : IsPartOfLog(m, node[i].log)
    BY <1>2 DEF BroadcastAppendEntries, IsPartOfLog
<1>4. KeepsLog(i)
    BY <1>1, <1>3 DEF KeepsLog, Batches
<1> QED
    BY <1>4 DEF LogStep

\* Timeouts, heartbeats, crashes and restarts keep the entries.
LEMMA CallsKeepLog ==
    ASSUME LogInv, NEW i \in Server,
           ElectionTimeout(i) \/ Heartbeat(i) \/ Crash(i) \/ Restart(i)
    PROVE  LogStep(i)
<1> DEFINE n == node[i]
<1>1. GoodNode(n) /\ n \in NodeState
    BY LogInvSaysGood
<1>2. CASE ElectionTimeout(i)
    <2> DEFINE r == StartElection(i, n)
    <2>1. \A m \in r.out : m.type # "AppendEntries"
        BY DEF StartElection, Returns, RequestVote
    <2>2. r.node.log = n.log
        BY <1>1, ZenonT(30) DEF StartElection, Returns, NodeState
    <2>3. Apply(i, r)
        BY <1>2 DEF ElectionTimeout
    <2> HIDE DEF r
    <2> QED
        BY <2>1, <2>2, <2>3, QuietLogStep
<1>3. CASE Heartbeat(i)
    <2> DEFINE r == Returns(n, BroadcastAppendEntries(i, n), FALSE)
    <2>1. Apply(i, r) /\ r.node = n /\ r.out = BroadcastAppendEntries(i, r.node)
        BY <1>3 DEF Heartbeat, Returns
    <2> HIDE DEF r
    <2> QED
        BY <1>1, <2>1, BroadcastLogStep
<1>4. CASE Crash(i)
    <2> DEFINE r == Returns(NodeCrash(n), {}, FALSE)
    <2>1. r.node.log.entries = n.log.entries /\ r.out = {}
        BY <1>1, Zenon DEF Returns, NodeCrash, NodeState
    <2>2. Apply(i, r)
        BY <1>4, Zenon DEF Crash
    <2> HIDE DEF r
    <2> QED
        BY <2>1, <2>2, QuietLogStep
<1>5. CASE Restart(i)
    <2> DEFINE r == Returns(NodeRestart(n), {}, TRUE)
               l == LogAppend(NewLog, n.log.entries)
    <2>1. /\ NodeRestart(n) = [NewNode EXCEPT !.currentTerm = n.currentTerm,
                                              !.votedFor    = n.votedFor,
                                              !.log         = l]
          /\ l.entries = n.log.entries
        BY <1>1, NodeRestartRestores, Zenon
    <2> HIDE DEF l
    <2>2. NodeRestart(n).log = l
        BY <2>1 DEF NewNode
    <2>3. r.node.log.entries = n.log.entries /\ r.out = {}
        BY <2>1, <2>2, Zenon DEF Returns
    <2>4. Apply(i, r)
        BY <1>5, Zenon DEF Restart
    <2> HIDE DEF r
    <2> QED
        BY <2>3, <2>4, QuietLogStep
<1> QED
    BY <1>2, <1>3, <1>4, <1>5

\* Propose appends one entry of the leader's term.
LEMMA ProposeExtendsLog ==
    ASSUME LogInv, NEW i \in Server, NEW cmd \in Command, Propose(i, cmd)
    PROVE  LogStep(i)
<1> DEFINE n == node[i]
           l == n.log
           e == [term |-> n.currentTerm, index |-> LastIndex(l) + 1, command |-> cmd]
           r == Returns(NodePropose(n, cmd), {}, FALSE)
<1>1. n \in NodeState /\ WellFormed(l) /\ l \in Log
    BY DEF LogInv, TypeOK, WellFormed
<1>2. /\ l.entries \in Seq(Entry) /\ Len(l.entries) \in Nat
      /\ LastIndex(l) = Len(l.entries) /\ n.currentTerm \in Nat
    BY <1>1, LastIndexIsLength DEF NodeState
<1>3. e \in Entry /\ e.term = n.currentTerm /\ e.index = Len(l.entries) + 1
    BY <1>2 DEF Entry
<1>4. NodePropose(n, cmd) = [n EXCEPT !.log = LogAppend(l, <<e>>)]
    BY DEF NodePropose
<1>5. /\ Apply(i, r) /\ n.state = Leader
      /\ r.node = NodePropose(n, cmd) /\ r.out = {}
    BY DEF Propose, Returns
<1> HIDE DEF e, l, r
<1>6. Contiguous(<<e>>) /\ Missing(l, <<e>>) = {1}
    BY <1>2, <1>3 DEF Contiguous, Missing, InRange
<1>7. Min({1}) = 1
    BY DEF Min
<1>8. LogAppend(l, <<e>>) = AppendTail(l, SubSeq(<<e>>, 1, 1))
    <2>1. /\ <<e>>[1] = e /\ Len(<<e>>) = 1
          /\ ~InRange(l, e.index) /\ {1} # {}
        BY <1>2, <1>3 DEF InRange
    <2> QED
        BY <1>6, <1>7, <2>1, Zenon DEF LogAppend, AppendFrom
<1>9. SubSeq(<<e>>, 1, 1) = <<e>>
    <2>1. <<e>> \in Seq(Entry) /\ Len(<<e>>) = 1
        BY <1>3
    <2> QED
        BY <2>1, WholeSeq, Zenon
<1>10. LogAppend(l, <<e>>).entries = l.entries \o <<e>>
    BY <1>1, <1>8, <1>9 DEF AppendTail, Log, l
<1>11. l.entries \o <<e>> = Append(l.entries, e)
    BY <1>2, <1>3, OneMore
<1>12. /\ r.node.log.entries = Append(l.entries, e)
       /\ r.node.currentTerm = n.currentTerm
    BY <1>1, <1>4, <1>5, <1>10, <1>11 DEF NodeState
<1>13. node'[i] = r.node /\ sent' = sent
    BY <1>5, ApplySays
<1>14. ExtendsLog(i)
    BY <1>3, <1>5, <1>12, <1>13 DEF ExtendsLog, Batches, l
<1> QED
    BY <1>14 DEF LogStep

\* stepDown keeps the entries.
LEMMA StepDownKeepsLog ==
    ASSUME LogInv, NEW i \in Server, NEW t, Apply(i, StepDown(node[i], t))
    PROVE  LogStep(i)
<1> DEFINE r == StepDown(node[i], t)
<1>1. node[i] \in NodeState
    BY DEF LogInv, TypeOK
<1>2. r.node.log = node[i].log /\ r.out = {}
    BY <1>1, ZenonT(30) DEF StepDown, Returns, NodeState
<1> HIDE DEF r
<1> QED
    BY <1>2, QuietLogStep DEF r

\* handleRequestVote keeps the entries.
LEMMA RequestVoteKeepsLog ==
    ASSUME LogInv, NEW i \in Server, NEW m \in net, ReceiveRequestVote(i, m)
    PROVE  LogStep(i)
<1> DEFINE n == node[i]
           r == HandleRequestVote(i, n, m)
           f == IF m.term > n.currentTerm
                THEN [n EXCEPT !.currentTerm = m.term,
                               !.votedFor    = Nil,
                               !.state       = Follower,
                               !.leaderID    = Nil]
                ELSE n
           grant == /\ m.term >= n.currentTerm
                    /\ f.votedFor \in {Nil, m.from}
                    /\ IsUpToDate(f, m.lastLogIndex, m.lastLogTerm)
<1>1. n \in NodeState /\ m \in Message /\ Apply(i, r)
    BY DEF LogInv, TypeOK, ReceiveRequestVote
<1>2. m.from \in Server /\ m.term \in Nat
    BY <1>1, MessageFields
<1>3. /\ r.node = IF grant THEN [f EXCEPT !.votedFor = m.from] ELSE f
      /\ r.out = {RequestVoteResp(i, m.from, f.currentTerm, grant)}
    BY DEF HandleRequestVote, Returns
<1>4. f \in NodeState /\ f.log = n.log
    BY <1>1, <1>2, ZenonT(30) DEF NodeState
<1> HIDE DEF f, grant, r
<1>5. r.node.log = n.log
    BY <1>3, <1>4 DEF NodeState
<1>6. \A x \in r.out : x.type # "AppendEntries"
    BY <1>3 DEF RequestVoteResp
<1> QED
    BY <1>1, <1>5, <1>6, QuietLogStep

\* handleRequestVoteResp keeps the entries; becoming leader sends parts of them.
LEMMA RequestVoteRespKeepsLog ==
    ASSUME LogInv, NEW i \in Server, NEW m \in net, ReceiveRequestVoteResp(i, m)
    PROVE  LogStep(i)
<1> DEFINE n == node[i]
           c == IF (m.term = n.currentTerm /\ n.state = Candidate) /\ m.granted
                THEN [n EXCEPT !.votesGranted = n.votesGranted \cup {m.from}]
                ELSE n
           r == HandleRequestVoteResp(i, n, m)
<1>1. GoodNode(n) /\ m \in Message /\ Apply(i, r)
    BY LogInvSaysGood DEF LogInv, TypeOK, ReceiveRequestVoteResp
<1>2. m.from \in Server
    BY <1>1, MessageFields
<1>3. GoodNode(c) /\ c.log = n.log
    <2>1. n \in NodeState /\ n.votesGranted \cup {m.from} \in SUBSET Server
        BY <1>1, <1>2 DEF GoodNode, NodeState
    <2>2. c \in NodeState /\ c.log = n.log
        BY <2>1, ZenonT(30) DEF NodeState
    <2> HIDE DEF c
    <2> QED
        BY <1>1, <2>2 DEF GoodNode
<1>4. \/ r = StepDown(n, m.term)
      \/ r = BecomeLeader(i, c)
      \/ r = Returns(c, {}, FALSE)
    BY ZenonT(30) DEF HandleRequestVoteResp
<1> HIDE DEF c, r
<1>5. CASE r = StepDown(n, m.term)
    BY <1>1, <1>5, StepDownKeepsLog
<1>6. CASE r = BecomeLeader(i, c)
    <2>1. GoodNode(r.node)
        BY <1>3, <1>6, BecomeLeaderGood DEF GoodResult
    <2>2. r.node.log = c.log /\ r.out = BroadcastAppendEntries(i, r.node)
        BY <1>3, <1>6, ZenonT(30) DEF BecomeLeader, Returns, GoodNode, NodeState
    <2> QED
        BY <1>1, <1>3, <2>1, <2>2, BroadcastLogStep
<1>7. CASE r = Returns(c, {}, FALSE)
    BY <1>1, <1>3, <1>7, QuietLogStep DEF Returns
<1> QED
    BY <1>4, <1>5, <1>6, <1>7, Zenon

\* handleAppendEntries keeps the entries, or splices the batch into them.
LEMMA AppendEntriesSplicesLog ==
    ASSUME LogInv, NEW i \in Server, NEW m \in net, ReceiveAppendEntries(i, m)
    PROVE  LogStep(i)
<1> DEFINE n == node[i]
           f == RecognizeLeader(n, m)
           success == /\ MatchesPrevLogTerm(f.log, m.prevLogIndex, m.prevLogTerm)
                      /\ Contiguous(m.entries)
           l == AcceptEntries(f.log, m)
           r == HandleAppendEntries(i, n, m)
<1>1. /\ GoodNode(n) /\ GoodMessage(m) /\ m \in Message
      /\ m \in Batches /\ m.type = "AppendEntries" /\ Apply(i, r)
    BY LogInvSaysGood DEF LogInv, TypeOK, ReceiveAppendEntries, Receive, Batches
<1>2. GoodNode(f) /\ f.log = n.log /\ f \in NodeState
    BY <1>1, RecognizeLeaderGood DEF GoodNode
<1>3. f.state = Follower
    <2>1. n \in NodeState /\ m.from \in Server /\ m.term \in Nat
        BY <1>1, MessageFields DEF GoodNode
    <2> QED
        BY <2>1, SMTT(30) DEF RecognizeLeader, NodeState
<1>4. \A x \in r.out : x.type # "AppendEntries"
    BY DEF HandleAppendEntries, Returns, AppendEntriesResp
<1>5. \/ r.node = n
      \/ r.node = f
      \/ success /\ r.node = [f EXCEPT !.log = l]
    BY ZenonT(30) DEF HandleAppendEntries, Returns
<1> HIDE DEF f, r
<1>6. CASE r.node = n \/ r.node = f
    BY <1>1, <1>2, <1>4, <1>6, QuietLogStep
<1>7. CASE success /\ r.node = [f EXCEPT !.log = l]
    <2>1. MatchesPrevLogTerm(n.log, m.prevLogIndex, m.prevLogTerm) /\ WellFormed(n.log)
        BY <1>1, <1>2, <1>7 DEF GoodNode
    <2>2. Spliced(l.entries, n.log, m.entries, m.prevLogIndex)
        BY <1>1, <1>2, <2>1, AcceptEntriesGood
    <2> HIDE DEF l
    <2>3. r.node.log = l /\ r.node.state = Follower
        BY <1>2, <1>3, <1>7 DEF NodeState
    <2>4. node'[i] = r.node /\ sent' = sent \cup r.out
        BY <1>1, ApplySays
    <2>5. SplicesLog(i, m)
        BY <1>4, <2>1, <2>2, <2>3, <2>4 DEF SplicesLog, Batches
    <2> QED
        BY <1>1, <2>5 DEF LogStep
<1> QED
    BY <1>5, <1>6, <1>7

\* handleAppendEntriesResp keeps the entries; it only commits.
LEMMA AppendEntriesRespKeepsLog ==
    ASSUME LogInv, NEW i \in Server, NEW m \in net, ReceiveAppendEntriesResp(i, m)
    PROVE  LogStep(i)
<1> DEFINE n == node[i]
           a == [n EXCEPT !.matchIndex[m.from] = m.matchIndex,
                          !.nextIndex[m.from]  = m.matchIndex + 1]
           b == [n EXCEPT !.nextIndex[m.from] = IF @ > 1 THEN @ - 1 ELSE @]
           r == HandleAppendEntriesResp(i, n, m)
<1>1. /\ GoodNode(n) /\ n \in NodeState /\ WellFormed(n.log)
      /\ m \in Message /\ m.type = "AppendEntriesResp" /\ Apply(i, r)
    BY LogInvSaysGood DEF LogInv, TypeOK, ReceiveAppendEntriesResp, Receive
<1>2. m.from \in Server /\ m.matchIndex \in Nat
    BY <1>1, MessageFields
<1>3. GoodNode(a) /\ a.log = n.log
    <2>1. m.matchIndex + 1 \in Nat
        BY <1>2
    <2>2. a \in NodeState /\ a.log = n.log
        BY <1>1, <1>2, <2>1, ZenonT(30) DEF NodeState
    <2> QED
        BY <1>1, <2>2 DEF GoodNode
<1>4. b.log = n.log
    BY <1>1 DEF NodeState
<1>5. \/ r = StepDown(n, m.term)
      \/ r = Returns(AdvanceCommit(i, a), {}, FALSE)
      \/ r = Returns(b, {}, FALSE)
      \/ r = Returns(n, {}, FALSE)
    BY ZenonT(30) DEF HandleAppendEntriesResp
<1> HIDE DEF a, b, r
<1>6. AdvanceCommit(i, a).log.entries = n.log.entries
    BY <1>3, AdvanceCommitGood
<1>7. CASE r = StepDown(n, m.term)
    BY <1>1, <1>7, StepDownKeepsLog
<1>8. CASE r # StepDown(n, m.term)
    BY <1>1, <1>4, <1>5, <1>6, <1>8, QuietLogStep DEF Returns
<1> QED
    BY <1>7, <1>8

\* Every step of a node is a log step, one case for each action.
LEMMA NodeStepIsLogStep ==
    ASSUME LogInv, NEW i \in Server, NodeStep(i)
    PROVE  LogStep(i)
<1>1. CASE ElectionTimeout(i) \/ Heartbeat(i) \/ Crash(i) \/ Restart(i)
    BY <1>1, CallsKeepLog
<1>2. CASE \E cmd \in Command : Propose(i, cmd)
    BY <1>2, ProposeExtendsLog
<1>3. CASE \E m \in net : Step(i, m)
    BY <1>3, RequestVoteKeepsLog, RequestVoteRespKeepsLog, AppendEntriesSplicesLog,
       AppendEntriesRespKeepsLog DEF Step
<1> QED
    BY <1>1, <1>2, <1>3, ZenonT(30) DEF NodeStep

-----------------------------------------------------------------------------
(***************************************************************************)
(* The theorems.                                                           *)
(***************************************************************************)

\* All logs are empty at the start and nothing has been sent.
LEMMA MatchInvInit == Init => MatchInv
<1> SUFFICES ASSUME Init PROVE MatchInv
    OBVIOUS
<1>1. Batches = {} /\ \A i \in Server : Entries(i) = <<>> /\ node[i].state = Follower
    BY DEF Init, Batches, Entries, NewNode, NewLog
<1>2. \A f \in Fragments : f.start = 0 /\ f.entries = <<>>
    BY <1>1 DEF Fragments, LogFragment
<1>3. \A f \in Fragments : Positions(f) = {}
    BY <1>2 DEF Positions
<1> QED
    BY <1>1, <1>3 DEF MatchInv, Matching, TermsAreClaimed, LeadersHoldTheirTerm,
                      Follower, Leader

\* Every step preserves the invariant.
LEMMA MatchInvStep ==
    ASSUME OthersArePeers, LogInv, LogInv', ElectionInv, LeaderInv, MatchInv, [Next]_vars
    PROVE  MatchInv'
<1>1. CASE Next
    <2>1. PICK i \in Server : NodeStep(i)
        BY <1>1 DEF Next, NodeStep
    <2>2. ElectionStep(i) /\ LogStep(i)
        BY <2>1, NodeStepElects, NodeStepIsLogStep
    <2> QED
        BY <2>2, KeepsPreserves, ExtendsPreserves, SplicesPreserves DEF LogStep
<1>2. CASE UNCHANGED vars
    <2>1. node' = node /\ sent' = sent
        BY <1>2 DEF vars
    <2>2. /\ Fragments' = Fragments /\ SentClaims' = SentClaims
          /\ \A i \in Server : Entries(i)' = Entries(i)
        BY <2>1 DEF Fragments, LogFragment, BatchFragment, Batches, Entries, SentClaims, Claim
    <2>3. (\A f, g \in Fragments : Matching(f, g))'
        BY <2>2 DEF MatchInv, Matching, Agree, Positions, TermIn
    <2>4. TermsAreClaimed'
        BY <2>2 DEF MatchInv, TermsAreClaimed, Positions, TermIn
    <2>5. LeadersHoldTheirTerm'
        <3>1. LeadersHoldTheirTerm
            BY Zenon DEF MatchInv
        <3>. QED
            BY <2>1, <2>2, <3>1, Zenon DEF LeadersHoldTheirTerm, Positions, TermIn
    <2> QED
        BY <2>1, <2>2, <2>3, <2>4, <2>5 DEF MatchInv, Claim
<1> QED
    BY <1>1, <1>2

\* Logs and batches match in every cluster of mutual peers: two of them that carry
\* the same term at one index are the same up to it, and what is stamped with a
\* leader's term is in that leader's log.
THEOREM MatchInvariant ==
    ASSUME OthersArePeers
    PROVE  Spec => []MatchInv
<1>1. LogInv /\ LogInv' /\ ElectionInv /\ LeaderInv /\ MatchInv /\ [Next]_vars => MatchInv'
    BY MatchInvStep
<1> QED
    BY <1>1, MatchInvInit, LogInvariant, ElectionInvariant, LeaderInvariant, PTL DEF Spec

\* Two logs that agree on the term of an entry are the same up to that entry,
\* however many nodes there are and whatever batches arrive late, twice or out of
\* order: the check of handleAppendEntries and the truncation in Append suffice.
THEOREM LogsMatch ==
    ASSUME OthersArePeers
    PROVE  Spec => []LogMatching
<1>1. ASSUME LogInv, MatchInv PROVE LogMatching
    <2> SUFFICES ASSUME NEW i \in Server, NEW j \in Server,
                        NEW k \in 1 .. Min({Len(Entries(i)), Len(Entries(j))}),
                        Entries(i)[k].term = Entries(j)[k].term
                 PROVE  SubSeq(Entries(i), 1, k) = SubSeq(Entries(j), 1, k)
        BY DEF LogMatching
    <2> DEFINE f == LogFragment(i)
               g == LogFragment(j)
    <2>1. /\ f \in Fragments /\ g \in Fragments /\ f \in Fragment /\ g \in Fragment
          /\ f.start = 0 /\ f.entries = Entries(i)
          /\ g.start = 0 /\ g.entries = Entries(j)
        BY <1>1, FragmentTypes DEF Fragments, LogFragment
    <2> HIDE DEF f, g
    <2>2. /\ Entries(i) \in Seq(Entry) /\ Len(Entries(i)) \in Nat
          /\ Entries(j) \in Seq(Entry) /\ Len(Entries(j)) \in Nat
        BY <2>1, LengthOfSeq DEF Fragment
    <2>3. k \in 1 .. Len(Entries(i)) /\ k \in 1 .. Len(Entries(j)) /\ k \in Nat
        BY <2>2, MinOfTwo
    <2>4. \A p \in 1 .. k : /\ p \in Positions(f) /\ p \in Positions(g) /\ p # 0
                            /\ p - 0 = p /\ p > 0 /\ p <= k
        <3> TAKE p \in 1 .. k
        <3>1. /\ p \in Nat /\ 1 <= p /\ 0 <= p /\ p <= k /\ p # 0 /\ p - 0 = p /\ p > 0
              /\ p <= 0 + Len(Entries(i)) /\ p <= 0 + Len(Entries(j))
            BY <2>2, <2>3
        <3> QED
            BY <2>1, <3>1, PositionsSay, Zenon
    <2>5. k \in 1 .. k
        BY <2>3
    <2>6. TermIn(f, k) = TermIn(g, k)
        BY <2>1, <2>4, <2>5 DEF TermIn
    <2>7. \A p \in 1 .. k : Entries(i)[p] = Entries(j)[p]
        <3> TAKE p \in 1 .. k
        <3>1. Agree(f, g, p)
            BY <1>1, <2>1, <2>4, <2>5, <2>6 DEF MatchInv, Matching
        <3> QED
            BY <2>1, <2>4, <3>1 DEF Agree
    <2>8. /\ SubSeq(Entries(i), 1, k) = [p \in 1 .. k |-> Entries(i)[p]]
          /\ SubSeq(Entries(j), 1, k) = [p \in 1 .. k |-> Entries(j)[p]]
        BY <2>2, <2>3
    <2> QED
        BY <2>7, <2>8
<1>2. LogInv /\ MatchInv => LogMatching
    BY <1>1
<1> QED
    BY <1>2, LogInvariant, MatchInvariant, PTL

\* A leader holds every entry of its term that exists anywhere, in any cluster of
\* mutual peers: only Propose on the one leader of the term creates them.
THEOREM LeadersHoldTheirEntries ==
    ASSUME OthersArePeers
    PROVE  Spec => []LeaderHoldsItsTerm
<1>1. ASSUME LogInv, MatchInv PROVE LeaderHoldsItsTerm
    <2>1. ASSUME NEW i \in Server, node[i].state = Leader,
                 NEW g \in Fragments, NEW k \in 1 .. Len(g.entries),
                 g.entries[k].term = node[i].currentTerm
          PROVE  /\ g.start + k <= Len(Entries(i))
                 /\ Entries(i)[g.start + k] = g.entries[k]
        <3> DEFINE f == LogFragment(i)
                   p == g.start + k
        <3>1. /\ f \in Fragments /\ f \in Fragment /\ g \in Fragment
              /\ f.start = 0 /\ f.entries = Entries(i)
            BY <1>1, FragmentTypes DEF Fragments, LogFragment
        <3> HIDE DEF f
        <3>2. p \in Positions(g) /\ p - g.start = k /\ p # g.start /\ p > g.start /\ p \in Nat
            BY <3>1, PositionsSay
        <3>3. TermIn(g, p) = node[i].currentTerm
            BY <2>1, <3>2, Zenon DEF TermIn
        <3>4. p <= Len(Entries(i)) /\ Entries(i)[p].term = node[i].currentTerm
            BY <1>1, <2>1, <3>2, <3>3 DEF MatchInv, LeadersHoldTheirTerm
        <3>5. p \in Positions(f) /\ p - f.start = p /\ p # f.start /\ p > f.start /\ p <= p
            BY <3>1, <3>2, <3>4, PositionsSay
        <3>6. TermIn(f, p) = TermIn(g, p)
            BY <3>1, <3>3, <3>4, <3>5, Zenon DEF TermIn
        <3>7. Agree(f, g, p)
            BY <1>1, <3>1, <3>2, <3>5, <3>6 DEF MatchInv, Matching
        <3> QED
            BY <3>1, <3>2, <3>4, <3>5, <3>7, Zenon DEF Agree
    <2>2. ASSUME NEW i \in Server, node[i].state = Leader,
                 NEW j \in Server, NEW k \in 1 .. Len(Entries(j)),
                 Entries(j)[k].term = node[i].currentTerm
          PROVE  k <= Len(Entries(i)) /\ Entries(i)[k] = Entries(j)[k]
        <3>1. /\ LogFragment(j) \in Fragments /\ LogFragment(j).start = 0
              /\ LogFragment(j).entries = Entries(j) /\ 0 + k = k
            BY DEF Fragments, LogFragment
        <3> QED
            BY <2>1, <2>2, <3>1
    <2>3. ASSUME NEW i \in Server, node[i].state = Leader,
                 NEW m \in net, m.type = "AppendEntries", NEW k \in 1 .. Len(m.entries),
                 m.entries[k].term = node[i].currentTerm
          PROVE  /\ m.prevLogIndex + k <= Len(Entries(i))
                 /\ Entries(i)[m.prevLogIndex + k] = m.entries[k]
        <3>1. /\ BatchFragment(m) \in Fragments
              /\ BatchFragment(m).start = m.prevLogIndex
              /\ BatchFragment(m).entries = m.entries
            BY <1>1, <2>3 DEF Fragments, BatchFragment, Batches, LogInv, TypeOK
        <3> QED
            BY <2>1, <2>3, <3>1
    <2> QED
        BY <2>2, <2>3 DEF LeaderHoldsItsTerm
<1>2. LogInv /\ MatchInv => LeaderHoldsItsTerm
    BY <1>1
<1> QED
    BY <1>2, LogInvariant, MatchInvariant, PTL

=============================================================================
