----------------------------- MODULE Elections -----------------------------
(***************************************************************************)
(* What elections promise, without votes, messages and logs: terms never   *)
(* go back, a term has at most one leader, and a node that recognises a    *)
(* leader recognises the leader of its term.  Raft implements it (see      *)
(* RaftInvariants and RaftElectionProofs).                                 *)
(***************************************************************************)
EXTENDS Naturals

CONSTANTS Server, Nil

VARIABLES
    term,       \* term[i]: the term node i is in
    leader,     \* leader[i]: the leader node i recognises, or Nil
    claims      \* who has led which term

vars == <<term, leader, claims>>

Init ==
    /\ term = [i \in Server |-> 0]
    /\ leader = [i \in Server |-> Nil]
    /\ claims = {}

\* Only node i changes what it knows.
OnlyAt(i) ==
    /\ term' = [term EXCEPT ![i] = term'[i]]
    /\ leader' = [leader EXCEPT ![i] = leader'[i]]

\* Node i enters a later term, to campaign or because it heard of it.
Advance(i) ==
    /\ OnlyAt(i)
    /\ term'[i] > term[i]
    /\ leader'[i] = Nil
    /\ UNCHANGED claims

\* Node i is the leader of its term, which nobody else has led.
Lead(i) ==
    /\ OnlyAt(i)
    /\ term'[i] = term[i]
    /\ leader'[i] = i
    /\ \A c \in claims : c.term = term[i] => c.leader = i
    /\ claims' = claims \cup {[leader |-> i, term |-> term[i]]}

\* Node i hears of the leader of its own or a later term.
Follow(i) ==
    /\ OnlyAt(i)
    /\ \E c \in claims : /\ c.term >= term[i]
                         /\ term'[i] = c.term
                         /\ leader'[i] = c.leader
    /\ UNCHANGED claims

\* Node i crashes or restarts: it keeps its term and nothing else.
Forget(i) ==
    /\ OnlyAt(i)
    /\ term'[i] = term[i]
    /\ leader'[i] = Nil
    /\ UNCHANGED claims

Next == \E i \in Server : Advance(i) \/ Lead(i) \/ Follow(i) \/ Forget(i)

Spec == Init /\ [][Next]_vars

=============================================================================
