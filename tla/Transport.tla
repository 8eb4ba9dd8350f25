----------------------------- MODULE Transport -----------------------------
(***************************************************************************)
(* The in-memory transport: internal/transport/transport.go.               *)
(*                                                                         *)
(* Any goroutine may call any method.  A method holds the mutex from its   *)
(* first to its last statement, so each call is one action and the calls   *)
(* of different goroutines interleave in every order.  A call that returns *)
(* an error changes nothing and is a stuttering step.                      *)
(*                                                                         *)
(* The messages are numbered in the order in which Send accepts them.      *)
(***************************************************************************)
EXTENDS Naturals, Sequences, FiniteSets

CONSTANTS
    Id,         \* the ids callers may name
    Peers,      \* the ids handed to NewInMemory
    MaxSent     \* bound: how many messages are sent

VARIABLES
    mailbox,    \* the Go map: its domain is the set of ids it has a key for
    closed,
    accepted,   \* history: accepted[i], the messages Send took for i, in order
    received,   \* history: received[i], what Receive(i) returned, in order
    discarded   \* history: the messages that Reset and Drop threw away

history == <<accepted, received, discarded>>
vars == <<mailbox, closed, history>>

Init ==
    /\ mailbox = [i \in Peers |-> <<>>]
    /\ closed = FALSE
    /\ accepted = [i \in Id |-> <<>>]
    /\ received = [i \in Id |-> <<>>]
    /\ discarded = {}

-----------------------------------------------------------------------------
Known == DOMAIN mailbox

\* What the map holds for i: a missing key reads as the empty slice.
Pending(i) == IF i \in Known THEN mailbox[i] ELSE <<>>

\* The assignment t.mailbox[i] = nil, which adds the key when it is missing.
Emptied(i) == [j \in Known \cup {i} |-> IF j = i THEN <<>> ELSE mailbox[j]]

Messages(s) == {s[k] : k \in 1 .. Len(s)}

NextMessage == 1 + Cardinality(UNION {Messages(accepted[i]) : i \in Id})

Send(i) ==
    /\ ~closed
    /\ i \in Known
    /\ NextMessage <= MaxSent
    /\ mailbox' = [mailbox EXCEPT ![i] = Append(@, NextMessage)]
    /\ accepted' = [accepted EXCEPT ![i] = Append(@, NextMessage)]
    /\ UNCHANGED <<closed, received, discarded>>

\* Mutant: the mailbox is not drained.
ReceiveKeeps(i) ==
    /\ ~closed
    /\ mailbox' = [j \in Known \cup {i} |-> Pending(j)]
    /\ received' = [received EXCEPT ![i] = @ \o Pending(i)]
    /\ UNCHANGED <<closed, accepted, discarded>>

\* Mutant: the mailbox is cleared before it is read.
ReceiveClearsFirst(i) ==
    /\ ~closed
    /\ mailbox' = Emptied(i)
    /\ UNCHANGED <<closed, history>>

\* Mutant: closed is not tested.
ReceiveWhenClosed(i) ==
    /\ mailbox' = Emptied(i)
    /\ received' = [received EXCEPT ![i] = @ \o Pending(i)]
    /\ UNCHANGED <<closed, accepted, discarded>>

Receive(i) ==
    /\ ~closed
    /\ mailbox' = Emptied(i)
    /\ received' = [received EXCEPT ![i] = @ \o Pending(i)]
    /\ UNCHANGED <<closed, accepted, discarded>>

Close ==
    /\ closed' = TRUE
    /\ UNCHANGED <<mailbox, history>>

\* Reset and Drop do not look at closed.
Reset ==
    /\ mailbox' = [j \in Known |-> <<>>]
    /\ discarded' = discarded \cup UNION {Messages(mailbox[j]) : j \in Known}
    /\ UNCHANGED <<closed, accepted, received>>

Drop(i) ==
    /\ mailbox' = Emptied(i)
    /\ discarded' = discarded \cup Messages(Pending(i))
    /\ UNCHANGED <<closed, accepted, received>>

Next ==
    \/ Close
    \/ Reset
    \/ \E i \in Id : Send(i) \/ Receive(i) \/ Drop(i)

\* Every peer keeps asking for its messages.
Fairness == \A i \in Peers : WF_vars(Receive(i))

Spec == Init /\ [][Next]_vars /\ Fairness

-----------------------------------------------------------------------------
(***************************************************************************)
(* Properties.                                                             *)
(***************************************************************************)

\* Whatever calls of other goroutines come between, each message that Send
\* accepted is received once and in the order of the Sends, unless Reset or
\* Drop threw it away: the numbers of what was received and then of what is
\* pending only increase, and they are those of the messages accepted and not
\* discarded (transport.go:45-69, 97-111).
InOrderOnce ==
    \A i \in Id :
        LET s == received[i] \o Pending(i)
        IN  /\ \A j, k \in 1 .. Len(s) : j < k => s[j] < s[k]
            /\ Messages(s) = Messages(accepted[i]) \ discarded

\* Close is final for every goroutine: no call that comes after it, whatever is
\* still pending, hands out or takes in a message.
ClosedIsFinal ==
    [][closed => closed' /\ UNCHANGED <<accepted, received>>]_vars

\* A message in a peer's mailbox is eventually received, unless it is thrown
\* away or the transport is closed, however many Sends and Resets interfere.
EventuallyReceived ==
    \A i \in Peers, m \in 1 .. MaxSent :
        m \in Messages(Pending(i))
        ~> (m \in Messages(received[i]) \/ m \in discarded \/ closed)

=============================================================================
