------------------------------- MODULE Peers -------------------------------
(***************************************************************************)
(* What peers need besides the node, composed.  The timers and their       *)
(* configuration, the transport, the membership and the peer tracker share *)
(* no state and never call each other, so a behaviour exercises one of     *)
(* them, part, and the others stay as they are.                            *)
(***************************************************************************)
EXTENDS Timing, FiniteSets

CONSTANTS
    MailId, MailPeers, MaxSent,     \* Transport
    MemberId, MaxPeers,             \* MemberList
    Follower, LastIndex             \* PeerTracker

ASSUME PeersAssumption ==
    /\ IsFiniteSet(MailId)
    /\ MailPeers \subseteq MailId
    /\ MaxSent \in Nat
    /\ MemberId \subseteq Nat
    /\ MaxPeers \in Nat
    /\ IsFiniteSet(Follower)
    /\ LastIndex \in Nat

VARIABLES
    part,
    mailbox, closed, accepted, received, discarded,     \* Transport
    list, oldList,                                      \* MemberList
    tracked, stored                                     \* PeerTracker

mailVars == <<mailbox, closed, accepted, received, discarded>>
listVars == <<list, oldList>>
trackerVars == <<tracked, stored>>
peersVars == <<part, vars, mailVars, listVars, trackerVars>>

-----------------------------------------------------------------------------
Mail == INSTANCE Transport WITH Id <- MailId, Peers <- MailPeers

Members == INSTANCE MemberList WITH peers <- list, old <- oldList, Id <- MemberId

\* The answers of one follower arrive in order.
Tracker == INSTANCE PeerTracker WITH peers <- tracked, Peer <- Follower, InOrder <- TRUE

-----------------------------------------------------------------------------
(***************************************************************************)
(* One part at a time.  A part that is not exercised is in one initial     *)
(* state.                                                                  *)
(***************************************************************************)
PeersInit ==
    /\ part \in {"timing", "transport", "membership", "tracker"}
    /\ Init
    /\ part # "timing" => config = Default /\ election = NewTimer(config.electionTimeoutMin)
    /\ Mail!Init
    /\ Members!Init
    /\ part # "membership" => list = <<>>
    /\ Tracker!Init
    /\ part # "tracker" => tracked = <<>>

TimingStep(A) == part = "timing" /\ A /\ UNCHANGED <<part, mailVars, listVars, trackerVars>>

MailStep(A) == part = "transport" /\ A /\ UNCHANGED <<part, vars, listVars, trackerVars>>

PeersNext ==
    \/ TimingStep(Next)
    \/ MailStep(Mail!Next)
    \/ part = "membership" /\ Members!Next /\ UNCHANGED <<part, vars, mailVars, trackerVars>>
    \/ part = "tracker" /\ Tracker!Next /\ UNCHANGED <<part, vars, mailVars, listVars>>

\* The clock never stops, and every peer keeps asking for its messages.
PeersFairness ==
    /\ WF_peersVars(TimingStep(Tick))
    /\ \A i \in MailPeers : WF_peersVars(MailStep(Mail!Receive(i)))

PeersSpec == PeersInit /\ [][PeersNext]_peersVars /\ PeersFairness

-----------------------------------------------------------------------------
(***************************************************************************)
(* Properties.  NoElectionUnderLeader and LeaderIsMissed are Timing's.     *)
(***************************************************************************)

\* Each message that Send accepted is received once and in order, unless Reset or
\* Drop threw it away, whatever calls of other goroutines come between
\* (transport.go:45-69, 97-111).
InOrderOnce == Mail!InOrderOnce

\* No call after Close hands out or takes in a message (transport.go:45-79).
ClosedIsFinal == Mail!ClosedIsFinal

\* A message in a peer's mailbox is eventually received, unless it is thrown away
\* or the transport is closed (transport.go:58-69).
EventuallyReceived == Mail!EventuallyReceived

\* AddPeer and RemovePeer change the set of peers by one: the lists implement
\* Membership (membership.go:50-70).
ChangesOnePeer == Members!ChangesOnePeer

\* No two disjoint groups pass IsMajority in a configuration and in the one it
\* replaced (membership.go:34-37, 85-88).
MajoritiesOverlap == Members!MajoritiesOverlap

\* The order of changes does not matter to Equal (membership.go:13-19, 72-83).
OrderIsIrrelevant == Members!OrderIsIrrelevant

\* A node that is given OtherPeers counts votes against the quorum of the
\* configuration (membership.go:34-48, node.go:238-241).
NodesUseTheQuorum == Members!NodesUseTheQuorum

\* With answers in order QuorumMatch is the highest index that a majority has
\* really stored, for odd and for even clusters (peers.go:63-76).
QuorumMatchIsMajority == Tracker!QuorumMatchIsMajority

=============================================================================
