----------------------------- MODULE RumorOrder -----------------------------
(***************************************************************************)
(* What the rumor layer promises to the protocols above it, for the rumors *)
(* of one origin: every peer processes them in the order of their sequence *)
(* numbers, each once, and never one that was not broadcast.  This is what *)
(* `rumors' and `accepted' of Pbft assume.                                 *)
(***************************************************************************)
EXTENDS Naturals

CONSTANTS Peer

VARIABLES
  sent,         \* how many rumors the origin has broadcast
  accepted      \* how many of them each peer has processed

orderVars == <<sent, accepted>>

Init ==
  /\ sent = 0
  /\ accepted = [p \in Peer |-> 0]

Broadcast ==
  /\ sent' = sent + 1
  /\ UNCHANGED accepted

Accept(p) ==
  /\ accepted[p] < sent
  /\ accepted' = [accepted EXCEPT ![p] = @ + 1]
  /\ UNCHANGED sent

Next == Broadcast \/ \E p \in Peer : Accept(p)

Spec == Init /\ [][Next]_orderVars
=============================================================================
