---------------------------- MODULE DecisionLog ----------------------------
(***************************************************************************)
(* What the PBFT tagging protocol promises, without messages or quorums.   *)
(* Every HR proposes requests, at most one under each index; every peer    *)
(* keeps one log per HR and appends proposals to it, each at most once.    *)
(* The specification leaves open when, whether and in which order a peer   *)
(* appends them: the code does not settle the order (see SameOrder in      *)
(* Pbft).                                                                  *)
(***************************************************************************)
EXTENDS Naturals, Sequences

CONSTANTS Peer, HR, Request, Index

VARIABLES
  proposed,     \* per HR, the blocks it proposed
  log           \* per peer and HR, the blocks the peer appended

logVars == <<proposed, log>>

Block == [index : Index, req : Request]

Init ==
  /\ proposed = [h \in HR |-> {}]
  /\ log = [p \in Peer |-> [h \in HR |-> <<>>]]

\* An HR proposes a request under an index it has not used.
Propose(h, b) ==
  /\ \A c \in proposed[h] : c.index # b.index
  /\ proposed' = [proposed EXCEPT ![h] = @ \cup {b}]
  /\ UNCHANGED log

\* A peer appends a proposal that its log does not hold yet.
Learn(p, h, b) ==
  /\ \A i \in 1..Len(log[p][h]) : log[p][h][i] # b
  /\ log' = [log EXCEPT ![p][h] = Append(@, b)]
  /\ UNCHANGED proposed

Next ==
  \E h \in HR : \/ \E b \in Block : Propose(h, b)
                \/ \E p \in Peer, b \in proposed[h] : Learn(p, h, b)

Spec == Init /\ [][Next]_logVars
=============================================================================
