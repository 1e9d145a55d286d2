------------------------------- MODULE MCPbft -------------------------------
(* Instances of Pbft for TLC: requests for one or two peers.               *)
EXTENDS PbftInv

CONSTANTS a, b, m1, m2

Req(h, x, y) == [hr |-> h, name |-> x, mh |-> y]

OneTag       == {Req(1, a, m1)}
TwoPeers     == {Req(1, a, m1), Req(2, a, m1)}
OnePeerTwice == {Req(1, a, m1), Req(1, b, m1)}
\* Peer 1 also tags a name that it has bound.
Sequential   == OnePeerTwice \cup {Req(1, a, m2)}

\* Part of the schedules of four peers, to reach deep states: 4 is malicious
\* before anybody tags and commits slot 5 before slot 6 is used; 1 and 2 take
\* nothing from 4; 2 is prepared with the help of 3 before 3 takes anything from
\* 4; and only 2 retries.
Scenario ==
  LET r1 == Req(1, a, m1)
      r2 == Req(2, a, m1)
  IN
  /\ role[4] = 1 \/ tag[r1] = "idle"
  /\ state[4][5] = 0 =>
       tag[r2] = "idle" /\ \A n \in 1..2, m \in 1..4 : accepted[n][m] = 0
  /\ accepted[1][4] = 0 /\ accepted[2][4] = 0
  /\ accepted[4][2] = 0 /\ accepted[4][1] <= 1 /\ accepted[4][3] <= 1
  /\ \A n \in 1..2 :
       accepted[n][3] > 0 => /\ accepted[2][1] > 0 /\ accepted[1][2] > 0
                             /\ accepted[3][2] > 0 /\ accepted[3][1] > 1
  /\ accepted[3][4] > 0 => state[3][6] = 1
  /\ sends[r1] <= 1
  /\ sends[r2] > 1 \/ state[3][6] = 1 =>
       /\ state[1][6] >= 1 /\ state[2][6] >= 1
       /\ accepted[3][1] >= 3 /\ accepted[3][2] > 1

\* Schedules without idle steps.  Peer 4 reads its role when it broadcasts a
\* Prepare and a Commit: it turns between the PrePrepare that it takes and its
\* own Commit, because earlier or later changes no other step.  The Tag looks
\* at its store only when the name is there, for it sends nothing more.
NoIdleSteps ==
  /\ role[4] = 1 =>
       /\ accepted[4][1] > 0
       /\ \A i \in 1..Len(rumors[4]) :
            rumors[4][i].type = "Commit" => rumors[4][i].id # pbftID[1]
  /\ \A r \in Calls : tag[r] = "send" => sends[r] < MaxSends
=============================================================================
