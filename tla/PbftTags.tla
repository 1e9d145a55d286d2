------------------------------- MODULE PbftTags -------------------------------
(***************************************************************************)
(* What Pbft guarantees when the Tags of one peer do not overlap           *)
(* (Concurrent = FALSE), also while peers turn malicious.  The invariant   *)
(* TagInv says that the PrePrepares for a slot all agree, that what the    *)
(* peers know about was broadcast, and that the quorums a good peer counts *)
(* are votes of that many peers.  It is inductive because                  *)
(*   - a peer assigns a slot to one Tag, and repeats only this Tag's       *)
(*     request in it until the Tag returns,                                *)
(*   - nobody but the owner of a slot broadcasts PrePrepares for it, and   *)
(*   - a malicious peer moves its votes to another slot, but its role does *)
(*     not change what it has logged.                                      *)
(* DurableInv follows when nobody is malicious.                            *)
(***************************************************************************)
EXTENDS PbftAgreement

-----------------------------------------------------------------------------
(* What was broadcast stays broadcast.                                     *)

LEMMA HasSentStable ==
  ASSUME RumorsGrow, NEW m \in Node, NEW t, NEW s, NEW d, HasSent(m, t, s, d)
  PROVE  HasSent(m, t, s, d)'
<1>1. PICK i \in 1..Len(rumors[m]) : rumors[m][i] = [type |-> t, id |-> s, digest |-> d]
  BY DEF HasSent
<1>2. i \in 1..Len(rumors'[m]) /\ rumors'[m][i] = rumors[m][i]
  BY DEF RumorsGrow
<1> QED BY <1>1, <1>2 DEF HasSent

LEMMA NodesFinite == IsFiniteSet(Node)
BY FS_Interval, PbftAssumption DEF Node

\* More peers than in a set of peers X have what Y says.
LEMMA MoreNodes ==
  ASSUME NEW X \in SUBSET Node, NEW Y \in SUBSET Node, X \subseteq Y
  PROVE  /\ Cardinality(X) \in Nat /\ Cardinality(Y) \in Nat
         /\ Cardinality(X) <= Cardinality(Y)
<1>1. IsFiniteSet(X) /\ IsFiniteSet(Y)
  BY NodesFinite, FS_Subset
<1> QED BY <1>1, FS_Subset, FS_CardinalityType

LEMMA SendersGrow ==
  ASSUME RumorsGrow, NEW t, NEW s, NEW d
  PROVE  /\ Cardinality(Senders(t, s, d)) \in Nat
         /\ Cardinality(Senders(t, s, d)') \in Nat
         /\ Cardinality(Senders(t, s, d)) <= Cardinality(Senders(t, s, d)')
<1>1. Senders(t, s, d) \subseteq Senders(t, s, d)'
  BY HasSentStable DEF Senders
<1>2. Senders(t, s, d) \in SUBSET Node /\ Senders(t, s, d)' \in SUBSET Node
  BY DEF Senders
<1> QED BY <1>1, <1>2, MoreNodes

LEMMA TwoThirdsNat == TwoThirds \in Nat
BY PbftAssumption DEF TwoThirds

-----------------------------------------------------------------------------
(* The steps that broadcast a vote.                                        *)

\* A single message is appended to the rumors of n.
Appended(n, v) ==
  /\ RumorsGrow
  /\ \E i \in 1..Len(rumors'[n]) : rumors'[n][i] = v
  /\ \A m \in Node : \A i \in 1..Len(rumors'[m]) :
       \/ i \in 1..Len(rumors[m])
       \/ m = n /\ i = Len(rumors[m]) + 1 /\ rumors'[m][i] = v

LEMMA OriginateAppends ==
  ASSUME TypeOK, NEW n \in Node, NEW v \in Message, Originate(n, <<v>>)
  PROVE  Appended(n, v)
<1> DEFINE msgs == <<v>>
<1>1. msgs \in Seq(Message) /\ Len(msgs) = 1 /\ msgs[1] = v
  OBVIOUS
<1>2. Originate(n, msgs) /\ rumors \in [Node -> Seq(Message)]
  BY DEF TypeOK
<1> HIDE DEF msgs
<1>3. /\ RumorsGrow
      /\ \A m \in Node : m # n => rumors'[m] = rumors[m]
  BY <1>1, <1>2, OriginateFacts DEF RumorsGrow
<1>4. /\ \A j \in 1..Len(msgs) :
           /\ Len(rumors[n]) + j \in 1..Len(rumors'[n])
           /\ rumors'[n][Len(rumors[n]) + j] = msgs[j]
      /\ \A i \in 1..Len(rumors'[n]) :
           \/ i \in 1..Len(rumors[n])
           \/ \E j \in 1..Len(msgs) : i = Len(rumors[n]) + j
  BY Zenon, <1>1, <1>2, OriginateAt
<1>5. \E i \in 1..Len(rumors'[n]) : rumors'[n][i] = v
  BY <1>1, <1>4
<1>6. ASSUME NEW m \in Node, NEW i \in 1..Len(rumors'[m]), i \notin 1..Len(rumors[m])
      PROVE  m = n /\ i = Len(rumors[m]) + 1 /\ rumors'[m][i] = v
  <2>1. m = n
    BY <1>3, <1>6
  <2>2. PICK j \in 1..Len(msgs) : i = Len(rumors[n]) + j
    BY <2>1, <1>4, <1>6
  <2> QED BY <2>1, <2>2, <1>1, <1>4
<1> QED BY <1>3, <1>5, <1>6 DEF Appended

\* A shifted slot is a slot.
LEMMA ShiftInSlot ==
  ASSUME NEW n \in Node, role[n] \in {0, 1}, NEW id \in Slot,
         role[n] = 1 => id + 1 <= MaxSlot
  PROVE  Shift(n, id) \in Slot
<1>1. N \in Nat /\ MaxSlot \in Nat
  BY PbftAssumption
<1> QED BY <1>1 DEF Shift, Slot

LEMMA BroadcastPrepareFacts ==
  ASSUME TypeInv, NEW n \in Node, BroadcastPrepare(n)
  PROVE  /\ pending[n] # NoPrepare
         /\ pending[n].id \in Slot /\ pending[n].digest \in Request
         /\ Shift(n, pending[n].id) \in Slot
         /\ Appended(n, [type |-> "Prepare", id |-> Shift(n, pending[n].id),
                         digest |-> pending[n].digest])
         /\ pending' = [pending EXCEPT ![n] = NoPrepare]
         /\ UNCHANGED <<pbftVars, storeVars, accepted, tagVars>>
<1> DEFINE p == [type |-> "Prepare", id |-> Shift(n, pending[n].id),
                 digest |-> pending[n].digest]
<1>1. /\ pending[n] # NoPrepare
      /\ Originate(n, <<p>>)
      /\ pending' = [pending EXCEPT ![n] = NoPrepare]
      /\ UNCHANGED <<pbftVars, storeVars, accepted, tagVars>>
  BY DEF BroadcastPrepare
<1>2. TypeOK /\ role[n] \in {0, 1}
  BY DEF TypeInv, TypeOK
<1>3. pending[n].id \in Slot /\ pending[n].digest \in Request
  BY <1>1, <1>2 DEF TypeOK
<1>4. role[n] = 1 => pending[n].id + 2 <= MaxSlot
  BY <1>1 DEF TypeInv, ShiftRoom
<1>5. Shift(n, pending[n].id) \in Slot
  <2>1. MaxSlot \in Nat /\ pending[n].id \in Nat
    BY <1>3, PbftAssumption DEF Slot
  <2>2. role[n] = 1 => pending[n].id + 1 <= MaxSlot
    BY <2>1, <1>4
  <2> QED BY <2>2, <1>2, <1>3, ShiftInSlot
<1>6. p \in Message
  BY <1>3, <1>5 DEF Message
<1> HIDE DEF p
<1>7. Appended(n, p)
  BY <1>1, <1>2, <1>6, OriginateAppends
<1> QED BY <1>1, <1>3, <1>5, <1>7 DEF p

LEMMA ExecPrepareFacts ==
  ASSUME TypeInv, NEW n \in Node, NEW m \in Node, ExecPrepareMessage(n, m)
  PROVE  LET pre == NextRumor(n, m)
             log == [logPrepareMsg EXCEPT ![n][m][pre.id] = pre.digest]
             d   == logPrePrepareMsg[n][pre.id]
         IN
         /\ n # m /\ pending[n] = NoPrepare
         /\ accepted[n][m] + 1 \in 1..Len(rumors[m])
         /\ pre = rumors[m][accepted[n][m] + 1]
         /\ pre \in Message /\ pre.type = "Prepare"
         /\ pre.id \in Slot /\ pre.digest \in Request
         /\ Shift(n, pre.id) \in Slot
         /\ logPrepareMsg' = log
         /\ \/ UNCHANGED <<state, logCommitMsg, rumors>>
            \/ /\ Cardinality(Matching(log, n, pre.id, d)) >= TwoThirds
               /\ state[n][pre.id] = 0
               /\ state' = [state EXCEPT ![n][pre.id] = 1]
               /\ logCommitMsg' = [logCommitMsg EXCEPT ![n][n][pre.id] = pre.digest]
               /\ Appended(n, [type |-> "Commit", id |-> Shift(n, pre.id),
                               digest |-> pre.digest])
         /\ UNCHANGED <<pbftID, logRequest, logPrePrepareMsg, role, leaked, storeVars,
                        pending, tagVars>>
<1> DEFINE pre == NextRumor(n, m)
           log == [logPrepareMsg EXCEPT ![n][m][pre.id] = pre.digest]
           d   == logPrePrepareMsg[n][pre.id]
           c   == [type |-> "Commit", id |-> Shift(n, pre.id), digest |-> pre.digest]
<1>1. TypeOK /\ Take(n, m, "Prepare")
  BY DEF ExecPrepareMessage, TypeInv
<1>2. /\ accepted[n][m] + 1 \in 1..Len(rumors[m])
      /\ pre = rumors[m][accepted[n][m] + 1]
      /\ pre \in Message /\ pre.type = "Prepare" /\ pre.id \in Slot /\ pre.digest \in Request
  BY <1>1, TakeFacts
<1>3. n # m /\ pending[n] = NoPrepare
  BY <1>1 DEF Take
<1>4. Shift(n, pre.id) \in Slot
  <2>1. role[n] \in {0, 1} /\ (role[n] = 1 => pre.id + 1 <= MaxSlot)
    BY SMTT(60), <1>1, <1>2 DEF TypeOK, TypeInv, ShiftRoom
  <2> HIDE DEF pre
  <2> QED BY <2>1, <1>2, ShiftInSlot
<1>5. /\ logPrepareMsg' = log
      /\ \/ UNCHANGED <<state, logCommitMsg, rumors>>
         \/ /\ Cardinality(Matching(log, n, pre.id, d)) >= TwoThirds
            /\ state[n][pre.id] = 0
            /\ state' = [state EXCEPT ![n][pre.id] = 1]
            /\ logCommitMsg' = [logCommitMsg EXCEPT ![n][n][pre.id] = pre.digest]
            /\ Originate(n, <<c>>)
      /\ UNCHANGED <<pbftID, logRequest, logPrePrepareMsg, role, leaked, storeVars,
                     pending, tagVars>>
  BY Zenon DEF ExecPrepareMessage, Prepared
<1> HIDE DEF pre
<1>6. c \in Message
  BY <1>2, <1>4 DEF Message
<1> HIDE DEF c
<1>7. Originate(n, <<c>>) => Appended(n, c)
  BY <1>1, <1>6, OriginateAppends
<1> QED BY Zenon, <1>2, <1>3, <1>4, <1>5, <1>7 DEF c, pre

LEMMA ExecPrePrepareFacts ==
  ASSUME TypeInv, PrePreparesOwned, NEW n \in Node, NEW m \in Node,
         ExecPrePrepareMessage(n, m)
  PROVE  LET pp == NextRumor(n, m) IN
         /\ n # m /\ pending[n] = NoPrepare
         /\ accepted[n][m] + 1 \in 1..Len(rumors[m])
         /\ pp = rumors[m][accepted[n][m] + 1]
         /\ pp \in Message /\ pp.type = "PrePrepare"
         /\ pp.id \in Slot /\ pp.digest \in Request
         /\ pp.digest.hr = m
         /\ HasSent(m, "PrePrepare", pp.id, pp.digest)
         /\ \/ /\ Conflict(n, pp.id, pp.digest)
               /\ UNCHANGED <<logPrePrepareMsg, logRequest, logPrepareMsg, pending>>
            \/ /\ ~Conflict(n, pp.id, pp.digest)
               /\ logPrePrepareMsg' = [logPrePrepareMsg EXCEPT ![n][pp.id] = pp.digest]
               /\ logRequest' = [logRequest EXCEPT ![n] = @ \cup {pp.digest}]
               /\ logPrepareMsg' = [logPrepareMsg EXCEPT ![n][n][pp.id] = pp.digest]
               /\ pending' = [pending EXCEPT ![n] = [id |-> pp.id, digest |-> pp.digest]]
               /\ UNCHANGED leaked
         /\ UNCHANGED <<pbftID, state, logCommitMsg, role, storeVars, rumors, tagVars>>
<1> DEFINE pp == NextRumor(n, m)
<1>1. TypeOK /\ Take(n, m, "PrePrepare")
  BY DEF ExecPrePrepareMessage, TypeInv
<1>2. /\ accepted[n][m] + 1 \in 1..Len(rumors[m])
      /\ pp = rumors[m][accepted[n][m] + 1]
      /\ pp \in Message /\ pp.type = "PrePrepare" /\ pp.id \in Slot /\ pp.digest \in Request
  BY <1>1, TakeFacts
<1>3. n # m /\ pending[n] = NoPrepare
  BY <1>1 DEF Take
<1>4. pp.digest.hr = m
  <2> HIDE DEF pp
  <2> QED BY <1>2 DEF PrePreparesOwned
<1>5. HasSent(m, "PrePrepare", pp.id, pp.digest)
  <2> HIDE DEF pp
  <2>1. pp = [type |-> "PrePrepare", id |-> pp.id, digest |-> pp.digest]
    BY <1>2 DEF Message
  <2> QED BY <2>1, <1>2 DEF HasSent
<1>6. /\ \/ /\ Conflict(n, pp.id, pp.digest)
            /\ UNCHANGED <<logPrePrepareMsg, logRequest, logPrepareMsg, pending>>
         \/ /\ ~Conflict(n, pp.id, pp.digest)
            /\ logPrePrepareMsg' = [logPrePrepareMsg EXCEPT ![n][pp.id] = pp.digest]
            /\ logRequest' = [logRequest EXCEPT ![n] = @ \cup {pp.digest}]
            /\ logPrepareMsg' = [logPrepareMsg EXCEPT ![n][n][pp.id] = pp.digest]
            /\ pending' = [pending EXCEPT ![n] = [id |-> pp.id, digest |-> pp.digest]]
            /\ UNCHANGED leaked
      /\ UNCHANGED <<pbftID, state, logCommitMsg, role, storeVars, rumors, tagVars>>
  BY Zenon DEF ExecPrePrepareMessage
<1> QED BY Zenon, <1>2, <1>3, <1>4, <1>5, <1>6

LEMMA ExecCommitFacts ==
  ASSUME TypeInv, NEW n \in Node, NEW m \in Node, ExecCommitMessage(n, m)
  PROVE  LET c       == NextRumor(n, m)
             log     == [logCommitMsg EXCEPT ![n][m][c.id] = c.digest]
             d       == logPrePrepareMsg[n][c.id]
             request == RequestOf(n, c.digest)
         IN
         /\ n # m
         /\ accepted[n][m] + 1 \in 1..Len(rumors[m])
         /\ c = rumors[m][accepted[n][m] + 1]
         /\ c \in Message /\ c.type = "Commit" /\ c.id \in Slot /\ c.digest \in Request
         /\ request \in logRequest[n] \cup {NoReq}
         /\ logCommitMsg' = log
         /\ \/ UNCHANGED <<state, storeVars>>
            \/ /\ Cardinality(Matching(log, n, c.id, d)) > TwoThirds
               /\ state[n][c.id] = 1
               /\ state' = [state EXCEPT ![n][c.id] = 2]
               /\ hrChain' = [hrChain EXCEPT ![n][request.hr] =
                                Append(@, [index |-> c.id \div N, req |-> request])]
               /\ hrNaming' = [hrNaming EXCEPT ![n][request.hr][request.name] = request.mh]
         /\ UNCHANGED <<pbftID, logRequest, logPrePrepareMsg, logPrepareMsg, role, leaked,
                        pending, rumors, tagVars>>
<1> DEFINE c       == NextRumor(n, m)
           log     == [logCommitMsg EXCEPT ![n][m][c.id] = c.digest]
           d       == logPrePrepareMsg[n][c.id]
           request == RequestOf(n, c.digest)
<1>1. TypeOK /\ Take(n, m, "Commit")
  BY DEF ExecCommitMessage, TypeInv
<1>2. /\ accepted[n][m] + 1 \in 1..Len(rumors[m])
      /\ c = rumors[m][accepted[n][m] + 1]
      /\ c \in Message /\ c.type = "Commit" /\ c.id \in Slot /\ c.digest \in Request
  BY <1>1, TakeFacts
<1>3. n # m
  BY <1>1 DEF Take
<1>4. request \in logRequest[n] \cup {NoReq}
  BY DEF RequestOf
<1>5. /\ logCommitMsg' = log
      /\ \/ UNCHANGED <<state, storeVars>>
         \/ /\ Cardinality(Matching(log, n, c.id, d)) > TwoThirds
            /\ state[n][c.id] = 1
            /\ state' = [state EXCEPT ![n][c.id] = 2]
            /\ hrChain' = [hrChain EXCEPT ![n][request.hr] =
                             Append(@, [index |-> c.id \div N, req |-> request])]
            /\ hrNaming' = [hrNaming EXCEPT ![n][request.hr][request.name] = request.mh]
      /\ UNCHANGED <<pbftID, logRequest, logPrePrepareMsg, logPrepareMsg, role, leaked,
                     pending, rumors, tagVars>>
  BY Zenon DEF ExecCommitMessage, Committed, GetPbftBlock
<1> QED BY ZenonT(60), <1>2, <1>3, <1>4, <1>5

\* Every step only adds rumors, and PrePrepares are for the sender's own slots.
LEMMA OwnedNext ==
  ASSUME TypeInv, PrePreparesOwned, [Next]_vars
  PROVE  RumorsGrow /\ PrePreparesOwned'
<1>1. TypeOK
  BY DEF TypeInv
<1>2. ASSUME UNCHANGED <<pbftID, rumors>> PROVE RumorsGrow /\ PrePreparesOwned'
  <2>1. RumorsGrow
    BY <1>1, <1>2, SameRumors
  <2> QED BY <2>1, <1>2 DEF PrePreparesOwned
<1>3. ASSUME NEW n \in Node, NEW v, v.type # "PrePrepare", Appended(n, v), pbftID' = pbftID
      PROVE  RumorsGrow /\ PrePreparesOwned'
  <2>1. /\ RumorsGrow
        /\ \A m \in Node : \A i \in 1..Len(rumors'[m]) :
             i \in 1..Len(rumors[m]) \/ rumors'[m][i].type # "PrePrepare"
    BY <1>3 DEF Appended
  <2> QED BY <2>1, <1>3, OwnedFrame
<1>4. ASSUME NEW r \in Calls, TagCall(r) \/ TagCheck(r) PROVE RumorsGrow /\ PrePreparesOwned'
  BY <1>2, <1>4 DEF TagCall, TagCheck, pbftVars
<1>5. ASSUME NEW r \in Calls, TagSend(r) PROVE RumorsGrow /\ PrePreparesOwned'
  BY <1>5, TagSendFacts
<1>6. ASSUME NEW n \in Node, BroadcastPrepare(n) PROVE RumorsGrow /\ PrePreparesOwned'
  <2>1. PICK v : /\ v = [type |-> "Prepare", id |-> Shift(n, pending[n].id),
                         digest |-> pending[n].digest]
                 /\ Appended(n, v) /\ pbftID' = pbftID
    BY <1>6, BroadcastPrepareFacts DEF pbftVars
  <2> QED BY <2>1, <1>3
<1>7. ASSUME NEW n \in Node, NEW m \in Node, ExecPrepareMessage(n, m)
      PROVE  RumorsGrow /\ PrePreparesOwned'
  <2> DEFINE pre == NextRumor(n, m)
             v   == [type |-> "Commit", id |-> Shift(n, pre.id), digest |-> pre.digest]
  <2>1. pbftID' = pbftID /\ (rumors' = rumors \/ Appended(n, v))
    BY Zenon, <1>7, ExecPrepareFacts
  <2> HIDE DEF pre
  <2>2. v.type # "PrePrepare"
    BY SMTT(30)
  <2> HIDE DEF v
  <2> QED BY <2>1, <2>2, <1>2, <1>3
<1>8. ASSUME NEW n \in Node, NEW m \in Node,
             \/ ExecPrePrepareMessage(n, m)
             \/ ExecCommitMessage(n, m)
             \/ ExecCheckpointMessage(n, m)
      PROVE  RumorsGrow /\ PrePreparesOwned'
  BY <1>2, <1>8 DEF ExecPrePrepareMessage, ExecCommitMessage, ExecCheckpointMessage
<1>9. ASSUME NEW n \in Node, TurnBad(n) PROVE RumorsGrow /\ PrePreparesOwned'
  BY <1>2, <1>9 DEF TurnBad
<1>10. CASE UNCHANGED vars
  BY <1>2, <1>10 DEF vars, pbftVars
<1> QED BY <1>4, <1>5, <1>6, <1>7, <1>8, <1>9, <1>10 DEF Next, Process

-----------------------------------------------------------------------------
(* One Tag at a time.                                                      *)

\* A commit leaves taken names taken.
LEMMA NamesKept ==
  ASSUME TypeInv, NEW n \in Node, NEW m \in Node, ExecCommitMessage(n, m),
         NEW k \in Node, NEW h \in Node, NEW x \in Name,
         hrNaming'[k][h][x] # hrNaming[k][h][x]
  PROVE  /\ k = n
         /\ RequestOf(n, NextRumor(n, m).digest)
              = [hr |-> h, name |-> x, mh |-> hrNaming'[k][h][x]]
         /\ hrNaming'[k][h][x] \in Mh
         /\ hrNaming'[k][h][x] # NoMh
<1> DEFINE request == RequestOf(n, NextRumor(n, m).digest)
<1>1. /\ logRequest[n] \subseteq Request
      /\ hrNaming \in [Node -> [Hr -> [Name \cup {NoName} -> Mh \cup {NoMh}]]]
  BY DEF TypeInv, TypeOK
<1>2. /\ request \in logRequest[n] \cup {NoReq}
      /\ \/ hrNaming' = hrNaming
         \/ hrNaming' = [hrNaming EXCEPT ![n][request.hr][request.name] = request.mh]
  BY ZenonT(60), ExecCommitFacts DEF storeVars
<1> HIDE DEF request
<1>3. h \in Hr /\ h # 0 /\ NoMh \notin Mh
  BY PbftAssumption DEF Node, Hr
<1>4. request.hr \in Hr /\ request.name \in Name \cup {NoName}
  BY <1>1, <1>2 DEF Request, NoReq, Hr
<1>5. hrNaming' = [hrNaming EXCEPT ![n][request.hr][request.name] = request.mh]
  BY <1>2
<1>6. hrNaming'[k][h][x] = IF k = n /\ h = request.hr /\ x = request.name
                           THEN request.mh ELSE hrNaming[k][h][x]
  BY <1>1, <1>3, <1>4, <1>5, Except3
<1>7. k = n /\ h = request.hr /\ x = request.name /\ hrNaming'[k][h][x] = request.mh
  BY <1>6
<1>8. request \in Request
  BY <1>1, <1>2, <1>3, <1>7 DEF NoReq
<1>9. /\ request = [hr |-> request.hr, name |-> request.name, mh |-> request.mh]
      /\ request.mh \in Mh
  BY <1>8 DEF Request
<1>10. request.mh # NoMh
  BY <1>3, <1>9
<1> QED BY Zenon, <1>7, <1>9, <1>10 DEF request

LEMMA NamesStayTaken ==
  ASSUME TypeInv, NEW n \in Node, NEW m \in Node, ExecCommitMessage(n, m),
         NEW k \in Node, NEW h \in Node, NEW x \in Name, hrNaming[k][h][x] # NoMh
  PROVE  hrNaming'[k][h][x] # NoMh
<1>1. CASE hrNaming'[k][h][x] = hrNaming[k][h][x]
  BY <1>1
<1>2. CASE hrNaming'[k][h][x] # hrNaming[k][h][x]
  <2>1. /\ k = n
        /\ RequestOf(n, NextRumor(n, m).digest)
             = [hr |-> h, name |-> x, mh |-> hrNaming'[k][h][x]]
        /\ hrNaming'[k][h][x] \in Mh
        /\ hrNaming'[k][h][x] # NoMh
    BY <1>2, NamesKept
  <2> QED BY <2>1
<1> QED BY <1>1, <1>2

LEMMA OneTagNext ==
  ASSUME Concurrent = FALSE, TypeInv, OneTagAtATime, PrePreparesOwned, [Next]_vars
  PROVE  OneTagAtATime'
<1>1. TypeOK
  BY DEF TypeInv
<1>2. \A q \in Calls : q \in Request /\ q.hr \in Node /\ q.name \in Name /\ q.mh \in Mh
  BY PbftAssumption DEF Request
<1>3. NoMh \notin Mh
  BY PbftAssumption
<1>4. ASSUME UNCHANGED <<tagVars, storeVars>> PROVE OneTagAtATime'
  BY <1>4 DEF OneTagAtATime, tagVars, storeVars, Active, Passed, NameTaken, Sent
<1>5. ASSUME NEW r \in Calls, TagCall(r) PROVE OneTagAtATime'
  <2>1. /\ tag[r] = "idle"
        /\ \A q \in Calls : q.hr = r.hr => ~Active(q)
        /\ tag' = [tag EXCEPT ![r] = IF NameTaken(r) THEN "rejected" ELSE "check"]
        /\ sends' = sends /\ hrNaming' = hrNaming
    BY <1>5 DEF TagCall, storeVars
  <2>2. \A q \in Calls : tag'[q] = IF q = r THEN IF NameTaken(r) THEN "rejected" ELSE "check"
                                            ELSE tag[q]
    BY <2>1, <1>1 DEF TypeOK
  <2>3. \A q \in Calls : NameTaken(q)' <=> NameTaken(q)
    BY <2>1 DEF NameTaken
  <2>4. Sent' = Sent
    BY <2>1 DEF Sent
  <2>5. ASSUME NEW q \in Calls, NEW p \in Calls, Active(q)', Active(p)', q.hr = p.hr
        PROVE  q = p
    BY <2>1, <2>2, <2>5 DEF OneTagAtATime, Active
  <2>6. ASSUME NEW q \in Calls, q # r, Passed(q), q.hr = r.hr, q.name = r.name
        PROVE  NameTaken(r)
    <3>1. tag[q] = "done"
      <4>1. tag[q] \in {"idle", "check", "send", "done", "rejected"}
        BY <1>1 DEF TypeOK
      <4>2. ~Active(q)
        BY <2>1, <2>6
      <4> QED BY <4>1, <4>2, <2>6 DEF Active, Passed
    <3>2. NameTaken(q)
      BY <3>1 DEF OneTagAtATime
    <3> QED BY <3>2, <2>6 DEF NameTaken
  <2>7. ASSUME NEW q \in Calls, NEW p \in Calls, Passed(q)', Passed(p)',
               q.hr = p.hr, q.name = p.name
        PROVE  q = p
    <3>1. CASE q = r /\ p # r
      BY <3>1, <2>2, <2>6, <2>7 DEF Passed
    <3>2. CASE p = r /\ q # r
      BY <3>2, <2>2, <2>6, <2>7 DEF Passed
    <3>3. CASE p # r /\ q # r
      BY <3>3, <2>2, <2>7 DEF Passed, OneTagAtATime
    <3> QED BY <3>1, <3>2, <3>3
  <2>8. \A q \in Calls : tag'[q] = "done" => NameTaken(q)'
    BY <2>2, <2>3 DEF OneTagAtATime
  <2>9. \A q \in Sent' : Passed(q)'
    BY <2>1, <2>2, <2>4 DEF OneTagAtATime, Passed, Sent
  <2> QED BY <2>5, <2>7, <2>8, <2>9 DEF OneTagAtATime
<1>6. ASSUME NEW r \in Calls, TagCheck(r) PROVE OneTagAtATime'
  <2>1. /\ tag[r] = "check"
        /\ tag' = [tag EXCEPT ![r] = IF hrNaming[r.hr][r.hr][r.name] = r.mh
                                     THEN "done" ELSE "send"]
        /\ sends' = sends /\ hrNaming' = hrNaming
    BY <1>6 DEF TagCheck, storeVars
  <2>2. \A q \in Calls : q # r => tag'[q] = tag[q]
    BY <2>1, <1>1 DEF TypeOK
  <2>3. tag'[r] \in {"done", "send"} /\ (tag'[r] = "done" => NameTaken(r))
    BY SMTT(60), <2>1, <1>1, <1>2, <1>3 DEF TypeOK, NameTaken
  <2>4. \A q \in Calls : /\ Active(q)' => Active(q)
                         /\ Passed(q)' <=> Passed(q)
    BY <2>1, <2>2, <2>3 DEF Active, Passed
  <2>5. \A q \in Calls : NameTaken(q)' <=> NameTaken(q)
    BY <2>1 DEF NameTaken
  <2>6. \A q \in Calls : tag'[q] = "done" => NameTaken(q)'
    BY <2>2, <2>3, <2>5 DEF OneTagAtATime
  <2>7. Sent' = Sent
    BY <2>1 DEF Sent
  <2>8. Sent \subseteq Calls
    BY DEF Sent
  <2> QED BY <2>4, <2>6, <2>7, <2>8 DEF OneTagAtATime
<1>7. ASSUME NEW r \in Calls, TagSend(r) PROVE OneTagAtATime'
  <2>1. /\ tag[r] = "send"
        /\ tag' = [tag EXCEPT ![r] = "check"]
        /\ sends' = [sends EXCEPT ![r] = @ + 1]
        /\ hrNaming' = hrNaming
    BY <1>7 DEF TagSend, storeVars
  <2>2. \A q \in Calls : /\ tag'[q] = IF q = r THEN "check" ELSE tag[q]
                         /\ q # r => sends'[q] = sends[q]
    BY <2>1, <1>1 DEF TypeOK
  <2>3. \A q \in Calls : /\ Active(q)' => Active(q)
                         /\ Passed(q)' <=> Passed(q)
    BY <2>1, <2>2 DEF Active, Passed
  <2>4. \A q \in Calls : /\ tag'[q] = "done" => tag[q] = "done"
                         /\ q \in Sent' => q \in Sent \/ q = r
    BY <2>1, <2>2 DEF Sent
  <2>5. \A q \in Calls : NameTaken(q)' <=> NameTaken(q)
    BY <2>1 DEF NameTaken
  <2>6. Passed(r) /\ Sent' \subseteq Calls
    BY <2>1 DEF Passed, Sent
  <2>7. \A q \in Calls : tag'[q] = "done" => NameTaken(q)'
    BY <2>4, <2>5 DEF OneTagAtATime
  <2>8. \A q \in Sent' : Passed(q)'
    BY <2>3, <2>4, <2>6 DEF OneTagAtATime
  <2>9. \A p, q \in Calls : Active(p)' /\ Active(q)' /\ p.hr = q.hr => p = q
    BY Zenon, <2>3 DEF OneTagAtATime
  <2>10. \A p, q \in Calls :
           Passed(p)' /\ Passed(q)' /\ p.hr = q.hr /\ p.name = q.name => p = q
    BY Zenon, <2>3 DEF OneTagAtATime
  <2> QED BY ZenonT(60), Zenon, <2>7, <2>8, <2>9, <2>10 DEF OneTagAtATime
<1>8. ASSUME NEW n \in Node, NEW m \in Node, ExecCommitMessage(n, m) PROVE OneTagAtATime'
  <2>1. UNCHANGED tagVars
    BY <1>8 DEF ExecCommitMessage
  <2>2. ASSUME NEW q \in Calls, NameTaken(q) PROVE NameTaken(q)'
    <3>1. PICK h \in Node, x \in Name : h = q.hr /\ x = q.name
      BY <1>2
    <3>2. hrNaming[h][h][x] # NoMh
      BY <2>2, <3>1 DEF NameTaken
    <3>3. hrNaming'[h][h][x] # NoMh
      BY Zenon, <3>2, <1>8, NamesStayTaken
    <3> QED BY <3>1, <3>3 DEF NameTaken
  <2> QED BY SMTT(60), <2>1, <2>2 DEF OneTagAtATime, tagVars, Active, Passed, Sent
<1>9. ASSUME NEW n \in Node, BroadcastPrepare(n) PROVE OneTagAtATime'
  BY SMTT(60), <1>4, <1>9 DEF BroadcastPrepare
<1>10. ASSUME NEW n \in Node, NEW m \in Node,
              \/ ExecPrePrepareMessage(n, m)
              \/ ExecPrepareMessage(n, m)
              \/ ExecCheckpointMessage(n, m)
       PROVE  OneTagAtATime'
  BY <1>4, <1>10 DEF ExecPrePrepareMessage, ExecPrepareMessage, ExecCheckpointMessage
<1>11. ASSUME NEW n \in Node, TurnBad(n) PROVE OneTagAtATime'
  BY <1>4, <1>11 DEF TurnBad
<1>12. CASE UNCHANGED vars
  BY <1>4, <1>12 DEF vars
<1> QED BY <1>5, <1>6, <1>7, <1>8, <1>9, <1>10, <1>11, <1>12 DEF Next, Process

-----------------------------------------------------------------------------
(* What the peers know about was broadcast.                                *)

LEMMA SentNext ==
  ASSUME TypeInv, [Next]_vars
  PROVE  Sent \subseteq Sent'
<1>1. sends \in [Calls -> 0..MaxSends] /\ MaxSends \in Nat
  BY PbftAssumption DEF TypeInv, TypeOK
<1>2. ASSUME sends' = sends PROVE Sent \subseteq Sent'
  BY <1>2 DEF Sent
<1>3. ASSUME NEW r \in Calls, TagSend(r) PROVE Sent \subseteq Sent'
  <2>1. sends' = [sends EXCEPT ![r] = @ + 1]
    BY <1>3 DEF TagSend
  <2> QED BY SMTT(60), <2>1, <1>1 DEF Sent
<1>4. ASSUME NEW r \in Calls, TagCall(r) \/ TagCheck(r) PROVE sends' = sends
  BY <1>4 DEF TagCall, TagCheck
<1>5. ASSUME NEW n \in Node, Process(n) \/ TurnBad(n) PROVE sends' = sends
  <2>1. ASSUME NEW m \in Node,
               \/ ExecPrePrepareMessage(n, m)
               \/ ExecPrepareMessage(n, m)
               \/ ExecCommitMessage(n, m)
               \/ ExecCheckpointMessage(n, m)
        PROVE  sends' = sends
    BY Zenon, <2>1 DEF tagVars, ExecPrePrepareMessage, ExecPrepareMessage,
                       ExecCommitMessage, ExecCheckpointMessage
  <2>2. BroadcastPrepare(n) \/ TurnBad(n) => sends' = sends
    BY DEF BroadcastPrepare, TurnBad, tagVars
  <2> QED BY <1>5, <2>1, <2>2 DEF Process
<1>6. UNCHANGED vars => sends' = sends
  BY DEF vars, tagVars
<1> QED BY <1>2, <1>3, <1>4, <1>5, <1>6 DEF Next

\* What OnlySent says of the chains.
ChainsSent ==
  \A n \in Node, h \in Hr : \A i \in 1..Len(hrChain[n][h]) :
    hrChain[n][h][i].req \in Sent \cup {NoReq} /\ hrChain[n][h][i].req.hr = h

LEMMA OnlySentFrame ==
  ASSUME OnlySent, RumorsGrow, Sent \subseteq Sent', ChainsSent',
         \A m \in Node : \A i \in 1..Len(rumors'[m]) :
           i \in 1..Len(rumors[m]) \/ rumors'[m][i].digest \in Sent',
         \A n \in Node : logRequest'[n] \subseteq logRequest[n] \cup Sent',
         \A n \in Node :
           pending'[n] \in {pending[n], NoPrepare} \/ pending'[n].digest \in Sent'
  PROVE  OnlySent'
<1>1. \A m \in Node : \A i \in 1..Len(rumors'[m]) : rumors'[m][i].digest \in Sent'
  BY DEF OnlySent, RumorsGrow
<1>2. \A n \in Node : logRequest'[n] \subseteq Sent'
  BY DEF OnlySent
<1>3. \A n \in Node : pending'[n] # NoPrepare => pending'[n].digest \in Sent'
  BY DEF OnlySent
<1> QED BY <1>1, <1>2, <1>3 DEF OnlySent, ChainsSent

LEMMA OnlySentNext ==
  ASSUME TypeInv, PrePreparesOwned, OnlySent, [Next]_vars
  PROVE  OnlySent'
<1>1. /\ TypeOK /\ RumorsGrow /\ Sent \subseteq Sent'
      /\ logRequest \in [Node -> SUBSET Request]
  BY OwnedNext, SentNext DEF TypeInv, TypeOK
<1>2. ASSUME hrChain' = hrChain PROVE ChainsSent'
  BY <1>1, <1>2 DEF OnlySent, ChainsSent
<1>3. ASSUME NEW r \in Calls, TagSend(r) PROVE OnlySent'
  <2>1. r \in Sent'
    BY <1>1, <1>3 DEF TagSend, Sent, TypeOK
  <2>2. \A m \in Node : \A i \in 1..Len(rumors'[m]) :
          i \in 1..Len(rumors[m]) \/ rumors'[m][i].digest = r
    <3>1. \A m \in Node : \A i \in 1..Len(rumors'[m]) :
            \/ i \in 1..Len(rumors[m])
            \/ /\ m = r.hr
               /\ rumors'[m][i].id = TagID(r) /\ rumors'[m][i].digest = r
               /\ \/ rumors'[m][i].type = "Checkpoint"
                  \/ rumors'[m][i].type = "PrePrepare" /\ i = Len(rumors[m]) + 1
      BY <1>3, TagSendFacts
    <3> QED BY Zenon, <3>1
  <2>3. /\ r.hr \in Node
        /\ logRequest' = [logRequest EXCEPT ![r.hr] = @ \cup {r}]
        /\ hrChain' = hrChain /\ pending' = pending
    BY <1>3, TagSendFacts DEF storeVars
  <2>4. \A n \in Node : logRequest'[n] \subseteq logRequest[n] \cup Sent'
    BY <2>1, <2>3, <1>1
  <2>5. \A m \in Node : \A i \in 1..Len(rumors'[m]) :
          i \in 1..Len(rumors[m]) \/ rumors'[m][i].digest \in Sent'
    BY <2>1, <2>2
  <2> QED BY <2>3, <2>4, <2>5, <1>1, <1>2, OnlySentFrame
<1>4. ASSUME rumors' = rumors, logRequest' = logRequest, pending' = pending, ChainsSent'
      PROVE  OnlySent'
  BY <1>1, <1>4, OnlySentFrame
<1>5. ASSUME NEW r \in Calls, TagCall(r) \/ TagCheck(r) PROVE OnlySent'
  BY <1>2, <1>4, <1>5 DEF TagCall, TagCheck, pbftVars, storeVars
<1>6. ASSUME NEW n \in Node, NEW v, Appended(n, v), v.digest \in Sent,
             logRequest' = logRequest, hrChain' = hrChain,
             \A m \in Node : pending'[m] \in {pending[m], NoPrepare}
      PROVE  OnlySent'
  <2>1. \A m \in Node : \A i \in 1..Len(rumors'[m]) :
          i \in 1..Len(rumors[m]) \/ rumors'[m][i].digest \in Sent'
    BY <1>1, <1>6 DEF Appended
  <2> QED BY <2>1, <1>1, <1>2, <1>6, OnlySentFrame
<1>7. ASSUME NEW n \in Node, BroadcastPrepare(n) PROVE OnlySent'
  <2> DEFINE v == [type |-> "Prepare", id |-> Shift(n, pending[n].id),
                   digest |-> pending[n].digest]
  <2>1. /\ pending[n] # NoPrepare
        /\ Appended(n, v)
        /\ pending' = [pending EXCEPT ![n] = NoPrepare]
        /\ UNCHANGED <<pbftVars, storeVars>>
    BY Zenon, <1>7, BroadcastPrepareFacts
  <2>2. v.digest \in Sent
    BY <2>1 DEF OnlySent
  <2>3. \A m \in Node : pending'[m] \in {pending[m], NoPrepare}
    BY <2>1, <1>1 DEF TypeOK
  <2>4. logRequest' = logRequest /\ hrChain' = hrChain
    BY <2>1 DEF pbftVars, storeVars
  <2> HIDE DEF v
  <2> QED BY Zenon, <2>1, <2>2, <2>3, <2>4, <1>6
<1>8. ASSUME NEW n \in Node, NEW m \in Node, ExecPrePrepareMessage(n, m) PROVE OnlySent'
  <2> DEFINE pp == NextRumor(n, m)
  <2>1. /\ accepted[n][m] + 1 \in 1..Len(rumors[m])
        /\ pp = rumors[m][accepted[n][m] + 1]
        /\ \/ logRequest' = logRequest /\ pending' = pending
           \/ /\ logRequest' = [logRequest EXCEPT ![n] = @ \cup {pp.digest}]
              /\ pending' = [pending EXCEPT ![n] = [id |-> pp.id, digest |-> pp.digest]]
        /\ UNCHANGED <<storeVars, rumors>>
    BY SMTT(60), <1>8, ExecPrePrepareFacts
  <2> HIDE DEF pp
  <2>2. pp.digest \in Sent
    BY <2>1 DEF OnlySent
  <2>3. \A k \in Node : logRequest'[k] \subseteq logRequest[k] \cup Sent'
    BY SMTT(60), <2>1, <2>2, <1>1
  <2>4. \A k \in Node :
          pending'[k] \in {pending[k], NoPrepare} \/ pending'[k].digest \in Sent'
    <3>1. pending \in [Node -> [id : Slot, digest : Request] \cup {NoPrepare}]
      BY <1>1 DEF TypeOK
    <3> QED BY <2>1, <2>2, <3>1, <1>1
  <2>5. rumors' = rumors /\ hrChain' = hrChain
    BY <2>1 DEF storeVars
  <2> QED BY <2>3, <2>4, <2>5, <1>1, <1>2, OnlySentFrame
<1>9. ASSUME NEW n \in Node, NEW m \in Node, ExecPrepareMessage(n, m) PROVE OnlySent'
  <2> DEFINE pre == NextRumor(n, m)
             v   == [type |-> "Commit", id |-> Shift(n, pre.id), digest |-> pre.digest]
  <2>1. /\ accepted[n][m] + 1 \in 1..Len(rumors[m])
        /\ pre = rumors[m][accepted[n][m] + 1]
        /\ rumors' = rumors \/ Appended(n, v)
        /\ UNCHANGED <<logRequest, storeVars, pending>>
    BY ZenonT(60), <1>9, ExecPrepareFacts
  <2> HIDE DEF pre
  <2>2. v.digest \in Sent
    BY <2>1 DEF OnlySent
  <2>3. logRequest' = logRequest /\ hrChain' = hrChain /\ pending' = pending
    BY <2>1 DEF storeVars
  <2> HIDE DEF v
  <2> QED BY <2>1, <2>2, <2>3, <1>2, <1>4, <1>6
<1>10. ASSUME NEW n \in Node, NEW m \in Node, ExecCommitMessage(n, m) PROVE OnlySent'
  <2> DEFINE c       == NextRumor(n, m)
             request == RequestOf(n, c.digest)
             block   == [index |-> c.id \div N, req |-> request]
  <2>1. /\ request \in logRequest[n] \cup {NoReq}
        /\ \/ UNCHANGED storeVars
           \/ hrChain' = [hrChain EXCEPT ![n][request.hr] = Append(@, block)]
        /\ UNCHANGED <<logRequest, pending, rumors>>
    BY ZenonT(60), <1>10, ExecCommitFacts
  <2>2. block.req = request
    OBVIOUS
  <2> HIDE DEF request, block
  <2>3. request \in Sent \cup {NoReq} /\ request.hr \in Hr
    <3>1. request \in Request \cup {NoReq} /\ request \in Sent \cup {NoReq}
      BY <2>1, <1>1 DEF OnlySent
    <3> QED BY <3>1 DEF Request, NoReq, Hr
  <2>4. CASE hrChain' = [hrChain EXCEPT ![n][request.hr] = Append(@, block)]
    <3>1. ASSUME NEW k \in Node, NEW h \in Hr, NEW i \in 1..Len(hrChain'[k][h])
          PROVE  hrChain'[k][h][i].req \in Sent' \cup {NoReq} /\ hrChain'[k][h][i].req.hr = h
      <4>1. \/ i \in 1..Len(hrChain[k][h]) /\ hrChain'[k][h][i] = hrChain[k][h][i]
            \/ h = request.hr /\ hrChain'[k][h][i] = block
        BY <2>3, <2>4, <1>1, ChainAppend
      <4> QED BY SMTT(30), <4>1, <2>2, <2>3, <1>1 DEF OnlySent
    <3>2. ChainsSent'
      BY <3>1 DEF ChainsSent
    <3> QED BY <3>2, <2>1, <1>4
  <2> QED BY <2>1, <2>4, <1>2, <1>4 DEF storeVars
<1>11. ASSUME NEW n \in Node, NEW m \in Node, ExecCheckpointMessage(n, m) PROVE OnlySent'
  BY <1>2, <1>4, <1>11 DEF ExecCheckpointMessage, storeVars
<1>12. ASSUME NEW n \in Node, TurnBad(n) PROVE OnlySent'
  BY <1>2, <1>4, <1>12 DEF TurnBad, storeVars
<1>13. CASE UNCHANGED vars
  BY <1>2, <1>4, <1>13 DEF vars, pbftVars, storeVars
<1> QED BY <1>3, <1>5, <1>7, <1>8, <1>9, <1>10, <1>11, <1>12, <1>13 DEF Next, Process

-----------------------------------------------------------------------------
(* One digest per slot.                                                    *)

\* What a PrePrepare that its owner broadcast says about its slot.
LEMMA SentOwned ==
  ASSUME TypeOK, PrePreparesOwned, NEW m \in Node, NEW s \in Slot, NEW d,
         HasSent(m, "PrePrepare", s, d)
  PROVE  s \in Nat /\ OwnedBy(s, m) /\ s <= pbftID[m]
<1>1. PICK i \in 1..Len(rumors[m]) :
        rumors[m][i] = [type |-> "PrePrepare", id |-> s, digest |-> d]
  BY DEF HasSent
<1>2. rumors[m][i].type = "PrePrepare" /\ rumors[m][i].id = s
  BY <1>1
<1>3. OwnedBy(rumors[m][i].id, m) /\ rumors[m][i].id <= pbftID[m]
  BY <1>2 DEF PrePreparesOwned
<1> QED BY <1>2, <1>3, PbftAssumption DEF Slot

\* The owner of a slot broadcast what is pre-prepared in it.
LEMMA LoggedOwner ==
  ASSUME TypeOK, OneDigestPerSlot, NEW n \in Node, NEW s \in Slot,
         NEW d, d = logPrePrepareMsg[n][s], d # NoReq
  PROVE  d \in Request /\ d.hr \in Node /\ HasSent(d.hr, "PrePrepare", s, d)
<1>1. logPrePrepareMsg \in [Node -> [Slot -> Digest]]
  BY DEF TypeOK
<1>2. d \in Request /\ d.hr \in Node
  BY <1>1 DEF Digest, Request
<1> QED BY <1>2 DEF OneDigestPerSlot

\* Steps that broadcast no PrePrepare and log none.
LEMMA OneDigestFrame ==
  ASSUME OneDigestPerSlot, RumorsGrow,
         \A m \in Node : \A i \in 1..Len(rumors'[m]) :
           i \in 1..Len(rumors[m]) \/ rumors'[m][i].type # "PrePrepare",
         \A r \in Calls : Active(r)' /\ sends'[r] > 0 => Active(r) /\ sends[r] > 0,
         UNCHANGED <<pbftID, logPrePrepareMsg, leaked>>, TypeOK
  PROVE  OneDigestPerSlot'
<1>1. \A r \in Calls : r.hr \in Node
  BY PbftAssumption DEF Request
<1>2. \A m \in Node : \A i \in 1..Len(rumors'[m]) :
        rumors'[m][i].type = "PrePrepare" =>
          i \in 1..Len(rumors[m]) /\ rumors'[m][i] = rumors[m][i]
  BY DEF RumorsGrow
<1>3. ASSUME NEW m \in Node, NEW i \in 1..Len(rumors'[m]), NEW j \in 1..Len(rumors'[m]),
             rumors'[m][i].type = "PrePrepare", rumors'[m][j].type = "PrePrepare",
             rumors'[m][i].id = rumors'[m][j].id
      PROVE  rumors'[m][i].digest = rumors'[m][j].digest
  <2>1. /\ i \in 1..Len(rumors[m]) /\ rumors'[m][i] = rumors[m][i]
        /\ j \in 1..Len(rumors[m]) /\ rumors'[m][j] = rumors[m][j]
    BY <1>2, <1>3
  <2> QED BY <1>3, <2>1 DEF OneDigestPerSlot
<1>4. ASSUME NEW r \in Calls, Active(r)', sends'[r] > 0, NEW i \in 1..Len(rumors'[r.hr]),
             rumors'[r.hr][i].type = "PrePrepare", rumors'[r.hr][i].id = pbftID'[r.hr]
      PROVE  rumors'[r.hr][i].digest = r
  <2>1. i \in 1..Len(rumors[r.hr]) /\ rumors'[r.hr][i] = rumors[r.hr][i]
    BY <1>1, <1>2, <1>4
  <2>2. Active(r) /\ sends[r] > 0 /\ rumors[r.hr][i].id = pbftID[r.hr]
    BY <2>1, <1>4
  <2> QED BY <1>4, <2>1, <2>2 DEF OneDigestPerSlot
<1>5. ASSUME NEW n \in Node, NEW s \in Slot, NEW d, d = logPrePrepareMsg[n][s], d # NoReq
      PROVE  HasSent(d.hr, "PrePrepare", s, d)'
  <2>1. HasSent(d.hr, "PrePrepare", s, d) /\ d.hr \in Node
    BY Zenon, <1>5, LoggedOwner
  <2> QED BY Zenon, <2>1, HasSentStable
<1> QED BY <1>3, <1>4, <1>5 DEF OneDigestPerSlot

\* In the slot that a Tag sends its PrePrepare for, every PrePrepare is its own.
LEMMA SlotIsOwn ==
  ASSUME TypeInv, PrePreparesOwned, OneDigestPerSlot, NEW r \in Calls, TagSend(r)
  PROVE  /\ \A i \in 1..Len(rumors[r.hr]) :
              rumors[r.hr][i].type = "PrePrepare" /\ rumors[r.hr][i].id = TagID(r)
              => rumors[r.hr][i].digest = r
         /\ \A n \in Node : logPrePrepareMsg[n][TagID(r)] \in {NoReq, r}
<1>1. /\ r.hr \in Node /\ TagID(r) \in Slot /\ TagID(r) \in Nat /\ OwnedBy(TagID(r), r.hr)
      /\ pbftID[r.hr] \in Nat
      /\ IF sends[r] = 0 THEN TagID(r) > pbftID[r.hr] ELSE TagID(r) = pbftID[r.hr]
  BY TagSendFacts
<1>2. TypeOK /\ sends[r] \in Nat /\ Active(r)
  <2>1. Active(r)
    BY DEF TagSend, Active
  <2>2. sends \in [Calls -> 0..MaxSends] /\ TypeOK
    BY DEF TypeInv, TypeOK
  <2>3. sends[r] \in Nat
    BY <2>2, PbftAssumption
  <2> QED BY <2>1, <2>2, <2>3
<1>3. ASSUME NEW i \in 1..Len(rumors[r.hr]),
             rumors[r.hr][i].type = "PrePrepare", rumors[r.hr][i].id = TagID(r)
      PROVE  rumors[r.hr][i].digest = r
  <2>1. TagID(r) <= pbftID[r.hr]
    BY <1>1, <1>3 DEF PrePreparesOwned
  <2>2. sends[r] > 0 /\ TagID(r) = pbftID[r.hr]
    BY <1>1, <1>2, <2>1
  <2> QED BY <1>2, <1>3, <2>2 DEF OneDigestPerSlot
<1>4. ASSUME NEW n \in Node, NEW d, d = logPrePrepareMsg[n][TagID(r)], d # NoReq PROVE d = r
  <2>1. HasSent(d.hr, "PrePrepare", TagID(r), d) /\ d.hr \in Node
    BY Zenon, <1>1, <1>2, <1>4, LoggedOwner
  <2>2. OwnedBy(TagID(r), d.hr)
    BY <1>1, <1>2, <2>1, SentOwned
  <2>3. d.hr = r.hr
    BY Zenon, <1>1, <2>1, <2>2, OwnerUnique
  <2>4. PICK i \in 1..Len(rumors[r.hr]) :
          rumors[r.hr][i] = [type |-> "PrePrepare", id |-> TagID(r), digest |-> d]
    BY <2>1, <2>3 DEF HasSent
  <2> QED BY <1>3, <2>4
<1> QED BY <1>3, <1>4

LEMMA OneDigestTagSend ==
  ASSUME TypeInv, OneTagAtATime, PrePreparesOwned, OneDigestPerSlot,
         NEW r \in Calls, TagSend(r)
  PROVE  OneDigestPerSlot'
<1> DEFINE id == TagID(r)
           n  == r.hr
<1>1. /\ n \in Node /\ r # NoReq /\ id \in Slot /\ RumorsGrow
      /\ \A m \in Node : pbftID'[m] = IF m = n THEN id ELSE pbftID[m]
      /\ logPrePrepareMsg' = [logPrePrepareMsg EXCEPT ![n][id] = r]
      /\ leaked' = leaked
      /\ LET i == Len(rumors[n]) + 1 IN
         /\ i \in 1..Len(rumors'[n])
         /\ rumors'[n][i] = [type |-> "PrePrepare", id |-> id, digest |-> r]
  BY TagSendFacts
<1>2. /\ TypeOK /\ logPrePrepareMsg \in [Node -> [Slot -> Digest]]
      /\ \A q \in Calls : q.hr \in Node
  BY PbftAssumption DEF TypeInv, TypeOK, Request
<1>3. \A i \in 1..Len(rumors[n]) :
        rumors[n][i].type = "PrePrepare" /\ rumors[n][i].id = id
        => rumors[n][i].digest = r
  BY SlotIsOwn
<1>4. \A m \in Node : \A i \in 1..Len(rumors'[m]) :
        \/ i \in 1..Len(rumors[m]) /\ rumors'[m][i] = rumors[m][i]
        \/ m = n /\ rumors'[m][i].id = id /\ rumors'[m][i].digest = r
  <2>1. \A m \in Node : \A i \in 1..Len(rumors'[m]) :
          \/ i \in 1..Len(rumors[m])
          \/ /\ m = r.hr
             /\ rumors'[m][i].id = TagID(r) /\ rumors'[m][i].digest = r
             /\ \/ rumors'[m][i].type = "Checkpoint"
                \/ rumors'[m][i].type = "PrePrepare" /\ i = Len(rumors[m]) + 1
    BY TagSendFacts
  <2>2. \A m \in Node : \A i \in 1..Len(rumors[m]) : rumors'[m][i] = rumors[m][i]
    BY <1>1 DEF RumorsGrow
  <2> QED BY <2>1, <2>2
<1> HIDE DEF id, n
<1>5. ASSUME NEW m \in Node, NEW i \in 1..Len(rumors'[m]), NEW j \in 1..Len(rumors'[m]),
             rumors'[m][i].type = "PrePrepare", rumors'[m][j].type = "PrePrepare",
             rumors'[m][i].id = rumors'[m][j].id
      PROVE  rumors'[m][i].digest = rumors'[m][j].digest
  <2>1. CASE m = n /\ rumors'[m][i].id = id
    <3>1. \A l \in 1..Len(rumors'[n]) :
            rumors'[n][l].type = "PrePrepare" /\ rumors'[n][l].id = id
            => rumors'[n][l].digest = r
      BY SMTT(60), <1>1, <1>3, <1>4
    <3> QED BY <1>5, <2>1, <3>1
  <2>2. CASE ~(m = n /\ rumors'[m][i].id = id)
    <3>1. /\ i \in 1..Len(rumors[m]) /\ rumors'[m][i] = rumors[m][i]
          /\ j \in 1..Len(rumors[m]) /\ rumors'[m][j] = rumors[m][j]
      BY <1>4, <1>5, <2>2
    <3> QED BY <1>5, <3>1 DEF OneDigestPerSlot
  <2> QED BY <2>1, <2>2
<1>6. ASSUME NEW q \in Calls, Active(q)', sends'[q] > 0, NEW i \in 1..Len(rumors'[q.hr]),
             rumors'[q.hr][i].type = "PrePrepare", rumors'[q.hr][i].id = pbftID'[q.hr]
      PROVE  rumors'[q.hr][i].digest = q
  <2>1. /\ Active(r)
        /\ tag' = [tag EXCEPT ![r] = "check"] /\ sends' = [sends EXCEPT ![r] = @ + 1]
    BY DEF TagSend, Active
  <2>2. q # r => Active(q) /\ sends[q] > 0
    BY <2>1, <1>2, <1>6 DEF Active, TypeOK
  <2>3. CASE q = r
    <3>1. i \in 1..Len(rumors'[n]) /\ rumors'[n][i].id = id
      BY <1>1, <1>6, <2>3 DEF n
    <3> QED BY SMTT(60), <3>1, <1>1, <1>3, <1>4, <1>6, <2>3 DEF n
  <2>4. CASE q # r
    <3>1. q.hr # n /\ q.hr \in Node
      BY <1>2, <2>1, <2>2, <2>4 DEF OneTagAtATime, n
    <3>2. i \in 1..Len(rumors[q.hr]) /\ rumors'[q.hr][i] = rumors[q.hr][i]
      BY <1>4, <1>6, <3>1
    <3>3. rumors[q.hr][i].id = pbftID[q.hr]
      BY <1>1, <1>6, <3>1, <3>2
    <3> QED BY <1>6, <2>2, <2>4, <3>2, <3>3 DEF OneDigestPerSlot
  <2> QED BY <2>3, <2>4
<1>7. ASSUME NEW k \in Node, NEW s \in Slot, NEW d, d = logPrePrepareMsg'[k][s], d # NoReq
      PROVE  HasSent(d.hr, "PrePrepare", s, d)'
  <2>1. logPrePrepareMsg'[k][s] = IF k = n /\ s = id THEN r ELSE logPrePrepareMsg[k][s]
    BY SMTT(60), <1>1, <1>2, SlotTable
  <2>2. CASE k = n /\ s = id
    BY SMTT(60), <1>1, <1>7, <2>1, <2>2 DEF HasSent, n
  <2>3. CASE ~(k = n /\ s = id)
    <3>1. d = logPrePrepareMsg[k][s]
      BY Zenon, <1>7, <2>1, <2>3
    <3>2. HasSent(d.hr, "PrePrepare", s, d) /\ d.hr \in Node
      BY Zenon, <1>2, <1>7, <3>1, LoggedOwner
    <3> QED BY Zenon, <3>2, <1>1, HasSentStable
  <2> QED BY <2>2, <2>3
<1>8. \A k \in Node : ~leaked'[k]
  BY <1>1 DEF OneDigestPerSlot
<1> QED BY <1>5, <1>6, <1>7, <1>8 DEF OneDigestPerSlot

LEMMA NoConflict ==
  ASSUME TypeInv, PrePreparesOwned, OneDigestPerSlot, NEW n \in Node, NEW m \in Node,
         ExecPrePrepareMessage(n, m)
  PROVE  ~Conflict(n, NextRumor(n, m).id, NextRumor(n, m).digest)
<1> DEFINE pp == NextRumor(n, m)
           d  == logPrePrepareMsg[n][pp.id]
<1>1. /\ accepted[n][m] + 1 \in 1..Len(rumors[m])
      /\ pp = rumors[m][accepted[n][m] + 1]
      /\ pp.type = "PrePrepare" /\ pp.id \in Slot /\ pp.digest \in Request
      /\ pp.digest.hr = m
      /\ HasSent(m, "PrePrepare", pp.id, pp.digest)
  BY ExecPrePrepareFacts
<1>2. TypeOK
  BY SMTT(60) DEF TypeInv
<1> HIDE DEF pp
<1>3. ASSUME d # NoReq PROVE d = pp.digest
  <2>1. HasSent(d.hr, "PrePrepare", pp.id, d) /\ d.hr \in Node
    BY Zenon, <1>1, <1>2, <1>3, LoggedOwner
  <2>2. OwnedBy(pp.id, d.hr) /\ OwnedBy(pp.id, m) /\ pp.id \in Nat
    BY Zenon, <1>1, <1>2, <2>1, SentOwned
  <2> HIDE DEF d
  <2>3. d.hr = m
    BY Zenon, <2>1, <2>2, OwnerUnique
  <2>4. PICK i \in 1..Len(rumors[m]) :
          rumors[m][i] = [type |-> "PrePrepare", id |-> pp.id, digest |-> d]
    BY <2>1, <2>3 DEF HasSent
  <2> QED BY SMTT(60), <1>1, <2>4 DEF OneDigestPerSlot
<1> QED BY <1>3 DEF Conflict, pp

LEMMA OneDigestPrePrepare ==
  ASSUME TypeInv, PrePreparesOwned, OneDigestPerSlot, NEW n \in Node, NEW m \in Node,
         ExecPrePrepareMessage(n, m)
  PROVE  OneDigestPerSlot'
<1> DEFINE pp == NextRumor(n, m)
<1>1. /\ pp.id \in Slot /\ pp.digest \in Request /\ pp.digest.hr = m
      /\ HasSent(m, "PrePrepare", pp.id, pp.digest)
      /\ \/ Conflict(n, pp.id, pp.digest)
         \/ /\ logPrePrepareMsg' = [logPrePrepareMsg EXCEPT ![n][pp.id] = pp.digest]
            /\ leaked' = leaked
      /\ UNCHANGED <<pbftID, rumors, tagVars>>
  BY ExecPrePrepareFacts
<1>2. TypeOK /\ logPrePrepareMsg \in [Node -> [Slot -> Digest]]
  BY DEF TypeInv, TypeOK
<1>3. /\ logPrePrepareMsg' = [logPrePrepareMsg EXCEPT ![n][pp.id] = pp.digest]
      /\ leaked' = leaked
  BY <1>1, NoConflict
<1> HIDE DEF pp
<1>4. \A k \in Node : \A t, s, d : HasSent(k, t, s, d) => HasSent(k, t, s, d)'
  BY <1>1 DEF HasSent
<1>5. ASSUME NEW k \in Node, NEW s \in Slot, NEW d, d = logPrePrepareMsg'[k][s], d # NoReq
      PROVE  HasSent(d.hr, "PrePrepare", s, d)'
  <2>1. logPrePrepareMsg'[k][s] =
          IF k = n /\ s = pp.id THEN pp.digest ELSE logPrePrepareMsg[k][s]
    BY <1>1, <1>2, <1>3, SlotTable
  <2>2. CASE k = n /\ s = pp.id
    BY <1>1, <1>4, <1>5, <2>1, <2>2
  <2>3. CASE ~(k = n /\ s = pp.id)
    <3>1. d = logPrePrepareMsg[k][s]
      BY Zenon, <1>5, <2>1, <2>3
    <3>2. HasSent(d.hr, "PrePrepare", s, d) /\ d.hr \in Node
      BY Zenon, <1>2, <1>5, <3>1, LoggedOwner
    <3> QED BY Zenon, <3>2, <1>4
  <2> QED BY <2>2, <2>3
<1> QED BY <1>1, <1>3, <1>5 DEF OneDigestPerSlot, tagVars, Active

LEMMA OneDigestNext ==
  ASSUME TypeInv, OneTagAtATime, PrePreparesOwned, OneDigestPerSlot, [Next]_vars
  PROVE  OneDigestPerSlot'
<1>1. TypeOK /\ RumorsGrow
  BY OwnedNext DEF TypeInv
<1>2. ASSUME UNCHANGED <<pbftID, logPrePrepareMsg, leaked, tagVars>>,
             \A m \in Node : \A i \in 1..Len(rumors'[m]) :
               i \in 1..Len(rumors[m]) \/ rumors'[m][i].type # "PrePrepare"
      PROVE  OneDigestPerSlot'
  <2>1. \A r \in Calls : Active(r)' /\ sends'[r] > 0 => Active(r) /\ sends[r] > 0
    BY <1>2 DEF tagVars, Active
  <2> QED BY <2>1, <1>1, <1>2, OneDigestFrame
<1>3. ASSUME UNCHANGED <<pbftID, logPrePrepareMsg, leaked, tagVars, rumors>>
      PROVE  OneDigestPerSlot'
  BY <1>2, <1>3
<1>4. ASSUME NEW n \in Node, NEW v, v.type # "PrePrepare", Appended(n, v),
             UNCHANGED <<pbftID, logPrePrepareMsg, leaked, tagVars>>
      PROVE  OneDigestPerSlot'
  BY <1>2, <1>4 DEF Appended
<1>5. ASSUME NEW r \in Calls, TagCall(r) \/ TagCheck(r) PROVE OneDigestPerSlot'
  <2>1. /\ UNCHANGED <<pbftVars, rumors, sends>>
        /\ \A q \in Calls : q # r => tag'[q] = tag[q]
    BY <1>1, <1>5 DEF TagCall, TagCheck, TypeOK
  <2>2. tag[r] = "idle" => ~(sends[r] > 0)
    BY DEF OneTagAtATime, Sent, Passed
  <2>3. tag[r] \in {"idle", "check"}
    BY <1>5 DEF TagCall, TagCheck
  <2>4. \A q \in Calls : Active(q)' /\ sends'[q] > 0 => Active(q) /\ sends[q] > 0
    BY <2>1, <2>2, <2>3 DEF Active
  <2> QED BY <2>1, <2>4, <1>1, OneDigestFrame DEF pbftVars
<1>6. ASSUME NEW r \in Calls, TagSend(r) PROVE OneDigestPerSlot'
  BY <1>6, OneDigestTagSend
<1>7. ASSUME NEW n \in Node, BroadcastPrepare(n) PROVE OneDigestPerSlot'
  <2>1. PICK v : /\ v = [type |-> "Prepare", id |-> Shift(n, pending[n].id),
                         digest |-> pending[n].digest]
                 /\ Appended(n, v) /\ UNCHANGED <<pbftVars, tagVars>>
    BY <1>7, BroadcastPrepareFacts
  <2> QED BY <2>1, <1>4 DEF pbftVars
<1>8. ASSUME NEW n \in Node, NEW m \in Node, ExecPrepareMessage(n, m) PROVE OneDigestPerSlot'
  <2> DEFINE pre == NextRumor(n, m)
             v   == [type |-> "Commit", id |-> Shift(n, pre.id), digest |-> pre.digest]
  <2>1. /\ rumors' = rumors \/ Appended(n, v)
        /\ UNCHANGED <<pbftID, logPrePrepareMsg, leaked, tagVars>>
    BY Zenon, <1>8, ExecPrepareFacts
  <2>2. v.type # "PrePrepare"
    OBVIOUS
  <2> HIDE DEF v
  <2> QED BY <2>1, <2>2, <1>3, <1>4
<1>9. ASSUME NEW n \in Node, NEW m \in Node, ExecPrePrepareMessage(n, m)
      PROVE  OneDigestPerSlot'
  BY SMTT(30), <1>9, OneDigestPrePrepare
<1>10. ASSUME NEW n \in Node, NEW m \in Node,
              ExecCommitMessage(n, m) \/ ExecCheckpointMessage(n, m)
       PROVE  OneDigestPerSlot'
  BY <1>3, <1>10 DEF ExecCommitMessage, ExecCheckpointMessage
<1>11. ASSUME NEW n \in Node, TurnBad(n) PROVE OneDigestPerSlot'
  BY <1>3, <1>11 DEF TurnBad
<1>12. CASE UNCHANGED vars
  BY <1>3, <1>12 DEF vars, pbftVars
<1> QED BY <1>5, <1>6, <1>7, <1>8, <1>9, <1>10, <1>11, <1>12 DEF Next, Process

-----------------------------------------------------------------------------
(* The votes that are logged were broadcast.                               *)

\* Steps that log no vote.
LEMMA VotesFrame ==
  ASSUME VotesSent, RumorsGrow, UNCHANGED <<logPrepareMsg, logCommitMsg, pending>>,
         \A n \in Node : role'[n] = 0 => role[n] = 0
  PROVE  VotesSent'
<1>1. \A m \in Node : \A t, s, d : HasSent(m, t, s, d) => HasSent(m, t, s, d)'
  BY HasSentStable
<1> QED BY <1>1 DEF VotesSent

LEMMA VotesNext ==
  ASSUME TypeInv, PrePreparesOwned, OneDigestPerSlot, VotesSent, [Next]_vars
  PROVE  VotesSent'
<1>1. TypeOK /\ RumorsGrow /\ NoReq \notin Request
  BY OwnedNext DEF TypeInv, NoReq, Request, Node
<1>2. /\ logPrepareMsg \in [Node -> [Node -> [Slot -> Digest]]]
      /\ logCommitMsg \in [Node -> [Node -> [Slot -> Digest]]]
      /\ pending \in [Node -> [id : Slot, digest : Request] \cup {NoPrepare}]
  BY <1>1 DEF TypeOK
<1>3. \A m \in Node : \A t, s, d : HasSent(m, t, s, d) => HasSent(m, t, s, d)'
  BY <1>1, HasSentStable
<1>4. ASSUME NEW m \in Node, NEW i \in 1..Len(rumors[m]), NEW v \in Message, v = rumors[m][i]
      PROVE  HasSent(m, v.type, v.id, v.digest)
  <2>1. v = [type |-> v.type, id |-> v.id, digest |-> v.digest]
    BY <1>4 DEF Message
  <2> QED BY <1>4, <2>1 DEF HasSent
<1>5. ASSUME UNCHANGED <<logPrepareMsg, logCommitMsg, pending, role>> PROVE VotesSent'
  BY SMTT(60), <1>1, <1>5, VotesFrame
<1>6. ASSUME NEW r \in Calls, TagCall(r) \/ TagCheck(r) \/ TagSend(r) PROVE VotesSent'
  BY <1>5, <1>6 DEF TagCall, TagCheck, TagSend, pbftVars
<1>7. ASSUME NEW n \in Node, BroadcastPrepare(n) PROVE VotesSent'
  <2> DEFINE p == [type |-> "Prepare", id |-> Shift(n, pending[n].id),
                   digest |-> pending[n].digest]
  <2>1. /\ Appended(n, p) /\ pending[n].id \in Slot
        /\ pending' = [pending EXCEPT ![n] = NoPrepare]
        /\ UNCHANGED <<logPrepareMsg, logCommitMsg, role>>
    BY <1>7, BroadcastPrepareFacts DEF pbftVars
  <2>2. ASSUME NEW s \in Slot, NEW d, role[n] = 0, pending[n] = [id |-> s, digest |-> d]
        PROVE  HasSent(n, "Prepare", s, d)'
    <3>1. p = [type |-> "Prepare", id |-> s, digest |-> d]
      BY <2>2, UnshiftedSlot
    <3> QED BY <2>1, <3>1 DEF Appended, HasSent
  <2> HIDE DEF p
  <2>3. ASSUME NEW k \in Node, NEW l \in Node, NEW s \in Slot, NEW d \in Request,
               l # k \/ role'[k] = 0
        PROVE  /\ logPrepareMsg'[k][l][s] = d =>
                    \/ HasSent(l, "Prepare", s, d)'
                    \/ l = k /\ pending'[k] = [id |-> s, digest |-> d]
               /\ logCommitMsg'[k][l][s] = d => HasSent(l, "Commit", s, d)'
    <3>1. /\ logPrepareMsg[k][l][s] = d =>
               \/ HasSent(l, "Prepare", s, d)
               \/ l = k /\ pending[k] = [id |-> s, digest |-> d]
          /\ logCommitMsg[k][l][s] = d => HasSent(l, "Commit", s, d)
      BY <2>1, <2>3 DEF VotesSent
    <3>2. k # n => pending'[k] = pending[k]
      BY <2>1, <1>2
    <3> QED BY <3>1, <3>2, <2>1, <2>2, <2>3, <1>3
  <2> QED BY <2>3 DEF VotesSent
<1>8. ASSUME NEW n \in Node, NEW m \in Node, ExecPrePrepareMessage(n, m) PROVE VotesSent'
  <2> DEFINE pp == NextRumor(n, m)
  <2>1. /\ pp.id \in Slot /\ pending[n] = NoPrepare
        /\ \/ Conflict(n, pp.id, pp.digest)
           \/ /\ logPrepareMsg' = [logPrepareMsg EXCEPT ![n][n][pp.id] = pp.digest]
              /\ pending' = [pending EXCEPT ![n] = [id |-> pp.id, digest |-> pp.digest]]
        /\ UNCHANGED <<logCommitMsg, role>>
    BY <1>8, ExecPrePrepareFacts
  <2>2. /\ logPrepareMsg' = [logPrepareMsg EXCEPT ![n][n][pp.id] = pp.digest]
        /\ pending' = [pending EXCEPT ![n] = [id |-> pp.id, digest |-> pp.digest]]
    BY <2>1, <1>8, NoConflict
  <2> HIDE DEF pp
  <2>3. ASSUME NEW k \in Node, NEW l \in Node, NEW s \in Slot, NEW d \in Request,
               l # k \/ role'[k] = 0
        PROVE  /\ logPrepareMsg'[k][l][s] = d =>
                    \/ HasSent(l, "Prepare", s, d)'
                    \/ l = k /\ pending'[k] = [id |-> s, digest |-> d]
               /\ logCommitMsg'[k][l][s] = d => HasSent(l, "Commit", s, d)'
    <3>1. /\ logPrepareMsg[k][l][s] = d =>
               \/ HasSent(l, "Prepare", s, d)
               \/ l = k /\ pending[k] = [id |-> s, digest |-> d]
          /\ logCommitMsg[k][l][s] = d => HasSent(l, "Commit", s, d)
      BY <2>1, <2>3 DEF VotesSent
    <3>2. logPrepareMsg'[k][l][s] =
            IF k = n /\ l = n /\ s = pp.id THEN pp.digest ELSE logPrepareMsg[k][l][s]
      BY <2>1, <2>2, <1>2, VoteTable
    <3>3. /\ pending'[n] = [id |-> pp.id, digest |-> pp.digest]
          /\ k # n => pending'[k] = pending[k]
          /\ pending[n] # [id |-> s, digest |-> d]
      BY <2>1, <2>2, <1>2, PbftAssumption DEF NoPrepare, Slot
    <3> QED BY <3>1, <3>2, <3>3, <2>1, <1>3
  <2> QED BY <2>3 DEF VotesSent
<1>9. ASSUME NEW n \in Node, NEW m \in Node, ExecPrepareMessage(n, m) PROVE VotesSent'
  <2> DEFINE pre == NextRumor(n, m)
             c   == [type |-> "Commit", id |-> Shift(n, pre.id), digest |-> pre.digest]
  <2>1. /\ n # m /\ pre.id \in Slot /\ pre \in Message /\ pre.type = "Prepare"
        /\ accepted[n][m] + 1 \in 1..Len(rumors[m])
        /\ pre = rumors[m][accepted[n][m] + 1]
        /\ logPrepareMsg' = [logPrepareMsg EXCEPT ![n][m][pre.id] = pre.digest]
        /\ \/ logCommitMsg' = logCommitMsg
           \/ /\ logCommitMsg' = [logCommitMsg EXCEPT ![n][n][pre.id] = pre.digest]
              /\ Appended(n, c)
        /\ UNCHANGED <<pending, role>>
    BY ZenonT(60), <1>9, ExecPrepareFacts
  <2> HIDE DEF pre
  <2>2. HasSent(m, "Prepare", pre.id, pre.digest)
    BY <2>1, <1>4
  <2>3. ASSUME Appended(n, c), role[n] = 0, NEW s, NEW d, s = pre.id, d = pre.digest
        PROVE  HasSent(n, "Commit", s, d)'
    <3>1. Shift(n, s) = s
      BY <2>1, <2>3, UnshiftedSlot
    <3>2. c = [type |-> "Commit", id |-> s, digest |-> d]
      BY <2>3, <3>1
    <3> HIDE DEF c
    <3>3. \E i \in 1..Len(rumors'[n]) : rumors'[n][i] = c
      BY <2>3 DEF Appended
    <3> QED BY SMTT(120), <3>2, <3>3 DEF HasSent
  <2> HIDE DEF c
  <2>4. ASSUME NEW k \in Node, NEW l \in Node, NEW s \in Slot, NEW d \in Request,
               l # k \/ role'[k] = 0
        PROVE  /\ logPrepareMsg'[k][l][s] = d =>
                    \/ HasSent(l, "Prepare", s, d)'
                    \/ l = k /\ pending'[k] = [id |-> s, digest |-> d]
               /\ logCommitMsg'[k][l][s] = d => HasSent(l, "Commit", s, d)'
    <3>1. /\ logPrepareMsg[k][l][s] = d =>
               \/ HasSent(l, "Prepare", s, d)
               \/ l = k /\ pending[k] = [id |-> s, digest |-> d]
          /\ logCommitMsg[k][l][s] = d => HasSent(l, "Commit", s, d)
      BY SMTT(30), <2>1, <2>4 DEF VotesSent
    <3>2. logPrepareMsg'[k][l][s] =
            IF k = n /\ l = m /\ s = pre.id THEN pre.digest ELSE logPrepareMsg[k][l][s]
      BY SMTT(30), <2>1, <1>2, VoteTable
    <3>3. \/ logCommitMsg'[k][l][s] = logCommitMsg[k][l][s]
          \/ /\ Appended(n, c) /\ k = n /\ l = n /\ s = pre.id
             /\ logCommitMsg'[k][l][s] = pre.digest
      <4>1. CASE logCommitMsg' = logCommitMsg
        BY <4>1
      <4>2. CASE /\ logCommitMsg' = [logCommitMsg EXCEPT ![n][n][pre.id] = pre.digest]
                 /\ Appended(n, c)
        <5>1. logCommitMsg'[k][l][s] =
                IF k = n /\ l = n /\ s = pre.id THEN pre.digest ELSE logCommitMsg[k][l][s]
          BY SMTT(60), <2>1, <4>2, <1>2, VoteTable
        <5> QED BY SMTT(60), <4>2, <5>1
      <4> QED BY <2>1, <4>1, <4>2
    <3>4. pending'[k] = pending[k] /\ role'[k] = role[k]
      BY <2>1
    <3>5. logPrepareMsg'[k][l][s] = d =>
            \/ HasSent(l, "Prepare", s, d)'
            \/ l = k /\ pending'[k] = [id |-> s, digest |-> d]
      BY <3>1, <3>2, <3>4, <2>2, <1>3
    <3>6. logCommitMsg'[k][l][s] = d => HasSent(l, "Commit", s, d)'
      BY SMTT(120), <3>1, <3>3, <3>4, <2>3, <2>4, <1>3
    <3> QED BY SMTT(60), <3>5, <3>6
  <2> QED BY <2>4 DEF VotesSent
<1>10. ASSUME NEW n \in Node, NEW m \in Node, ExecCommitMessage(n, m) PROVE VotesSent'
  <2> DEFINE c == NextRumor(n, m)
  <2>1. /\ c.id \in Slot /\ c \in Message /\ c.type = "Commit"
        /\ accepted[n][m] + 1 \in 1..Len(rumors[m])
        /\ c = rumors[m][accepted[n][m] + 1]
        /\ logCommitMsg' = [logCommitMsg EXCEPT ![n][m][c.id] = c.digest]
        /\ UNCHANGED <<logPrepareMsg, pending, role>>
    BY ZenonT(60), <1>10, ExecCommitFacts
  <2> HIDE DEF c
  <2>2. HasSent(m, "Commit", c.id, c.digest)
    BY <2>1, <1>4
  <2>3. \A k, l \in Node, s \in Slot : logCommitMsg'[k][l][s] =
          IF k = n /\ l = m /\ s = c.id THEN c.digest ELSE logCommitMsg[k][l][s]
    BY <2>1, <1>2, VoteTable
  <2> QED BY SMTT(60), <2>1, <2>2, <2>3, <1>3 DEF VotesSent
<1>11. ASSUME NEW n \in Node, NEW m \in Node, ExecCheckpointMessage(n, m) PROVE VotesSent'
  BY <1>5, <1>11 DEF ExecCheckpointMessage
<1>12. ASSUME NEW n \in Node, TurnBad(n) PROVE VotesSent'
  <2>1. /\ UNCHANGED <<logPrepareMsg, logCommitMsg, pending>>
        /\ role' = [role EXCEPT ![n] = 1] /\ role \in [Node -> {0, 1}]
    BY <1>1, <1>12 DEF TurnBad, TypeOK
  <2>2. \A k \in Node : role'[k] = 0 => role[k] = 0
    BY <2>1
  <2> QED BY <2>1, <2>2, <1>1, VotesFrame
<1>13. CASE UNCHANGED vars
  BY <1>5, <1>13 DEF vars, pbftVars
<1> QED BY <1>6, <1>7, <1>8, <1>9, <1>10, <1>11, <1>12, <1>13 DEF Next, Process

-----------------------------------------------------------------------------
(* The quorums that a good peer counted were broadcast.                    *)

\* What is pre-prepared in a slot stays.
LEMMA PrePreparedStays ==
  ASSUME TypeInv, PrePreparesOwned, OneDigestPerSlot, [Next]_vars,
         NEW n \in Node, NEW s \in Slot, logPrePrepareMsg[n][s] # NoReq
  PROVE  logPrePrepareMsg'[n][s] = logPrePrepareMsg[n][s]
<1>1. logPrePrepareMsg \in [Node -> [Slot -> Digest]]
  BY DEF TypeInv, TypeOK
<1>2. ASSUME NEW r \in Calls, TagSend(r)
      PROVE  logPrePrepareMsg'[n][s] = logPrePrepareMsg[n][s]
  <2>1. /\ r.hr \in Node /\ TagID(r) \in Slot
        /\ logPrePrepareMsg' = [logPrePrepareMsg EXCEPT ![r.hr][TagID(r)] = r]
    BY <1>2, TagSendFacts
  <2>2. logPrePrepareMsg[n][TagID(r)] \in {NoReq, r}
    BY <1>2, SlotIsOwn
  <2>3. logPrePrepareMsg'[n][s] =
          IF n = r.hr /\ s = TagID(r) THEN r ELSE logPrePrepareMsg[n][s]
    BY <2>1, <1>1, SlotTable
  <2> QED BY <2>2, <2>3
<1>3. ASSUME NEW k \in Node, NEW m \in Node, ExecPrePrepareMessage(k, m)
      PROVE  logPrePrepareMsg'[n][s] = logPrePrepareMsg[n][s]
  <2> DEFINE pp == NextRumor(k, m)
  <2>1. /\ pp.id \in Slot /\ ~Conflict(k, pp.id, pp.digest)
        /\ \/ Conflict(k, pp.id, pp.digest)
           \/ logPrePrepareMsg' = [logPrePrepareMsg EXCEPT ![k][pp.id] = pp.digest]
    BY <1>3, ExecPrePrepareFacts, NoConflict
  <2> HIDE DEF pp
  <2>2. logPrePrepareMsg'[n][s] =
          IF n = k /\ s = pp.id THEN pp.digest ELSE logPrePrepareMsg[n][s]
    BY <2>1, <1>1, SlotTable
  <2> QED BY <2>1, <2>2 DEF Conflict
<1>4. ASSUME NEW r \in Calls, TagCall(r) \/ TagCheck(r)
      PROVE  logPrePrepareMsg' = logPrePrepareMsg
  BY <1>4 DEF TagCall, TagCheck, pbftVars
<1>5. ASSUME NEW k \in Node, BroadcastPrepare(k) \/ TurnBad(k)
      PROVE  logPrePrepareMsg' = logPrePrepareMsg
  BY SMTT(120), <1>5 DEF BroadcastPrepare, TurnBad, pbftVars
<1>6. ASSUME NEW k \in Node, NEW m \in Node,
             \/ ExecPrepareMessage(k, m)
             \/ ExecCommitMessage(k, m)
             \/ ExecCheckpointMessage(k, m)
      PROVE  logPrePrepareMsg' = logPrePrepareMsg
  BY <1>6 DEF ExecPrepareMessage, ExecCommitMessage, ExecCheckpointMessage
<1>7. UNCHANGED vars => logPrePrepareMsg' = logPrePrepareMsg
  BY DEF vars, pbftVars
<1> QED BY <1>2, <1>3, <1>4, <1>5, <1>6, <1>7 DEF Next, Process

\* The votes that a good peer counts are of peers that broadcast them.
LEMMA PreparesCounted ==
  ASSUME VotesSent', NEW n \in Node, role'[n] = 0,
         pending'[n] \notin [id : Slot, digest : Request],
         NEW s \in Slot, NEW d \in Digest, NEW log, log = logPrepareMsg'
  PROVE  /\ Cardinality(Matching(log, n, s, d)) \in Nat
         /\ Cardinality(Senders("Prepare", s, d)') \in Nat
         /\ Cardinality(Matching(log, n, s, d)) <= Cardinality(Senders("Prepare", s, d)')
         /\ d = NoReq => Cardinality(Matching(log, n, s, d)) = 0
<1>1. /\ Matching(log, n, s, d) \in SUBSET Node
      /\ Senders("Prepare", s, d)' \in SUBSET Node
      /\ d = NoReq => Matching(log, n, s, d) = {}
  BY DEF Matching, Senders
<1>2. ASSUME NEW m \in Matching(log, n, s, d) PROVE m \in Senders("Prepare", s, d)'
  <2>1. m \in Node /\ d \in Request /\ logPrepareMsg'[n][m][s] = d
    BY <1>2 DEF Matching, Digest
  <2>2. \/ HasSent(m, "Prepare", s, d)'
        \/ m = n /\ pending'[n] = [id |-> s, digest |-> d]
    BY <2>1 DEF VotesSent
  <2> QED BY <2>1, <2>2 DEF Senders
<1> QED BY <1>1, <1>2, MoreNodes, FS_EmptySet

LEMMA CommitsCounted ==
  ASSUME VotesSent', NEW n \in Node, role'[n] = 0,
         NEW s \in Slot, NEW d \in Digest, NEW log, log = logCommitMsg'
  PROVE  /\ Cardinality(Matching(log, n, s, d)) \in Nat
         /\ Cardinality(Senders("Commit", s, d)') \in Nat
         /\ Cardinality(Matching(log, n, s, d)) <= Cardinality(Senders("Commit", s, d)')
         /\ d = NoReq => Cardinality(Matching(log, n, s, d)) = 0
<1>1. /\ Matching(log, n, s, d) \in SUBSET Node
      /\ Senders("Commit", s, d)' \in SUBSET Node
      /\ d = NoReq => Matching(log, n, s, d) = {}
  BY DEF Matching, Senders
<1>2. ASSUME NEW m \in Matching(log, n, s, d) PROVE m \in Senders("Commit", s, d)'
  <2>1. m \in Node /\ d \in Request /\ logCommitMsg'[n][m][s] = d
    BY <1>2 DEF Matching, Digest
  <2>2. HasSent(m, "Commit", s, d)'
    BY <2>1 DEF VotesSent
  <2> QED BY <2>1, <2>2 DEF Senders
<1> QED BY <1>1, <1>2, MoreNodes, FS_EmptySet

\* Steps that advance no state.
LEMMA QuorumsFrame ==
  ASSUME TypeInv, PrePreparesOwned, OneDigestPerSlot, QuorumsSent, [Next]_vars,
         NEW n \in Node, NEW s \in Slot, role'[n] = 0, role[n] = 0,
         state'[n][s] \in {state[n][s], 0},
         NEW d, d = logPrePrepareMsg'[n][s]
  PROVE  /\ state'[n][s] >= 1 =>
              /\ Cardinality(Senders("Prepare", s, d)') >= TwoThirds
              /\ d = NoReq => TwoThirds = 0
         /\ state'[n][s] = 2 =>
              /\ Cardinality(Senders("Commit", s, d)') > TwoThirds
              /\ d # NoReq
<1> SUFFICES ASSUME state'[n][s] = state[n][s], state[n][s] >= 1
             PROVE  /\ Cardinality(Senders("Prepare", s, d)') >= TwoThirds
                    /\ d = NoReq => TwoThirds = 0
                    /\ state[n][s] = 2 =>
                         /\ Cardinality(Senders("Commit", s, d)') > TwoThirds
                         /\ d # NoReq
  OBVIOUS
<1>1. RumorsGrow /\ TwoThirds \in Nat
  BY OwnedNext, TwoThirdsNat
<1>2. logPrePrepareMsg[n][s] # NoReq => d = logPrePrepareMsg[n][s]
  BY PrePreparedStays
<1>3. /\ Cardinality(Senders("Prepare", s, d)) \in Nat
      /\ Cardinality(Senders("Prepare", s, d)') \in Nat
      /\ Cardinality(Senders("Prepare", s, d)) <= Cardinality(Senders("Prepare", s, d)')
  BY Zenon, <1>1, SendersGrow
<1>4. /\ Cardinality(Senders("Commit", s, d)) \in Nat
      /\ Cardinality(Senders("Commit", s, d)') \in Nat
      /\ Cardinality(Senders("Commit", s, d)) <= Cardinality(Senders("Commit", s, d)')
  BY Zenon, <1>1, SendersGrow
<1>5. CASE logPrePrepareMsg[n][s] = NoReq
  <2>1. TwoThirds = 0 /\ state[n][s] # 2
    BY <1>5 DEF QuorumsSent
  <2> QED BY <2>1, <1>3
<1>6. CASE d = logPrePrepareMsg[n][s]
  <2>1. /\ Cardinality(Senders("Prepare", s, d)) >= TwoThirds
        /\ d = NoReq => TwoThirds = 0
        /\ state[n][s] = 2 =>
             Cardinality(Senders("Commit", s, d)) > TwoThirds /\ d # NoReq
    BY <1>6 DEF QuorumsSent
  <2> QED BY <2>1, <1>1, <1>3, <1>4
<1> QED BY <1>2, <1>5, <1>6

LEMMA QuorumsNext ==
  ASSUME TypeInv, PrePreparesOwned, OneDigestPerSlot, VotesSent, QuorumsSent, [Next]_vars
  PROVE  QuorumsSent'
<1>1. /\ TypeOK /\ VotesSent' /\ RumorsGrow /\ TwoThirds \in Nat
      /\ state \in [Node -> [Slot -> 0..2]]
      /\ logPrePrepareMsg \in [Node -> [Slot -> Digest]]
  BY VotesNext, OwnedNext, TwoThirdsNat DEF TypeInv, TypeOK
<1>2. \A k \in Node : role'[k] = 0 => role[k] = 0
  <2>1. ASSUME NEW n \in Node, TurnBad(n) PROVE \A k \in Node : role'[k] = 0 => role[k] = 0
    BY <2>1, <1>1 DEF TurnBad, TypeOK
  <2>2. ASSUME NEW r \in Calls, TagCall(r) \/ TagCheck(r) \/ TagSend(r) PROVE role' = role
    BY <2>2, TagSendFacts DEF TagCall, TagCheck, pbftVars
  <2>3. ASSUME NEW n \in Node, NEW m \in Node,
               \/ ExecPrePrepareMessage(n, m)
               \/ ExecPrepareMessage(n, m)
               \/ ExecCommitMessage(n, m)
               \/ ExecCheckpointMessage(n, m)
        PROVE  role' = role
    BY <2>3 DEF ExecPrePrepareMessage, ExecPrepareMessage, ExecCommitMessage,
                ExecCheckpointMessage
  <2>4. ASSUME NEW n \in Node, BroadcastPrepare(n) PROVE role' = role
    BY <2>4 DEF BroadcastPrepare, pbftVars
  <2>5. UNCHANGED vars => role' = role
    BY DEF vars, pbftVars
  <2> QED BY <2>1, <2>2, <2>3, <2>4, <2>5 DEF Next, Process
\* What the invariant says of one peer and one slot after the step.
<1> DEFINE Q(n, s, d) ==
             /\ state'[n][s] >= 1 =>
                  /\ Cardinality(Senders("Prepare", s, d)') >= TwoThirds
                  /\ d = NoReq => TwoThirds = 0
             /\ state'[n][s] = 2 =>
                  /\ Cardinality(Senders("Commit", s, d)') > TwoThirds
                  /\ d # NoReq
<1>3. ASSUME NEW n \in Node, NEW s \in Slot, role'[n] = 0,
             state'[n][s] \in {state[n][s], 0}, NEW d, d = logPrePrepareMsg'[n][s]
      PROVE  Q(n, s, d)
  <2>1. role[n] = 0
    BY <1>2, <1>3
  <2> QED BY Zenon, <2>1, <1>3, QuorumsFrame
<1>4. ASSUME \A n \in Node, s \in Slot : role'[n] = 0 =>
               \A d : d = logPrePrepareMsg'[n][s] => Q(n, s, d)
      PROVE  QuorumsSent'
  BY <1>4 DEF QuorumsSent
<1>5. ASSUME \A n \in Node, s \in Slot : state'[n][s] \in {state[n][s], 0}
      PROVE  QuorumsSent'
  <2> HIDE DEF Q
  <2> QED BY <1>3, <1>4, <1>5
<1>6. ASSUME state' = state PROVE QuorumsSent'
  BY <1>5, <1>6
<1>7. ASSUME NEW r \in Calls, TagSend(r) PROVE QuorumsSent'
  <2>1. /\ r.hr \in Node /\ TagID(r) \in Slot
        /\ state' = [state EXCEPT ![r.hr][TagID(r)] = IF sends[r] = 0 THEN 0 ELSE @]
    BY <1>7, TagSendFacts
  <2>2. \A n \in Node, s \in Slot : state'[n][s] \in {state[n][s], 0}
    BY <2>1, <1>1
  <2> QED BY <2>2, <1>5
<1>8. ASSUME NEW n \in Node, NEW m \in Node, ExecPrepareMessage(n, m) PROVE QuorumsSent'
  <2> DEFINE pre == NextRumor(n, m)
             log == [logPrepareMsg EXCEPT ![n][m][pre.id] = pre.digest]
             e   == logPrePrepareMsg[n][pre.id]
  <2>1. /\ pre.id \in Slot /\ pending[n] = NoPrepare /\ logPrepareMsg' = log
        /\ \/ state' = state
           \/ /\ Cardinality(Matching(log, n, pre.id, e)) >= TwoThirds
              /\ state' = [state EXCEPT ![n][pre.id] = 1]
        /\ UNCHANGED <<logPrePrepareMsg, pending>>
    BY ZenonT(60), <1>8, ExecPrepareFacts
  <2> HIDE DEF pre, log
  <2>2. CASE /\ Cardinality(Matching(log, n, pre.id, e)) >= TwoThirds
             /\ state' = [state EXCEPT ![n][pre.id] = 1]
    <3>1. \A k \in Node, s \in Slot :
            state'[k][s] = IF k = n /\ s = pre.id THEN 1 ELSE state[k][s]
      BY <2>1, <2>2, <1>1, SlotTable
    <3>2. ASSUME role'[n] = 0, NEW s \in Slot, s = pre.id, NEW d, d = logPrePrepareMsg'[n][s]
          PROVE  Q(n, s, d)
      <4>1. d \in Digest /\ Cardinality(Matching(log, n, s, d)) >= TwoThirds
        BY <3>2, <2>1, <2>2, <1>1
      <4>2. PICK l : l = log
        OBVIOUS
      <4>3. l = logPrepareMsg' /\ pending'[n] \notin [id : Slot, digest : Request]
        BY <4>2, <2>1, PbftAssumption DEF NoPrepare, Slot
      <4>4. /\ Cardinality(Matching(l, n, s, d)) \in Nat
            /\ Cardinality(Senders("Prepare", s, d)') \in Nat
            /\ Cardinality(Matching(l, n, s, d)) <= Cardinality(Senders("Prepare", s, d)')
            /\ d = NoReq => Cardinality(Matching(l, n, s, d)) = 0
        BY ZenonT(60), <4>1, <4>3, <3>2, <1>1, PreparesCounted
      <4>5. state'[n][s] = 1
        BY <3>1, <3>2
      <4> QED BY <4>1, <4>2, <4>4, <4>5, <1>1
    <3>3. ASSUME NEW k \in Node, NEW s \in Slot, role'[k] = 0,
                 NEW d, d = logPrePrepareMsg'[k][s]
          PROVE  Q(k, s, d)
      <4> HIDE DEF Q
      <4>1. CASE k = n /\ s = pre.id
        BY <4>1, <3>2, <3>3
      <4>2. CASE ~(k = n /\ s = pre.id)
        BY <4>2, <3>1, <3>3, <1>3
      <4> QED BY <4>1, <4>2
    <3> HIDE DEF Q
    <3> QED BY <3>3, <1>4
  <2> QED BY <2>1, <2>2, <1>6
<1>9. ASSUME NEW n \in Node, NEW m \in Node, ExecCommitMessage(n, m) PROVE QuorumsSent'
  <2> DEFINE c   == NextRumor(n, m)
             log == [logCommitMsg EXCEPT ![n][m][c.id] = c.digest]
             e   == logPrePrepareMsg[n][c.id]
  <2>1. /\ c.id \in Slot /\ logCommitMsg' = log
        /\ \/ state' = state
           \/ /\ Cardinality(Matching(log, n, c.id, e)) > TwoThirds
              /\ state[n][c.id] = 1
              /\ state' = [state EXCEPT ![n][c.id] = 2]
        /\ UNCHANGED <<logPrePrepareMsg, rumors, role>>
    BY ZenonT(60), <1>9, ExecCommitFacts
  <2> HIDE DEF c, log
  <2>2. CASE /\ Cardinality(Matching(log, n, c.id, e)) > TwoThirds
             /\ state[n][c.id] = 1
             /\ state' = [state EXCEPT ![n][c.id] = 2]
    <3>1. \A k \in Node, s \in Slot :
            state'[k][s] = IF k = n /\ s = c.id THEN 2 ELSE state[k][s]
      BY <2>1, <2>2, <1>1, SlotTable
    <3>2. ASSUME role'[n] = 0, NEW s \in Slot, s = c.id, NEW d, d = logPrePrepareMsg'[n][s]
          PROVE  Q(n, s, d)
      <4>1. d \in Digest /\ Cardinality(Matching(log, n, s, d)) > TwoThirds
        BY <3>2, <2>1, <2>2, <1>1
      <4>2. PICK l : l = log
        OBVIOUS
      <4>3. l = logCommitMsg'
        BY <4>2, <2>1
      <4>4. /\ Cardinality(Matching(l, n, s, d)) \in Nat
            /\ Cardinality(Senders("Commit", s, d)') \in Nat
            /\ Cardinality(Matching(l, n, s, d)) <= Cardinality(Senders("Commit", s, d)')
            /\ d = NoReq => Cardinality(Matching(l, n, s, d)) = 0
        BY ZenonT(60), <4>1, <4>3, <3>2, <1>1, CommitsCounted
      <4>5. d = logPrePrepareMsg[n][s] /\ state[n][s] = 1 /\ role[n] = 0
        BY <3>2, <2>1, <2>2, <1>2
      <4>6. /\ Cardinality(Senders("Prepare", s, d)) >= TwoThirds
            /\ d = NoReq => TwoThirds = 0
        BY <4>5 DEF QuorumsSent
      <4>7. Senders("Prepare", s, d)' = Senders("Prepare", s, d)
        BY <2>1 DEF Senders, HasSent
      <4> QED BY <4>1, <4>2, <4>4, <4>6, <4>7, <1>1
    <3>3. ASSUME NEW k \in Node, NEW s \in Slot, role'[k] = 0,
                 NEW d, d = logPrePrepareMsg'[k][s]
          PROVE  Q(k, s, d)
      <4> HIDE DEF Q
      <4>1. CASE k = n /\ s = c.id
        BY <4>1, <3>2, <3>3
      <4>2. CASE ~(k = n /\ s = c.id)
        BY <4>2, <3>1, <3>3, <1>3
      <4> QED BY <4>1, <4>2
    <3> HIDE DEF Q
    <3> QED BY <3>3, <1>4
  <2> QED BY <2>1, <2>2, <1>6
<1>10. ASSUME NEW r \in Calls, TagCall(r) \/ TagCheck(r) PROVE QuorumsSent'
  BY <1>6, <1>10 DEF TagCall, TagCheck, pbftVars
<1>11. ASSUME NEW n \in Node, BroadcastPrepare(n) \/ TurnBad(n) PROVE QuorumsSent'
  BY <1>6, <1>11 DEF BroadcastPrepare, TurnBad, pbftVars
<1>12. ASSUME NEW n \in Node, NEW m \in Node,
              ExecPrePrepareMessage(n, m) \/ ExecCheckpointMessage(n, m)
       PROVE  QuorumsSent'
  BY <1>6, <1>12 DEF ExecPrePrepareMessage, ExecCheckpointMessage
<1>13. CASE UNCHANGED vars
  BY <1>6, <1>13 DEF vars, pbftVars
<1> HIDE DEF Q
<1> QED BY <1>7, <1>8, <1>9, <1>10, <1>11, <1>12, <1>13 DEF Next, Process

-----------------------------------------------------------------------------
(* TagInv.                                                                 *)

LEMMA TagInvInit == Init => TagInv
<1> SUFFICES ASSUME Init PROVE TagInv
  OBVIOUS
<1>1. TypeInv /\ PrePreparesOwned
  BY TypeInvInit, IInvInit DEF IInv
<1>2. OneTagAtATime
  BY DEF Init, OneTagAtATime, Active, Passed, Sent
<1>3. OnlySent
  BY EmptySeq DEF Init, OnlySent
<1>4. OneDigestPerSlot
  BY EmptySeq, PbftAssumption DEF Init, OneDigestPerSlot, Active, Request
<1>5. VotesSent
  BY PbftAssumption DEF Init, VotesSent, NoReq, Request, Node
<1>6. QuorumsSent
  BY DEF Init, QuorumsSent
<1> QED BY <1>1, <1>2, <1>3, <1>4, <1>5, <1>6 DEF TagInv

LEMMA TagInvNext ==
  ASSUME Concurrent = FALSE
  PROVE  TagInv /\ [Next]_vars => TagInv'
<1> SUFFICES ASSUME TagInv, [Next]_vars PROVE TagInv'
  OBVIOUS
<1>1. TypeInv' /\ PrePreparesOwned'
  BY TypeInvNext, OwnedNext DEF TagInv
<1>2. OneTagAtATime'
  BY OneTagNext DEF TagInv
<1>3. OnlySent'
  BY OnlySentNext DEF TagInv
<1>4. OneDigestPerSlot'
  BY OneDigestNext DEF TagInv
<1>5. VotesSent' /\ QuorumsSent'
  BY VotesNext, QuorumsNext DEF TagInv
<1> QED BY <1>1, <1>2, <1>3, <1>4, <1>5 DEF TagInv

LEMMA TagInvHolds ==
  ASSUME Concurrent = FALSE
  PROVE  Spec => []TagInv
<1>1. TagInv /\ [Next]_vars => TagInv'
  BY TagInvNext
<1> QED BY <1>1, TagInvInit, PTL DEF Spec

-----------------------------------------------------------------------------
(* DurableInv.                                                             *)

\* A slot that is pre-prepared does not lose its state.
LEMMA PreparedStays ==
  ASSUME TypeInv, PrePreparesOwned, OneDigestPerSlot, [Next]_vars,
         NEW n \in Node, NEW s \in Slot, logPrePrepareMsg[n][s] # NoReq
  PROVE  state[n][s] \in 0..2 /\ state'[n][s] \in 0..2 /\ state'[n][s] >= state[n][s]
<1>1. /\ TypeOK /\ state \in [Node -> [Slot -> 0..2]] /\ state' \in [Node -> [Slot -> 0..2]]
  BY TypeInvNext DEF TypeInv, TypeOK
<1> SUFFICES state'[n][s] >= state[n][s]
  BY <1>1
<1>2. ASSUME state' = state PROVE state'[n][s] >= state[n][s]
  BY <1>1, <1>2
<1>3. ASSUME NEW r \in Calls, TagSend(r) PROVE state'[n][s] >= state[n][s]
  <2>1. /\ r.hr \in Node /\ TagID(r) \in Slot /\ TagID(r) \in Nat /\ OwnedBy(TagID(r), r.hr)
        /\ pbftID[r.hr] \in Nat
        /\ IF sends[r] = 0 THEN TagID(r) > pbftID[r.hr] ELSE TagID(r) = pbftID[r.hr]
        /\ state' = [state EXCEPT ![r.hr][TagID(r)] = IF sends[r] = 0 THEN 0 ELSE @]
    BY <1>3, TagSendFacts
  <2>2. ASSUME n = r.hr, s = TagID(r) PROVE ~(TagID(r) > pbftID[r.hr])
    <3>1. PICK d : d = logPrePrepareMsg[n][s]
      OBVIOUS
    <3>2. HasSent(d.hr, "PrePrepare", s, d) /\ d.hr \in Node
      BY Zenon, <1>1, <3>1, LoggedOwner
    <3>3. OwnedBy(s, d.hr) /\ s <= pbftID[d.hr]
      BY Zenon, <1>1, <3>2, SentOwned
    <3>4. d.hr = n
      BY Zenon, <2>1, <2>2, <3>2, <3>3, OwnerUnique
    <3> QED BY <2>1, <2>2, <3>3, <3>4
  <2>3. state'[n][s] = IF n = r.hr /\ s = TagID(r) /\ sends[r] = 0 THEN 0 ELSE state[n][s]
    BY <2>1, <1>1
  <2> QED BY <2>1, <2>2, <2>3, <1>1
<1>4. ASSUME NEW k \in Node, NEW m \in Node, ExecPrepareMessage(k, m)
      PROVE  state'[n][s] >= state[n][s]
  <2> DEFINE id == NextRumor(k, m).id
  <2>1. /\ id \in Slot
        /\ \/ state' = state
           \/ state[k][id] = 0 /\ state' = [state EXCEPT ![k][id] = 1]
    BY ZenonT(60), <1>4, ExecPrepareFacts
  <2> HIDE DEF id
  <2> QED BY <2>1, <1>1
<1>5. ASSUME NEW k \in Node, NEW m \in Node, ExecCommitMessage(k, m)
      PROVE  state'[n][s] >= state[n][s]
  <2> DEFINE id == NextRumor(k, m).id
  <2>1. /\ id \in Slot
        /\ \/ state' = state
           \/ state[k][id] = 1 /\ state' = [state EXCEPT ![k][id] = 2]
    BY ZenonT(60), <1>5, ExecCommitFacts
  <2> HIDE DEF id
  <2> QED BY <2>1, <1>1
<1>6. ASSUME NEW r \in Calls, TagCall(r) \/ TagCheck(r) PROVE state' = state
  BY <1>6 DEF TagCall, TagCheck, pbftVars
<1>7. ASSUME NEW k \in Node, BroadcastPrepare(k) \/ TurnBad(k) PROVE state' = state
  BY <1>7 DEF BroadcastPrepare, TurnBad, pbftVars
<1>8. ASSUME NEW k \in Node, NEW m \in Node,
             ExecPrePrepareMessage(k, m) \/ ExecCheckpointMessage(k, m)
      PROVE  state' = state
  BY <1>8 DEF ExecPrePrepareMessage, ExecCheckpointMessage
<1>9. UNCHANGED vars => state' = state
  BY DEF vars, pbftVars
<1> QED BY <1>2, <1>3, <1>4, <1>5, <1>6, <1>7, <1>8, <1>9 DEF Next, Process

LEMMA CommittedStays ==
  ASSUME TagInv, [Next]_vars, NEW n \in Node, NEW r \in Request, HasCommitted(n, r)
  PROVE  HasCommitted(n, r)'
<1>1. PICK s \in Slot : state[n][s] = 2 /\ logPrePrepareMsg[n][s] = r
  BY DEF HasCommitted
<1>2. r # NoReq
  BY DEF Request, NoReq, Node
<1>3. state'[n][s] \in 0..2 /\ state'[n][s] >= state[n][s]
  BY <1>1, <1>2, PreparedStays DEF TagInv
<1>4. logPrePrepareMsg'[n][s] = r
  BY <1>1, <1>2, PrePreparedStays DEF TagInv
<1> QED BY <1>1, <1>3, <1>4 DEF HasCommitted

\* A vote for a slot is for what is pre-prepared in it.
LEMMA VoteIsPrePrepared ==
  ASSUME IInv, TagInv, NEW n \in Node, NEW s \in Slot, NEW d, First(s, d),
         logPrePrepareMsg[n][s] # NoReq
  PROVE  logPrePrepareMsg[n][s] = d
<1>1. TypeOK /\ PrePreparesOwned /\ OneDigestPerSlot
  BY DEF TagInv, TypeInv
<1>2. PICK e : e = logPrePrepareMsg[n][s]
  OBVIOUS
<1>3. HasSent(e.hr, "PrePrepare", s, e) /\ e.hr \in Node
  BY Zenon, <1>1, <1>2, LoggedOwner
<1>4. s \in Nat /\ OwnedBy(s, e.hr)
  BY <1>1, <1>3, SentOwned
<1>5. d.hr \in Node /\ OwnedBy(s, d.hr)
  BY <1>1, FirstOwner
<1>6. e.hr = d.hr
  BY Zenon, <1>3, <1>4, <1>5, OwnerUnique
<1>7. PICK i \in 1..Len(rumors[d.hr]) :
        /\ IsFirstPrePrepare(d.hr, i)
        /\ rumors[d.hr][i].id = s
        /\ rumors[d.hr][i].digest = d
  BY <1>1, FirstOwner
<1>8. PICK j \in 1..Len(rumors[d.hr]) :
        rumors[d.hr][j] = [type |-> "PrePrepare", id |-> s, digest |-> e]
  BY <1>3, <1>6 DEF HasSent
<1>9. /\ rumors[d.hr][i].type = "PrePrepare"
      /\ rumors[d.hr][j].type = "PrePrepare"
      /\ rumors[d.hr][j].id = s /\ rumors[d.hr][j].digest = e
  BY <1>7, <1>8 DEF IsFirstPrePrepare
<1>10. d = e
  BY <1>1, <1>5, <1>7, <1>9 DEF OneDigestPerSlot
<1> QED BY <1>2, <1>10

\* The parts of DurableInv.
CommitMeansPrepared ==
  TwoThirds > 0 =>
    \A m \in Node, s \in Slot, d \in Request : HasSent(m, "Commit", s, d) =>
      state[m][s] >= 1 /\ logPrePrepareMsg[m][s] = d

NamesCommitted ==
  \A n, h \in Node, x \in Name : hrNaming[n][h][x] # NoMh =>
    HasCommitted(n, [hr |-> h, name |-> x, mh |-> hrNaming[n][h][x]])

DoneCommitted == \A r \in Calls : tag[r] = "done" => HasCommitted(r.hr, r)

LEMMA CommitMeansPreparedNext ==
  ASSUME Faulty = {}, IInv, TagInv, CommitMeansPrepared, [Next]_vars, TwoThirds > 0
  PROVE  \A m \in Node, s \in Slot, d \in Request : HasSent(m, "Commit", s, d)' =>
           state'[m][s] >= 1 /\ logPrePrepareMsg'[m][s] = d
<1> SUFFICES ASSUME NEW m \in Node, NEW s \in Slot, NEW d \in Request,
                    HasSent(m, "Commit", s, d)'
             PROVE  state'[m][s] >= 1 /\ logPrePrepareMsg'[m][s] = d
  OBVIOUS
<1>1. /\ TypeInv /\ TypeOK /\ PrePreparesOwned /\ OneDigestPerSlot /\ NoReq \notin Request
      /\ state \in [Node -> [Slot -> 0..2]]
  <2>1. NoReq \notin Request
    BY DEF NoReq, Request, Node
  <2> QED BY <2>1 DEF TagInv, TypeInv, TypeOK
<1>2. ASSUME HasSent(m, "Commit", s, d) PROVE state'[m][s] >= 1 /\ logPrePrepareMsg'[m][s] = d
  <2>1. state[m][s] >= 1 /\ logPrePrepareMsg[m][s] = d /\ d # NoReq
    BY <1>1, <1>2 DEF CommitMeansPrepared
  <2>2. logPrePrepareMsg'[m][s] = d
    BY <2>1, <1>1, PrePreparedStays
  <2>3. state'[m][s] \in 0..2 /\ state'[m][s] >= state[m][s] /\ state[m][s] \in 0..2
    BY <2>1, <1>1, PreparedStays
  <2> QED BY <2>1, <2>2, <2>3
\* Only a peer that becomes prepared broadcasts another Commit.
<1>3. ASSUME RumorsGrow,
             \A k \in Node : \A i \in 1..Len(rumors'[k]) :
               i \in 1..Len(rumors[k]) \/ rumors'[k][i].type # "Commit"
      PROVE  HasSent(m, "Commit", s, d)
  <2>1. PICK i \in 1..Len(rumors'[m]) :
          rumors'[m][i] = [type |-> "Commit", id |-> s, digest |-> d]
    BY DEF HasSent
  <2>2. i \in 1..Len(rumors[m]) /\ rumors'[m][i] = rumors[m][i]
    BY <1>3, <2>1 DEF RumorsGrow
  <2> QED BY <2>1, <2>2 DEF HasSent
<1>4. RumorsGrow
  BY <1>1, OwnedNext
<1>5. ASSUME rumors' = rumors PROVE HasSent(m, "Commit", s, d)
  BY <1>3, <1>4, <1>5
<1>6. ASSUME NEW r \in Calls, TagSend(r) PROVE HasSent(m, "Commit", s, d)
  <2>1. \A k \in Node : \A i \in 1..Len(rumors'[k]) :
          \/ i \in 1..Len(rumors[k])
          \/ /\ k = r.hr
             /\ rumors'[k][i].id = TagID(r) /\ rumors'[k][i].digest = r
             /\ \/ rumors'[k][i].type = "Checkpoint"
                \/ rumors'[k][i].type = "PrePrepare" /\ i = Len(rumors[k]) + 1
    BY <1>1, <1>6, TagSendFacts
  <2>2. \A k \in Node : \A i \in 1..Len(rumors'[k]) :
          i \in 1..Len(rumors[k]) \/ rumors'[k][i].type # "Commit"
    BY <2>1
  <2> QED BY <2>2, <1>3, <1>4
<1>7. ASSUME NEW n \in Node, BroadcastPrepare(n) PROVE HasSent(m, "Commit", s, d)
  <2>1. PICK v : /\ v = [type |-> "Prepare", id |-> Shift(n, pending[n].id),
                         digest |-> pending[n].digest]
                 /\ Appended(n, v)
    BY <1>1, <1>7, BroadcastPrepareFacts
  <2> QED BY <2>1, <1>3 DEF Appended
<1>8. ASSUME NEW n \in Node, NEW l \in Node, ExecPrepareMessage(n, l)
      PROVE  state'[m][s] >= 1 /\ logPrePrepareMsg'[m][s] = d
  <2> DEFINE pre == NextRumor(n, l)
             log == [logPrepareMsg EXCEPT ![n][l][pre.id] = pre.digest]
  <2>1. /\ pre.id \in Slot /\ pre.digest \in Request /\ pre.type = "Prepare"
        /\ accepted[n][l] + 1 \in 1..Len(rumors[l])
        /\ pre = rumors[l][accepted[n][l] + 1]
        /\ \/ rumors' = rumors
           \/ /\ Cardinality(Matching(log, n, pre.id, logPrePrepareMsg[n][pre.id]))
                   >= TwoThirds
              /\ state' = [state EXCEPT ![n][pre.id] = 1]
              /\ Appended(n, [type |-> "Commit", id |-> Shift(n, pre.id),
                              digest |-> pre.digest])
        /\ logPrePrepareMsg' = logPrePrepareMsg
    BY ZenonT(60), <1>1, <1>8, ExecPrepareFacts
  <2> HIDE DEF pre, log
  <2>2. PICK id \in Slot, g \in Request : id = pre.id /\ g = pre.digest
    BY <2>1
  <2>3. CASE rumors' = rumors
    BY <2>3, <1>2, <1>5
  <2>4. CASE /\ Cardinality(Matching(log, n, pre.id, logPrePrepareMsg[n][pre.id]))
                  >= TwoThirds
             /\ state' = [state EXCEPT ![n][pre.id] = 1]
             /\ Appended(n, [type |-> "Commit", id |-> Shift(n, pre.id),
                             digest |-> pre.digest])
    <3>1. logPrePrepareMsg[n][id] # NoReq
      <4>1. logPrePrepareMsg[n][id] = NoReq =>
              Matching(log, n, id, logPrePrepareMsg[n][id]) = {}
        BY DEF Matching
      <4>2. Cardinality({}) = 0 /\ TwoThirds \in Nat
        BY FS_EmptySet, TwoThirdsNat
      <4> QED BY <4>1, <4>2, <2>2, <2>4
    <3>2. First(id, g)
      <4>1. First(pre.id, pre.digest)
        BY Zenon, <2>1, VoteFirst DEF IInv
      <4> QED BY <4>1, <2>2
    <3>3. logPrePrepareMsg[n][id] = g
      BY Zenon, <3>1, <3>2, VoteIsPrePrepared
    <3>4. state'[n][id] = 1
      BY <2>2, <2>4, <1>1, SlotTable
    <3>5. PICK i \in 1..Len(rumors'[m]) :
            rumors'[m][i] = [type |-> "Commit", id |-> s, digest |-> d]
      BY DEF HasSent
    <3>6. CASE i \in 1..Len(rumors[m])
      <4>1. rumors'[m][i] = rumors[m][i]
        BY <3>6, <1>4 DEF RumorsGrow
      <4> QED BY <4>1, <3>5, <3>6, <1>2 DEF HasSent
    <3>7. CASE i \notin 1..Len(rumors[m])
      <4>1. Shift(n, id) = id
        BY <1>1, NoShift
      <4>2. /\ m = n
            /\ [type |-> "Commit", id |-> s, digest |-> d]
                 = [type |-> "Commit", id |-> id, digest |-> g]
        BY SMTT(30), <4>1, <2>2, <2>4, <3>5, <3>7 DEF Appended
      <4>3. s = id /\ d = g
        BY <4>2
      <4> QED BY <4>2, <4>3, <3>3, <3>4, <2>1
    <3> QED BY <3>6, <3>7
  <2> QED BY <2>1, <2>3, <2>4
<1>9. ASSUME NEW r \in Calls, TagCall(r) \/ TagCheck(r) PROVE rumors' = rumors
  BY SMTT(60), <1>9 DEF TagCall, TagCheck
<1>10. ASSUME NEW n \in Node, NEW l \in Node,
              \/ ExecPrePrepareMessage(n, l)
              \/ ExecCommitMessage(n, l)
              \/ ExecCheckpointMessage(n, l)
       PROVE  rumors' = rumors
  BY <1>10 DEF ExecPrePrepareMessage, ExecCommitMessage, ExecCheckpointMessage
<1>11. ASSUME NEW n \in Node, TurnBad(n) PROVE rumors' = rumors
  BY <1>11 DEF TurnBad
<1>12. UNCHANGED vars => rumors' = rumors
  BY DEF vars
<1> QED BY <1>2, <1>5, <1>6, <1>7, <1>8, <1>9, <1>10, <1>11, <1>12 DEF Next, Process

LEMMA NamesCommittedNext ==
  ASSUME IInv, TagInv, NamesCommitted, [Next]_vars
  PROVE  NamesCommitted'
<1> SUFFICES ASSUME NEW n \in Node, NEW h \in Node, NEW x \in Name, hrNaming'[n][h][x] # NoMh,
                    NEW v, v = hrNaming'[n][h][x]
             PROVE  HasCommitted(n, [hr |-> h, name |-> x, mh |-> v])'
  BY DEF NamesCommitted
<1>1. /\ TypeInv /\ TypeOK /\ PrePreparesOwned /\ OneDigestPerSlot
      /\ state \in [Node -> [Slot -> 0..2]]
      /\ hrNaming \in [Node -> [Hr -> [Name \cup {NoName} -> Mh \cup {NoMh}]]]
  BY DEF TagInv, TypeInv, TypeOK
<1>2. ASSUME hrNaming'[n][h][x] = hrNaming[n][h][x]
      PROVE  HasCommitted(n, [hr |-> h, name |-> x, mh |-> v])'
  <2>1. v \in Mh
    <3>1. h \in Hr /\ x \in Name \cup {NoName}
      BY DEF Hr
    <3> QED BY <3>1, <1>1, <1>2
  <2>2. PICK q \in Request : q = [hr |-> h, name |-> x, mh |-> v]
    BY <2>1 DEF Request
  <2>3. HasCommitted(n, q)
    BY <1>2, <2>2 DEF NamesCommitted
  <2>4. HasCommitted(n, q)'
    BY <2>3, CommittedStays
  <2> QED BY <2>2, <2>4
<1>3. ASSUME hrNaming' = hrNaming
      PROVE  HasCommitted(n, [hr |-> h, name |-> x, mh |-> v])'
  BY <1>2, <1>3
<1>4. ASSUME NEW k \in Node, NEW m \in Node, ExecCommitMessage(k, m),
             hrNaming'[n][h][x] # hrNaming[n][h][x]
      PROVE  HasCommitted(n, [hr |-> h, name |-> x, mh |-> v])'
  <2> DEFINE c   == NextRumor(k, m)
             log == [logCommitMsg EXCEPT ![k][m][c.id] = c.digest]
  <2>1. /\ n = k
        /\ RequestOf(k, c.digest) = [hr |-> h, name |-> x, mh |-> v]
        /\ v \in Mh
    <3>1. /\ n = k
          /\ RequestOf(k, NextRumor(k, m).digest)
               = [hr |-> h, name |-> x, mh |-> hrNaming'[n][h][x]]
          /\ hrNaming'[n][h][x] \in Mh
          /\ hrNaming'[n][h][x] # NoMh
      BY <1>1, <1>4, NamesKept
    <3> QED BY <3>1
  <2>2. /\ c.id \in Slot /\ c.digest \in Request /\ c.type = "Commit"
        /\ accepted[k][m] + 1 \in 1..Len(rumors[m])
        /\ c = rumors[m][accepted[k][m] + 1]
        /\ \/ UNCHANGED <<state, storeVars>>
           \/ /\ Cardinality(Matching(log, k, c.id, logPrePrepareMsg[k][c.id])) > TwoThirds
              /\ state' = [state EXCEPT ![k][c.id] = 2]
        /\ logPrePrepareMsg' = logPrePrepareMsg
    BY ZenonT(120), <1>1, <1>4, ExecCommitFacts
  <2>3. /\ Cardinality(Matching(log, k, c.id, logPrePrepareMsg[k][c.id])) > TwoThirds
        /\ state' = [state EXCEPT ![k][c.id] = 2]
    BY <2>2, <1>4 DEF storeVars
  <2> HIDE DEF c, log
  <2>4. PICK id \in Slot, g \in Request : id = c.id /\ g = c.digest
    BY <2>2
  <2>5. logPrePrepareMsg[k][id] # NoReq
    <3>1. logPrePrepareMsg[k][id] = NoReq =>
            Matching(log, k, id, logPrePrepareMsg[k][id]) = {}
      BY DEF Matching
    <3>2. Cardinality({}) = 0 /\ TwoThirds \in Nat
      BY FS_EmptySet, TwoThirdsNat
    <3> QED BY <3>1, <3>2, <2>3, <2>4
  <2>6. First(id, g)
    <3>1. First(c.id, c.digest)
      BY Zenon, <2>2, VoteFirst DEF IInv
    <3> QED BY <3>1, <2>4
  <2>7. logPrePrepareMsg[k][id] = g
    BY Zenon, <2>5, <2>6, VoteIsPrePrepared
  <2>8. g = [hr |-> h, name |-> x, mh |-> v]
    <3>1. RequestOf(k, g) = [hr |-> h, name |-> x, mh |-> v] /\ NoMh \notin Mh
      BY <2>1, <2>4, PbftAssumption
    <3> QED BY <3>1, <2>1 DEF RequestOf, NoReq
  <2>9. state'[k][id] = 2
    BY SMTT(60), <2>3, <2>4, <1>1, SlotTable
  <2>10. logPrePrepareMsg'[k][id] = g
    BY <2>2, <2>7
  <2> QED BY <2>1, <2>8, <2>9, <2>10 DEF HasCommitted
<1>5. ASSUME NEW k \in Node, NEW m \in Node, ExecCommitMessage(k, m)
      PROVE  HasCommitted(n, [hr |-> h, name |-> x, mh |-> v])'
  BY SMTT(60), <1>2, <1>4, <1>5
<1>6. ASSUME NEW r \in Calls, TagCall(r) \/ TagCheck(r) \/ TagSend(r)
      PROVE  hrNaming' = hrNaming
  BY <1>1, <1>6, TagSendFacts DEF TagCall, TagCheck, storeVars
<1>7. ASSUME NEW k \in Node, NEW m \in Node,
             \/ ExecPrePrepareMessage(k, m)
             \/ ExecPrepareMessage(k, m)
             \/ ExecCheckpointMessage(k, m)
      PROVE  hrNaming' = hrNaming
  BY <1>7 DEF ExecPrePrepareMessage, ExecPrepareMessage, ExecCheckpointMessage, storeVars
<1>8. ASSUME NEW k \in Node, BroadcastPrepare(k) \/ TurnBad(k) PROVE hrNaming' = hrNaming
  BY <1>8 DEF BroadcastPrepare, TurnBad, storeVars
<1>9. UNCHANGED vars => hrNaming' = hrNaming
  BY DEF vars, storeVars
<1> QED BY <1>3, <1>5, <1>6, <1>7, <1>8, <1>9 DEF Next, Process

LEMMA DoneCommittedNext ==
  ASSUME TagInv, NamesCommitted, DoneCommitted, [Next]_vars
  PROVE  DoneCommitted'
<1> SUFFICES ASSUME NEW q \in Calls, tag'[q] = "done"
             PROVE  HasCommitted(q.hr, q)'
  BY DEF DoneCommitted
<1>1. /\ TypeOK /\ tag \in [Calls -> {"idle", "check", "send", "done", "rejected"}]
      /\ q \in Request /\ q.hr \in Node /\ q.name \in Name /\ q.mh \in Mh
      /\ q = [hr |-> q.hr, name |-> q.name, mh |-> q.mh]
      /\ NoMh \notin Mh
  BY PbftAssumption DEF TagInv, TypeInv, TypeOK, Request
<1>2. ASSUME HasCommitted(q.hr, q) PROVE HasCommitted(q.hr, q)'
  BY <1>1, <1>2, CommittedStays
<1>3. ASSUME tag' = tag PROVE HasCommitted(q.hr, q)'
  BY <1>2, <1>3 DEF DoneCommitted
<1>4. ASSUME NEW r \in Calls, TagCheck(r) PROVE HasCommitted(q.hr, q)'
  <2>1. tag' = [tag EXCEPT ![r] = IF hrNaming[r.hr][r.hr][r.name] = r.mh
                                  THEN "done" ELSE "send"]
    BY <1>4 DEF TagCheck
  <2>2. CASE q = r
    <3>1. hrNaming[q.hr][q.hr][q.name] = q.mh
      BY <2>1, <2>2, <1>1
    <3>2. HasCommitted(q.hr, [hr |-> q.hr, name |-> q.name, mh |-> q.mh])
      BY <3>1, <1>1 DEF NamesCommitted
    <3> QED BY <3>2, <1>1, <1>2
  <2>3. CASE q # r
    BY <2>1, <2>3, <1>1, <1>2 DEF DoneCommitted
  <2> QED BY <2>2, <2>3
<1>5. ASSUME NEW r \in Calls, TagCall(r) \/ TagSend(r) PROVE HasCommitted(q.hr, q)'
  <2>1. PICK t \in {"rejected", "check"} : tag' = [tag EXCEPT ![r] = t]
    BY SMTT(30), <1>5 DEF TagCall, TagSend
  <2>2. tag[q] = "done"
    BY SMTT(120), <2>1, <1>1
  <2> QED BY SMTT(60), <2>2, <1>2 DEF DoneCommitted
<1>6. ASSUME NEW n \in Node, NEW m \in Node,
             \/ ExecPrePrepareMessage(n, m)
             \/ ExecPrepareMessage(n, m)
             \/ ExecCommitMessage(n, m)
             \/ ExecCheckpointMessage(n, m)
      PROVE  tag' = tag
  BY <1>6 DEF ExecPrePrepareMessage, ExecPrepareMessage, ExecCommitMessage,
              ExecCheckpointMessage, tagVars
<1>7. ASSUME NEW n \in Node, BroadcastPrepare(n) \/ TurnBad(n) PROVE tag' = tag
  BY <1>7 DEF BroadcastPrepare, TurnBad, tagVars
<1>8. UNCHANGED vars => tag' = tag
  BY DEF vars, tagVars
<1> QED BY <1>3, <1>4, <1>5, <1>6, <1>7, <1>8 DEF Next, Process

LEMMA DurableInvParts == DurableInv <=> CommitMeansPrepared /\ NamesCommitted /\ DoneCommitted
BY DEF DurableInv, CommitMeansPrepared, NamesCommitted, DoneCommitted

LEMMA DurableInvInit == Init => DurableInv
<1> SUFFICES ASSUME Init PROVE DurableInv
  OBVIOUS
<1>1. CommitMeansPrepared
  BY EmptySeq DEF Init, CommitMeansPrepared, HasSent
<1>2. NamesCommitted /\ DoneCommitted
  BY DEF Init, NamesCommitted, DoneCommitted, Hr
<1> QED BY <1>1, <1>2, DurableInvParts

LEMMA DurableInvNext ==
  ASSUME Faulty = {}
  PROVE  IInv /\ TagInv /\ DurableInv /\ [Next]_vars => DurableInv'
<1> SUFFICES ASSUME IInv, TagInv, DurableInv, [Next]_vars PROVE DurableInv'
  OBVIOUS
<1>1. CommitMeansPrepared /\ NamesCommitted /\ DoneCommitted
  BY DurableInvParts
<1>2. CommitMeansPrepared'
  <2>1. TwoThirds > 0 =>
          \A m \in Node, s \in Slot, d \in Request : HasSent(m, "Commit", s, d)' =>
            state'[m][s] >= 1 /\ logPrePrepareMsg'[m][s] = d
    BY <1>1, CommitMeansPreparedNext
  <2> QED BY <2>1 DEF CommitMeansPrepared, TwoThirds
<1>3. NamesCommitted' /\ DoneCommitted'
  BY <1>1, NamesCommittedNext, DoneCommittedNext
<1> QED BY <1>2, <1>3 DEF DurableInv, CommitMeansPrepared, NamesCommitted, DoneCommitted

-----------------------------------------------------------------------------
(* Theorems.                                                               *)

\* No handler of ExecPrePrepareMessage returns with the mutex of SafePbft held: when
\* every peer finishes a Tag before it calls the next, no peer ever gets two
\* PrePrepares for different requests in one slot, malicious peers or not.
THEOREM MutexIsReleased ==
  ASSUME Concurrent = FALSE
  PROVE  Spec => []MutexNeverLeaked
<1>1. TagInv => MutexNeverLeaked
  BY DEF TagInv, OneDigestPerSlot, MutexNeverLeaked
<1> QED BY <1>1, TagInvHolds, PTL

\* The chain of an HR gives a name at most one metahash, at every peer: the check of
\* Tag and the wait for the own commit suffice when the Tags of a peer do not
\* overlap.
THEOREM NamesAreUnique ==
  ASSUME Concurrent = FALSE
  PROVE  Spec => []NameIsUnique
<1>1. ASSUME TagInv PROVE NameIsUnique
  <2> SUFFICES ASSUME NEW n \in Node, NEW h \in Hr,
                      NEW b \in Blocks(n, h), NEW c \in Blocks(n, h),
                      b.req.name = c.req.name
               PROVE  b.req.mh = c.req.mh
    BY DEF NameIsUnique
  <2>1. \A e \in Blocks(n, h) : e.req \in Sent \cup {NoReq} /\ e.req.hr = h
    BY <1>1 DEF Blocks, TagInv, OnlySent
  <2>2. \A q \in Sent : q \in Calls /\ q.name # NoName
    BY PbftAssumption DEF Sent, Request
  <2>3. NoReq.name = NoName
    BY DEF NoReq
  <2>4. CASE b.req \in Sent /\ c.req \in Sent
    <3>1. Passed(b.req) /\ Passed(c.req) /\ b.req \in Calls /\ c.req \in Calls
      BY <1>1, <2>2, <2>4 DEF TagInv, OneTagAtATime
    <3>2. b.req = c.req
      BY <1>1, <2>1, <3>1 DEF TagInv, OneTagAtATime
    <3> QED BY <3>2
  <2>5. CASE b.req = NoReq \/ c.req = NoReq
    BY <2>1, <2>2, <2>3, <2>5
  <2> QED BY <2>1, <2>4, <2>5
<1> QED BY <1>1, TagInvHolds, PTL

\* A good peer commits a slot only when more than TwoThirds peers broadcast a Commit
\* for what is pre-prepared there, and TwoThirds peers a Prepare: the counters
\* of ExecPrepareMessage and ExecCommitMessage count votes that were sent, also
\* when other peers turn malicious and shift theirs.
THEOREM CommitsAreBacked ==
  ASSUME Concurrent = FALSE
  PROVE  Spec => []CommitBackedByQuorum
<1>1. ASSUME TagInv PROVE CommitBackedByQuorum
  BY <1>1 DEF TagInv, QuorumsSent, CommitBackedByQuorum, Senders
<1> QED BY <1>1, TagInvHolds, PTL

\* When Tag returns, more than TwoThirds peers are prepared for its request in one slot,
\* and stay so: the loop of Tag only ends on a commit of its own peer, whose
\* quorum of Commits came from peers that prepared this request.
THEOREM TagsAreDurable ==
  ASSUME Concurrent = FALSE, Faulty = {}
  PROVE  Spec => []TagIsDurable
<1> DEFINE Inv == IInv /\ TagInv /\ DurableInv
<1>1. Init => Inv
  BY IInvInit, TagInvInit, DurableInvInit
<1>2. Inv /\ [Next]_vars => Inv'
  BY IInvNext, TagInvNext, DurableInvNext
<1>3. ASSUME Inv PROVE TagIsDurable
  <2> SUFFICES ASSUME NEW r \in Calls, tag[r] = "done"
               PROVE  \E s \in Slot :
                        Cardinality({m \in Node : state[m][s] >= 1 /\ logPrePrepareMsg[m][s] = r})
                          > TwoThirds
    BY DEF TagIsDurable
  <2>1. r \in Request /\ r.hr \in Node
    BY PbftAssumption DEF Request
  <2>2. PICK n \in Node : n = r.hr
    BY <2>1
  <2>3. PICK s \in Slot : state[n][s] = 2 /\ logPrePrepareMsg[n][s] = r
    BY <1>3, <2>2 DEF DurableInv, HasCommitted
  <2> DEFINE Holders(id) == {m \in Node : state[m][id] >= 1 /\ logPrePrepareMsg[m][id] = r}
  <2>4. Holders(s) \in SUBSET Node /\ TwoThirds \in Nat
    BY TwoThirdsNat
  <2>5. CASE TwoThirds = 0
    <3>1. {n} \subseteq Holders(s) /\ {n} \in SUBSET Node
      BY <2>3
    <3> HIDE DEF Holders
    <3>2. Cardinality({n}) = 1
      BY FS_Singleton
    <3>3. /\ Cardinality(Holders(s)) \in Nat
          /\ Cardinality({n}) <= Cardinality(Holders(s))
      BY <3>1, <2>4, MoreNodes
    <3>4. Cardinality(Holders(s)) > TwoThirds
      BY <3>2, <3>3, <2>5
    <3> QED BY <3>4 DEF Holders
  <2>6. CASE TwoThirds > 0
    <3>1. role[n] = 0
      BY <1>3 DEF IInv, TypeInv, TypeOK, ShiftRoom
    <3>2. Cardinality(Senders("Commit", s, r)) > TwoThirds
      BY <1>3, <2>3, <3>1 DEF TagInv, QuorumsSent
    <3>3. Senders("Commit", s, r) \subseteq Holders(s)
      BY <1>3, <2>1, <2>6 DEF Senders, DurableInv
    <3>4. Senders("Commit", s, r) \in SUBSET Node
      BY DEF Senders
    <3> HIDE DEF Holders
    <3>5. /\ Cardinality(Senders("Commit", s, r)) \in Nat
          /\ Cardinality(Holders(s)) \in Nat
          /\ Cardinality(Senders("Commit", s, r)) <= Cardinality(Holders(s))
      BY <3>3, <3>4, <2>4, MoreNodes
    <3>6. Cardinality(Holders(s)) > TwoThirds
      BY <3>2, <3>5, <2>4
    <3> QED BY <3>6 DEF Holders
  <2> QED BY <2>4, <2>5, <2>6
<1> QED BY <1>1, <1>2, <1>3, PTL DEF Spec

=============================================================================
