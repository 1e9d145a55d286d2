--------------------------- MODULE PbftRefinement ---------------------------
(***************************************************************************)
(* Without malicious peers, Pbft implements DecisionLog: broadcasting the  *)
(* first PrePrepare of a slot is Propose, completing a quorum of commits   *)
(* is Learn, and every other step changes nothing of the abstract log.     *)
(*                                                                         *)
(* The second part, from OnceInv, is about repetition: a request is first  *)
(* in one slot only, the slot that its Tag assigned, so the copies that    *)
(* Tag keeps sending, also in the slots of other Tags of its peer, append  *)
(* nothing again and set no slot back.  The third part, from OrderInv, is  *)
(* about the order of the chains of three peers.  The fourth part, from    *)
(* RetryInv, is about the retries of three peers or more: the first one is *)
(* enough.                                                                 *)
(***************************************************************************)
EXTENDS PbftTags

\* The block of the i-th rumor of h.
RumorBlock(h, i) == GetPbftBlock(rumors[h][i].digest, rumors[h][i].id \div N)

LEMMA ProposalsGrow ==
  ASSUME RumorsGrow, NEW h \in Node
  PROVE  Proposals(h) \subseteq Proposals(h)'
<1> SUFFICES ASSUME NEW i \in 1..Len(rumors[h]), IsFirstPrePrepare(h, i)
             PROVE  RumorBlock(h, i) \in Proposals(h)'
  BY DEF Proposals, RumorBlock
<1>1. i \in 1..Len(rumors'[h]) /\ \A j \in 1..i : rumors'[h][j] = rumors[h][j]
  BY SMTT(60) DEF RumorsGrow
<1>2. IsFirstPrePrepare(h, i)'
  BY SMTT(60), <1>1 DEF IsFirstPrePrepare
<1>3. RumorBlock(h, i)' = RumorBlock(h, i)
  BY <1>1 DEF RumorBlock, GetPbftBlock
<1>4. RumorBlock(h, i)' \in Proposals(h)'
  BY <1>1, <1>2 DEF Proposals, RumorBlock
<1> QED BY <1>3, <1>4

\* What is proposed now was proposed before, or is first in a new rumor.
LEMMA ProposalsNew ==
  ASSUME RumorsGrow, NEW h \in Node, NEW b \in Proposals(h)', b \notin Proposals(h)
  PROVE  \E i \in 1..Len(rumors'[h]) :
           /\ i \notin 1..Len(rumors[h])
           /\ IsFirstPrePrepare(h, i)'
           /\ b = RumorBlock(h, i)'
<1>1. PICK i \in 1..Len(rumors'[h]) : IsFirstPrePrepare(h, i)' /\ b = RumorBlock(h, i)'
  BY DEF Proposals, RumorBlock
<1>2. ASSUME i \in 1..Len(rumors[h]) PROVE FALSE
  <2>1. \A j \in 1..i : rumors'[h][j] = rumors[h][j]
    BY <1>2 DEF RumorsGrow
  <2>2. IsFirstPrePrepare(h, i)
    BY SMTT(30), <1>1, <1>2, <2>1 DEF IsFirstPrePrepare
  <2>3. b = RumorBlock(h, i)
    BY <1>1, <1>2, <2>1 DEF RumorBlock, GetPbftBlock
  <2> QED BY <1>2, <2>2, <2>3 DEF Proposals, RumorBlock
<1> QED BY <1>1, <1>2

\* Steps that broadcast no PrePrepare propose nothing.
LEMMA ProposalsFrame ==
  ASSUME RumorsGrow,
         \A m \in Node : \A i \in 1..Len(rumors'[m]) :
           i \in 1..Len(rumors[m]) \/ rumors'[m][i].type # "PrePrepare"
  PROVE  \A h \in Node : Proposals(h)' = Proposals(h)
<1> SUFFICES ASSUME NEW h \in Node, NEW b \in Proposals(h)', b \notin Proposals(h)
             PROVE  FALSE
  BY ProposalsGrow
<1>1. PICK i \in 1..Len(rumors'[h]) :
        i \notin 1..Len(rumors[h]) /\ IsFirstPrePrepare(h, i)'
  BY ProposalsNew
<1> QED BY <1>1 DEF IsFirstPrePrepare

-----------------------------------------------------------------------------
LEMMA RefineInit == Init => Log!Init
<1> SUFFICES ASSUME Init PROVE Log!Init
  OBVIOUS
<1>1. \A h \in Node : Len(rumors[h]) = 0
  BY EmptySeq DEF Init
<1>2. \A h \in Node : Proposals(h) = {}
  BY <1>1 DEF Proposals
<1>3. \A n \in Node, h \in Node : hrChain[n][h] = <<>>
  BY DEF Init, Hr
<1> QED BY <1>2, <1>3 DEF Log!Init

LEMMA RefineFrame ==
  ASSUME hrChain' = hrChain, \A h \in Node : Proposals(h)' = Proposals(h)
  PROVE  UNCHANGED Log!logVars
BY DEF Log!logVars

LEMMA RefineTagSend ==
  ASSUME IInv, NEW r \in Calls, TagSend(r)
  PROVE  [Log!Next]_(Log!logVars)
<1> USE PbftAssumption
<1> DEFINE n     == r.hr
           first == sends[r] = 0
           id    == IF first THEN NextID(n) ELSE pbftID[n]
           cp    == first /\ id % CheckpointInterval = 0
           pp    == [type |-> "PrePrepare", id |-> id, digest |-> r]
           ck    == [type |-> "Checkpoint", id |-> id, digest |-> r]
           msgs  == <<pp>> \o (IF cp THEN <<ck>> ELSE <<>>)
           b     == GetPbftBlock(r, id \div N)
<1>1. /\ TypeOK /\ TypeOK' /\ PrePreparesOwned /\ PrePreparesOwned' /\ IInv'
  BY IInvTagSend DEF IInv, TypeInv
<1>2. n \in Node /\ r \in Request
  BY SMTT(60) DEF Request
<1>3. Originate(n, msgs) /\ hrChain' = hrChain /\ pbftID' = [pbftID EXCEPT ![n] = id]
  BY DEF TagSend, storeVars
<1>4. id \in Slot
  <2>1. \A q \in Calls : sends'[q] > 0 => pbftID'[q.hr] \in Slot
    BY SMTT(60), <1>1 DEF IInv, TypeInv, IdsOK
  <2>2. sends'[r] = sends[r] + 1 /\ sends[r] \in Nat
    BY <1>1 DEF TagSend, TypeOK
  <2>3. sends'[r] > 0
    BY <2>2
  <2> QED BY <2>1, <2>3, <1>1, <1>2, <1>3 DEF TypeOK
<1> HIDE DEF id
<1>5. /\ msgs \in Seq(Message)
      /\ \A j \in 1..Len(msgs) : msgs[j] \in {pp, ck}
  <2>1. pp \in Message /\ ck \in Message
    BY <1>2, <1>4 DEF Message
  <2> HIDE DEF pp, ck, cp
  <2>2. CASE cp
    BY <2>1, <2>2
  <2>3. CASE ~cp
    BY <2>1, <2>3
  <2> QED BY <2>2, <2>3
<1>6. /\ pp.type = "PrePrepare" /\ pp.id = id /\ pp.digest = r
      /\ ck.type = "Checkpoint"
  OBVIOUS
<1> HIDE DEF msgs, pp, ck
<1>7. /\ RumorsGrow
      /\ \A m \in Node : m # n => rumors'[m] = rumors[m]
      /\ \A m \in Node : \A i \in 1..Len(rumors'[m]) :
           i \in 1..Len(rumors[m]) \/ (m = n /\ rumors'[m][i] \in {pp, ck})
  <2>1. rumors \in [Node -> Seq(Message)] /\ Originate(n, msgs)
    BY <1>1, <1>3 DEF TypeOK
  <2>2. RumorsGrow
    BY <2>1, <1>2, <1>5, OriginateFacts DEF RumorsGrow
  <2>3. \A m \in Node : m # n => rumors'[m] = rumors[m]
    BY <2>1, <1>2, <1>5, OriginateFacts
  <2>4. \A m \in Node : \A i \in 1..Len(rumors'[m]) :
           i \in 1..Len(rumors[m]) \/ (m = n /\ rumors'[m][i] \in {pp, ck})
    BY SMTT(60), <2>1, <1>2, <1>5, OriginateFacts
  <2> QED BY <2>2, <2>3, <2>4
\* Only b can be new.
<1>8. ASSUME NEW h \in Node, NEW e \in Proposals(h)', e \notin Proposals(h)
      PROVE  /\ h = n /\ e = b
             /\ \A x \in Proposals(n) : x.index # b.index
  <2>1. PICK i \in 1..Len(rumors'[h]) :
          i \notin 1..Len(rumors[h]) /\ IsFirstPrePrepare(h, i)' /\ e = RumorBlock(h, i)'
    BY <1>7, <1>8, ProposalsNew
  <2>2. h = n /\ rumors'[h][i] = pp
    BY <2>1, <1>6, <1>7 DEF IsFirstPrePrepare
  <2>3. e = b
    BY <2>1, <2>2, <1>6 DEF RumorBlock
  <2>4. ASSUME NEW x \in Proposals(n), x.index = b.index PROVE FALSE
    <3>1. PICK j \in 1..Len(rumors[n]) : IsFirstPrePrepare(n, j) /\ x = RumorBlock(n, j)
      BY DEF Proposals, RumorBlock
    <3>2. /\ rumors'[n][j] = rumors[n][j] /\ rumors[n][j].type = "PrePrepare"
          /\ j \in 1..(i - 1)
      BY SMTT(60), <3>1, <2>1, <2>2, <1>2, <1>7 DEF RumorsGrow, IsFirstPrePrepare
    <3>3. rumors[n][j].id \div N = id \div N
      BY <3>1, <2>4 DEF RumorBlock, GetPbftBlock
    <3>4. OwnedBy(rumors[n][j].id, n) /\ rumors[n][j].id \in Nat
      BY <3>2, <1>1, <1>2, RumorTypes DEF PrePreparesOwned
    <3>5. OwnedBy(id, n) /\ id \in Nat
      <4>1. OwnedBy(pbftID'[n], n) /\ pbftID'[n] = id
        <5>1. pbftID \in [Node -> Nat]
          BY <1>1 DEF TypeOK
        <5>2. pbftID'[n] = id
          BY <5>1, <1>2, <1>3
        <5>3. OwnedBy(pbftID'[n], n)
          BY <1>1, <1>2 DEF PrePreparesOwned
        <5> QED BY <5>2, <5>3
      <4> QED BY <4>1, <1>4 DEF Slot
    <3>6. rumors[n][j].id = id
      BY <3>3, <3>4, <3>5, <1>2, IndexUnique
    <3> QED BY ZenonT(60), <3>2, <3>6, <2>1, <2>2, <1>6 DEF IsFirstPrePrepare
  <2> QED BY <2>2, <2>3, <2>4
<1> DEFINE old == [h \in Node |-> Proposals(h)]
<1>9. CASE \A h \in Node : Proposals(h)' = Proposals(h)
  BY <1>3, <1>9, RefineFrame
<1>10. CASE \E h \in Node : Proposals(h)' # Proposals(h)
  <2>1. PICK h \in Node : Proposals(h)' # Proposals(h)
    BY <1>10
  <2>2. PICK e \in Proposals(h)' : e \notin Proposals(h)
    BY <2>1, <1>7, ProposalsGrow
  <2>3. h = n /\ e = b /\ \A x \in Proposals(n) : x.index # b.index
    BY <2>2, <1>8
  <2>4. Proposals(n)' = Proposals(n) \cup {b}
    <3>1. Proposals(n) \cup {b} \subseteq Proposals(n)'
      BY <2>2, <2>3, <1>2, <1>7, ProposalsGrow
    <3>2. Proposals(n)' \subseteq Proposals(n) \cup {b}
      BY <1>2, <1>8
    <3> QED BY <3>1, <3>2
  <2>5. \A g \in Node : g # n => Proposals(g)' = Proposals(g)
    BY <1>7, <1>8, ProposalsGrow
  <2>6. b \in Log!Block
    BY <1>2, <1>4 DEF Log!Block, GetPbftBlock, Index
  <2> HIDE DEF b
  <2>7. Log!Propose(n, b)
    <3>1. [g \in Node |-> Proposals(g)'] =
            [[g \in Node |-> Proposals(g)] EXCEPT ![n] = @ \cup {b}]
      BY <2>4, <2>5, <1>2
    <3> QED BY <3>1, <2>3, <1>2, <1>3 DEF Log!Propose
  <2> QED BY <2>6, <2>7, <1>2 DEF Log!Next
<1> QED BY <1>9, <1>10

LEMMA RefineCommit ==
  ASSUME IInv, NEW n \in Node, NEW m \in Node, ExecCommitMessage(n, m)
  PROVE  [Log!Next]_(Log!logVars)
<1> DEFINE c     == NextRumor(n, m)
           h     == c.digest.hr
           block == [index |-> c.id \div N, req |-> c.digest]
<1>1. /\ TypeOK /\ PrePreparesOwned /\ BlocksFirst /\ rumors' = rumors
  BY DEF IInv, TypeInv, ExecCommitMessage
<1>2. \A g \in Node : Proposals(g)' = Proposals(g)
  BY SMTT(60), <1>1 DEF Proposals, IsFirstPrePrepare
<1>3. /\ c.id \in Slot /\ c.digest \in Request /\ First(c.id, c.digest)
      /\ \/ UNCHANGED hrChain
         \/ /\ state[n][c.id] = 1
            /\ hrChain' = [hrChain EXCEPT ![n][h] = Append(@, block)]
  BY SMTT(60), CommitFacts DEF storeVars
<1> HIDE DEF c
<1>4. /\ h \in Node /\ OwnedBy(c.id, h) /\ c.id \in Nat
      /\ \E i \in 1..Len(rumors[h]) : /\ IsFirstPrePrepare(h, i)
                                      /\ rumors[h][i].id = c.id
                                      /\ rumors[h][i].digest = c.digest
  BY <1>1, <1>3, FirstOwner
<1>5. CASE UNCHANGED hrChain
  BY <1>2, <1>5, RefineFrame
<1>6. CASE /\ state[n][c.id] = 1
           /\ hrChain' = [hrChain EXCEPT ![n][h] = Append(@, block)]
  <2>1. block \in Proposals(h)
    BY <1>4 DEF Proposals, GetPbftBlock
  <2>2. ASSUME NEW i \in 1..Len(hrChain[n][h]), hrChain[n][h][i] = block PROVE FALSE
    <3>1. h \in Hr
      BY <1>4 DEF Hr
    <3>2. PICK s \in Slot : /\ First(s, c.digest)
                            /\ c.id \div N = s \div N
                            /\ state[n][s] = 2
      BY <2>2, <3>1, <1>1 DEF BlocksFirst
    <3>3. s \in Nat /\ OwnedBy(s, h)
      BY <3>2, <1>1, FirstOwner
    <3>4. s = c.id
      BY <3>2, <3>3, <1>4, IndexUnique
    <3> QED BY <3>2, <3>4, <1>6
  <2> HIDE DEF block, h
  <2>3. [k \in Node |-> [g \in Node |-> hrChain'[k][g]]] =
          [[k \in Node |-> [g \in Node |-> hrChain[k][g]]]
             EXCEPT ![n][h] = Append(@, block)]
    <3>1. h \in Hr /\ hrChain \in [Node -> [Hr -> Seq(Block)]] /\ Node \subseteq Hr
      BY <1>1, <1>4 DEF TypeOK, Hr
    <3>2. \A k \in Node, g \in Hr :
            hrChain'[k][g] =
              IF k = n /\ g = h THEN Append(hrChain[n][h], block) ELSE hrChain[k][g]
      BY ZenonT(60), <1>6, <3>1, Except2
    <3> DEFINE new == Append(hrChain[n][h], block)
               L1  == [k \in Node |-> [g \in Node |-> hrChain'[k][g]]]
               L0  == [k \in Node |-> [g \in Node |-> hrChain[k][g]]]
               T   == {hrChain[k][g] : k \in Node, g \in Node} \cup {new}
    <3>3. L0 \in [Node -> [Node -> T]] /\ L0[n][h] = hrChain[n][h] /\ new \in T
      BY <1>4
    <3> HIDE DEF new
    <3>4. L1 = [k \in Node |-> [g \in Node |-> IF k = n /\ g = h THEN new ELSE L0[k][g]]]
      BY <3>1, <3>2 DEF new
    <3> HIDE DEF L0, L1, T
    <3>5. [L0 EXCEPT ![n][h] = new]
            = [k \in Node |-> [g \in Node |-> IF k = n /\ g = h THEN new ELSE L0[k][g]]]
      BY <3>3, <1>4
    <3>6. L1 = [L0 EXCEPT ![n][h] = Append(L0[n][h], block)]
      BY <3>3, <3>4, <3>5 DEF new
    <3> QED BY <3>6 DEF L0, L1
  <2>4. [g \in Node |-> Proposals(g)'] = [g \in Node |-> Proposals(g)]
    BY <1>2
  <2>5. \E g \in Node : \E k \in Node, e \in Proposals(g) : Log!Learn(k, g, e)
    <3>1. PICK g \in Node : g = h
      BY <1>4
    <3>2. PICK e \in Proposals(g) : e = block
      BY <2>1, <3>1
    <3>3. Log!Learn(n, g, e)
      BY SMTT(60), <2>2, <2>3, <2>4, <1>4, <3>1, <3>2 DEF Log!Learn
    <3> QED BY <3>3
  <2> QED BY SMTT(60), <2>5 DEF Log!Next
<1> QED BY <1>3, <1>5, <1>6

LEMMA RefineNext ==
  ASSUME Faulty = {}
  PROVE  IInv /\ [Next]_vars => [Log!Next]_(Log!logVars)
<1> SUFFICES ASSUME IInv, [Next]_vars PROVE [Log!Next]_(Log!logVars)
  OBVIOUS
<1>1. TypeOK /\ TypeInv
  BY DEF IInv, TypeInv
<1>2. ASSUME rumors' = rumors, hrChain' = hrChain PROVE [Log!Next]_(Log!logVars)
  <2>1. \A h \in Node : Proposals(h)' = Proposals(h)
    BY <1>2 DEF Proposals, IsFirstPrePrepare
  <2> QED BY <2>1, <1>2, RefineFrame
<1>3. ASSUME NEW n \in Node, NEW v \in Message, v.type # "PrePrepare",
             Originate(n, <<v>>), hrChain' = hrChain
      PROVE  [Log!Next]_(Log!logVars)
  <2>1. rumors \in [Node -> Seq(Message)]
    BY <1>1 DEF TypeOK
  <2>2. /\ RumorsGrow
        /\ \A m \in Node : \A i \in 1..Len(rumors'[m]) :
             i \in 1..Len(rumors[m]) \/ rumors'[m][i].type # "PrePrepare"
    BY <1>3, <2>1, OriginateOne DEF RumorsGrow
  <2> QED BY <2>2, <1>3, ProposalsFrame, RefineFrame
<1>4. ASSUME NEW r \in Calls, TagCall(r) \/ TagCheck(r) PROVE [Log!Next]_(Log!logVars)
  BY <1>2, <1>4 DEF TagCall, TagCheck, storeVars
<1>5. ASSUME NEW n \in Node, BroadcastPrepare(n) PROVE [Log!Next]_(Log!logVars)
  <2> DEFINE v == [type |-> "Prepare", id |-> pending[n].id, digest |-> pending[n].digest]
  <2>1. pending[n].id \in Slot /\ pending[n].digest \in Request
    BY <1>1, <1>5 DEF BroadcastPrepare, TypeOK
  <2>2. Originate(n, <<v>>) /\ hrChain' = hrChain
    BY <1>1, <1>5, <2>1, NoShift DEF BroadcastPrepare, storeVars
  <2>3. v \in Message /\ v.type # "PrePrepare"
    BY <2>1 DEF Message
  <2> HIDE DEF v
  <2> QED BY <2>2, <2>3, <1>3
<1>6. ASSUME NEW n \in Node, NEW m \in Node, ExecPrepareMessage(n, m)
      PROVE  [Log!Next]_(Log!logVars)
  <2> DEFINE pre == NextRumor(n, m)
             v   == [type |-> "Commit", id |-> pre.id, digest |-> pre.digest]
  <2>1. pre.id \in Slot /\ pre.digest \in Request
    BY <1>1, <1>6, TakeFacts DEF ExecPrepareMessage
  <2>2. hrChain' = hrChain /\ (rumors' = rumors \/ Originate(n, <<v>>))
    BY <1>1, <1>6, <2>1, NoShift DEF ExecPrepareMessage, storeVars
  <2>3. v \in Message /\ v.type # "PrePrepare"
    BY <2>1 DEF Message
  <2> HIDE DEF v
  <2> QED BY <2>2, <2>3, <1>2, <1>3
<1>7. ASSUME NEW n \in Node, NEW m \in Node,
             ExecPrePrepareMessage(n, m) \/ ExecCheckpointMessage(n, m)
      PROVE  [Log!Next]_(Log!logVars)
  BY <1>2, <1>7 DEF ExecPrePrepareMessage, ExecCheckpointMessage, storeVars
<1>8. ASSUME NEW n \in Node, TurnBad(n) PROVE [Log!Next]_(Log!logVars)
  BY <1>8 DEF TurnBad
<1>9. CASE UNCHANGED vars
  BY <1>2, <1>9 DEF vars, storeVars
<1> QED BY <1>4, <1>5, <1>6, <1>7, <1>8, <1>9, RefineTagSend, RefineCommit
        DEF Next, Process

\* What any peer appends to an HR's chain was proposed by this HR, alone under
\* its index, and is appended once.
THEOREM Refinement ==
  ASSUME Faulty = {}
  PROVE  Spec => ImplementsDecisionLog
<1>1. IInv /\ [Next]_vars => IInv'
  BY IInvNext
<1>2. IInv /\ [Next]_vars => [Log!Next]_(Log!logVars)
  BY RefineNext
<1> QED BY <1>1, <1>2, IInvInit, RefineInit, PTL
        DEF Spec, ImplementsDecisionLog, Log!Spec

-----------------------------------------------------------------------------
(* OnceInv: a slot is proposed for a request once, and committed once.     *)

\* Nothing becomes first by a step that broadcasts no PrePrepare.
LEMMA NoNewFirst ==
  ASSUME RumorsGrow,
         \A m \in Node : \A i \in 1..Len(rumors'[m]) :
           i \in 1..Len(rumors[m]) \/ rumors'[m][i].type # "PrePrepare",
         NEW s, NEW d, First(s, d)'
  PROVE  First(s, d)
<1>1. PICK h \in Node : \E i \in 1..Len(rumors'[h]) :
        IsFirstPrePrepare(h, i)' /\ rumors'[h][i].id = s /\ rumors'[h][i].digest = d
  BY DEF First
<1>2. PICK i \in 1..Len(rumors'[h]) :
        IsFirstPrePrepare(h, i)' /\ rumors'[h][i].id = s /\ rumors'[h][i].digest = d
  BY <1>1
<1>3. i \in 1..Len(rumors[h])
  BY <1>2 DEF IsFirstPrePrepare
<1>4. \A j \in 1..i : rumors'[h][j] = rumors[h][j]
  BY <1>3 DEF RumorsGrow
<1>5. i \in Nat /\ i \in 1..i /\ \A j \in 1..(i - 1) : j \in 1..i
  BY <1>3 DEF RumorsGrow
<1>6. IsFirstPrePrepare(h, i)
  BY SMTT(60), <1>2, <1>4, <1>5 DEF IsFirstPrePrepare
<1> QED BY SMTT(60), <1>2, <1>3, <1>4, <1>5, <1>6 DEF First

\* A slot that a Tag assigns has no PrePrepare yet.
LEMMA FreshSlot ==
  ASSUME TypeInv, PrePreparesOwned, NEW r \in Calls, TagSend(r), sends[r] = 0,
         NEW d, First(TagID(r), d)
  PROVE  FALSE
<1>1. TypeOK
  BY DEF TypeInv
<1>2. /\ r.hr \in Node /\ TagID(r) \in Nat /\ OwnedBy(TagID(r), r.hr)
      /\ pbftID[r.hr] \in Nat /\ TagID(r) > pbftID[r.hr]
  BY TagSendFacts
<1>3. d.hr \in Node /\ OwnedBy(TagID(r), d.hr) /\ TagID(r) <= pbftID[d.hr]
  BY Zenon, <1>1, FirstOwner
<1>4. d.hr = r.hr
  BY Zenon, <1>2, <1>3, OwnerUnique
<1> QED BY <1>2, <1>3, <1>4

\* What a Tag makes first is its own request, in the slot that it assigned.
LEMMA TagSendFirst ==
  ASSUME TypeInv, PrePreparesOwned, ProposedOnce, NEW r \in Calls, TagSend(r),
         NEW id, id = TagID(r), NEW s, NEW d, First(s, d)', ~First(s, d)
  PROVE  s = id /\ d = r /\ sends[r] = 0
<1>1. /\ TypeOK
      /\ sends[r] \in Nat
  <2>1. TypeOK /\ sends \in [Calls -> 0..MaxSends] /\ MaxSends \in Nat
    BY PbftAssumption DEF TypeInv, TypeOK
  <2> QED BY <2>1
<1>2. /\ r.hr \in Node /\ r \in Request
      /\ id \in Slot /\ id \in Nat /\ OwnedBy(id, r.hr)
      /\ IF sends[r] = 0 THEN id > pbftID[r.hr] ELSE id = pbftID[r.hr]
      /\ RumorsGrow
      /\ \A m \in Node : \A i \in 1..Len(rumors'[m]) :
           \/ i \in 1..Len(rumors[m])
           \/ /\ m = r.hr
              /\ rumors'[m][i].id = id /\ rumors'[m][i].digest = r
              /\ \/ rumors'[m][i].type = "Checkpoint"
                 \/ rumors'[m][i].type = "PrePrepare" /\ i = Len(rumors[m]) + 1
  <2>1. /\ r.hr \in Node /\ r \in Request
        /\ TagID(r) \in Slot /\ TagID(r) \in Nat /\ OwnedBy(TagID(r), r.hr)
        /\ IF sends[r] = 0 THEN TagID(r) > pbftID[r.hr] ELSE TagID(r) = pbftID[r.hr]
    BY Zenon, TagSendFacts
  <2>2. RumorsGrow
    BY Zenon, TagSendFacts
  <2>3. \A m \in Node : \A i \in 1..Len(rumors'[m]) :
           \/ i \in 1..Len(rumors[m])
           \/ /\ m = r.hr
              /\ rumors'[m][i].id = TagID(r) /\ rumors'[m][i].digest = r
              /\ \/ rumors'[m][i].type = "Checkpoint"
                 \/ rumors'[m][i].type = "PrePrepare" /\ i = Len(rumors[m]) + 1
    BY Zenon, TagSendFacts
  <2> QED BY <2>1, <2>2, <2>3
<1>3. PICK h \in Node : \E i \in 1..Len(rumors'[h]) :
        IsFirstPrePrepare(h, i)' /\ rumors'[h][i].id = s /\ rumors'[h][i].digest = d
  BY DEF First
<1>4. PICK i \in 1..Len(rumors'[h]) :
        IsFirstPrePrepare(h, i)' /\ rumors'[h][i].id = s /\ rumors'[h][i].digest = d
  BY <1>3
<1>5. i \notin 1..Len(rumors[h])
  <2> SUFFICES ASSUME i \in 1..Len(rumors[h]) PROVE FALSE
    OBVIOUS
  <2>1. \A j \in 1..i : rumors'[h][j] = rumors[h][j]
    BY <1>2 DEF RumorsGrow
  <2>2. i \in Nat /\ i \in 1..i /\ \A j \in 1..(i - 1) : j \in 1..i
    BY <1>2 DEF RumorsGrow
  <2>3. IsFirstPrePrepare(h, i)
    BY <1>4, <2>1, <2>2 DEF IsFirstPrePrepare
  <2> QED BY <1>4, <2>1, <2>2, <2>3 DEF First
<1>6. h = r.hr /\ s = id /\ d = r /\ rumors'[h][i].type = "PrePrepare"
      /\ i = Len(rumors[h]) + 1
  BY <1>2, <1>4, <1>5 DEF IsFirstPrePrepare
<1>7. ASSUME sends[r] # 0 PROVE FALSE
  <2>1. r \in Sent
    BY <1>1, <1>7 DEF Sent
  <2>2. PICK e \in Request : First(id, e)
    BY <1>2, <1>7, <2>1 DEF ProposedOnce
  <2>3. e.hr = h
    BY <1>1, <1>2, <1>6, <2>2, FirstOwner, OwnerUnique
  <2>4. PICK j \in 1..Len(rumors[h]) : IsFirstPrePrepare(h, j) /\ rumors[h][j].id = id
    BY <1>1, <2>2, <2>3, FirstOwner
  <2>5. /\ j \in 1..(i - 1)
        /\ rumors'[h][j].type = "PrePrepare" /\ rumors'[h][j].id = id
    BY SMTT(60), <1>2, <1>6, <2>4 DEF RumorsGrow, IsFirstPrePrepare
  <2> QED BY <1>4, <1>6, <2>5 DEF IsFirstPrePrepare
<1> QED BY <1>6, <1>7

\* The first PrePrepare of a Tag is the first one of the slot it assigned.
LEMMA TagSendIsFirst ==
  ASSUME TypeInv, PrePreparesOwned, NEW r \in Calls, TagSend(r), sends[r] = 0,
         NEW id, id = TagID(r)
  PROVE  First(id, r)'
<1>1. TypeOK
  BY DEF TypeInv
<1> DEFINE h == r.hr
           i == Len(rumors[h]) + 1
<1>2. /\ h \in Node /\ id > pbftID[h] /\ pbftID[h] \in Nat /\ id \in Nat
      /\ RumorsGrow
      /\ i \in 1..Len(rumors'[h])
      /\ rumors'[h][i] = [type |-> "PrePrepare", id |-> id, digest |-> r]
  BY Zenon, TagSendFacts
<1>3. ASSUME NEW j \in 1..(i - 1), rumors'[h][j].type = "PrePrepare"
      PROVE  rumors'[h][j].id # id
  <2>1. j \in 1..Len(rumors[h]) /\ rumors'[h][j] = rumors[h][j]
    BY SMTT(60), <1>2 DEF RumorsGrow
  <2>2. rumors[h][j].id <= pbftID[h] /\ rumors[h][j].id \in Nat
    BY SMTT(60), <1>1, <1>2, <1>3, <2>1, RumorTypes DEF PrePreparesOwned
  <2> QED BY SMTT(60), <1>2, <2>1, <2>2
<1>4. PICK k : k = i
  OBVIOUS
<1> HIDE DEF i, h
<1>5. PICK g : g = h
  OBVIOUS
<1>6. IsFirstPrePrepare(g, k)'
  BY SMTT(60), <1>2, <1>3, <1>4, <1>5 DEF IsFirstPrePrepare
<1> QED BY <1>2, <1>4, <1>5, <1>6 DEF First

\* Only Tag assigns slots and broadcasts PrePrepares.
LEMMA OtherSteps ==
  ASSUME TypeInv, PrePreparesOwned, [Next]_vars, \A r \in Calls : ~TagSend(r)
  PROVE  /\ RumorsGrow
         /\ \A m \in Node : \A i \in 1..Len(rumors'[m]) :
              i \in 1..Len(rumors[m]) \/ rumors'[m][i].type # "PrePrepare"
         /\ pbftID' = pbftID /\ sends' = sends
<1> DEFINE Kept == /\ RumorsGrow
                   /\ \A m \in Node : \A i \in 1..Len(rumors'[m]) :
                        i \in 1..Len(rumors[m]) \/ rumors'[m][i].type # "PrePrepare"
                   /\ pbftID' = pbftID /\ sends' = sends
<1>1. TypeOK
  BY DEF TypeInv
<1>2. ASSUME UNCHANGED <<pbftID, rumors, sends>> PROVE Kept
  <2>1. RumorsGrow
    BY <1>1, <1>2, SameRumors
  <2> QED BY <2>1, <1>2
<1>3. ASSUME NEW n \in Node, NEW v, v.type # "PrePrepare", Appended(n, v),
             pbftID' = pbftID, sends' = sends
      PROVE  Kept
  BY <1>3 DEF Appended
<1> HIDE DEF Kept
<1>4. ASSUME NEW r \in Calls, TagCall(r) \/ TagCheck(r) PROVE Kept
  BY <1>2, <1>4 DEF TagCall, TagCheck, pbftVars
<1>5. ASSUME NEW n \in Node, BroadcastPrepare(n) PROVE Kept
  <2>1. PICK v : /\ v = [type |-> "Prepare", id |-> Shift(n, pending[n].id),
                         digest |-> pending[n].digest]
                 /\ Appended(n, v) /\ pbftID' = pbftID /\ sends' = sends
    BY <1>5, BroadcastPrepareFacts DEF pbftVars, tagVars
  <2> QED BY <2>1, <1>3
<1>6. ASSUME NEW n \in Node, NEW m \in Node, ExecPrepareMessage(n, m) PROVE Kept
  <2> DEFINE pre == NextRumor(n, m)
             v   == [type |-> "Commit", id |-> Shift(n, pre.id), digest |-> pre.digest]
  <2>1. UNCHANGED <<pbftID, tagVars>> /\ (rumors' = rumors \/ Appended(n, v))
    BY Zenon, <1>6, ExecPrepareFacts
  <2> HIDE DEF pre
  <2>2. v.type # "PrePrepare"
    OBVIOUS
  <2>3. sends' = sends
    BY <2>1 DEF tagVars
  <2> HIDE DEF v
  <2> QED BY <2>1, <2>2, <2>3, <1>2, <1>3
<1>7. ASSUME NEW n \in Node, NEW m \in Node,
             \/ ExecPrePrepareMessage(n, m)
             \/ ExecCommitMessage(n, m)
             \/ ExecCheckpointMessage(n, m)
      PROVE  Kept
  BY <1>2, <1>7 DEF ExecPrePrepareMessage, ExecCommitMessage, ExecCheckpointMessage, tagVars
<1>8. ASSUME NEW n \in Node, TurnBad(n) PROVE Kept
  BY <1>2, <1>8 DEF TurnBad, tagVars
<1>9. UNCHANGED vars => UNCHANGED <<pbftID, rumors, sends>>
  BY DEF vars, pbftVars, tagVars
<1>10. Kept
  BY Zenon, <1>2, <1>4, <1>5, <1>6, <1>7, <1>8, <1>9 DEF Next, Process
<1> QED BY <1>10 DEF Kept

LEMMA ProposedOnceNext ==
  ASSUME TypeInv, PrePreparesOwned, ProposedOnce, [Next]_vars
  PROVE  ProposedOnce'
<1>1. CASE \A r \in Calls : ~TagSend(r)
  <2>1. /\ RumorsGrow /\ pbftID' = pbftID /\ Sent' = Sent
        /\ \A m \in Node : \A i \in 1..Len(rumors'[m]) :
             i \in 1..Len(rumors[m]) \/ rumors'[m][i].type # "PrePrepare"
    BY <1>1, OtherSteps DEF Sent
  <2>2. ASSUME NEW s, NEW d PROVE First(s, d)' <=> First(s, d)
    BY <2>1, FirstStable, NoNewFirst
  <2> QED BY <2>1, <2>2 DEF ProposedOnce
<1>2. ASSUME NEW r \in Calls, TagSend(r) PROVE ProposedOnce'
  <2>1. PICK id : id = TagID(r)
    OBVIOUS
  <2>2. /\ r.hr \in Node /\ r \in Request /\ RumorsGrow
        /\ \A m \in Node : pbftID'[m] = IF m = r.hr THEN id ELSE pbftID[m]
        /\ sends[r] # 0 => id = pbftID[r.hr]
    BY ZenonT(60), <1>2, <2>1, TagSendFacts
  <2>3. /\ Sent \subseteq Sent' /\ r \in Sent'
        /\ \A q \in Sent' : q = r \/ q \in Sent
        /\ r \in Sent <=> sends[r] # 0
        /\ \A q \in Sent : q \in Calls /\ q.hr \in Node
    <3>1. sends' = [sends EXCEPT ![r] = @ + 1]
      BY <1>2 DEF TagSend
    <3>2. sends \in [Calls -> 0..MaxSends] /\ MaxSends \in Nat
      BY PbftAssumption DEF TypeInv, TypeOK
    <3>3. \A q \in Calls : q \in Request /\ q.hr \in Node
      BY PbftAssumption DEF Request
    <3> QED BY <3>1, <3>2, <3>3 DEF Sent
  <2>4. ASSUME NEW s, NEW d, First(s, d) PROVE First(s, d)'
    BY <2>2, <2>4, FirstStable
  <2>5. ASSUME NEW s, NEW d, First(s, d)', ~First(s, d)
        PROVE  s = id /\ d = r /\ sends[r] = 0
    BY <1>2, <2>1, <2>5, TagSendFirst
  <2>6. sends[r] = 0 => First(id, r)'
    BY <1>2, <2>1, TagSendIsFirst
  <2>7. ASSUME NEW s \in Slot, NEW d \in Request, First(s, d)' PROVE d \in Sent'
    BY <2>3, <2>5, <2>7 DEF ProposedOnce
  <2>8. ASSUME NEW q \in Sent' PROVE \E d \in Request : First(pbftID[q.hr], d)'
    <3>1. CASE sends[r] = 0 /\ q.hr = r.hr
      BY <2>2, <2>6, <3>1
    <3>2. CASE ~(sends[r] = 0 /\ q.hr = r.hr)
      <4>1. q \in Sent /\ q.hr \in Node
        BY <2>3, <3>2
      <4>2. PICK s : s = pbftID[q.hr]
        OBVIOUS
      <4>3. pbftID'[q.hr] = s
        BY <2>2, <3>2, <4>1, <4>2
      <4>4. PICK d \in Request : First(s, d)
        BY <4>1, <4>2 DEF ProposedOnce
      <4> QED BY <2>4, <4>3, <4>4
    <3> QED BY <3>1, <3>2
  <2>9. ASSUME NEW s \in Slot, NEW t \in Slot, NEW d \in Request, First(s, d)', First(t, d)'
        PROVE  s = t
    <3>1. CASE First(s, d) /\ First(t, d)
      BY <3>1 DEF ProposedOnce
    <3>2. CASE ~First(s, d) /\ ~First(t, d)
      BY <2>5, <2>9, <3>2
    <3>3. CASE First(s, d) /\ ~First(t, d)
      BY <2>3, <2>5, <2>9, <3>3 DEF ProposedOnce
    <3>4. CASE ~First(s, d) /\ First(t, d)
      BY <2>3, <2>5, <2>9, <3>4 DEF ProposedOnce
    <3> QED BY <3>1, <3>2, <3>3, <3>4
  <2> QED BY <2>7, <2>8, <2>9 DEF ProposedOnce
<1> QED BY <1>1, <1>2

\* A slot changes its state only from empty to prepared, when something was
\* proposed for it, and from prepared to committed.
LEMMA StateMoves ==
  ASSUME IInv, StateFirst, [Next]_vars, NEW n \in Node, NEW s \in Slot
  PROVE  \/ state'[n][s] = state[n][s]
         \/ /\ state[n][s] = 0 /\ state'[n][s] = 1
            /\ \E d \in Request : First(s, d)
         \/ state[n][s] = 1 /\ state'[n][s] = 2
<1> DEFINE Moved == \/ state'[n][s] = state[n][s]
                    \/ /\ state[n][s] = 0 /\ state'[n][s] = 1
                       /\ \E d \in Request : First(s, d)
                    \/ state[n][s] = 1 /\ state'[n][s] = 2
<1>1. TypeInv /\ TypeOK /\ PrePreparesOwned /\ VotesFirst
  BY DEF IInv, TypeInv
<1>2. state \in [Node -> [Slot -> 0..2]]
  BY <1>1, Tables
<1>3. state' = state => Moved
  OBVIOUS
<1>4. ASSUME NEW r \in Calls, TagSend(r) PROVE Moved
  <2>1. PICK id : id = TagID(r)
    OBVIOUS
  <2>2. /\ r.hr \in Node /\ id \in Slot
        /\ state' = [state EXCEPT ![r.hr][id] = IF sends[r] = 0 THEN 0 ELSE state[r.hr][id]]
    BY <1>1, <1>4, <2>1, TagSendFacts
  <2>3. state'[n][s] = IF n = r.hr /\ s = id /\ sends[r] = 0 THEN 0 ELSE state[n][s]
    BY <1>2, <2>2
  <2>4. ASSUME n = r.hr, s = id, sends[r] = 0 PROVE state[n][s] = 0
    <3>1. \A d : ~First(id, d)
      BY <1>1, <1>4, <2>1, <2>4, FreshSlot
    <3> QED BY <2>4, <3>1 DEF StateFirst
  <2> QED BY <2>3, <2>4
<1>5. ASSUME NEW k \in Node, NEW m \in Node, ExecPrepareMessage(k, m) PROVE Moved
  <2> DEFINE pre == NextRumor(k, m)
  <2>1. /\ accepted[k][m] + 1 \in 1..Len(rumors[m])
        /\ pre = rumors[m][accepted[k][m] + 1]
        /\ pre.type = "Prepare" /\ pre.id \in Slot /\ pre.digest \in Request
        /\ \/ state' = state
           \/ state[k][pre.id] = 0 /\ state' = [state EXCEPT ![k][pre.id] = 1]
    BY ZenonT(60), <1>1, <1>5, ExecPrepareFacts
  <2> HIDE DEF pre
  <2>2. First(pre.id, pre.digest)
    BY Zenon, <1>1, <2>1, VoteFirst
  <2>3. CASE state[k][pre.id] = 0 /\ state' = [state EXCEPT ![k][pre.id] = 1]
    <3>1. state'[n][s] = IF n = k /\ s = pre.id THEN 1 ELSE state[n][s]
      BY <1>2, <2>1, <2>3, SlotTable
    <3> QED BY SMTT(60), <2>1, <2>2, <2>3, <3>1
  <2> QED BY <2>1, <2>3, <1>3
<1>6. ASSUME NEW k \in Node, NEW m \in Node, ExecCommitMessage(k, m) PROVE Moved
  <2> DEFINE id == NextRumor(k, m).id
  <2>1. /\ id \in Slot
        /\ \/ state' = state
           \/ state[k][id] = 1 /\ state' = [state EXCEPT ![k][id] = 2]
    BY ZenonT(60), <1>1, <1>6, ExecCommitFacts
  <2> HIDE DEF id
  <2>2. CASE state[k][id] = 1 /\ state' = [state EXCEPT ![k][id] = 2]
    <3>1. state'[n][s] = IF n = k /\ s = id THEN 2 ELSE state[n][s]
      BY <1>2, <2>1, <2>2, SlotTable
    <3> QED BY <2>2, <3>1
  <2> QED BY SMTT(60), <2>1, <2>2, <1>3
<1> HIDE DEF Moved
<1>7. ASSUME NEW r \in Calls, TagCall(r) \/ TagCheck(r) PROVE Moved
  BY <1>3, <1>7 DEF TagCall, TagCheck, pbftVars
<1>8. ASSUME NEW k \in Node, BroadcastPrepare(k) \/ TurnBad(k) PROVE Moved
  BY <1>3, <1>8 DEF BroadcastPrepare, TurnBad, pbftVars
<1>9. ASSUME NEW k \in Node, NEW m \in Node,
             ExecPrePrepareMessage(k, m) \/ ExecCheckpointMessage(k, m)
      PROVE  Moved
  BY <1>3, <1>9 DEF ExecPrePrepareMessage, ExecCheckpointMessage
<1>10. UNCHANGED vars => state' = state
  BY DEF vars, pbftVars
<1>11. Moved
  BY Zenon, <1>3, <1>4, <1>5, <1>6, <1>7, <1>8, <1>9, <1>10 DEF Next, Process
<1> QED BY <1>11 DEF Moved

LEMMA StateFirstNext ==
  ASSUME IInv, StateFirst, [Next]_vars
  PROVE  StateFirst'
<1>1. RumorsGrow
  BY OwnedNext DEF IInv
<1> SUFFICES ASSUME NEW n \in Node, NEW s \in Slot, state'[n][s] # 0
             PROVE  \E d \in Request : First(s, d)'
  BY DEF StateFirst
<1>2. PICK d \in Request : First(s, d)
  BY StateMoves DEF StateFirst
<1> QED BY <1>1, <1>2, FirstStable

LEMMA BlocksDistinctNext ==
  ASSUME IInv, BlocksDistinct, [Next]_vars
  PROVE  BlocksDistinct'
<1>1. TypeInv /\ TypeOK /\ PrePreparesOwned /\ BlocksFirst
  BY DEF IInv, TypeInv
<1>2. ASSUME hrChain' = hrChain PROVE BlocksDistinct'
  BY <1>2 DEF BlocksDistinct
<1>3. ASSUME NEW n \in Node, NEW m \in Node, ExecCommitMessage(n, m) PROVE BlocksDistinct'
  <2> DEFINE c == NextRumor(n, m)
  <2>1. PICK h, block :
          /\ h = c.digest.hr /\ block = [index |-> c.id \div N, req |-> c.digest]
    OBVIOUS
  <2>2. /\ c.id \in Slot /\ c.digest \in Request /\ First(c.id, c.digest)
        /\ \/ hrChain' = hrChain
           \/ /\ state[n][c.id] = 1
              /\ hrChain' = [hrChain EXCEPT ![n][h] = Append(@, block)]
    BY SMTT(60), <1>3, <2>1, CommitFacts DEF storeVars
  <2> HIDE DEF c
  <2>3. h \in Hr /\ h \in Node /\ block.index = c.id \div N
    BY <2>1, <2>2 DEF Request, Hr
  <2>4. CASE /\ state[n][c.id] = 1
             /\ hrChain' = [hrChain EXCEPT ![n][h] = Append(@, block)]
    <3>1. ASSUME NEW i \in 1..Len(hrChain[n][h]) PROVE hrChain[n][h][i].index # block.index
      <4>1. PICK s \in Slot :
              /\ First(s, hrChain[n][h][i].req)
              /\ hrChain[n][h][i].index = s \div N
              /\ hrChain[n][h][i].req.hr = h
              /\ state[n][s] = 2
        BY <1>1, <2>3 DEF BlocksFirst
      <4>2. s # c.id
        BY <2>4, <4>1
      <4>3. s \in Nat /\ OwnedBy(s, h)
        BY SMTT(60), <1>1, <4>1, FirstOwner
      <4>4. c.id \in Nat /\ OwnedBy(c.id, h)
        BY <1>1, <2>1, <2>2, FirstOwner
      <4>5. s \div N # c.id \div N
        BY Zenon, <2>3, <4>2, <4>3, <4>4, IndexUnique
      <4> QED BY <2>3, <4>1, <4>5
    <3>2. ASSUME NEW k \in Node, NEW g \in Hr,
                 NEW i \in 1..Len(hrChain'[k][g]), NEW j \in 1..Len(hrChain'[k][g]),
                 hrChain'[k][g][i].index = hrChain'[k][g][j].index
          PROVE  i = j
      <4>1. /\ \A x \in 1..Len(hrChain[k][g]) : hrChain'[k][g][x] = hrChain[k][g][x]
            /\ \A x \in 1..Len(hrChain'[k][g]) :
                 \/ x \in 1..Len(hrChain[k][g])
                 \/ k = n /\ g = h /\ x = Len(hrChain[k][g]) + 1 /\ hrChain'[k][g][x] = block
        <5>1. PICK new : new = hrChain'
          OBVIOUS
        <5>2. new = [hrChain EXCEPT ![n][h] = Append(@, block)]
          BY <2>4, <5>1
        <5>3. /\ \A x \in 1..Len(hrChain[k][g]) :
                   x \in 1..Len(new[k][g]) /\ new[k][g][x] = hrChain[k][g][x]
              /\ \A x \in 1..Len(new[k][g]) :
                   \/ x \in 1..Len(hrChain[k][g])
                   \/ k = n /\ g = h /\ x = Len(hrChain[k][g]) + 1 /\ new[k][g][x] = block
          <6>1. TypeOK
            BY <1>1
          <6> QED BY SMTT(60), <6>1, <2>3, <5>2, ChainAppend
        <5> QED BY <5>1, <5>3
      <4>2. CASE i \in 1..Len(hrChain[k][g]) /\ j \in 1..Len(hrChain[k][g])
        <5>1. hrChain'[k][g][i] = hrChain[k][g][i] /\ hrChain'[k][g][j] = hrChain[k][g][j]
          BY SMTT(60), <4>1, <4>2
        <5>2. hrChain[k][g][i].index = hrChain[k][g][j].index => i = j
          BY Zenon, <4>2 DEF BlocksDistinct
        <5>3. hrChain[k][g][i].index = hrChain[k][g][j].index
          BY <3>2, <5>1
        <5> QED BY <5>2, <5>3
      <4>3. CASE i \notin 1..Len(hrChain[k][g]) /\ j \notin 1..Len(hrChain[k][g])
        BY <4>1, <4>3
      <4>4. CASE i \in 1..Len(hrChain[k][g]) /\ j \notin 1..Len(hrChain[k][g])
        BY <3>1, <3>2, <4>1, <4>4
      <4>5. CASE i \notin 1..Len(hrChain[k][g]) /\ j \in 1..Len(hrChain[k][g])
        BY ZenonT(60), <3>1, <3>2, <4>1, <4>5
      <4> QED BY <4>2, <4>3, <4>4, <4>5
    <3> QED BY <3>2 DEF BlocksDistinct
  <2> QED BY <2>2, <2>4, <1>2
<1>4. ASSUME NEW r \in Calls, TagCall(r) \/ TagCheck(r) \/ TagSend(r) PROVE hrChain' = hrChain
  BY <1>4 DEF TagCall, TagCheck, TagSend, storeVars
<1>5. ASSUME NEW k \in Node, BroadcastPrepare(k) \/ TurnBad(k) PROVE hrChain' = hrChain
  BY <1>5 DEF BroadcastPrepare, TurnBad, storeVars
<1>6. ASSUME NEW k \in Node, NEW m \in Node,
             \/ ExecPrePrepareMessage(k, m)
             \/ ExecPrepareMessage(k, m)
             \/ ExecCheckpointMessage(k, m)
      PROVE  hrChain' = hrChain
  BY Zenon, <1>6 DEF ExecPrePrepareMessage, ExecPrepareMessage, ExecCheckpointMessage, storeVars
<1>7. UNCHANGED vars => hrChain' = hrChain
  BY DEF vars, storeVars
<1> QED BY <1>2, <1>3, <1>4, <1>5, <1>6, <1>7 DEF Next, Process

LEMMA OnceInvInit == Init => OnceInv
<1> SUFFICES ASSUME Init PROVE OnceInv
  OBVIOUS
<1>1. /\ \A m \in Node : Len(rumors[m]) = 0
      /\ \A n \in Node, h \in Hr : Len(hrChain[n][h]) = 0
  BY EmptySeq DEF Init
<1>2. StateFirst
  BY DEF Init, StateFirst
<1>3. Sent = {} /\ \A s, d : ~First(s, d)
  BY <1>1 DEF Init, Sent, First
<1>4. ProposedOnce
  BY <1>3 DEF ProposedOnce
<1>5. BlocksDistinct
  BY <1>1 DEF BlocksDistinct
<1> QED BY <1>2, <1>4, <1>5 DEF OnceInv

LEMMA OnceInvHolds ==
  ASSUME Faulty = {}
  PROVE  Spec => [](IInv /\ OnceInv)
<1>1. ASSUME IInv, OnceInv, [Next]_vars PROVE OnceInv'
  BY <1>1, StateFirstNext, ProposedOnceNext, BlocksDistinctNext DEF IInv, OnceInv
<1> QED BY <1>1, IInvHolds, OnceInvInit, PTL DEF Spec

\* No peer appends a request to a chain twice, though Tag repeats its PrePrepare,
\* overlapping Tags of a peer repeat theirs in one another's slots, and every
\* peer answers each copy.
THEOREM RequestsAppendedOnce ==
  ASSUME Faulty = {}
  PROVE  Spec => []NoDuplicateBlock
<1>1. ASSUME IInv, OnceInv PROVE NoDuplicateBlock
  <2> SUFFICES ASSUME NEW n \in Node, NEW h \in Hr,
                      NEW i \in 1..Len(hrChain[n][h]), NEW j \in 1..Len(hrChain[n][h]),
                      hrChain[n][h][i].req = hrChain[n][h][j].req
               PROVE  i = j
    BY DEF NoDuplicateBlock
  <2>1. PICK s \in Slot : First(s, hrChain[n][h][i].req) /\ hrChain[n][h][i].index = s \div N
    BY <1>1 DEF IInv, BlocksFirst
  <2>2. PICK t \in Slot : First(t, hrChain[n][h][j].req) /\ hrChain[n][h][j].index = t \div N
    BY <1>1 DEF IInv, BlocksFirst
  <2>3. TypeOK /\ PrePreparesOwned
    BY <1>1 DEF IInv, TypeInv
  <2>4. hrChain[n][h][i].req \in Request
    BY SMTT(60), <2>1, <2>3, FirstOwner
  <2>5. s = t
    BY <1>1, <2>1, <2>2, <2>4 DEF OnceInv, ProposedOnce
  <2> QED BY <1>1, <2>1, <2>2, <2>5 DEF OnceInv, BlocksDistinct
<1> QED BY ZenonT(60), <1>1, OnceInvHolds, PTL

\* A slot never goes back: the PBFT ID that a Tag starts with has no state, so its
\* reset of the state forgets nothing, and repeated votes do not commit again.
THEOREM StatesAdvance ==
  ASSUME Faulty = {}
  PROVE  Spec => StateOnlyAdvances
<1>1. ASSUME IInv, OnceInv, [Next]_vars, NEW n \in Node, NEW s \in Slot
      PROVE  state'[n][s] \in {state[n][s], state[n][s] + 1}
  BY <1>1, StateMoves DEF OnceInv
<1>2. IInv /\ OnceInv /\ [Next]_vars =>
        [\A n \in Node, s \in Slot : state'[n][s] \in {state[n][s], state[n][s] + 1}]_vars
  BY <1>1
<1> QED BY <1>2, OnceInvHolds, PTL DEF Spec, StateOnlyAdvances
-----------------------------------------------------------------------------
(* OrderInv: with three peers, chains follow the slots.                    *)

AllInv == IInv /\ TagInv /\ DurableInv /\ OnceInv

LEMMA AllInvHolds ==
  ASSUME Concurrent = FALSE, Faulty = {}
  PROVE  /\ Init => AllInv
         /\ AllInv /\ [Next]_vars => AllInv'
<1>1. Init => AllInv
  BY IInvInit, TagInvInit, DurableInvInit, OnceInvInit DEF AllInv
<1>2. ASSUME AllInv, [Next]_vars PROVE AllInv'
  <2>1. IInv /\ TagInv /\ DurableInv /\ OnceInv
    BY <1>2 DEF AllInv
  <2>2. OnceInv'
    BY <1>2, <2>1, StateFirstNext, ProposedOnceNext, BlocksDistinctNext DEF IInv, OnceInv
  <2> QED BY <1>2, <2>1, <2>2, IInvNext, TagInvNext, DurableInvNext DEF AllInv
<1> QED BY <1>1, <1>2

\* Of three peers, a quorum of commits is all.
LEMMA EveryoneCounts ==
  ASSUME N = 3, NEW S \in SUBSET Node, Cardinality(S) > TwoThirds
  PROVE  S = Node
<1>1. TwoThirds = 2 /\ Node = 1..3
  BY DEF TwoThirds, Node
<1>2. Cardinality(Node) = 3
  <2>1. PICK a \in Int, b \in Int : a = 1 /\ b = N
    OBVIOUS
  <2>2. Cardinality(a..b) = IF a > b THEN 0 ELSE b - a + 1
    BY FS_Interval
  <2> QED BY <2>1, <2>2 DEF Node
<1>3. Cardinality(S) \in Nat /\ Cardinality(S) <= Cardinality(Node)
  BY MoreNodes
<1>4. Cardinality(Node) = Cardinality(S)
  BY <1>1, <1>2, <1>3
<1>5. IsFiniteSet(Node)
  BY NodesFinite
<1> QED BY Zenon, <1>4, <1>5, FS_Subset

\* When a peer becomes prepared for a slot it has sent no Commit for a later slot of
\* the same owner: the owner went on after it had the Commits of all.
LEMMA NoLaterCommit ==
  ASSUME AllInv, SlotsCompleted, Faulty = {}, N = 3,
         NEW m \in Node, NEW s \in Slot, NEW d \in Request, First(s, d), state[m][s] = 0,
         NEW j \in 1..Len(rumors[m]), rumors[m][j].type = "Commit",
         rumors[m][j].digest.hr = d.hr
  PROVE  rumors[m][j].id < s
<1>1. /\ TypeInv /\ TypeOK /\ PrePreparesOwned /\ VotesFirst /\ QuorumsSent /\ DurableInv
      /\ TwoThirds = 2
  BY DEF AllInv, IInv, TypeInv, TagInv, TwoThirds
<1>2. PICK u, e, h : u = rumors[m][j].id /\ e = rumors[m][j].digest /\ h = d.hr
  OBVIOUS
<1>3. /\ rumors[m][j] \in Message /\ u \in Slot /\ u \in Nat /\ e \in Request
  BY <1>1, <1>2, RumorTypes
<1>4. First(u, e)
  BY <1>1, <1>2, VoteFirst
<1>5. HasSent(m, "Commit", u, e)
  <2>1. rumors[m][j] = [type |-> "Commit", id |-> u, digest |-> e]
    BY <1>2, <1>3 DEF Message
  <2> QED BY <2>1 DEF HasSent
<1>6. \A t \in Slot, f \in Request : HasSent(m, "Commit", t, f) => state[m][t] >= 1
  BY <1>1 DEF DurableInv
<1>7. u # s
  BY <1>3, <1>5, <1>6
<1>8. s \in Nat /\ h \in Node
  BY <1>1, <1>2, FirstOwner
<1>9. u <= pbftID[h] /\ pbftID[h] \in Nat
  <2>1. u <= pbftID[e.hr]
    BY <1>1, <1>4, FirstOwner
  <2> QED BY <2>1, <1>1, <1>2, <1>8 DEF TypeOK
<1>10. ASSUME u > s PROVE FALSE
  <2>1. state[h][s] = 2
    BY SMTT(60), <1>2, <1>3, <1>8, <1>9, <1>10 DEF SlotsCompleted
  <2>2. role[h] = 0
    BY <1>1, <1>8 DEF TypeInv, TypeOK, ShiftRoom
  <2>3. PICK f : f = logPrePrepareMsg[h][s]
    OBVIOUS
  <2>4. Cardinality(Senders("Commit", s, f)) > TwoThirds /\ f # NoReq
    BY <1>1, <1>8, <2>1, <2>2, <2>3 DEF QuorumsSent
  <2>5. f \in Request
    BY <1>1, <1>8, <2>3, <2>4, Tables DEF Digest
  <2>6. Senders("Commit", s, f) \in SUBSET Node
    BY DEF Senders
  <2>7. m \in Senders("Commit", s, f)
    BY <2>4, <2>6, EveryoneCounts
  <2>8. HasSent(m, "Commit", s, f)
    BY <2>7 DEF Senders
  <2> QED BY <1>6, <2>5, <2>8
<1> QED BY <1>2, <1>3, <1>7, <1>8, <1>10

\* Commits are only broadcast by the handler of Prepares.
LEMMA NewCommit ==
  ASSUME AllInv, Faulty = {}, [Next]_vars
  PROVE  /\ RumorsGrow
         /\ \A m \in Node : \A i \in 1..Len(rumors'[m]) :
              \/ i \in 1..Len(rumors[m])
              \/ rumors'[m][i].type # "Commit"
              \/ /\ i = Len(rumors[m]) + 1
                 /\ rumors'[m][i].id \in Slot /\ rumors'[m][i].digest \in Request
                 /\ First(rumors'[m][i].id, rumors'[m][i].digest)
                 /\ state[m][rumors'[m][i].id] = 0
<1> DEFINE New(m, v) ==
             /\ v.id \in Slot /\ v.digest \in Request
             /\ First(v.id, v.digest) /\ state[m][v.id] = 0
           Kept == \A m \in Node : \A i \in 1..Len(rumors'[m]) :
                     \/ i \in 1..Len(rumors[m])
                     \/ rumors'[m][i].type # "Commit"
                     \/ i = Len(rumors[m]) + 1 /\ New(m, rumors'[m][i])
<1>1. /\ TypeInv /\ TypeOK /\ PrePreparesOwned /\ VotesFirst
      /\ RumorsGrow
  BY OwnedNext DEF AllInv, IInv, TypeInv
<1>2. ASSUME rumors' = rumors PROVE Kept
  BY <1>2
<1>3. ASSUME NEW n \in Node, NEW v, Appended(n, v), v.type # "Commit" \/ New(n, v)
      PROVE  Kept
  BY <1>3 DEF Appended
<1> HIDE DEF Kept
<1>4. ASSUME NEW r \in Calls, TagSend(r) PROVE Kept
  <2>1. \A m \in Node : \A i \in 1..Len(rumors'[m]) :
          \/ i \in 1..Len(rumors[m])
          \/ rumors'[m][i].type \in {"Checkpoint", "PrePrepare"}
    BY ZenonT(120), <1>1, <1>4, TagSendFacts
  <2> QED BY <2>1 DEF Kept
<1>5. ASSUME NEW n \in Node, BroadcastPrepare(n) PROVE Kept
  <2>1. PICK v : /\ v = [type |-> "Prepare", id |-> Shift(n, pending[n].id),
                         digest |-> pending[n].digest]
                 /\ Appended(n, v)
    BY <1>1, <1>5, BroadcastPrepareFacts
  <2> QED BY <2>1, <1>3
<1>6. ASSUME NEW n \in Node, NEW m \in Node, ExecPrepareMessage(n, m) PROVE Kept
  <2> DEFINE pre == NextRumor(n, m)
             v   == [type |-> "Commit", id |-> Shift(n, pre.id), digest |-> pre.digest]
  <2>1. /\ accepted[n][m] + 1 \in 1..Len(rumors[m])
        /\ pre = rumors[m][accepted[n][m] + 1]
        /\ pre.type = "Prepare" /\ pre.id \in Slot /\ pre.digest \in Request
        /\ rumors' = rumors \/ (state[n][pre.id] = 0 /\ Appended(n, v))
    BY ZenonT(60), <1>1, <1>6, ExecPrepareFacts
  <2> HIDE DEF pre
  <2>2. First(pre.id, pre.digest)
    BY Zenon, <1>1, <2>1, VoteFirst
  <2>3. Shift(n, pre.id) = pre.id
    BY <1>1, <2>1, NoShift DEF TypeInv
  <2>4. ASSUME state[n][pre.id] = 0 PROVE New(n, v)
    BY <2>1, <2>2, <2>3, <2>4
  <2> HIDE DEF v, New
  <2> QED BY <2>1, <2>4, <1>2, <1>3
<1>7. ASSUME NEW r \in Calls, TagCall(r) \/ TagCheck(r) PROVE Kept
  BY SMTT(60), <1>2, <1>7 DEF TagCall, TagCheck
<1>8. ASSUME NEW n \in Node, NEW m \in Node,
             \/ ExecPrePrepareMessage(n, m)
             \/ ExecCommitMessage(n, m)
             \/ ExecCheckpointMessage(n, m)
      PROVE  Kept
  BY <1>2, <1>8 DEF ExecPrePrepareMessage, ExecCommitMessage, ExecCheckpointMessage
<1>9. ASSUME NEW n \in Node, TurnBad(n) PROVE Kept
  BY <1>2, <1>9 DEF TurnBad
<1>10. UNCHANGED vars => rumors' = rumors
  BY DEF vars
<1>11. Kept
  BY Zenon, <1>2, <1>4, <1>5, <1>6, <1>7, <1>8, <1>9, <1>10 DEF Next, Process
<1> QED BY <1>1, <1>11 DEF Kept, New

LEMMA CommitsInOrderNext ==
  ASSUME AllInv, SlotsCompleted, CommitsInOrder, Faulty = {}, N = 3, [Next]_vars
  PROVE  CommitsInOrder'
<1>1. RumorsGrow /\ TypeOK
  BY NewCommit DEF AllInv, IInv, TypeInv
<1> SUFFICES ASSUME NEW m \in Node,
                    NEW i \in 1..Len(rumors'[m]), NEW j \in 1..Len(rumors'[m]),
                    rumors'[m][i].type = "Commit", rumors'[m][j].type = "Commit",
                    rumors'[m][i].digest.hr = rumors'[m][j].digest.hr,
                    i < j
             PROVE  rumors'[m][i].id < rumors'[m][j].id
  BY DEF CommitsInOrder
<1>2. Len(rumors[m]) \in Nat /\ Len(rumors'[m]) \in Nat
      /\ \A k \in 1..Len(rumors[m]) : rumors'[m][k] = rumors[m][k]
  BY <1>1 DEF RumorsGrow
<1>3. \A k \in 1..Len(rumors'[m]) : k \in 1..Len(rumors[m]) \/ rumors'[m][k].type # "Commit"
                                    \/ k = Len(rumors[m]) + 1
  BY NewCommit
<1>4. i \in 1..Len(rumors[m]) /\ rumors'[m][i] = rumors[m][i]
  BY SMTT(60), <1>2, <1>3
<1>5. CASE j \in 1..Len(rumors[m])
  BY <1>2, <1>4, <1>5 DEF CommitsInOrder
<1>6. CASE j \notin 1..Len(rumors[m])
  <2>1. PICK s, d : s = rumors'[m][j].id /\ d = rumors'[m][j].digest
    OBVIOUS
  <2>2. s \in Slot /\ d \in Request /\ First(s, d) /\ state[m][s] = 0
    BY <1>6, <2>1, NewCommit
  <2>3. rumors[m][i].id < s
    BY SMTT(60), <1>4, <2>1, <2>2, NoLaterCommit
  <2> QED BY <1>4, <2>1, <2>3
<1> QED BY <1>5, <1>6
\* A Tag that assigns a slot leaves no slot of its peer uncommitted: the earlier
\* Tags have returned.
LEMMA SlotsCompletedNext ==
  ASSUME AllInv, SlotsCompleted, Concurrent = FALSE, Faulty = {}, [Next]_vars
  PROVE  SlotsCompleted'
<1>1. /\ TypeInv /\ TypeOK /\ PrePreparesOwned /\ IInv /\ TagInv /\ OneTagAtATime
      /\ DurableInv /\ StateFirst /\ ProposedOnce
  BY DEF AllInv, IInv, TypeInv, TagInv, OnceInv
<1> SUFFICES ASSUME NEW s \in Slot, NEW d \in Request, NEW h, h = d.hr,
                    First(s, d)', s # pbftID'[h]
             PROVE  state'[h][s] = 2
  BY DEF SlotsCompleted
<1>2. h \in Node
  BY DEF Request
<1>3. state[h][s] = 2 => state'[h][s] = 2
  BY <1>1, <1>2, StateMoves
<1>4. CASE \A r \in Calls : ~TagSend(r)
  <2>1. First(s, d) /\ pbftID' = pbftID
    BY <1>1, <1>4, OtherSteps, NoNewFirst
  <2> QED BY <1>3, <2>1 DEF SlotsCompleted
<1>5. ASSUME NEW r \in Calls, TagSend(r) PROVE state'[h][s] = 2
  <2>1. /\ r.hr \in Node
        /\ pbftID'[h] = IF h = r.hr THEN TagID(r) ELSE pbftID[h]
        /\ sends[r] # 0 => TagID(r) = pbftID[r.hr]
    <3>1. \A k \in Node : pbftID'[k] = IF k = r.hr THEN TagID(r) ELSE pbftID[k]
      BY Zenon, <1>1, <1>5, TagSendFacts
    <3>2. r.hr \in Node
      BY Zenon, <1>1, <1>5, TagSendFacts
    <3> QED BY <1>2, <3>1, <3>2 DEF TagID
  <2>2. First(s, d)
    <3> SUFFICES ASSUME ~First(s, d) PROVE FALSE
      OBVIOUS
    <3>1. s = TagID(r) /\ d = r
      BY <1>1, <1>5, TagSendFirst
    <3> QED BY <2>1, <3>1
  <2>3. CASE s # pbftID[h]
    BY <1>3, <2>2, <2>3 DEF SlotsCompleted
  <2>4. CASE s = pbftID[h]
    <3>1. h = r.hr /\ sends[r] = 0
      BY <2>1, <2>4
    <3>2. d \in Sent /\ d \in Calls /\ d # r /\ Passed(d)
      <4>1. d \in Sent
        BY <1>1, <2>2 DEF ProposedOnce
      <4> QED BY <4>1, <3>1, <1>1 DEF Sent, OneTagAtATime
    <3>3. ~Active(d)
      <4>1. Active(r)
        BY <1>5 DEF TagSend, Active
      <4> QED BY <4>1, <3>1, <3>2, <1>1 DEF OneTagAtATime
    <3>4. tag[d] = "done"
      <4>1. tag[d] \in {"idle", "check", "send", "done", "rejected"}
        BY <1>1, <3>2 DEF TypeOK
      <4> QED BY <4>1, <3>2, <3>3 DEF Passed, Active
    <3>5. PICK t \in Slot : state[h][t] = 2 /\ logPrePrepareMsg[h][t] = d
      BY <1>1, <3>2, <3>4 DEF DurableInv, HasCommitted
    <3>6. d # NoReq
      BY DEF Request, NoReq, Node
    <3>7. PICK e \in Request : First(t, e)
      BY <1>1, <1>2, <3>5 DEF StateFirst
    <3>8. e = d
      BY <1>1, <1>2, <3>5, <3>6, <3>7, VoteIsPrePrepared
    <3>9. t = s
      BY <1>1, <2>2, <3>7, <3>8 DEF ProposedOnce
    <3> QED BY <1>3, <3>5, <3>9
  <2> QED BY <2>3, <2>4
<1> QED BY <1>4, <1>5

\* The Commit that a peer takes is the next rumor of its sender, and one that
\* completes a quorum finds all others logged.
LEMMA CommitsAcceptedNext ==
  ASSUME AllInv, CommitsAccepted, Faulty = {}, N = 3, [Next]_vars
  PROVE  CommitsAccepted'
<1>1. /\ TypeInv /\ TypeOK /\ PrePreparesOwned /\ IInv /\ PrePreparedFirst /\ StateFirst
      /\ RumorsGrow
      /\ logCommitMsg \in [Node -> [Node -> [Slot -> Digest]]]
      /\ state \in [Node -> [Slot -> 0..2]]
      /\ accepted \in [Node -> [Node -> Nat]]
  BY NewCommit, Tables DEF AllInv, IInv, TypeInv, OnceInv
<1> DEFINE Took(n, m, s) ==
             \E i \in 1..accepted[n][m] : rumors[m][i].type = "Commit" /\ rumors[m][i].id = s
<1>2. ASSUME \A n, m \in Node : /\ accepted'[n][m] \in Nat
                                /\ accepted[n][m] <= accepted'[n][m],
             NEW n \in Node, NEW m \in Node, n # m, NEW s, Took(n, m, s)
      PROVE  Took(n, m, s)'
  <2>1. PICK i \in 1..accepted[n][m] : rumors[m][i].type = "Commit" /\ rumors[m][i].id = s
    BY <1>2
  <2>2. accepted[n][m] <= Len(rumors[m]) /\ accepted[n][m] \in Nat /\ Len(rumors[m]) \in Nat
    BY <1>1, <1>2 DEF PrePreparedFirst, RumorsGrow
  <2>3. i \in 1..Len(rumors[m]) /\ i \in 1..accepted'[n][m]
    BY <1>2, <2>1, <2>2
  <2>4. rumors'[m][i] = rumors[m][i]
    BY <1>1, <2>3 DEF RumorsGrow
  <2> QED BY <2>1, <2>3, <2>4
<1> DEFINE Logged(n, m, s) ==
             /\ logCommitMsg[n][m][s] # NoReq => Took(n, m, s)
             /\ state[n][s] = 2 => logCommitMsg[n][m][s] # NoReq
<1>3. \A n, m \in Node, s \in Slot : n # m => Logged(n, m, s)
  BY DEF CommitsAccepted
<1>4. \A n, m \in Node : accepted'[n][m] \in Nat /\ accepted[n][m] <= accepted'[n][m]
  <2>1. ASSUME accepted' = accepted
        PROVE  \A n, m \in Node : accepted'[n][m] \in Nat /\ accepted[n][m] <= accepted'[n][m]
    BY <1>1, <2>1
  <2>2. ASSUME NEW k \in Node, NEW l \in Node, NEW t, Take(k, l, t)
        PROVE  \A n, m \in Node : accepted'[n][m] \in Nat /\ accepted[n][m] <= accepted'[n][m]
    <3>1. accepted' = [accepted EXCEPT ![k][l] = @ + 1]
      BY <2>2 DEF Take
    <3>2. \A n, m \in Node :
            accepted'[n][m] = IF n = k /\ m = l THEN accepted[k][l] + 1 ELSE accepted[n][m]
      BY SMTT(60), <3>1, <1>1
    <3> QED BY <3>2, <1>1
  <2>3. ASSUME NEW r \in Calls, TagCall(r) \/ TagCheck(r) \/ TagSend(r)
        PROVE  accepted' = accepted
    BY <2>3 DEF TagCall, TagCheck, TagSend
  <2>4. ASSUME NEW n \in Node, BroadcastPrepare(n) \/ TurnBad(n) PROVE accepted' = accepted
    BY <2>4 DEF BroadcastPrepare, TurnBad
  <2>5. ASSUME NEW n \in Node, NEW m \in Node,
               \/ ExecPrePrepareMessage(n, m)
               \/ ExecPrepareMessage(n, m)
               \/ ExecCommitMessage(n, m)
               \/ ExecCheckpointMessage(n, m)
        PROVE  \E t : Take(n, m, t)
    BY Zenon, <2>5 DEF ExecPrePrepareMessage, ExecPrepareMessage, ExecCommitMessage,
       ExecCheckpointMessage
  <2>6. UNCHANGED vars => accepted' = accepted
    BY DEF vars
  <2> QED BY <2>1, <2>2, <2>3, <2>4, <2>5, <2>6 DEF Next, Process
<1>5. ASSUME \A n, m \in Node, s \in Slot : n # m =>
               logCommitMsg'[n][m][s] = logCommitMsg[n][m][s],
             \A n \in Node, s \in Slot : state'[n][s] = 2 => state[n][s] = 2
      PROVE  CommitsAccepted'
  <2> SUFFICES ASSUME NEW n \in Node, NEW m \in Node, NEW s \in Slot, n # m
               PROVE  /\ logCommitMsg'[n][m][s] # NoReq => Took(n, m, s)'
                      /\ state'[n][s] = 2 => logCommitMsg'[n][m][s] # NoReq
    BY DEF CommitsAccepted
  <2>1. Logged(n, m, s)
    BY <1>3
  <2>2. Took(n, m, s) => Took(n, m, s)'
    BY <1>2, <1>4
  <2> HIDE DEF Took
  <2> QED BY <1>5, <2>1, <2>2
<1>6. ASSUME NEW n \in Node, NEW m \in Node, ExecCommitMessage(n, m) PROVE CommitsAccepted'
  <2> PICK c, log : c = NextRumor(n, m) /\ log = logCommitMsg'
    OBVIOUS
  <2>0. /\ n # m /\ c.id \in Slot /\ c.digest \in Request /\ c.type = "Commit"
        /\ accepted[n][m] + 1 \in 1..Len(rumors[m])
        /\ c = rumors[m][accepted[n][m] + 1]
        /\ rumors' = rumors
    BY ZenonT(120), <1>1, <1>6, ExecCommitFacts
  <2>1. /\ log = [logCommitMsg EXCEPT ![n][m][c.id] = c.digest]
        /\ \/ state' = state
           \/ /\ Cardinality(Matching(log, n, c.id, logPrePrepareMsg[n][c.id])) > TwoThirds
              /\ state' = [state EXCEPT ![n][c.id] = 2]
    <3>1. LET d == NextRumor(n, m) IN
          logCommitMsg' = [logCommitMsg EXCEPT ![n][m][d.id] = d.digest]
      BY Zenon, <1>6 DEF ExecCommitMessage
    <3>2. log = [logCommitMsg EXCEPT ![n][m][c.id] = c.digest]
      BY Zenon, <3>1
    <3>3. LET d == NextRumor(n, m) IN
          \/ state' = state
          \/ /\ Cardinality(Matching([logCommitMsg EXCEPT ![n][m][d.id] = d.digest],
                                   n, d.id, logPrePrepareMsg[n][d.id])) > TwoThirds
             /\ state' = [state EXCEPT ![n][d.id] = 2]
      BY ZenonT(60), <1>1, <1>6, ExecCommitFacts
    <3> QED BY Zenon, <3>2, <3>3
  <2>2. accepted'[n][m] = accepted[n][m] + 1
    BY <1>1, <1>6 DEF ExecCommitMessage, Take
  <2>3. \A k, l \in Node, s \in Slot :
          log[k][l][s] = IF k = n /\ l = m /\ s = c.id THEN c.digest ELSE logCommitMsg[k][l][s]
    <3>1. logCommitMsg \in [Node -> [Node -> [Slot -> Digest]]]
      BY <1>1
    <3>2. log = [logCommitMsg EXCEPT ![n][m][c.id] = c.digest] /\ c.id \in Slot
      BY ZenonT(60), <2>0, <2>1
    <3> QED BY SMTT(30), <3>1, <3>2, VoteTable
  <2>4. Took(n, m, c.id)'
    <3>1. PICK i : i = accepted[n][m] + 1
      OBVIOUS
    <3>2. i \in 1..accepted'[n][m]
      <4>1. accepted[n][m] \in Nat
        BY <1>1
      <4> QED BY <4>1, <2>2, <3>1
    <3>3. rumors'[m][i] = c
      BY <2>0, <3>1
    <3> QED BY <2>0, <3>2, <3>3
  <2>5. ASSUME NEW l \in Node, l # n, state' # state PROVE log[n][l][c.id] # NoReq
    <3>1. PICK d : d = logPrePrepareMsg[n][c.id]
      OBVIOUS
    <3>2. Cardinality(Matching(log, n, c.id, d)) > TwoThirds
      BY <2>1, <2>5, <3>1
    <3>3. Matching(log, n, c.id, d) \in SUBSET Node
      BY DEF Matching
    <3>4. l \in Matching(log, n, c.id, d)
      BY <3>2, <3>3, EveryoneCounts
    <3> QED BY <3>4 DEF Matching
  <2>6. \A k \in Node, s \in Slot :
          state'[k][s] = 2 => state[k][s] = 2 \/ (k = n /\ s = c.id /\ state' # state)
    <3>1. CASE state' = [state EXCEPT ![n][c.id] = 2]
      <4>1. state'[n][c.id] = 2 /\ \A k \in Node, s \in Slot :
              state'[k][s] = IF k = n /\ s = c.id THEN 2 ELSE state[k][s]
        BY <1>1, <2>0, <3>1, SlotTable
      <4> QED BY SMTT(60), <4>1
    <3> QED BY <2>1, <3>1
  <2> SUFFICES ASSUME NEW k \in Node, NEW l \in Node, NEW s \in Slot, k # l
               PROVE  /\ logCommitMsg'[k][l][s] # NoReq => Took(k, l, s)'
                      /\ state'[k][s] = 2 => logCommitMsg'[k][l][s] # NoReq
    BY DEF CommitsAccepted
  <2>7. Logged(k, l, s)
    BY <1>3
  <2>8. Took(k, l, s) => Took(k, l, s)'
    BY SMTT(60), <1>2, <1>4
  <2>9. c.digest # NoReq
    BY SMTT(60), <2>0 DEF Request, NoReq, Node
  <2> HIDE DEF Took
  <2>10. logCommitMsg'[k][l][s] # NoReq => Took(k, l, s)'
    BY <2>1, <2>3, <2>4, <2>7, <2>8
  <2>11. state'[k][s] = 2 => logCommitMsg'[k][l][s] # NoReq
    BY <2>1, <2>3, <2>5, <2>6, <2>7, <2>9
  <2> QED BY <2>10, <2>11
<1>7. ASSUME NEW n \in Node, NEW m \in Node, ExecPrepareMessage(n, m) PROVE CommitsAccepted'
  <2> DEFINE pre == NextRumor(n, m)
  <2>1. /\ pre.id \in Slot
        /\ logCommitMsg' = logCommitMsg
           \/ logCommitMsg' = [logCommitMsg EXCEPT ![n][n][pre.id] = pre.digest]
        /\ state' = state \/ state' = [state EXCEPT ![n][pre.id] = 1]
    BY ZenonT(120), <1>1, <1>7, ExecPrepareFacts
  <2> HIDE DEF pre
  <2>2. \A k, l \in Node, s \in Slot : k # l => logCommitMsg'[k][l][s] = logCommitMsg[k][l][s]
    <3>1. CASE logCommitMsg' = [logCommitMsg EXCEPT ![n][n][pre.id] = pre.digest]
      <4>1. \A k, l \in Node, s \in Slot :
              logCommitMsg'[k][l][s] =
                IF k = n /\ l = n /\ s = pre.id THEN pre.digest ELSE logCommitMsg[k][l][s]
        BY <1>1, <2>1, <3>1, VoteTable
      <4> QED BY <4>1
    <3> QED BY <2>1, <3>1
  <2>3. \A k \in Node, s \in Slot : state'[k][s] = 2 => state[k][s] = 2
    <3>1. CASE state' = [state EXCEPT ![n][pre.id] = 1]
      <4>1. \A k \in Node, s \in Slot :
              state'[k][s] = IF k = n /\ s = pre.id THEN 1 ELSE state[k][s]
        BY <1>1, <2>1, <3>1, SlotTable
      <4> QED BY <4>1
    <3> QED BY <2>1, <3>1
  <2> QED BY <2>2, <2>3, <1>5
<1>8. ASSUME NEW r \in Calls, TagSend(r) PROVE CommitsAccepted'
  <2>1. /\ r.hr \in Node /\ TagID(r) \in Slot /\ logCommitMsg' = logCommitMsg
        /\ state' = [state EXCEPT ![r.hr][TagID(r)] = IF sends[r] = 0 THEN 0 ELSE @]
    BY Zenon, <1>1, <1>8, TagSendFacts
  <2>2. PICK e : state' = [state EXCEPT ![r.hr][TagID(r)] = e]
                 /\ (e = 0 \/ e = state[r.hr][TagID(r)])
    BY <2>1
  <2>3. \A k \in Node, s \in Slot :
          state'[k][s] = IF k = r.hr /\ s = TagID(r) THEN e ELSE state[k][s]
    BY <1>1, <2>1, <2>2, SlotTable
  <2>4. \A k \in Node, s \in Slot : state'[k][s] = 2 => state[k][s] = 2
    BY <2>2, <2>3
  <2> QED BY <2>1, <2>4, <1>5
<1> HIDE DEF Took, Logged
<1>9. logCommitMsg' = logCommitMsg /\ state' = state => CommitsAccepted'
  BY <1>5
<1>10. ASSUME NEW r \in Calls, TagCall(r) \/ TagCheck(r)
       PROVE  logCommitMsg' = logCommitMsg /\ state' = state
  BY <1>10 DEF TagCall, TagCheck, pbftVars
<1>11. ASSUME NEW n \in Node, BroadcastPrepare(n) \/ TurnBad(n)
       PROVE  logCommitMsg' = logCommitMsg /\ state' = state
  BY <1>11 DEF BroadcastPrepare, TurnBad, pbftVars
<1>12. ASSUME NEW n \in Node, NEW m \in Node,
              ExecPrePrepareMessage(n, m) \/ ExecCheckpointMessage(n, m)
       PROVE  logCommitMsg' = logCommitMsg /\ state' = state
  BY <1>12 DEF ExecPrePrepareMessage, ExecCheckpointMessage
<1>13. UNCHANGED vars => logCommitMsg' = logCommitMsg /\ state' = state
  BY DEF vars, pbftVars
<1> QED BY Zenon, <1>6, <1>7, <1>8, <1>9, <1>10, <1>11, <1>12, <1>13 DEF Next, Process

\* A block that is appended is for a later slot than those in the chain: the Commit
\* that completes it comes after its sender's Commits for them.
LEMMA SlotOrderNext ==
  ASSUME AllInv, CommitsInOrder, CommitsAccepted, SlotOrder, Faulty = {}, N = 3, [Next]_vars
  PROVE  SlotOrder'
<1>1. /\ TypeInv /\ TypeOK /\ PrePreparesOwned /\ IInv /\ BlocksFirst /\ VotesFirst
      /\ PrePreparedFirst
  BY DEF AllInv, IInv, TypeInv
<1>2. ASSUME hrChain' = hrChain PROVE SlotOrder'
  BY <1>2 DEF SlotOrder
<1>3. ASSUME NEW n \in Node, NEW m \in Node, ExecCommitMessage(n, m) PROVE SlotOrder'
  <2> DEFINE c == NextRumor(n, m)
  <2>1. PICK h, block :
          /\ h = c.digest.hr /\ block = [index |-> c.id \div N, req |-> c.digest]
    OBVIOUS
  <2>2. /\ c.id \in Slot /\ c.digest \in Request /\ First(c.id, c.digest)
        /\ \/ hrChain' = hrChain
           \/ hrChain' = [hrChain EXCEPT ![n][h] = Append(@, block)]
    BY <1>1, <1>3, <2>1, CommitFacts DEF storeVars
  <2>3. /\ n # m /\ c.type = "Commit"
        /\ accepted[n][m] + 1 \in 1..Len(rumors[m])
        /\ c = rumors[m][accepted[n][m] + 1]
    BY ZenonT(60), <1>1, <1>3, ExecCommitFacts
  <2> HIDE DEF c
  <2>4. h \in Hr /\ h \in Node /\ block.index = c.id \div N
    BY <2>1, <2>2 DEF Request, Hr
  <2>5. CASE hrChain' = [hrChain EXCEPT ![n][h] = Append(@, block)]
    <3>1. ASSUME NEW i \in 1..Len(hrChain[n][h]) PROVE hrChain[n][h][i].index < block.index
      <4>1. PICK s \in Slot :
              /\ First(s, hrChain[n][h][i].req)
              /\ hrChain[n][h][i].index = s \div N
              /\ hrChain[n][h][i].req.hr = h
              /\ state[n][s] = 2
        BY <1>1, <2>4 DEF BlocksFirst
      <4>2. PICK j \in 1..accepted[n][m] : rumors[m][j].type = "Commit" /\ rumors[m][j].id = s
        BY <2>3, <4>1 DEF CommitsAccepted
      <4>3. accepted[n][m] \in Nat /\ Len(rumors[m]) \in Nat
        BY <1>1, Tables, RumorTypes
      <4>4. PICK k : k = accepted[n][m] + 1
        OBVIOUS
      <4>5. j \in 1..Len(rumors[m]) /\ k \in 1..Len(rumors[m]) /\ j < k
            /\ rumors[m][k] = c
        BY SMTT(60), <2>3, <4>3, <4>4
      <4>6. First(s, rumors[m][j].digest)
        BY <1>1, <4>2, <4>5, VoteFirst
      <4>7. rumors[m][j].digest.hr = h
        BY SMTT(60), <1>1, <4>1, <4>6, FirstUnique
      <4>8. rumors[m][j].id < rumors[m][k].id
        BY <2>1, <2>3, <4>2, <4>5, <4>7 DEF CommitsInOrder
      <4>9. s < c.id
        BY <4>2, <4>5, <4>8
      <4>10. s \in Nat /\ OwnedBy(s, h)
        BY SMTT(60), <1>1, <4>1, FirstOwner
      <4>11. c.id \in Nat /\ OwnedBy(c.id, h)
        BY <1>1, <2>1, <2>2, FirstOwner
      <4>12. s \div N # c.id \div N
        <5>1. s # c.id
          BY <4>9, <4>10
        <5> QED BY Zenon, <2>4, <4>10, <4>11, <5>1, IndexUnique
      <4>13. ASSUME NEW x \in Nat, NEW y \in Nat, x < y, x \div N # y \div N
             PROVE  x \div N < y \div N
        BY <4>13
      <4> QED BY <2>4, <4>1, <4>9, <4>10, <4>11, <4>12, <4>13
    <3>2. ASSUME NEW k \in Node, NEW g \in Hr,
                 NEW i \in 1..Len(hrChain'[k][g]), NEW j \in 1..Len(hrChain'[k][g]), i < j
          PROVE  hrChain'[k][g][i].index < hrChain'[k][g][j].index
      <4>1. PICK new : new = hrChain'
        OBVIOUS
      <4>2. new = [hrChain EXCEPT ![n][h] = Append(@, block)]
        BY <2>5, <4>1
      <4>3. /\ Len(hrChain[k][g]) \in Nat
            /\ \A x \in 1..Len(hrChain[k][g]) : new[k][g][x] = hrChain[k][g][x]
            /\ \A x \in 1..Len(new[k][g]) :
                 \/ x \in 1..Len(hrChain[k][g])
                 \/ k = n /\ g = h /\ x = Len(hrChain[k][g]) + 1 /\ new[k][g][x] = block
        BY SMTT(60), <1>1, <2>4, <4>2, ChainAppend
      <4>4. i \in 1..Len(hrChain[k][g])
        BY <3>2, <4>1, <4>3
      <4>5. CASE j \in 1..Len(hrChain[k][g])
        <5>1. hrChain[k][g][i].index < hrChain[k][g][j].index
          BY <3>2, <4>4, <4>5 DEF SlotOrder
        <5> QED BY <4>1, <4>3, <4>4, <4>5, <5>1
      <4>6. CASE j \notin 1..Len(hrChain[k][g])
        BY <3>1, <4>1, <4>3, <4>4, <4>6
      <4> QED BY <4>5, <4>6
    <3> QED BY <3>2 DEF SlotOrder
  <2> QED BY <2>2, <2>5, <1>2
<1>4. ASSUME NEW r \in Calls, TagCall(r) \/ TagCheck(r) \/ TagSend(r) PROVE hrChain' = hrChain
  BY <1>4 DEF TagCall, TagCheck, TagSend, storeVars
<1>5. ASSUME NEW k \in Node, BroadcastPrepare(k) \/ TurnBad(k) PROVE hrChain' = hrChain
  BY <1>5 DEF BroadcastPrepare, TurnBad, storeVars
<1>6. ASSUME NEW k \in Node, NEW m \in Node,
             \/ ExecPrePrepareMessage(k, m)
             \/ ExecPrepareMessage(k, m)
             \/ ExecCheckpointMessage(k, m)
      PROVE  hrChain' = hrChain
  BY Zenon, <1>6 DEF ExecPrePrepareMessage, ExecPrepareMessage, ExecCheckpointMessage, storeVars
<1>7. UNCHANGED vars => hrChain' = hrChain
  BY DEF vars, storeVars
<1> QED BY <1>2, <1>3, <1>4, <1>5, <1>6, <1>7 DEF Next, Process

LEMMA OrderInvInit == Init => OrderInv
<1> SUFFICES ASSUME Init PROVE OrderInv
  OBVIOUS
<1>1. /\ \A m \in Node : Len(rumors[m]) = 0
      /\ \A n \in Node, h \in Hr : Len(hrChain[n][h]) = 0
  BY EmptySeq DEF Init
<1>2. \A s, d : ~First(s, d)
  BY <1>1 DEF First
<1>3. CommitsAccepted
  BY DEF Init, CommitsAccepted
<1> QED BY <1>1, <1>2, <1>3 DEF OrderInv, CommitsInOrder, SlotsCompleted, SlotOrder

\* The chain that any of three peers has of an HR is in the order in which the HR tagged
\* its files, although the Commits of different peers overtake each other: the
\* Commit that completes a quorum may come from anybody, but whoever sent it
\* had sent those for the earlier slots. With more peers a quorum does not need
\* all, and a slow peer may complete the slots in another order.
THEOREM SlotsInOrder ==
  ASSUME N = 3, Concurrent = FALSE, Faulty = {}
  PROVE  Spec => []SlotOrder
<1>1. Init => AllInv /\ OrderInv
  BY AllInvHolds, OrderInvInit
<1>2. ASSUME AllInv, OrderInv, [Next]_vars PROVE AllInv' /\ OrderInv'
  <2>1. AllInv'
    BY Zenon, <1>2, AllInvHolds
  <2>2. CommitsInOrder /\ SlotsCompleted /\ CommitsAccepted /\ SlotOrder
    BY <1>2 DEF OrderInv
  <2> QED BY <1>2, <2>1, <2>2, CommitsInOrderNext, SlotsCompletedNext, CommitsAcceptedNext,
          SlotOrderNext DEF OrderInv
<1>3. OrderInv => SlotOrder
  BY DEF OrderInv
<1>4. AllInv /\ OrderInv /\ [Next]_vars => AllInv' /\ OrderInv'
  BY <1>2
<1> QED BY <1>1, <1>3, <1>4, PTL DEF Spec
-----------------------------------------------------------------------------
(* The first retry is enough.  What each step does to what RetryInv speaks *)
(* about, entry by entry.                                                  *)

Prepare(s, d) == [type |-> "Prepare", id |-> s, digest |-> d]
Commit(s, d)  == [type |-> "Commit", id |-> s, digest |-> d]

\* Tag broadcasts r for slot s.
Sending(r, s) ==
  /\ TagSend(r) /\ s = TagID(r) /\ s \in Slot /\ r \in Request /\ r.hr \in Node
  /\ \A n \in Node, t \in Slot :
       logPrePrepareMsg'[n][t] = IF n = r.hr /\ t = s THEN r ELSE logPrePrepareMsg[n][t]
  /\ Len(rumors[r.hr]) + 1 \in 1..Len(rumors'[r.hr])
  /\ rumors'[r.hr][Len(rumors[r.hr]) + 1] = [type |-> "PrePrepare", id |-> s, digest |-> r]
  /\ \A m \in Node : \A i \in 1..Len(rumors'[m]) :
       \/ i \in 1..Len(rumors[m])
       \/ m = r.hr /\ i = Len(rumors[m]) + 1
       \/ rumors'[m][i].type = "Checkpoint"
  /\ \A q \in Calls : sends'[q] = IF q = r THEN sends[r] + 1 ELSE sends[q]
  /\ \A n \in Node, t \in Slot : state'[n][t] \in {state[n][t], 0}
  /\ UNCHANGED <<logPrepareMsg, logCommitMsg, pending, accepted, hrNaming>>

\* Peer n broadcasts the Prepare that is pending.
Answering(n) ==
  /\ pending[n].id \in Slot /\ pending[n].digest \in Request
  /\ Appended(n, Prepare(pending[n].id, pending[n].digest))
  /\ Len(rumors[n]) + 1 \in 1..Len(rumors'[n])
  /\ rumors'[n][Len(rumors[n]) + 1] = Prepare(pending[n].id, pending[n].digest)
  /\ pending[n] = [id |-> pending[n].id, digest |-> pending[n].digest]
  /\ \A k \in Node : pending'[k] = IF k = n THEN NoPrepare ELSE pending[k]
  /\ UNCHANGED <<logPrePrepareMsg, logPrepareMsg, logCommitMsg, state, accepted, hrNaming, sends>>

\* Peer n takes v from peer m.
Taking(n, m, v) ==
  /\ n # m /\ pending[n] = NoPrepare
  /\ accepted[n][m] + 1 \in 1..Len(rumors[m]) /\ v = rumors[m][accepted[n][m] + 1]
  /\ v.id \in Slot /\ v.digest \in Request
  /\ v = [type |-> v.type, id |-> v.id, digest |-> v.digest]
  /\ \A k, l \in Node :
       accepted'[k][l] = IF k = n /\ l = m THEN accepted[n][m] + 1 ELSE accepted[k][l]
  /\ sends' = sends

PrePreparing(n, m, v) ==
  /\ Taking(n, m, v) /\ v.type = "PrePrepare" /\ v.digest.hr = m
  /\ \A k \in Node, t \in Slot :
       logPrePrepareMsg'[k][t] = IF k = n /\ t = v.id THEN v.digest ELSE logPrePrepareMsg[k][t]
  /\ \A k, l \in Node, t \in Slot :
       logPrepareMsg'[k][l][t] =
         IF k = n /\ l = n /\ t = v.id THEN v.digest ELSE logPrepareMsg[k][l][t]
  /\ \A k \in Node :
       pending'[k] = IF k = n THEN [id |-> v.id, digest |-> v.digest] ELSE pending[k]
  /\ UNCHANGED <<rumors, logCommitMsg, state, hrNaming>>

Preparing(n, m, v) ==
  LET count == Cardinality(Matching(logPrepareMsg', n, v.id, logPrePrepareMsg[n][v.id])) IN
  /\ Taking(n, m, v) /\ v.type = "Prepare"
  /\ \A k, l \in Node, t \in Slot :
       logPrepareMsg'[k][l][t] =
         IF k = n /\ l = m /\ t = v.id THEN v.digest ELSE logPrepareMsg[k][l][t]
  /\ \/ /\ count >= TwoThirds /\ state[n][v.id] = 0
        /\ \A k \in Node, t \in Slot :
             state'[k][t] = IF k = n /\ t = v.id THEN 1 ELSE state[k][t]
        /\ \A k, l \in Node, t \in Slot :
             logCommitMsg'[k][l][t] =
               IF k = n /\ l = n /\ t = v.id THEN v.digest ELSE logCommitMsg[k][l][t]
        /\ Appended(n, Commit(v.id, v.digest))
     \/ /\ count < TwoThirds \/ state[n][v.id] # 0
        /\ UNCHANGED <<state, logCommitMsg, rumors>>
  /\ UNCHANGED <<logPrePrepareMsg, pending, hrNaming>>

Committing(n, m, v) ==
  LET count == Cardinality(Matching(logCommitMsg', n, v.id, logPrePrepareMsg[n][v.id])) IN
  /\ Taking(n, m, v) /\ v.type = "Commit"
  /\ \A k, l \in Node, t \in Slot :
       logCommitMsg'[k][l][t] =
         IF k = n /\ l = m /\ t = v.id THEN v.digest ELSE logCommitMsg[k][l][t]
  /\ \/ /\ count > TwoThirds /\ state[n][v.id] = 1
        /\ \A k \in Node, t \in Slot :
             state'[k][t] = IF k = n /\ t = v.id THEN 2 ELSE state[k][t]
        /\ hrNaming'[n][v.digest.hr][v.digest.name] # NoMh
        /\ \A k, h \in Node, x \in Name : hrNaming[k][h][x] # NoMh => hrNaming'[k][h][x] # NoMh
     \/ /\ count <= TwoThirds \/ state[n][v.id] # 1
        /\ UNCHANGED <<state, hrNaming>>
  /\ UNCHANGED <<rumors, logPrePrepareMsg, logPrepareMsg, pending>>

\* Anything else: at most a Checkpoint is taken.
Idling ==
  /\ UNCHANGED <<rumors, logPrePrepareMsg, logPrepareMsg, logCommitMsg, state, pending,
                 hrNaming, sends>>
  /\ \/ accepted' = accepted
     \/ \E n, m \in Node, v \in Message : Taking(n, m, v) /\ v.type = "Checkpoint"

\* What the invariants proved so far say, part by part.
LEMMA AllParts ==
  ASSUME AllInv
  PROVE  /\ IInv /\ TagInv /\ TypeInv /\ TypeOK
         /\ PrePreparesOwned /\ PrePreparedFirst /\ VotesFirst
         /\ StateFirst /\ ProposedOnce
         /\ OneTagAtATime /\ OnlySent /\ OneDigestPerSlot /\ QuorumsSent
BY SMTT(60) DEF AllInv, IInv, TagInv, OnceInv, TypeInv

LEMMA TakingFacts ==
  ASSUME TypeOK, NEW n \in Node, NEW m \in Node, NEW t, Take(n, m, t), sends' = sends,
         NEW v, v = NextRumor(n, m)
  PROVE  Taking(n, m, v) /\ v.type = t /\ v \in Message
<1>1. /\ accepted[n][m] + 1 \in 1..Len(rumors[m]) /\ v = rumors[m][accepted[n][m] + 1]
      /\ v \in Message /\ v.type = t /\ v.id \in Slot /\ v.digest \in Request
  BY TakeFacts
<1>2. v = [type |-> v.type, id |-> v.id, digest |-> v.digest]
  BY <1>1 DEF Message
<1>3. n # m /\ pending[n] = NoPrepare /\ accepted' = [accepted EXCEPT ![n][m] = @ + 1]
  BY DEF Take
<1>4. accepted \in [Node -> [Node -> Nat]]
  BY Tables
<1>5. \A k, l \in Node :
        accepted'[k][l] = IF k = n /\ l = m THEN accepted[n][m] + 1 ELSE accepted[k][l]
  BY SMTT(60), <1>3, <1>4
<1> QED BY <1>1, <1>2, <1>3, <1>5 DEF Taking

LEMMA TagSendSends ==
  ASSUME TypeInv, PrePreparesOwned, NEW r \in Calls, TagSend(r), NEW s, s = TagID(r)
  PROVE  Sending(r, s)
<1>1. /\ r.hr \in Node /\ r \in Request /\ s \in Slot
      /\ logPrePrepareMsg' = [logPrePrepareMsg EXCEPT ![r.hr][s] = r]
      /\ UNCHANGED <<logPrepareMsg, logCommitMsg, storeVars, pending, accepted>>
  BY TagSendFacts
<1>2. /\ Len(rumors[r.hr]) + 1 \in 1..Len(rumors'[r.hr])
      /\ rumors'[r.hr][Len(rumors[r.hr]) + 1] = [type |-> "PrePrepare", id |-> s, digest |-> r]
  BY TagSendFacts
<1>3. \A m \in Node : \A i \in 1..Len(rumors'[m]) :
        \/ i \in 1..Len(rumors[m])
        \/ /\ m = r.hr
           /\ rumors'[m][i].id = TagID(r) /\ rumors'[m][i].digest = r
           /\ \/ rumors'[m][i].type = "Checkpoint"
              \/ rumors'[m][i].type = "PrePrepare" /\ i = Len(rumors[m]) + 1
  BY ZenonT(60), TagSendFacts
<1>4. logPrePrepareMsg \in [Node -> [Slot -> Digest]] /\ sends \in [Calls -> 0..MaxSends]
  BY Tables DEF TypeInv, TypeOK
<1>5. \A n \in Node, t \in Slot :
        logPrePrepareMsg'[n][t] = IF n = r.hr /\ t = s THEN r ELSE logPrePrepareMsg[n][t]
  BY SMTT(60), <1>1, <1>4, SlotTable
<1>6. sends' = [sends EXCEPT ![r] = @ + 1]
  BY DEF TagSend
<1>7. \A q \in Calls : sends'[q] = IF q = r THEN sends[r] + 1 ELSE sends[q]
  BY <1>4, <1>6
<1>8. \A m \in Node : \A i \in 1..Len(rumors'[m]) :
        \/ i \in 1..Len(rumors[m])
        \/ m = r.hr /\ i = Len(rumors[m]) + 1
        \/ rumors'[m][i].type = "Checkpoint"
  BY <1>3
<1>9. \A n \in Node, t \in Slot : state'[n][t] \in {state[n][t], 0}
  <2>1. state' = [state EXCEPT ![r.hr][TagID(r)] = IF sends[r] = 0 THEN 0 ELSE @]
    BY ZenonT(60), TagSendFacts
  <2>2. state \in [Node -> [Slot -> 0..2]]
    BY Tables DEF TypeInv
  <2> QED BY <1>1, <2>1, <2>2
<1> QED BY <1>1, <1>2, <1>5, <1>7, <1>8, <1>9 DEF Sending, storeVars

LEMMA PrepareAnswers ==
  ASSUME TypeInv, Faulty = {}, NEW n \in Node, BroadcastPrepare(n)
  PROVE  Answering(n)
<1>1. /\ pending[n] # NoPrepare
      /\ pending[n].id \in Slot /\ pending[n].digest \in Request
      /\ Appended(n, [type |-> "Prepare", id |-> Shift(n, pending[n].id),
                      digest |-> pending[n].digest])
      /\ pending' = [pending EXCEPT ![n] = NoPrepare]
      /\ UNCHANGED <<pbftVars, storeVars, accepted, tagVars>>
  BY BroadcastPrepareFacts
<1>2. Shift(n, pending[n].id) = pending[n].id
  BY <1>1, NoShift
<1>3. pending \in [Node -> [id : Slot, digest : Request] \cup {NoPrepare}]
  BY DEF TypeInv, TypeOK
<1>4. pending[n] \in [id : Slot, digest : Request]
  BY <1>1, <1>3
<1>5. pending[n] = [id |-> pending[n].id, digest |-> pending[n].digest]
  BY <1>4
<1>6. \A k \in Node : pending'[k] = IF k = n THEN NoPrepare ELSE pending[k]
  BY <1>1, <1>3
<1>7. UNCHANGED <<logPrePrepareMsg, logPrepareMsg, logCommitMsg, state, accepted, hrNaming, sends>>
  BY <1>1 DEF pbftVars, storeVars, tagVars
<1>8. PICK v : v = Prepare(pending[n].id, pending[n].digest)
  OBVIOUS
<1>9. v \in Message /\ Originate(n, <<v>>)
  BY <1>1, <1>2, <1>8 DEF BroadcastPrepare, Prepare, Message
<1>10. Len(rumors[n]) + 1 \in 1..Len(rumors'[n]) /\ rumors'[n][Len(rumors[n]) + 1] = v
  <2> DEFINE msgs == <<v>>
  <2>1. msgs \in Seq(Message) /\ Len(msgs) = 1 /\ msgs[1] = v
    BY <1>9
  <2>2. rumors \in [Node -> Seq(Message)] /\ Originate(n, msgs)
    BY <1>9 DEF TypeInv, TypeOK
  <2> HIDE DEF msgs
  <2>3. \A j \in 1..Len(msgs) :
          /\ Len(rumors[n]) + j \in 1..Len(rumors'[n])
          /\ rumors'[n][Len(rumors[n]) + j] = msgs[j]
    BY <2>1, <2>2, OriginateAt
  <2> QED BY <2>1, <2>3
<1> QED BY <1>1, <1>2, <1>5, <1>6, <1>7, <1>8, <1>10 DEF Answering, Prepare

LEMMA PrePrepareTaken ==
  ASSUME TypeInv, PrePreparesOwned, OneDigestPerSlot,
         NEW n \in Node, NEW m \in Node, ExecPrePrepareMessage(n, m),
         NEW v, v = NextRumor(n, m)
  PROVE  PrePreparing(n, m, v)
<1>1. /\ TypeOK /\ Take(n, m, "PrePrepare")
      /\ UNCHANGED <<state, logCommitMsg, hrNaming, rumors, sends>>
  BY DEF TypeInv, ExecPrePrepareMessage, storeVars, tagVars
<1>2. Taking(n, m, v) /\ v.type = "PrePrepare" /\ v.id \in Slot
  BY <1>1, TakingFacts DEF Taking
<1>3. ~Conflict(n, v.id, v.digest)
  BY NoConflict
<1>4. v.digest.hr = m
  BY SMTT(60), ExecPrePrepareFacts
<1>5. /\ logPrePrepareMsg' = [logPrePrepareMsg EXCEPT ![n][v.id] = v.digest]
      /\ logPrepareMsg' = [logPrepareMsg EXCEPT ![n][n][v.id] = v.digest]
      /\ pending' = [pending EXCEPT ![n] = [id |-> v.id, digest |-> v.digest]]
  BY SMTT(60), <1>3 DEF ExecPrePrepareMessage
<1>6. /\ logPrePrepareMsg \in [Node -> [Slot -> Digest]]
      /\ logPrepareMsg \in [Node -> [Node -> [Slot -> Digest]]]
      /\ pending \in [Node -> [id : Slot, digest : Request] \cup {NoPrepare}]
  BY SMTT(60), <1>1 DEF TypeOK
<1>7. \A k \in Node, t \in Slot :
       logPrePrepareMsg'[k][t] = IF k = n /\ t = v.id THEN v.digest ELSE logPrePrepareMsg[k][t]
  BY <1>2, <1>5, <1>6, SlotTable
<1>8. \A k, l \in Node, t \in Slot :
       logPrepareMsg'[k][l][t] =
         IF k = n /\ l = n /\ t = v.id THEN v.digest ELSE logPrepareMsg[k][l][t]
  BY <1>2, <1>5, <1>6, VoteTable
<1>9. \A k \in Node :
       pending'[k] = IF k = n THEN [id |-> v.id, digest |-> v.digest] ELSE pending[k]
  BY <1>5, <1>6
<1> QED BY <1>1, <1>2, <1>4, <1>7, <1>8, <1>9 DEF PrePreparing

LEMMA PrepareTaken ==
  ASSUME TypeInv, Faulty = {}, NEW n \in Node, NEW m \in Node, ExecPrepareMessage(n, m),
         NEW v, v = NextRumor(n, m)
  PROVE  Preparing(n, m, v)
<1> DEFINE count == Cardinality(Matching(logPrepareMsg', n, v.id, logPrePrepareMsg[n][v.id]))
<1>1. /\ TypeOK /\ Take(n, m, "Prepare")
      /\ UNCHANGED <<logPrePrepareMsg, pending, hrNaming, sends>>
  BY DEF TypeInv, ExecPrepareMessage, storeVars, tagVars
<1>2. Taking(n, m, v) /\ v.type = "Prepare" /\ v.id \in Slot /\ v.digest \in Request
  BY <1>1, TakingFacts DEF Taking
<1>3. /\ logPrepareMsg' = [logPrepareMsg EXCEPT ![n][m][v.id] = v.digest]
      /\ \/ /\ Prepared(n, v.id, count)
            /\ state' = [state EXCEPT ![n][v.id] = 1]
            /\ logCommitMsg' = [logCommitMsg EXCEPT ![n][n][v.id] = v.digest]
            /\ Originate(n, <<[type |-> "Commit", id |-> Shift(n, v.id),
                               digest |-> v.digest]>>)
         \/ ~Prepared(n, v.id, count) /\ UNCHANGED <<state, logCommitMsg, rumors>>
  BY SMTT(60) DEF ExecPrepareMessage
<1>4. /\ logPrepareMsg \in [Node -> [Node -> [Slot -> Digest]]]
      /\ logCommitMsg \in [Node -> [Node -> [Slot -> Digest]]]
      /\ state \in [Node -> [Slot -> 0..2]]
  BY <1>1 DEF TypeOK
<1>5. \A k, l \in Node, t \in Slot :
        logPrepareMsg'[k][l][t] =
          IF k = n /\ l = m /\ t = v.id THEN v.digest ELSE logPrepareMsg[k][l][t]
  BY <1>2, <1>3, <1>4, VoteTable
<1>6. count \in Nat /\ TwoThirds \in Nat
  <2>1. Matching(logPrepareMsg', n, v.id, logPrePrepareMsg[n][v.id]) \in SUBSET Node
    BY DEF Matching
  <2> QED BY <2>1, MoreNodes, TwoThirdsNat
<1> HIDE DEF count
<1>7. CASE /\ Prepared(n, v.id, count)
           /\ state' = [state EXCEPT ![n][v.id] = 1]
           /\ logCommitMsg' = [logCommitMsg EXCEPT ![n][n][v.id] = v.digest]
           /\ Originate(n, <<[type |-> "Commit", id |-> Shift(n, v.id),
                              digest |-> v.digest]>>)
  <2>1. Shift(n, v.id) = v.id
    BY <1>2, NoShift
  <2>2. Commit(v.id, v.digest) \in Message
    BY <1>2 DEF Commit, Message
  <2>3. Appended(n, Commit(v.id, v.digest))
    BY <1>1, <1>7, <2>1, <2>2, OriginateAppends DEF Commit
  <2>4. \A k \in Node, t \in Slot :
          state'[k][t] = IF k = n /\ t = v.id THEN 1 ELSE state[k][t]
    BY <1>2, <1>4, <1>7, SlotTable
  <2>5. \A k, l \in Node, t \in Slot :
          logCommitMsg'[k][l][t] =
            IF k = n /\ l = n /\ t = v.id THEN v.digest ELSE logCommitMsg[k][l][t]
    BY SMTT(60), <1>2, <1>4, <1>7, VoteTable
  <2>6. count >= TwoThirds /\ state[n][v.id] = 0
    BY <1>7 DEF Prepared
  <2> QED BY <1>1, <1>2, <1>5, <2>3, <2>4, <2>5, <2>6 DEF Preparing, count
<1>8. CASE ~Prepared(n, v.id, count) /\ UNCHANGED <<state, logCommitMsg, rumors>>
  <2>1. count < TwoThirds \/ state[n][v.id] # 0
    BY <1>6, <1>8 DEF Prepared
  <2> QED BY <1>1, <1>2, <1>5, <1>8, <2>1 DEF Preparing, count
<1> QED BY <1>3, <1>7, <1>8

LEMMA CommitTaken ==
  ASSUME AllInv, Faulty = {}, TwoThirds > 0, NEW n \in Node, NEW m \in Node,
         ExecCommitMessage(n, m), NEW v, v = NextRumor(n, m)
  PROVE  Committing(n, m, v)
<1> DEFINE count == Cardinality(Matching(logCommitMsg', n, v.id, logPrePrepareMsg[n][v.id]))
           request == RequestOf(n, v.digest)
<1>1. /\ TypeInv /\ TypeOK /\ IInv /\ TagInv /\ PrePreparedFirst /\ VotesFirst /\ QuorumsSent
      /\ Take(n, m, "Commit")
      /\ UNCHANGED <<rumors, logPrePrepareMsg, logPrepareMsg, pending, sends>>
  BY AllParts DEF ExecCommitMessage, tagVars
<1>2. /\ Taking(n, m, v) /\ v.type = "Commit" /\ v.id \in Slot /\ v.digest \in Request
      /\ accepted[n][m] + 1 \in 1..Len(rumors[m]) /\ v = rumors[m][accepted[n][m] + 1]
  BY SMTT(60), <1>1, TakingFacts DEF Taking
<1>3. /\ logCommitMsg' = [logCommitMsg EXCEPT ![n][m][v.id] = v.digest]
      /\ \/ /\ Committed(n, v.id, count)
            /\ state' = [state EXCEPT ![n][v.id] = 2]
            /\ hrNaming' = [hrNaming EXCEPT ![n][request.hr][request.name] = request.mh]
         \/ ~Committed(n, v.id, count) /\ UNCHANGED <<state, storeVars>>
  BY SMTT(60) DEF ExecCommitMessage
<1>6. count \in Nat /\ TwoThirds \in Nat
  <2>1. Matching(logCommitMsg', n, v.id, logPrePrepareMsg[n][v.id]) \in SUBSET Node
    BY DEF Matching
  <2> QED BY <2>1, MoreNodes, TwoThirdsNat
<1> HIDE DEF count, request
<1>4. /\ logCommitMsg \in [Node -> [Node -> [Slot -> Digest]]]
      /\ state \in [Node -> [Slot -> 0..2]]
      /\ hrNaming \in [Node -> [Hr -> [Name \cup {NoName} -> Mh \cup {NoMh}]]]
  BY <1>1 DEF TypeOK
<1>5. \A k, l \in Node, t \in Slot :
        logCommitMsg'[k][l][t] =
          IF k = n /\ l = m /\ t = v.id THEN v.digest ELSE logCommitMsg[k][l][t]
  BY SMTT(60), <1>2, <1>3, <1>4, VoteTable
<1>7. CASE /\ Committed(n, v.id, count)
           /\ state' = [state EXCEPT ![n][v.id] = 2]
           /\ hrNaming' = [hrNaming EXCEPT ![n][request.hr][request.name] = request.mh]
  <2>1. count > TwoThirds /\ state[n][v.id] = 1
    BY SMTT(60), <1>7 DEF Committed
  <2>2. \A k \in Node, t \in Slot :
          state'[k][t] = IF k = n /\ t = v.id THEN 2 ELSE state[k][t]
    BY <1>2, <1>4, <1>7, SlotTable
  <2>3. First(v.id, v.digest)
    BY Zenon, <1>1, <1>2, VoteFirst
  <2>4. role[n] = 0
    BY SMTT(60), <1>1 DEF TypeInv, TypeOK, ShiftRoom
  <2>5. logPrePrepareMsg[n][v.id] # NoReq
    BY SMTT(60), <1>1, <1>2, <1>6, <2>1, <2>4 DEF QuorumsSent
  <2>6. logPrePrepareMsg[n][v.id] = v.digest
    BY SMTT(60), <1>1, <1>2, <2>3, <2>5, VoteIsPrePrepared
  <2>7. v.digest \in logRequest[n]
    BY <1>1, <1>2, <2>5, <2>6 DEF PrePreparedFirst
  <2>8. request = v.digest
    BY SMTT(60), <2>7 DEF request, RequestOf
  <2>9. /\ request.hr \in Hr /\ request.name \in Name \cup {NoName} /\ request.mh # NoMh
    BY <1>2, <2>8, PbftAssumption DEF Request, Hr
  <2>10. hrNaming'[n][v.digest.hr][v.digest.name] # NoMh
    BY SMTT(60), <1>4, <1>7, <2>8, <2>9
  <2>11. \A k, h \in Node, x \in Name :
           hrNaming[k][h][x] # NoMh => hrNaming'[k][h][x] # NoMh
    BY SMTT(60), <1>1, NamesStayTaken
  <2> QED BY ZenonT(60), <1>1, <1>2, <1>5, <2>1, <2>2, <2>10, <2>11 DEF Committing, count
<1>8. CASE ~Committed(n, v.id, count) /\ UNCHANGED <<state, storeVars>>
  <2>1. count <= TwoThirds \/ state[n][v.id] # 1
    BY <1>6, <1>8 DEF Committed
  <2> QED BY ZenonT(60), <1>1, <1>2, <1>5, <1>8, <2>1 DEF Committing, count, storeVars
<1> QED BY SMTT(60), <1>3, <1>7, <1>8

RetryStep ==
  \/ \E r \in Calls, s \in Slot : Sending(r, s)
  \/ \E n \in Node : Answering(n)
  \/ \E n, m \in Node, v \in Message :
       PrePreparing(n, m, v) \/ Preparing(n, m, v) \/ Committing(n, m, v)
  \/ Idling

LEMMA StepKinds ==
  ASSUME AllInv, Faulty = {}, TwoThirds > 0, [Next]_vars
  PROVE  RetryStep
<1>1. TypeInv /\ TypeOK /\ PrePreparesOwned /\ OneDigestPerSlot
  BY AllParts
<1>2. ASSUME NEW r \in Calls, TagSend(r) PROVE RetryStep
  <2>1. PICK s : s = TagID(r)
    OBVIOUS
  <2>2. Sending(r, s) /\ s \in Slot
    BY <1>1, <1>2, <2>1, TagSendSends DEF Sending
  <2> QED BY <2>2 DEF RetryStep
<1>3. ASSUME NEW n \in Node, BroadcastPrepare(n) PROVE RetryStep
  BY <1>1, <1>3, PrepareAnswers DEF RetryStep
<1>4. ASSUME NEW n \in Node, NEW m \in Node,
             \/ ExecPrePrepareMessage(n, m)
             \/ ExecPrepareMessage(n, m)
             \/ ExecCommitMessage(n, m)
      PROVE  RetryStep
  <2>1. PICK v : v = NextRumor(n, m)
    OBVIOUS
  <2>2. \E t : Take(n, m, t)
    BY Zenon, <1>4 DEF ExecPrePrepareMessage, ExecPrepareMessage, ExecCommitMessage
  <2>3. v \in Message
    BY <1>1, <2>1, <2>2, TakeFacts
  <2>4. PrePreparing(n, m, v) \/ Preparing(n, m, v) \/ Committing(n, m, v)
    BY <1>1, <1>4, <2>1, PrePrepareTaken, PrepareTaken, CommitTaken
  <2> QED BY <2>3, <2>4 DEF RetryStep
<1>5. ASSUME NEW n \in Node, NEW m \in Node, ExecCheckpointMessage(n, m) PROVE RetryStep
  <2>1. /\ Take(n, m, "Checkpoint")
        /\ UNCHANGED <<rumors, logPrePrepareMsg, logPrepareMsg, logCommitMsg, state, pending,
                       hrNaming, sends>>
    BY <1>5 DEF ExecCheckpointMessage, storeVars, tagVars
  <2>2. PICK v : v = NextRumor(n, m)
    OBVIOUS
  <2>3. Taking(n, m, v) /\ v.type = "Checkpoint" /\ v \in Message
    BY <1>1, <2>1, <2>2, TakingFacts
  <2>4. Idling
    BY <2>1, <2>3 DEF Idling
  <2> QED BY <2>4 DEF RetryStep
<1>6. ASSUME \/ \E r \in Calls : TagCall(r) \/ TagCheck(r)
             \/ \E n \in Node : TurnBad(n)
             \/ UNCHANGED vars
      PROVE  RetryStep
  <2>1. UNCHANGED <<rumors, logPrePrepareMsg, logPrepareMsg, logCommitMsg, state, pending,
                    hrNaming, sends, accepted>>
    BY Zenon, <1>6 DEF TagCall, TagCheck, TurnBad, vars, pbftVars, storeVars, tagVars
  <2> QED BY <2>1 DEF RetryStep, Idling
<1> QED BY Zenon, <1>2, <1>3, <1>4, <1>5, <1>6 DEF Next, Process

\* What a step never takes back.
LEMMA NothingLost ==
  ASSUME AllInv, AllInv', Faulty = {}, TwoThirds > 0, [Next]_vars
  PROVE  /\ RumorsGrow
         /\ \A n \in Node, s \in Slot :
              /\ logPrePrepareMsg[n][s] # NoReq =>
                   logPrePrepareMsg'[n][s] = logPrePrepareMsg[n][s]
              /\ state[n][s] \in 0..2 /\ state'[n][s] \in 0..2 /\ state'[n][s] >= state[n][s]
         /\ \A n, m \in Node :
              /\ accepted[n][m] \in Nat /\ accepted'[n][m] \in Nat
              /\ accepted'[n][m] >= accepted[n][m]
              /\ n # m => accepted[n][m] <= Len(rumors[m])
<1>1. /\ TypeInv /\ TypeOK /\ PrePreparesOwned /\ PrePreparedFirst /\ OneDigestPerSlot
      /\ IInv /\ StateFirst /\ RetryStep /\ TwoThirds \in Nat
  BY AllParts, StepKinds, TwoThirdsNat
<1>2. RumorsGrow
  BY <1>1, OwnedNext
<1>3. \A n \in Node, s \in Slot :
        logPrePrepareMsg[n][s] # NoReq => logPrePrepareMsg'[n][s] = logPrePrepareMsg[n][s]
  BY <1>1, PrePreparedStays
<1>4. state \in [Node -> [Slot -> 0..2]] /\ accepted \in [Node -> [Node -> Nat]]
  BY <1>1, Tables
<1>5. \A n \in Node, s \in Slot :
        state[n][s] \in 0..2 /\ state'[n][s] \in 0..2 /\ state'[n][s] >= state[n][s]
  <2> SUFFICES ASSUME NEW n \in Node, NEW s \in Slot
               PROVE  /\ state[n][s] \in 0..2 /\ state'[n][s] \in 0..2
                      /\ state'[n][s] >= state[n][s]
    OBVIOUS
  <2>1. \/ state'[n][s] = state[n][s]
        \/ state[n][s] = 0 /\ state'[n][s] = 1
        \/ state[n][s] = 1 /\ state'[n][s] = 2
    BY <1>1, StateMoves
  <2> QED BY <1>4, <2>1
<1>6. \A n, m \in Node : accepted[n][m] \in Nat /\ accepted'[n][m] \in Nat
  BY <1>4, Tables DEF AllInv, IInv, TypeInv, TypeOK
<1>7. \A n, m \in Node : accepted'[n][m] >= accepted[n][m]
  <2>1. ASSUME accepted' = accepted PROVE \A n, m \in Node : accepted'[n][m] >= accepted[n][m]
    BY <1>6, <2>1
  <2>2. ASSUME NEW k \in Node, NEW l \in Node, NEW v, Taking(k, l, v)
        PROVE  \A n, m \in Node : accepted'[n][m] >= accepted[n][m]
    BY <1>6, <2>2 DEF Taking
  <2>3. CASE \E r \in Calls, s \in Slot : Sending(r, s)
    BY <2>1, <2>3 DEF Sending
  <2>4. CASE \E n \in Node : Answering(n)
    BY SMTT(60), <2>1, <2>4 DEF Answering
  <2>5. CASE \E n, m \in Node, v \in Message :
               PrePreparing(n, m, v) \/ Preparing(n, m, v) \/ Committing(n, m, v)
    BY <2>2, <2>5 DEF PrePreparing, Preparing, Committing
  <2>6. CASE Idling
    BY <2>1, <2>2, <2>6 DEF Idling
  <2> QED BY <1>1, <2>3, <2>4, <2>5, <2>6 DEF RetryStep
<1>8. \A n, m \in Node : n # m => accepted[n][m] <= Len(rumors[m])
  BY <1>1 DEF PrePreparedFirst
<1> QED BY <1>2, <1>3, <1>5, <1>6, <1>7, <1>8

\* A slot has one first PrePrepare.
OneFirst == \A s, d, e : First(s, d) /\ First(s, e) => d = e

LEMMA FirstsUnique == AllInv => OneFirst
BY AllParts, FirstUnique DEF OneFirst

LEMMA FirstsUniqueNext == AllInv' => OneFirst'
BY FirstsUnique, PTL

\* Votes that are logged stay: another one for the slot would be the same.
LEMMA VotesStay ==
  ASSUME AllInv, AllInv', Faulty = {}, TwoThirds > 0, [Next]_vars,
         NEW n \in Node, NEW m \in Node, NEW s \in Slot, NEW d \in Request
  PROVE  /\ logPrepareMsg[n][m][s] = d => logPrepareMsg'[n][m][s] = d
         /\ logCommitMsg[n][m][s] = d => logCommitMsg'[n][m][s] = d
<1>1. /\ TypeOK' /\ PrePreparesOwned' /\ VotesFirst /\ VotesFirst' /\ RetryStep /\ RumorsGrow
  BY AllParts, StepKinds, NothingLost DEF AllInv, IInv, TypeInv
<1>2. d # NoReq
  BY DEF Request, NoReq, Node
<1>3. ASSUME NEW e, First(s, d), First(s, e)' PROVE e = d
  <2>1. First(s, d)' /\ OneFirst'
    BY <1>1, <1>3, FirstStable, FirstsUniqueNext
  <2> QED BY <1>3, <2>1 DEF OneFirst
<1>4. /\ logPrepareMsg[n][m][s] # NoReq => logPrepareMsg'[n][m][s] # NoReq
      /\ logCommitMsg[n][m][s] # NoReq => logCommitMsg'[n][m][s] # NoReq
  <2> DEFINE Kept == /\ logPrepareMsg[n][m][s] # NoReq => logPrepareMsg'[n][m][s] # NoReq
                     /\ logCommitMsg[n][m][s] # NoReq => logCommitMsg'[n][m][s] # NoReq
  <2>1. \A e \in Request : e # NoReq
    BY DEF Request, NoReq, Node
  <2>2. ASSUME logPrepareMsg' = logPrepareMsg, logCommitMsg' = logCommitMsg PROVE Kept
    BY <2>2
  <2>3. ASSUME NEW k \in Node, NEW l \in Node, NEW v,
               PrePreparing(k, l, v) \/ Preparing(k, l, v) \/ Committing(k, l, v)
        PROVE  Kept
    <3>1. v.digest \in Request
      BY <2>3 DEF PrePreparing, Preparing, Committing, Taking
    <3>2. v.digest # NoReq
      BY <2>1, <3>1
    <3>3. CASE PrePreparing(k, l, v)
      BY <3>2, <3>3 DEF PrePreparing
    <3>4. CASE Preparing(k, l, v)
      BY <3>2, <3>4 DEF Preparing
    <3>5. CASE Committing(k, l, v)
      BY SMTT(60), <3>2, <3>5 DEF Committing
    <3> QED BY SMTT(60), <2>3, <3>3, <3>4, <3>5
  <2>4. ASSUME \/ \E r \in Calls, t \in Slot : Sending(r, t)
               \/ \E k \in Node : Answering(k)
               \/ Idling
        PROVE  Kept
    BY <2>2, <2>4 DEF Sending, Answering, Idling
  <2> HIDE DEF Kept
  <2>5. Kept
    BY <1>1, <2>3, <2>4 DEF RetryStep
  <2> QED BY <2>5 DEF Kept
<1>5. /\ logPrepareMsg[n][m][s] # NoReq => First(s, logPrepareMsg[n][m][s])
      /\ logCommitMsg[n][m][s] # NoReq => First(s, logCommitMsg[n][m][s])
  BY <1>1 DEF VotesFirst
<1>6. PICK e, f : e = logPrepareMsg'[n][m][s] /\ f = logCommitMsg'[n][m][s]
  OBVIOUS
<1>7. (e # NoReq => First(s, e)') /\ (f # NoReq => First(s, f)')
  BY SMTT(60), <1>1, <1>6 DEF VotesFirst, First
<1>8. ASSUME logPrepareMsg[n][m][s] = d PROVE e = d
  BY <1>2, <1>3, <1>4, <1>5, <1>6, <1>7, <1>8
<1>9. ASSUME logCommitMsg[n][m][s] = d PROVE f = d
  BY <1>2, <1>3, <1>4, <1>5, <1>6, <1>7, <1>9
<1> QED BY <1>6, <1>8, <1>9

\* Who broadcasts what, and when.
LEMMA NewRumors ==
  ASSUME AllInv, AllInv', Faulty = {}, TwoThirds > 0, [Next]_vars,
         NEW m \in Node, NEW i \in 1..Len(rumors'[m]), i \notin 1..Len(rumors[m])
  PROVE  /\ rumors'[m][i].type = "PrePrepare" =>
              /\ i = Len(rumors[m]) + 1
              /\ \E r \in Calls, s \in Slot :
                   /\ Sending(r, s) /\ r.hr = m
                   /\ rumors'[m][i] = [type |-> "PrePrepare", id |-> s, digest |-> r]
         /\ rumors'[m][i].type = "Prepare" =>
              /\ i = Len(rumors[m]) + 1
              /\ Answering(m)
              /\ rumors'[m][i] = Prepare(pending[m].id, pending[m].digest)
         /\ rumors'[m][i].type = "Commit" =>
              /\ i = Len(rumors[m]) + 1
              /\ \E l \in Node, v \in Message :
                   /\ Preparing(m, l, v) /\ state[m][v.id] = 0 /\ state'[m][v.id] = 1
                   /\ logCommitMsg'[m][m][v.id] = v.digest
                   /\ rumors'[m][i] = Commit(v.id, v.digest)
<1> DEFINE v == rumors'[m][i]
           Sent1 == /\ i = Len(rumors[m]) + 1
                    /\ \E r \in Calls, s \in Slot :
                         /\ Sending(r, s) /\ r.hr = m
                         /\ v = [type |-> "PrePrepare", id |-> s, digest |-> r]
           Sent2 == /\ i = Len(rumors[m]) + 1
                    /\ Answering(m)
                    /\ v = Prepare(pending[m].id, pending[m].digest)
           Sent3 == /\ i = Len(rumors[m]) + 1
                    /\ \E l \in Node, w \in Message :
                         /\ Preparing(m, l, w) /\ state[m][w.id] = 0 /\ state'[m][w.id] = 1
                         /\ logCommitMsg'[m][m][w.id] = w.digest
                         /\ v = Commit(w.id, w.digest)
<1>1. RetryStep
  BY StepKinds
<1>2. rumors' # rumors
  OBVIOUS
<1>3. ASSUME NEW r \in Calls, NEW s \in Slot, Sending(r, s)
      PROVE  v.type = "Checkpoint" \/ (v.type = "PrePrepare" /\ Sent1)
  <2>1. \/ m = r.hr /\ i = Len(rumors[m]) + 1
        \/ v.type = "Checkpoint"
    BY <1>3 DEF Sending
  <2>2. CASE m = r.hr /\ i = Len(rumors[m]) + 1
    <3>1. v = [type |-> "PrePrepare", id |-> s, digest |-> r]
      BY <1>3, <2>2 DEF Sending
    <3> QED BY <1>3, <2>2, <3>1
  <2> QED BY <2>1, <2>2
<1>4. ASSUME NEW n \in Node, Answering(n) PROVE v.type = "Prepare" /\ Sent2
  <2>1. m = n /\ i = Len(rumors[m]) + 1 /\ v = Prepare(pending[n].id, pending[n].digest)
    BY <1>4 DEF Answering, Appended
  <2> QED BY <1>4, <2>1 DEF Prepare
<1>5. ASSUME NEW n \in Node, NEW l \in Node, NEW w \in Message, Preparing(n, l, w)
      PROVE  v.type = "Commit" /\ Sent3
  <2>1. /\ state[n][w.id] = 0
        /\ \A k \in Node, t \in Slot :
             state'[k][t] = IF k = n /\ t = w.id THEN 1 ELSE state[k][t]
        /\ \A k, x \in Node, t \in Slot :
             logCommitMsg'[k][x][t] =
               IF k = n /\ x = n /\ t = w.id THEN w.digest ELSE logCommitMsg[k][x][t]
        /\ Appended(n, Commit(w.id, w.digest))
    BY <1>2, <1>5 DEF Preparing
  <2>2. w.id \in Slot
    BY ZenonT(60), <1>5 DEF Preparing, Taking
  <2>3. m = n /\ i = Len(rumors[m]) + 1 /\ v = Commit(w.id, w.digest)
    BY <2>1 DEF Appended
  <2>4. state'[n][w.id] = 1 /\ logCommitMsg'[n][n][w.id] = w.digest
    BY SMTT(60), <2>1, <2>2
  <2> QED BY SMTT(60), <1>5, <2>1, <2>3, <2>4 DEF Commit
<1>6. ASSUME \/ Idling
             \/ \E n, l \in Node, w \in Message :
                  PrePreparing(n, l, w) \/ Committing(n, l, w)
      PROVE  FALSE
  BY ZenonT(60), <1>2, <1>6 DEF Idling, PrePreparing, Committing
<1> HIDE DEF v, Sent1, Sent2, Sent3
<1>7. \/ v.type = "Checkpoint"
      \/ (v.type = "PrePrepare" /\ Sent1)
      \/ (v.type = "Prepare" /\ Sent2)
      \/ (v.type = "Commit" /\ Sent3)
  BY <1>1, <1>3, <1>4, <1>5, <1>6 DEF RetryStep
<1>8. /\ v.type = "PrePrepare" => Sent1
      /\ v.type = "Prepare" => Sent2
      /\ v.type = "Commit" => Sent3
  BY <1>7
<1> QED BY <1>8 DEF v, Sent1, Sent2, Sent3

\* A rumor that is taken is handled.
LEMMA NewTaken ==
  ASSUME AllInv, AllInv', Faulty = {}, TwoThirds > 0, [Next]_vars,
         NEW n \in Node, NEW m \in Node, n # m,
         NEW i \in 1..accepted'[n][m], i \notin 1..accepted[n][m],
         NEW v, v = rumors[m][i]
  PROVE  /\ i = accepted[n][m] + 1 /\ i \in 1..Len(rumors[m])
         /\ v.type = "PrePrepare" => PrePreparing(n, m, v)
         /\ v.type = "Prepare" => Preparing(n, m, v)
         /\ v.type = "Commit" => Committing(n, m, v)
<1>1. RetryStep /\ accepted[n][m] \in Nat
  BY StepKinds, NothingLost
<1>2. accepted' # accepted
  OBVIOUS
<1>3. ASSUME NEW k \in Node, NEW l \in Node, NEW w, Taking(k, l, w)
      PROVE  /\ k = n /\ l = m /\ w = v
             /\ i = accepted[n][m] + 1 /\ i \in 1..Len(rumors[m])
  <2>1. k = n /\ l = m /\ accepted'[n][m] = accepted[n][m] + 1
    BY <1>3 DEF Taking
  <2>2. i = accepted[n][m] + 1
    BY SMTT(60), <1>1, <2>1
  <2> QED BY <1>3, <2>1, <2>2 DEF Taking
<1>4. CASE (\E r \in Calls, s \in Slot : Sending(r, s)) \/ (\E k \in Node : Answering(k))
  BY <1>2, <1>4 DEF Sending, Answering
<1>5. CASE Idling
  <2>1. PICK k \in Node, l \in Node, w \in Message : Taking(k, l, w) /\ w.type = "Checkpoint"
    BY <1>2, <1>5 DEF Idling
  <2> QED BY <1>3, <2>1
<1>6. ASSUME NEW k \in Node, NEW l \in Node, NEW w \in Message,
             PrePreparing(k, l, w) \/ Preparing(k, l, w) \/ Committing(k, l, w)
      PROVE  /\ i = accepted[n][m] + 1 /\ i \in 1..Len(rumors[m])
             /\ v.type = "PrePrepare" => PrePreparing(n, m, v)
             /\ v.type = "Prepare" => Preparing(n, m, v)
             /\ v.type = "Commit" => Committing(n, m, v)
  <2>1. Taking(k, l, w)
    BY <1>6 DEF PrePreparing, Preparing, Committing
  <2>2. k = n /\ l = m /\ w = v /\ i = accepted[n][m] + 1 /\ i \in 1..Len(rumors[m])
    BY <1>3, <2>1
  <2>3. /\ PrePreparing(k, l, w) => w.type = "PrePrepare"
        /\ Preparing(k, l, w) => w.type = "Prepare"
        /\ Committing(k, l, w) => w.type = "Commit"
    BY DEF PrePreparing, Preparing, Committing
  <2> QED BY <1>6, <2>2, <2>3
<1> QED BY <1>1, <1>4, <1>5, <1>6 DEF RetryStep

\* A peer answers what it has just pre-prepared, and only this.
LEMMA PendingMoves ==
  ASSUME AllInv, AllInv', Faulty = {}, TwoThirds > 0, [Next]_vars,
         NEW n \in Node, NEW s \in Slot, NEW d \in Request,
         NEW p, p = [id |-> s, digest |-> d]
  PROVE  /\ pending'[n] = p =>
              \/ pending[n] = p
              \/ \E m \in Node, v \in Message :
                   PrePreparing(n, m, v) /\ v.id = s /\ v.digest = d
         /\ pending[n] = p =>
              \/ pending'[n] = p
              \/ /\ Answering(n)
                 /\ Len(rumors[n]) + 1 \in 1..Len(rumors'[n])
                 /\ rumors'[n][Len(rumors[n]) + 1] = Prepare(s, d)
<1>1. RetryStep /\ p # NoPrepare
  <2>1. p.digest # NoReq
    BY DEF Request, NoReq, Node
  <2> QED BY <2>1, StepKinds DEF NoPrepare
<1>2. ASSUME pending' = pending PROVE pending'[n] = p <=> pending[n] = p
  BY SMTT(60), <1>2
<1>3. CASE \/ \E r \in Calls, t \in Slot : Sending(r, t)
           \/ \E k, l \in Node, v \in Message : Preparing(k, l, v) \/ Committing(k, l, v)
           \/ Idling
  BY ZenonT(120), <1>2, <1>3 DEF Sending, Preparing, Committing, Idling
<1>4. ASSUME NEW k \in Node, Answering(k)
      PROVE  /\ pending'[n] = p => pending[n] = p
             /\ pending[n] = p =>
                  \/ pending'[n] = p
                  \/ /\ Answering(n)
                     /\ Len(rumors[n]) + 1 \in 1..Len(rumors'[n])
                     /\ rumors'[n][Len(rumors[n]) + 1] = Prepare(s, d)
  <2>1. \A x \in Node : pending'[x] = IF x = k THEN NoPrepare ELSE pending[x]
    BY <1>4 DEF Answering
  <2>2. ASSUME n = k, pending[n] = p
        PROVE  /\ Len(rumors[n]) + 1 \in 1..Len(rumors'[n])
               /\ rumors'[n][Len(rumors[n]) + 1] = Prepare(s, d)
    BY <1>4, <2>2 DEF Answering
  <2> QED BY <1>1, <1>4, <2>1, <2>2
<1>5. ASSUME NEW k \in Node, NEW m \in Node, NEW v \in Message, PrePreparing(k, m, v)
      PROVE  /\ pending'[n] = p =>
                  \/ pending[n] = p
                  \/ PrePreparing(n, m, v) /\ v.id = s /\ v.digest = d
             /\ pending[n] = p => pending'[n] = p
  <2>1. /\ \A x \in Node :
             pending'[x] = IF x = k THEN [id |-> v.id, digest |-> v.digest] ELSE pending[x]
        /\ pending[k] = NoPrepare
    BY <1>5 DEF PrePreparing, Taking
  <2>2. ASSUME n = k, pending'[n] = p PROVE v.id = s /\ v.digest = d
    BY <2>1, <2>2
  <2> QED BY <1>1, <1>5, <2>1, <2>2
<1> QED BY <1>1, <1>3, <1>4, <1>5 DEF RetryStep

\* Slots are given to new requests.
LEMMA NewFirst ==
  ASSUME AllInv, Faulty = {}, TwoThirds > 0, [Next]_vars,
         NEW s, NEW d, First(s, d)', ~First(s, d)
  PROVE  d \in Calls /\ Sending(d, s) /\ sends[d] = 0
<1>1. TypeInv /\ PrePreparesOwned /\ ProposedOnce
  BY AllParts
<1>2. PICK r \in Calls : TagSend(r)
  BY <1>1, OtherSteps, NoNewFirst
<1>3. PICK id : id = TagID(r)
  OBVIOUS
<1>4. s = id /\ d = r /\ sends[r] = 0
  BY <1>1, <1>2, <1>3, TagSendFirst
<1>5. Sending(r, id)
  BY <1>1, <1>2, <1>3, TagSendSends
<1> QED BY <1>4, <1>5

LEMMA OwnerPrePreparedNext ==
  ASSUME AllInv, AllInv', Faulty = {}, TwoThirds > 0, [Next]_vars, OwnerPrePrepared
  PROVE  OwnerPrePrepared'
<1> SUFFICES ASSUME NEW s \in Slot, NEW d \in Request, First(s, d)'
             PROVE  logPrePrepareMsg'[d.hr][s] = d
  BY DEF OwnerPrePrepared
<1>1. d.hr \in Node /\ d # NoReq
  BY DEF Request, NoReq, Node
<1>2. CASE First(s, d)
  BY <1>1, <1>2, NothingLost DEF OwnerPrePrepared
<1>3. CASE ~First(s, d)
  <2>1. Sending(d, s)
    BY <1>3, NewFirst
  <2> QED BY <1>1, <2>1 DEF Sending
<1> QED BY <1>2, <1>3

\* The slot that a Tag sends in.
LEMMA SendingID ==
  ASSUME TypeInv, PrePreparesOwned, NEW r \in Calls, TagSend(r), NEW s, s = TagID(r)
  PROVE  /\ s \in Nat /\ pbftID[r.hr] \in Nat /\ OwnedBy(s, r.hr)
         /\ sends[r] = 0 => s > pbftID[r.hr]
         /\ sends[r] # 0 => s = pbftID[r.hr]
<1>1. /\ TagID(r) \in Nat /\ OwnedBy(TagID(r), r.hr) /\ pbftID[r.hr] \in Nat
      /\ IF sends[r] = 0 THEN TagID(r) > pbftID[r.hr] ELSE TagID(r) = pbftID[r.hr]
  BY ZenonT(60), TagSendFacts
<1> QED BY <1>1

\* A repeated PrePrepare stays one, and another one is sent by a Tag that goes on.
LEMMA RepeatsStay ==
  ASSUME RumorsGrow, NEW h \in Node, NEW j \in 1..Len(rumors[h])
  PROVE  /\ j \in 1..Len(rumors'[h]) /\ rumors'[h][j] = rumors[h][j]
         /\ Repeats(h, j)' <=> Repeats(h, j)
<1>1. /\ Len(rumors[h]) \in Nat /\ Len(rumors'[h]) \in Nat
      /\ Len(rumors[h]) <= Len(rumors'[h])
      /\ \A i \in 1..Len(rumors[h]) : rumors'[h][i] = rumors[h][i]
  BY DEF RumorsGrow
<1>2. j \in 1..Len(rumors'[h]) /\ 1..(j - 1) \subseteq 1..Len(rumors[h])
  BY <1>1
<1>3. IsFirstPrePrepare(h, j)' <=> IsFirstPrePrepare(h, j)
  BY <1>1, <1>2 DEF IsFirstPrePrepare
<1> QED BY <1>1, <1>2, <1>3 DEF Repeats

LEMMA RepeatsNew ==
  ASSUME AllInv, AllInv', Faulty = {}, TwoThirds > 0, [Next]_vars,
         NEW h \in Node, NEW j \in 1..Len(rumors'[h]), j \notin 1..Len(rumors[h]),
         Repeats(h, j)'
  PROVE  \E r \in Calls :
           /\ TagSend(r) /\ r.hr = h /\ sends[r] > 0
           /\ rumors'[h][j] = [type |-> "PrePrepare", id |-> pbftID[h], digest |-> r]
<1>1. /\ rumors'[h][j].type = "PrePrepare"
      /\ \E i \in 1..(j - 1) :
           rumors'[h][i].type = "PrePrepare" /\ rumors'[h][i].id = rumors'[h][j].id
  BY DEF Repeats, IsFirstPrePrepare
<1>2. j = Len(rumors[h]) + 1
  BY <1>1, NewRumors
<1>3. PICK r \in Calls, s \in Slot :
        /\ Sending(r, s) /\ r.hr = h
        /\ rumors'[h][j] = [type |-> "PrePrepare", id |-> s, digest |-> r]
  BY ZenonT(60), <1>1, NewRumors
<1>4. TypeInv /\ TypeOK /\ PrePreparesOwned /\ RumorsGrow /\ TagSend(r) /\ s = TagID(r)
  BY <1>3, AllParts, NothingLost DEF Sending
<1>5. PICK i \in 1..(j - 1) : rumors'[h][i].type = "PrePrepare" /\ rumors'[h][i].id = s
  BY <1>1, <1>3
<1>6. i \in 1..Len(rumors[h]) /\ rumors[h][i].type = "PrePrepare" /\ rumors[h][i].id = s
  <2>1. Len(rumors[h]) \in Nat
    BY <1>4 DEF RumorsGrow
  <2>2. i \in 1..Len(rumors[h])
    BY <1>2, <2>1
  <2> QED BY SMTT(60), <1>4, <1>5, <2>2 DEF RumorsGrow
<1>7. s <= pbftID[h]
  BY <1>4, <1>6 DEF PrePreparesOwned
<1>8. /\ s \in Nat /\ pbftID[h] \in Nat
      /\ sends[r] = 0 => s > pbftID[h]
      /\ sends[r] # 0 => s = pbftID[h]
  BY <1>3, <1>4, SendingID
<1>9. sends[r] # 0 /\ s = pbftID[h]
  BY SMT, <1>7, <1>8
<1>10. sends[r] \in Nat
  BY <1>4 DEF TypeOK
<1> QED BY SMTT(60), <1>3, <1>4, <1>9, <1>10

LEMMA RetriesRepeatNext ==
  ASSUME AllInv, AllInv', Faulty = {}, TwoThirds > 0, [Next]_vars, RetriesRepeat
  PROVE  RetriesRepeat'
<1>1. /\ RumorsGrow /\ TypeInv /\ TypeOK /\ PrePreparesOwned /\ ProposedOnce /\ RetryStep
  BY AllParts, NothingLost, StepKinds
<1> SUFFICES ASSUME NEW r \in Calls, sends'[r] >= 2
             PROVE  \E j \in 1..Len(rumors'[r.hr]) :
                      Repeats(r.hr, j)' /\ rumors'[r.hr][j].digest = r
  BY DEF RetriesRepeat
<1>2. r.hr \in Node
  BY PbftAssumption DEF Request
<1>3. CASE sends[r] >= 2
  <2>1. PICK j \in 1..Len(rumors[r.hr]) : Repeats(r.hr, j) /\ rumors[r.hr][j].digest = r
    BY <1>3 DEF RetriesRepeat
  <2>2. /\ j \in 1..Len(rumors'[r.hr]) /\ rumors'[r.hr][j] = rumors[r.hr][j]
        /\ Repeats(r.hr, j)'
    BY <1>1, <1>2, <2>1, RepeatsStay
  <2> QED BY <2>1, <2>2
<1>4. CASE ~(sends[r] >= 2)
  <2>1. sends'[r] # sends[r]
    BY <1>4
  <2>2. ASSUME NEW q \in Calls, NEW s \in Slot, Sending(q, s)
        PROVE  q = r /\ sends'[r] = sends[r] + 1
    BY <2>1, <2>2 DEF Sending
  <2>3. PICK s \in Slot : Sending(r, s)
    <3>1. ~Idling /\ (\A n \in Node : ~Answering(n))
      BY SMTT(60), <2>1 DEF Idling, Answering
    <3>2. \A n, m \in Node, v \in Message :
            ~PrePreparing(n, m, v) /\ ~Preparing(n, m, v) /\ ~Committing(n, m, v)
      BY <2>1 DEF PrePreparing, Preparing, Committing, Taking
    <3> QED BY <1>1, <2>2, <3>1, <3>2 DEF RetryStep
  <2>4. sends[r] = 1
    <3>1. sends[r] \in Nat /\ sends'[r] = sends[r] + 1
      BY <1>1, <2>2, <2>3 DEF TypeOK
    <3> QED BY <1>4, <3>1
  <2> PICK j : j = Len(rumors[r.hr]) + 1
    OBVIOUS
  <2>5. /\ j \in 1..Len(rumors'[r.hr])
        /\ rumors'[r.hr][j] = [type |-> "PrePrepare", id |-> s, digest |-> r]
        /\ TagSend(r) /\ s = TagID(r)
    BY <2>3 DEF Sending
  <2>6. s = pbftID[r.hr] /\ OwnedBy(s, r.hr) /\ s \in Nat
    BY <1>1, <2>4, <2>5, SendingID
  <2>7. PICK d \in Request : First(s, d)
    BY <1>1, <2>4, <2>6 DEF ProposedOnce, Sent
  <2>8. PICK i \in 1..Len(rumors[d.hr]) :
          IsFirstPrePrepare(d.hr, i) /\ rumors[d.hr][i].id = s
    BY <1>1, <2>7, FirstOwner
  <2>9. d.hr = r.hr
    <3>1. OwnedBy(s, d.hr) /\ d.hr \in Node
      BY <1>1, <2>7, FirstOwner
    <3> QED BY <1>2, <2>6, <3>1, OwnerUnique
  <2>10. Len(rumors[r.hr]) \in Nat /\ rumors'[r.hr][i] = rumors[r.hr][i]
    BY <1>1, <1>2, <2>8, <2>9 DEF RumorsGrow
  <2>11. i \in 1..(j - 1) /\ rumors'[r.hr][i].type = "PrePrepare" /\ rumors'[r.hr][i].id = s
    BY <2>8, <2>9, <2>10 DEF IsFirstPrePrepare
  <2>12. Repeats(r.hr, j)'
    BY <2>5, <2>11 DEF Repeats, IsFirstPrePrepare
  <2> QED BY <2>5, <2>12
<1> QED BY <1>3, <1>4

LEMMA PreparesFollowNext ==
  ASSUME AllInv, AllInv', Faulty = {}, TwoThirds > 0, [Next]_vars, PreparesFollow
  PROVE  PreparesFollow'
<1> SUFFICES ASSUME NEW n \in Node, NEW s \in Slot, NEW d \in Request, n # d.hr,
                    logPrePrepareMsg'[n][s] = d
             PROVE  pending'[n] = [id |-> s, digest |-> d] \/ HasSent(n, "Prepare", s, d)'
  BY DEF PreparesFollow
<1>1. RumorsGrow /\ RetryStep
  BY NothingLost, StepKinds
<1>2. PICK p : p = [id |-> s, digest |-> d]
  OBVIOUS
<1>3. CASE logPrePrepareMsg[n][s] = d
  <2>1. pending[n] = p \/ HasSent(n, "Prepare", s, d)
    BY <1>2, <1>3 DEF PreparesFollow
  <2>2. ASSUME pending[n] = p PROVE pending'[n] = p \/ HasSent(n, "Prepare", s, d)'
    <3>1. \/ pending'[n] = p
          \/ /\ Len(rumors[n]) + 1 \in 1..Len(rumors'[n])
             /\ rumors'[n][Len(rumors[n]) + 1] = Prepare(s, d)
      BY <1>2, <2>2, PendingMoves
    <3> QED BY <3>1 DEF HasSent, Prepare
  <2>3. ASSUME HasSent(n, "Prepare", s, d) PROVE HasSent(n, "Prepare", s, d)'
    BY <1>1, <2>3, HasSentStable
  <2> QED BY <1>2, <2>1, <2>2, <2>3
<1>4. CASE logPrePrepareMsg[n][s] # d
  <2>1. ~Idling /\ (\A k \in Node : ~Answering(k))
    BY <1>4 DEF Idling, Answering
  <2>2. \A k, l \in Node, v \in Message : ~Preparing(k, l, v) /\ ~Committing(k, l, v)
    BY <1>4 DEF Preparing, Committing
  <2>3. \A r \in Calls, t \in Slot : ~Sending(r, t)
    <3> SUFFICES ASSUME NEW r \in Calls, NEW t \in Slot, Sending(r, t) PROVE FALSE
      OBVIOUS
    <3>1. \A k \in Node, u \in Slot :
            logPrePrepareMsg'[k][u] = IF k = r.hr /\ u = t THEN r ELSE logPrePrepareMsg[k][u]
      BY DEF Sending
    <3>2. n = r.hr /\ d = r
      BY <1>4, <3>1
    <3> QED BY <3>2
  <2>4. PICK k \in Node, l \in Node, v \in Message : PrePreparing(k, l, v)
    BY <1>1, <2>1, <2>2, <2>3 DEF RetryStep
  <2>5. /\ \A x \in Node, u \in Slot :
             logPrePrepareMsg'[x][u] =
               IF x = k /\ u = v.id THEN v.digest ELSE logPrePrepareMsg[x][u]
        /\ \A x \in Node :
             pending'[x] = IF x = k THEN [id |-> v.id, digest |-> v.digest] ELSE pending[x]
    BY <2>4 DEF PrePreparing
  <2>6. n = k /\ s = v.id /\ d = v.digest
    BY <1>4, <2>5
  <2> QED BY <2>5, <2>6
<1> QED BY <1>3, <1>4

LEMMA OwnVotesNext ==
  ASSUME AllInv, AllInv', Faulty = {}, TwoThirds > 0, [Next]_vars, OwnVotes
  PROVE  OwnVotes'
<1>1. /\ RumorsGrow /\ RetryStep /\ VotesFirst /\ IInv /\ StateFirst
      /\ \A n \in Node, s \in Slot : state[n][s] \in 0..2
  BY AllParts, NothingLost, StepKinds
<1> SUFFICES ASSUME NEW n \in Node, NEW s \in Slot, NEW d \in Request
             PROVE  /\ pending'[n] = [id |-> s, digest |-> d] \/ HasSent(n, "Prepare", s, d)' =>
                         logPrepareMsg'[n][n][s] = d
                    /\ HasSent(n, "Commit", s, d)' => logCommitMsg'[n][n][s] = d
                    /\ state'[n][s] >= 1 /\ First(s, d)' => HasSent(n, "Commit", s, d)'
  BY DEF OwnVotes
<1>2. PICK p : p = [id |-> s, digest |-> d]
  OBVIOUS
<1>3. /\ pending[n] = p \/ HasSent(n, "Prepare", s, d) => logPrepareMsg'[n][n][s] = d
      /\ HasSent(n, "Commit", s, d) => logCommitMsg'[n][n][s] = d
  <2>1. /\ pending[n] = p \/ HasSent(n, "Prepare", s, d) => logPrepareMsg[n][n][s] = d
        /\ HasSent(n, "Commit", s, d) => logCommitMsg[n][n][s] = d
    BY <1>2 DEF OwnVotes
  <2> QED BY <2>1, VotesStay
<1>4. ASSUME pending'[n] = p PROVE logPrepareMsg'[n][n][s] = d
  <2>1. CASE pending[n] = p
    BY <1>3, <2>1
  <2>2. CASE pending[n] # p
    <3>1. PICK m \in Node, v \in Message : PrePreparing(n, m, v) /\ v.id = s /\ v.digest = d
      BY <1>2, <1>4, <2>2, PendingMoves
    <3> QED BY <3>1 DEF PrePreparing
  <2> QED BY <2>1, <2>2
<1>5. ASSUME HasSent(n, "Prepare", s, d)' PROVE logPrepareMsg'[n][n][s] = d
  <2>1. PICK i \in 1..Len(rumors'[n]) : rumors'[n][i] = [type |-> "Prepare", id |-> s, digest |-> d]
    BY <1>5 DEF HasSent
  <2>2. CASE i \in 1..Len(rumors[n])
    <3>1. HasSent(n, "Prepare", s, d)
      BY <1>1, <2>1, <2>2 DEF HasSent, RumorsGrow
    <3> QED BY <1>3, <3>1
  <2>3. CASE i \notin 1..Len(rumors[n])
    <3>1. Answering(n) /\ rumors'[n][i] = Prepare(pending[n].id, pending[n].digest)
      BY <2>1, <2>3, NewRumors
    <3>2. pending[n] = p
      BY <1>2, <2>1, <3>1 DEF Answering, Prepare
    <3> QED BY <1>3, <3>2
  <2> QED BY <2>2, <2>3
<1>6. ASSUME HasSent(n, "Commit", s, d)' PROVE logCommitMsg'[n][n][s] = d
  <2>1. PICK i \in 1..Len(rumors'[n]) : rumors'[n][i] = [type |-> "Commit", id |-> s, digest |-> d]
    BY <1>6 DEF HasSent
  <2>2. CASE i \in 1..Len(rumors[n])
    <3>1. HasSent(n, "Commit", s, d)
      BY <1>1, <2>1, <2>2 DEF HasSent, RumorsGrow
    <3> QED BY <1>3, <3>1
  <2>3. CASE i \notin 1..Len(rumors[n])
    <3>1. PICK v \in Message : /\ logCommitMsg'[n][n][v.id] = v.digest
                               /\ rumors'[n][i] = Commit(v.id, v.digest)
      BY <2>1, <2>3, NewRumors
    <3> QED BY <2>1, <3>1 DEF Commit
  <2> QED BY <2>2, <2>3
<1>7. ASSUME state'[n][s] >= 1, First(s, d)' PROVE HasSent(n, "Commit", s, d)'
  <2>1. CASE state[n][s] >= 1
    <3>1. PICK e \in Request : First(s, e)
      BY <1>1, <2>1 DEF StateFirst
    <3>2. First(s, e)' /\ OneFirst'
      BY <1>1, <3>1, FirstStable, FirstsUniqueNext
    <3>3. e = d
      BY <1>7, <3>2 DEF OneFirst
    <3>4. HasSent(n, "Commit", s, d)
      BY <2>1, <3>1, <3>3 DEF OwnVotes
    <3> QED BY <1>1, <3>4, HasSentStable
  <2>2. CASE ~(state[n][s] >= 1)
    <3>1. state[n][s] = 0 /\ state'[n][s] = 1
      BY <1>1, <1>7, <2>2, StateMoves
    <3>2. ~Idling /\ \A k \in Node : ~Answering(k)
      BY <3>1 DEF Idling, Answering
    <3>3. \A r \in Calls, t \in Slot : ~Sending(r, t)
      BY <3>1 DEF Sending
    <3>4. \A k, l \in Node, v \in Message : ~PrePreparing(k, l, v) /\ ~Committing(k, l, v)
      BY <3>1 DEF PrePreparing, Committing
    <3>5. PICK k \in Node, l \in Node, v \in Message : Preparing(k, l, v)
      BY <1>1, <3>2, <3>3, <3>4 DEF RetryStep
    <3>6. k = n /\ v.id = s /\ Appended(n, Commit(v.id, v.digest))
      BY <3>1, <3>5 DEF Preparing
    <3>7. First(s, v.digest)
      <4>1. /\ accepted[k][l] + 1 \in 1..Len(rumors[l]) /\ v = rumors[l][accepted[k][l] + 1]
            /\ v.type = "Prepare"
        BY ZenonT(60), <3>5 DEF Preparing, Taking
      <4>2. First(v.id, v.digest)
        BY Zenon, <1>1, <4>1, VoteFirst
      <4> QED BY SMTT(60), <3>6, <4>2
    <3>8. First(s, v.digest)' /\ OneFirst'
      BY <1>1, <3>7, FirstStable, FirstsUniqueNext
    <3>9. v.digest = d
      BY SMTT(60), <1>7, <3>8 DEF OneFirst
    <3> QED BY <3>6, <3>9 DEF Appended, HasSent, Commit
  <2> QED BY <2>1, <2>2
<1> QED BY <1>2, <1>4, <1>5, <1>6, <1>7

LEMMA VotesLoggedNext ==
  ASSUME AllInv, AllInv', Faulty = {}, TwoThirds > 0, [Next]_vars, VotesLogged
  PROVE  VotesLogged'
<1> SUFFICES ASSUME NEW n \in Node, NEW m \in Node, n # m, NEW i \in 1..accepted'[n][m],
                    NEW v, v = rumors'[m][i]
             PROVE  /\ v.type = "Prepare" => logPrepareMsg'[n][m][v.id] = v.digest
                    /\ v.type = "Commit" => logCommitMsg'[n][m][v.id] = v.digest
  BY DEF VotesLogged
<1>1. /\ RumorsGrow /\ TypeOK
      /\ accepted[n][m] \in Nat /\ accepted'[n][m] \in Nat
      /\ accepted[n][m] <= Len(rumors[m])
  BY AllParts, NothingLost
<1>2. CASE i \in 1..accepted[n][m]
  <2>1. i \in 1..Len(rumors[m])
    BY <1>1, <1>2 DEF RumorsGrow
  <2>2. v = rumors[m][i] /\ v.id \in Slot /\ v.digest \in Request
    BY SMTT(60), <1>1, <2>1, RumorTypes DEF RumorsGrow
  <2>3. /\ v.type = "Prepare" => logPrepareMsg[n][m][v.id] = v.digest
        /\ v.type = "Commit" => logCommitMsg[n][m][v.id] = v.digest
    BY <1>2, <2>2 DEF VotesLogged
  <2> QED BY <2>2, <2>3, VotesStay
<1>3. CASE i \notin 1..accepted[n][m]
  <2> PICK w : w = rumors[m][i]
    OBVIOUS
  <2>1. /\ i \in 1..Len(rumors[m])
        /\ w.type = "Prepare" => Preparing(n, m, w)
        /\ w.type = "Commit" => Committing(n, m, w)
    BY <1>3, NewTaken
  <2>2. v = w
    BY SMTT(60), <1>1, <2>1 DEF RumorsGrow
  <2>3. ASSUME Preparing(n, m, v) PROVE logPrepareMsg'[n][m][v.id] = v.digest
    BY ZenonT(60), <2>3 DEF Preparing, Taking
  <2>4. ASSUME Committing(n, m, v) PROVE logCommitMsg'[n][m][v.id] = v.digest
    BY ZenonT(60), <2>4 DEF Committing, Taking
  <2> QED BY <2>1, <2>2, <2>3, <2>4
<1> QED BY <1>2, <1>3

LEMMA PreparesFirstNext ==
  ASSUME AllInv, AllInv', Faulty = {}, TwoThirds > 0, [Next]_vars,
         PreparesFollow', VotesLogged, PreparesFirst
  PROVE  PreparesFirst'
<1>1. /\ RumorsGrow /\ RetryStep /\ TypeOK
      /\ \A n, m \in Node : accepted[n][m] \in Nat /\ (n # m => accepted[n][m] <= Len(rumors[m]))
  BY AllParts, NothingLost, StepKinds
<1>2. ASSUME NEW m \in Node, NEW i \in 1..Len(rumors'[m]), NEW v, v = rumors'[m][i],
             v.type = "Commit", m # v.digest.hr
      PROVE  \E j \in 1..(i - 1) :
               rumors'[m][j] = [type |-> "Prepare", id |-> v.id, digest |-> v.digest]
  <2>1. CASE i \in 1..Len(rumors[m])
    <3>1. v = rumors[m][i] /\ Len(rumors[m]) \in Nat
      BY <1>1, <1>2, <2>1 DEF RumorsGrow
    <3>2. PICK j \in 1..(i - 1) :
            rumors[m][j] = [type |-> "Prepare", id |-> v.id, digest |-> v.digest]
      BY <1>2, <2>1, <3>1 DEF PreparesFirst
    <3>3. j \in 1..Len(rumors[m])
      BY <2>1, <3>1
    <3> QED BY <1>1, <3>2, <3>3 DEF RumorsGrow
  <2>2. CASE i \notin 1..Len(rumors[m])
    <3>1. PICK l \in Node, w \in Message :
            Preparing(m, l, w) /\ v = Commit(w.id, w.digest) /\ i = Len(rumors[m]) + 1
      BY SMTT(60), <1>2, <2>2, NewRumors
    <3>2. w.id \in Slot /\ w.digest \in Request /\ w.id = v.id /\ w.digest = v.digest
      BY ZenonT(60), <3>1 DEF Preparing, Taking, Commit
    <3>3. HasSent(m, "Commit", v.id, v.digest)'
      BY ZenonT(60), <1>2, <3>1, <3>2 DEF HasSent, Commit
    <3>4. logPrePrepareMsg'[m][v.id] = v.digest
      BY <3>2, <3>3 DEF AllInv, DurableInv
    <3>5. pending'[m] = NoPrepare
      BY ZenonT(60), <3>1 DEF Preparing, Taking
    <3>6. NoPrepare # [id |-> v.id, digest |-> v.digest]
      BY <3>2 DEF NoPrepare, NoReq, Request, Node
    <3>7. HasSent(m, "Prepare", v.id, v.digest)'
      BY <1>2, <3>2, <3>4, <3>5, <3>6 DEF PreparesFollow
    <3>8. PICK j \in 1..Len(rumors'[m]) :
            rumors'[m][j] = [type |-> "Prepare", id |-> v.id, digest |-> v.digest]
      BY <3>7 DEF HasSent
    <3>9. j \in 1..Len(rumors[m])
      <4>1. ASSUME j \notin 1..Len(rumors[m]) PROVE j = i
        BY <3>1, <3>8, <4>1, NewRumors
      <4> QED BY <1>2, <3>8, <4>1
    <3> QED BY <1>1, <3>1, <3>8, <3>9 DEF RumorsGrow
  <2> QED BY <2>1, <2>2
<1>3. ASSUME NEW n \in Node, NEW m \in Node, NEW s \in Slot, NEW d \in Request,
             n # m, m # d.hr, logCommitMsg'[n][m][s] = d
      PROVE  logPrepareMsg'[n][m][s] = d
  <2>1. CASE logCommitMsg[n][m][s] = d
    BY <1>3, <2>1, VotesStay DEF PreparesFirst
  <2>2. CASE logCommitMsg[n][m][s] # d
    <3>1. /\ ~Idling /\ \A k \in Node : ~Answering(k)
          /\ \A r \in Calls, t \in Slot : ~Sending(r, t)
      BY <1>3, <2>2 DEF Idling, Answering, Sending
    <3>2. \A k, l \in Node, v \in Message : ~PrePreparing(k, l, v)
      BY <1>3, <2>2 DEF PrePreparing
    <3>3. \A k, l \in Node, v \in Message : ~Preparing(k, l, v)
      BY <1>3, <2>2 DEF Preparing
    <3>4. PICK k \in Node, l \in Node, v \in Message : Committing(k, l, v)
      BY <1>1, <3>1, <3>2, <3>3 DEF RetryStep
    <3>5. k = n /\ l = m /\ v.id = s /\ v.digest = d
      BY SMTT(60), <1>3, <2>2, <3>4 DEF Committing
    <3>6. /\ accepted[n][m] + 1 \in 1..Len(rumors[m]) /\ v = rumors[m][accepted[n][m] + 1]
          /\ v.type = "Commit"
      BY ZenonT(60), <3>4, <3>5 DEF Committing, Taking
    <3>7. PICK j \in 1..accepted[n][m] :
            rumors[m][j] = [type |-> "Prepare", id |-> s, digest |-> d]
      <4>1. PICK i : i = accepted[n][m] + 1
        OBVIOUS
      <4>2. i - 1 = accepted[n][m]
        BY <1>1, <4>1
      <4>3. \E j \in 1..(i - 1) :
              rumors[m][j] = [type |-> "Prepare", id |-> v.id, digest |-> v.digest]
        BY SMTT(60), <1>3, <3>5, <3>6, <4>1 DEF PreparesFirst
      <4> QED BY <3>5, <4>2, <4>3
    <3>8. logPrepareMsg[n][m][s] = d
      <4>1. rumors[m][j].type = "Prepare" /\ rumors[m][j].id = s /\ rumors[m][j].digest = d
        BY <3>7
      <4> QED BY <1>3, <4>1 DEF VotesLogged
    <3> QED BY <3>8, VotesStay
  <2> QED BY <2>1, <2>2
<1> QED BY <1>2, <1>3 DEF PreparesFirst

\* Two thirds are not everybody but one.
LEMMA EnoughOthers ==
  ASSUME N > 2
  PROVE  TwoThirds \in Nat /\ TwoThirds > 0 /\ TwoThirds <= N - 1
<1>1. N \in Nat
  BY PbftAssumption
<1> QED BY <1>1 DEF TwoThirds

LEMMA Others ==
  ASSUME NEW h \in Node, NEW X \in SUBSET Node, Node \ {h} \subseteq X
  PROVE  /\ Cardinality(X) \in Nat /\ Cardinality(X) >= N - 1
         /\ h \in X => Cardinality(X) = N
<1>1. N \in Nat /\ 1 \in Nat /\ 1 <= N
  BY PbftAssumption
<1>2. IsFiniteSet(Node) /\ Cardinality(Node) = N
  BY <1>1, FS_Interval DEF Node
<1>3. Cardinality(Node \ {h}) = N - 1
  BY <1>2, FS_RemoveElement
<1>4. Cardinality(X) \in Nat /\ Cardinality(Node \ {h}) <= Cardinality(X)
  BY MoreNodes
<1>5. ASSUME h \in X PROVE X = Node
  BY <1>5
<1> QED BY <1>2, <1>3, <1>4, <1>5

\* What the owner of a slot logs of others adds one vote at a time; it commits with one
\* Commit more than there were Prepares before it was prepared.
LEMMA OwnerCountsNext ==
  ASSUME AllInv, AllInv', Faulty = {}, TwoThirds > 0, [Next]_vars,
         OwnerPrePrepared, PreparesFirst, OwnerCounts
  PROVE  OwnerCounts'
<1>1. /\ RumorsGrow /\ RetryStep /\ TypeOK /\ TypeInv /\ PrePreparesOwned /\ VotesFirst
      /\ IInv /\ StateFirst /\ TwoThirds \in Nat
  BY AllParts, NothingLost, StepKinds, TwoThirdsNat
<1> SUFFICES ASSUME NEW s \in Slot, NEW d \in Request, First(s, d)', NEW h, h = d.hr
             PROVE  /\ state'[h][s] = 0 =>
                         Cardinality(Matching(logPrepareMsg', h, s, d)) < TwoThirds
                    /\ state'[h][s] = 1 =>
                         Cardinality(Matching(logCommitMsg', h, s, d)) <= TwoThirds
  BY DEF OwnerCounts
<1>2. h \in Node /\ d # NoReq
  BY DEF Request, NoReq, Node
<1>3. \A log : Matching(log, h, s, d) \in SUBSET Node
  BY DEF Matching
<1>4. CASE ~First(s, d)
  <2>1. /\ TagSend(d) /\ s = TagID(d) /\ sends[d] = 0 /\ d \in Calls
        /\ logPrepareMsg' = logPrepareMsg /\ logCommitMsg' = logCommitMsg
    BY <1>4, NewFirst DEF Sending
  <2>2. \A e : ~First(s, e)
    BY <1>1, <2>1, FreshSlot
  <2>3. \A m \in Node : logPrepareMsg[h][m][s] = NoReq /\ logCommitMsg[h][m][s] = NoReq
    BY <1>1, <1>2, <2>2 DEF VotesFirst
  <2>4. Matching(logPrepareMsg', h, s, d) = {} /\ Matching(logCommitMsg', h, s, d) = {}
    BY <1>2, <2>1, <2>3 DEF Matching
  <2>5. Cardinality({}) = 0
    BY FS_EmptySet
  <2> QED BY <1>1, <2>4, <2>5
<1>5. CASE First(s, d)
  <2>1. /\ state[h][s] = 0 => Cardinality(Matching(logPrepareMsg, h, s, d)) < TwoThirds
        /\ state[h][s] = 1 => Cardinality(Matching(logCommitMsg, h, s, d)) <= TwoThirds
        /\ logPrePrepareMsg[h][s] = d
    BY <1>5 DEF OwnerCounts, OwnerPrePrepared
  <2>2. \/ state'[h][s] = state[h][s]
        \/ state[h][s] = 0 /\ state'[h][s] = 1
        \/ state[h][s] = 1 /\ state'[h][s] = 2
    BY <1>1, <1>2, StateMoves
  <2>3. ASSUME state'[h][s] = 0
        PROVE  Cardinality(Matching(logPrepareMsg', h, s, d)) < TwoThirds
    <3>1. state[h][s] = 0
      BY <2>2, <2>3
    <3>2. CASE Matching(logPrepareMsg', h, s, d) = Matching(logPrepareMsg, h, s, d)
      BY <2>1, <3>1, <3>2
    <3>3. CASE Matching(logPrepareMsg', h, s, d) # Matching(logPrepareMsg, h, s, d)
      <4>1. PICK m \in Node : logPrepareMsg'[h][m][s] # logPrepareMsg[h][m][s]
        BY SMTT(60), <3>3 DEF Matching
      <4>2. /\ ~Idling /\ (\A k \in Node : ~Answering(k))
            /\ (\A r \in Calls, t \in Slot : ~Sending(r, t))
            /\ (\A k, l \in Node, v \in Message : ~Committing(k, l, v))
        BY <4>1 DEF Idling, Answering, Sending, Committing
      <4>3. ASSUME NEW k \in Node, NEW l \in Node, NEW v \in Message, PrePreparing(k, l, v)
            PROVE  FALSE
        <5>1. k = h /\ v.id = s
          BY SMTT(60), <1>2, <4>1, <4>3 DEF PrePreparing
        <5>2. /\ k # l /\ v.type = "PrePrepare"
              /\ accepted[k][l] + 1 \in 1..Len(rumors[l]) /\ v = rumors[l][accepted[k][l] + 1]
          BY <4>3 DEF PrePreparing, Taking
        <5>3. OwnedBy(s, l) /\ s \in Nat
          BY SMTT(60), <1>1, <5>1, <5>2, RumorTypes DEF PrePreparesOwned
        <5>4. OwnedBy(s, h)
          BY <1>1, <1>5, FirstOwner
        <5> QED BY <1>2, <5>1, <5>2, <5>3, <5>4, OwnerUnique
      <4>4. PICK k \in Node, l \in Node, v \in Message : Preparing(k, l, v)
        BY <1>1, <4>2, <4>3 DEF RetryStep
      <4>5. k = h /\ v.id = s
        BY <1>2, <4>1, <4>4 DEF Preparing
      <4>6. \/ /\ \A x \in Node, t \in Slot :
                    state'[x][t] = IF x = h /\ t = s THEN 1 ELSE state[x][t]
            \/ Cardinality(Matching(logPrepareMsg', h, s, d)) < TwoThirds
        BY <2>1, <3>1, <4>4, <4>5 DEF Preparing
      <4> QED BY <1>2, <2>3, <4>6
    <3> QED BY <3>2, <3>3
  <2>4. ASSUME state[h][s] = 1, state'[h][s] = 1
        PROVE  Cardinality(Matching(logCommitMsg', h, s, d)) <= TwoThirds
    <3>2. CASE Matching(logCommitMsg', h, s, d) = Matching(logCommitMsg, h, s, d)
      BY <2>1, <2>4, <3>2
    <3>3. CASE Matching(logCommitMsg', h, s, d) # Matching(logCommitMsg, h, s, d)
      <4>1. PICK m \in Node : logCommitMsg'[h][m][s] # logCommitMsg[h][m][s]
        BY <3>3 DEF Matching
      <4>2. /\ ~Idling /\ (\A k \in Node : ~Answering(k))
            /\ (\A r \in Calls, t \in Slot : ~Sending(r, t))
            /\ (\A k, l \in Node, v \in Message : ~PrePreparing(k, l, v))
        BY <4>1 DEF Idling, Answering, Sending, PrePreparing
      <4>3. ASSUME NEW k \in Node, NEW l \in Node, NEW v \in Message, Preparing(k, l, v)
            PROVE  FALSE
        <5>1. k = h /\ v.id = s
          BY <1>2, <4>1, <4>3 DEF Preparing
        <5>2. state[k][v.id] = 0
          BY <4>1, <4>3 DEF Preparing
        <5> QED BY <2>4, <5>1, <5>2
      <4>4. PICK k \in Node, l \in Node, v \in Message : Committing(k, l, v)
        BY <1>1, <4>2, <4>3 DEF RetryStep
      <4>5. k = h /\ v.id = s
        BY SMTT(60), <1>2, <4>1, <4>4 DEF Committing
      <4>6. \/ /\ \A x \in Node, t \in Slot :
                    state'[x][t] = IF x = h /\ t = s THEN 2 ELSE state[x][t]
            \/ Cardinality(Matching(logCommitMsg', h, s, d)) <= TwoThirds
        BY <2>1, <2>4, <4>4, <4>5 DEF Committing
      <4> QED BY SMTT(60), <1>2, <2>4, <4>6
    <3> QED BY <3>2, <3>3
  <2>5. ASSUME state[h][s] = 0, state'[h][s] = 1
        PROVE  Cardinality(Matching(logCommitMsg', h, s, d)) <= TwoThirds
    <3>1. /\ ~Idling /\ (\A k \in Node : ~Answering(k))
          /\ (\A r \in Calls, t \in Slot : ~Sending(r, t))
          /\ (\A k, l \in Node, v \in Message : ~PrePreparing(k, l, v) /\ ~Committing(k, l, v))
      BY SMTT(60), <1>2, <2>5 DEF Idling, Answering, Sending, PrePreparing, Committing
    <3>2. PICK k \in Node, l \in Node, v \in Message : Preparing(k, l, v)
      BY <1>1, <3>1 DEF RetryStep
    <3>3. k = h /\ v.id = s
      BY <1>2, <2>5, <3>2 DEF Preparing
    <3>4. \A m \in Node : m # h => logCommitMsg'[h][m][s] = logCommitMsg[h][m][s]
      BY <1>2, <3>2, <3>3 DEF Preparing
    <3>5. ASSUME NEW m \in Matching(logCommitMsg', h, s, d), m # h
          PROVE  m \in Matching(logPrepareMsg, h, s, d)
      <4>1. m \in Node /\ logCommitMsg[h][m][s] = d
        BY <3>4, <3>5 DEF Matching
      <4>2. logPrepareMsg[h][m][s] = d
        BY <1>2, <3>5, <4>1 DEF PreparesFirst
      <4> QED BY <1>2, <4>1, <4>2 DEF Matching
    <3> DEFINE X == Matching(logCommitMsg', h, s, d)
               Y == Matching(logPrepareMsg, h, s, d)
    <3>6. X \subseteq Y \cup {h}
      BY <3>5
    <3>7. X \in SUBSET Node /\ Y \in SUBSET Node /\ Y \cup {h} \in SUBSET Node
      BY <1>2, <1>3
    <3>8. Cardinality(Y) < TwoThirds
      BY <2>1, <2>5
    <3> HIDE DEF X, Y
    <3>9. Cardinality(X) \in Nat /\ Cardinality(Y \cup {h}) \in Nat /\ Cardinality(Y) \in Nat
          /\ Cardinality(X) <= Cardinality(Y \cup {h})
      BY <3>6, <3>7, MoreNodes
    <3>10. Cardinality(Y \cup {h}) <= Cardinality(Y) + 1
      <4>1. IsFiniteSet(Y)
        BY <3>7, NodesFinite, FS_Subset
      <4>2. Cardinality(Y \cup {h}) = IF h \in Y THEN Cardinality(Y) ELSE Cardinality(Y) + 1
        BY <4>1, FS_AddElement
      <4> QED BY <3>9, <4>2
    <3>11. Cardinality(X) <= TwoThirds
      BY <1>1, <3>8, <3>9, <3>10
    <3> QED BY SMTT(60), <3>11 DEF X
  <2> QED BY <2>2, <2>3, <2>4, <2>5
<1> QED BY <1>4, <1>5

\* A retry finds everybody with the votes of the PrePrepare that it repeats: it waits
\* until all have got them.
LEMMA SettledNext ==
  ASSUME AllInv, AllInv', Faulty = {}, TwoThirds > 0, SlowRetry = TRUE, [Next]_vars,
         OwnerPrePrepared, PreparesFollow, OwnVotes, VotesLogged, Settled
  PROVE  Settled'
<1>1. /\ RumorsGrow /\ TypeOK /\ TypeInv /\ PrePreparesOwned /\ PrePreparedFirst
      /\ IInv /\ TagInv /\ OneDigestPerSlot /\ ProposedOnce
      /\ \A n, m \in Node : accepted[n][m] \in Nat
  BY AllParts, NothingLost
<1> SUFFICES ASSUME NEW h \in Node, NEW j \in 1..Len(rumors'[h]), Repeats(h, j)',
                    NEW s, s = rumors'[h][j].id, NEW d, d = rumors'[h][j].digest,
                    NEW n \in Node
             PROVE  /\ logPrePrepareMsg'[n][s] = d
                    /\ \A m \in Node \ {h} : logPrepareMsg'[n][m][s] = d
  BY DEF Settled
<1>2. ASSUME s \in Slot, d \in Request,
             logPrePrepareMsg[n][s] = d, \A m \in Node \ {h} : logPrepareMsg[n][m][s] = d
      PROVE  /\ logPrePrepareMsg'[n][s] = d
             /\ \A m \in Node \ {h} : logPrepareMsg'[n][m][s] = d
  <2>1. d # NoReq
    BY <1>2 DEF Request, NoReq, Node
  <2>2. logPrePrepareMsg'[n][s] = d
    BY <1>2, <2>1, NothingLost
  <2>3. \A m \in Node \ {h} : logPrepareMsg'[n][m][s] = d
    BY SMTT(60), <1>2, VotesStay
  <2> QED BY <2>2, <2>3
<1>3. CASE j \in 1..Len(rumors[h])
  <2>1. Repeats(h, j) /\ s = rumors[h][j].id /\ d = rumors[h][j].digest
    BY <1>1, <1>3, RepeatsStay
  <2>2. s \in Slot /\ d \in Request
    BY <1>1, <1>3, <2>1, RumorTypes
  <2> QED BY <1>2, <1>3, <2>1, <2>2 DEF Settled
<1>4. CASE j \notin 1..Len(rumors[h])
  <2>1. PICK r \in Calls :
          /\ TagSend(r) /\ r.hr = h /\ sends[r] > 0
          /\ rumors'[h][j] = [type |-> "PrePrepare", id |-> pbftID[h], digest |-> r]
    BY ZenonT(60), <1>4, RepeatsNew
  <2>2. s = pbftID[h] /\ d = r /\ d \in Request /\ d # NoReq /\ d.hr = h
    BY <2>1, PbftAssumption DEF Request, NoReq, Node
  <2>3. s \in Slot
    BY <1>1, <2>1, <2>2 DEF TypeInv, IdsOK
  <2>4. Quiet /\ Active(r)
    BY <2>1 DEF TagSend, SendDue, Active
  <2>5. First(s, d)
    <3>1. PICK e \in Request : First(s, e)
      BY <1>1, <2>1, <2>2 DEF ProposedOnce, Sent
    <3>2. PICK i \in 1..Len(rumors[e.hr]) :
            /\ IsFirstPrePrepare(e.hr, i) /\ rumors[e.hr][i].id = s
            /\ rumors[e.hr][i].digest = e
      BY SMTT(60), <1>1, <3>1, FirstOwner
    <3>3. e.hr = h
      <4>1. OwnedBy(s, e.hr) /\ e.hr \in Node /\ s \in Nat
        BY <1>1, <3>1, FirstOwner
      <4>2. OwnedBy(s, h)
        BY <1>1, <2>2 DEF PrePreparesOwned
      <4> QED BY <4>1, <4>2, OwnerUnique
    <3>4. rumors[h][i].digest = r
      BY SMTT(60), <1>1, <2>1, <2>2, <2>4, <3>2, <3>3 DEF OneDigestPerSlot, IsFirstPrePrepare
    <3> QED BY <2>2, <3>1, <3>2, <3>3, <3>4
  <2>6. \A k \in Node : logPrePrepareMsg[k][s] = d
    <3> SUFFICES ASSUME NEW k \in Node PROVE logPrePrepareMsg[k][s] = d
      OBVIOUS
    <3>1. CASE k = h
      BY <2>2, <2>3, <2>5, <3>1 DEF OwnerPrePrepared
    <3>2. CASE k # h
      <4>1. PICK i \in 1..Len(rumors[h]) : IsFirstPrePrepare(h, i) /\ rumors[h][i].id = s
        BY <1>1, <2>2, <2>5, FirstOwner
      <4>2. accepted[k][h] = Len(rumors[h])
        BY <2>4, <3>2 DEF Quiet
      <4>3. logPrePrepareMsg[k][s] # NoReq
        BY <1>1, <3>2, <4>1, <4>2 DEF PrePreparedFirst, IsFirstPrePrepare
      <4> QED BY <1>1, <2>3, <2>5, <4>3, VoteIsPrePrepared
    <3> QED BY <3>1, <3>2
  <2>7. ASSUME NEW m \in Node \ {h} PROVE logPrepareMsg[n][m][s] = d
    <3>1. HasSent(m, "Prepare", s, d)
      <4>1. pending[m] = NoPrepare /\ NoPrepare # [id |-> s, digest |-> d]
        BY <2>2, <2>4 DEF Quiet, NoPrepare
      <4> QED BY <2>2, <2>3, <2>6, <4>1 DEF PreparesFollow
    <3>2. CASE n = m
      BY ZenonT(60), <2>2, <2>3, <3>1, <3>2 DEF OwnVotes
    <3>3. CASE n # m
      <4>1. PICK i \in 1..Len(rumors[m]) :
              rumors[m][i] = [type |-> "Prepare", id |-> s, digest |-> d]
        BY <3>1 DEF HasSent
      <4>2. i \in 1..accepted[n][m]
        BY <2>4, <3>3 DEF Quiet
      <4>3. rumors[m][i].type = "Prepare" /\ rumors[m][i].id = s /\ rumors[m][i].digest = d
        BY <4>1
      <4> QED BY SMTT(60), <3>3, <4>2, <4>3 DEF VotesLogged
    <3> QED BY <3>2, <3>3
  <2> QED BY <1>2, <2>2, <2>3, <2>6, <2>7
<1> QED BY <1>3, <1>4

\* Who takes an answer to a repeated PrePrepare has all the votes.
LEMMA SecondAnswersNext ==
  ASSUME AllInv, AllInv', Faulty = {}, N > 2, [Next]_vars,
         Settled', Settled, SecondAnswers
  PROVE  SecondAnswers'
<1>1. /\ TwoThirds \in Nat /\ TwoThirds > 0 /\ TwoThirds <= N - 1 /\ N \in Nat
      /\ RumorsGrow /\ TypeOK
      /\ \A n, m \in Node : /\ accepted[n][m] \in Nat /\ accepted'[n][m] \in Nat
                            /\ n # m => accepted[n][m] <= Len(rumors[m])
      /\ \A n \in Node, t \in Slot :
           state[n][t] \in 0..2 /\ state'[n][t] \in 0..2 /\ state'[n][t] >= state[n][t]
  BY EnoughOthers, AllParts, NothingLost, PbftAssumption
<1> SUFFICES ASSUME NEW h \in Node, NEW m \in Node, h # m,
                    NEW j \in 1..accepted'[m][h], Repeats(h, j)',
                    NEW s, s = rumors'[h][j].id, NEW d, d = rumors'[h][j].digest
             PROVE  \/ pending'[m] = [id |-> s, digest |-> d]
                    \/ \E k \in 1..Len(rumors'[m]) :
                         /\ rumors'[m][k] = [type |-> "Prepare", id |-> s, digest |-> d]
                         /\ \A n \in Node \ {m} : accepted'[n][m] >= k => state'[n][s] >= 1
  BY SMTT(60) DEF SecondAnswers
<1>2. PICK p, v : p = [id |-> s, digest |-> d] /\ v = rumors[h][j]
  OBVIOUS
<1>3. j \in 1..Len(rumors[h])
  <2>1. CASE j \in 1..accepted[m][h]
    BY <1>1, <2>1 DEF RumorsGrow
  <2>2. CASE j \notin 1..accepted[m][h]
    BY <1>1, <2>2, NewTaken
  <2> QED BY <2>1, <2>2
<1>4. Repeats(h, j) /\ s = rumors[h][j].id /\ d = rumors[h][j].digest /\ v = rumors'[h][j]
  BY <1>1, <1>2, <1>3, RepeatsStay
<1>5. s \in Slot /\ d \in Request /\ v.type = "PrePrepare"
  BY <1>1, <1>2, <1>3, <1>4, RumorTypes DEF Repeats
<1>6. CASE j \notin 1..accepted[m][h]
  <2>1. PrePreparing(m, h, v)
    BY <1>1, <1>2, <1>5, <1>6, NewTaken
  <2>2. pending'[m] = p
    BY SMTT(60), <1>2, <1>4, <2>1 DEF PrePreparing
  <2> QED BY <1>2, <2>2
<1>7. CASE j \in 1..accepted[m][h] /\ pending[m] = p
  <2>1. \/ pending'[m] = p
        \/ /\ Answering(m)
           /\ Len(rumors[m]) + 1 \in 1..Len(rumors'[m])
           /\ rumors'[m][Len(rumors[m]) + 1] = Prepare(s, d)
    BY SMTT(60), <1>1, <1>2, <1>5, <1>7, PendingMoves
  <2>2. CASE /\ Answering(m)
             /\ Len(rumors[m]) + 1 \in 1..Len(rumors'[m])
             /\ rumors'[m][Len(rumors[m]) + 1] = Prepare(s, d)
    <3>1. accepted' = accepted /\ Len(rumors[m]) \in Nat
      BY <1>1, <2>2 DEF Answering, RumorsGrow
    <3>2. \A n \in Node \ {m} : ~(accepted'[n][m] >= Len(rumors[m]) + 1)
      BY <1>1, <3>1
    <3> QED BY <2>2, <3>2 DEF Prepare
  <2> QED BY <1>2, <2>1, <2>2
<1>8. CASE j \in 1..accepted[m][h] /\ pending[m] # p
  <2>1. PICK k \in 1..Len(rumors[m]) :
          /\ rumors[m][k] = [type |-> "Prepare", id |-> s, digest |-> d]
          /\ \A n \in Node \ {m} : accepted[n][m] >= k => state[n][s] >= 1
    <3>1. \/ pending[m] = [id |-> rumors[h][j].id, digest |-> rumors[h][j].digest]
          \/ \E k \in 1..Len(rumors[m]) :
               /\ rumors[m][k] = [type |-> "Prepare", id |-> rumors[h][j].id,
                                  digest |-> rumors[h][j].digest]
               /\ \A n \in Node \ {m} : accepted[n][m] >= k => state[n][rumors[h][j].id] >= 1
      <4>1. h # m /\ j \in 1..accepted[m][h] /\ Repeats(h, j)
        BY <1>4, <1>8
      <4> QED BY <4>1 DEF SecondAnswers
    <3>2. s = rumors[h][j].id /\ d = rumors[h][j].digest
      BY SMTT(60), <1>4
    <3>3. \/ pending[m] = [id |-> s, digest |-> d]
          \/ \E k \in 1..Len(rumors[m]) :
               /\ rumors[m][k] = [type |-> "Prepare", id |-> s, digest |-> d]
               /\ \A n \in Node \ {m} : accepted[n][m] >= k => state[n][s] >= 1
      BY <3>1, <3>2
    <3>4. pending[m] # [id |-> s, digest |-> d]
      BY <1>2, <1>8
    <3> QED BY <3>3, <3>4
  <2>2. k \in 1..Len(rumors'[m]) /\ rumors'[m][k] = rumors[m][k]
    BY SMTT(60), <1>1, <2>1 DEF RumorsGrow
  <2>3. ASSUME NEW n \in Node \ {m}, accepted'[n][m] >= k PROVE state'[n][s] >= 1
    <3>3. state[n][s] \in 0..2 /\ state'[n][s] \in 0..2 /\ state'[n][s] >= state[n][s]
      BY <1>1, <1>5, <2>3
    <3>1. CASE accepted[n][m] >= k
      <4>1. state[n][s] >= 1
        BY <2>1, <2>3, <3>1
      <4> QED BY <3>3, <4>1
    <3>2. CASE ~(accepted[n][m] >= k)
      <4>1. k \in 1..accepted'[n][m] /\ k \notin 1..accepted[n][m]
        BY <1>1, <2>3, <3>2
      <4> PICK w : w = rumors[m][k]
        OBVIOUS
      <4>2. Preparing(n, m, w)
        BY SMTT(60), <1>1, <2>1, <4>1, NewTaken
      <4>3. w.id = s /\ w.digest = d
        BY <2>1
      <4>4. logPrePrepareMsg[n][s] = d
        BY <1>3, <1>4 DEF Settled
      <4>5. \A x \in Node \ {h} : logPrepareMsg'[n][x][s] = d
        <5>1. j \in 1..Len(rumors'[h])
          BY <1>1, <1>3, RepeatsStay
        <5> QED BY <5>1 DEF Settled
      <4> PICK log : log = logPrepareMsg'
        OBVIOUS
      <4>6. d # NoReq
        BY <1>5 DEF Request, NoReq, Node
      <4>7. Node \ {h} \subseteq Matching(log, n, s, d) /\ Matching(log, n, s, d) \in SUBSET Node
        BY <4>5, <4>6 DEF Matching
      <4>8. /\ Cardinality(Matching(log, n, s, d)) \in Nat
            /\ Cardinality(Matching(log, n, s, d)) >= N - 1
        BY <4>7, Others
      <4>9. ~(Cardinality(Matching(log, n, s, d)) < TwoThirds)
        BY SMTT(60), <1>1, <4>8
      <4>10. \/ state[n][s] # 0
             \/ \A x \in Node, t \in Slot :
                  state'[x][t] = IF x = n /\ t = s THEN 1 ELSE state[x][t]
        BY <4>2, <4>3, <4>4, <4>9 DEF Preparing
      <4>11. state[n][s] = 0 => state'[n][s] = 1
        BY <1>5, <2>3, <4>10
      <4> QED BY <3>3, <4>11
    <3> QED BY <3>1, <3>2
  <2> QED BY SMTT(60), <2>1, <2>2, <2>3
<1> QED BY <1>6, <1>7, <1>8

LEMMA CommitsStoredNext ==
  ASSUME AllInv, AllInv', Faulty = {}, TwoThirds > 0, [Next]_vars, CommitsStored
  PROVE  CommitsStored'
<1>1. /\ RetryStep /\ QuorumsSent /\ IInv /\ TagInv /\ TypeInv /\ VotesFirst /\ StateFirst
  BY AllParts, StepKinds
<1> SUFFICES ASSUME NEW n \in Node, NEW s \in Slot, NEW d \in Request,
                    state'[n][s] = 2, logPrePrepareMsg'[n][s] = d
             PROVE  hrNaming'[n][d.hr][d.name] # NoMh
  BY DEF CommitsStored
<1>2. d.hr \in Node /\ d.name \in Name
  BY DEF Request
<1>3. state[n][s] >= 1 => logPrePrepareMsg[n][s] = d
  <2>1. role[n] = 0
    BY <1>1 DEF TypeInv, TypeOK, ShiftRoom
  <2>2. state[n][s] >= 1 => logPrePrepareMsg[n][s] # NoReq
    BY <1>1, <2>1 DEF QuorumsSent
  <2> QED BY <2>2, NothingLost
<1>4. ASSUME hrNaming[n][d.hr][d.name] # NoMh PROVE hrNaming'[n][d.hr][d.name] # NoMh
  <2>1. CASE hrNaming' = hrNaming
    BY <1>4, <2>1
  <2>2. CASE \E k, l \in Node, v \in Message : Committing(k, l, v)
    BY SMTT(60), <1>2, <1>4, <2>2 DEF Committing
  <2>3. hrNaming' = hrNaming \/ \E k, l \in Node, v \in Message : Committing(k, l, v)
    BY ZenonT(120), <1>1 DEF RetryStep, Sending, Answering, PrePreparing, Preparing, Idling
  <2> QED BY <2>1, <2>2, <2>3
<1>5. CASE state[n][s] = 2
  BY <1>3, <1>4, <1>5 DEF CommitsStored
<1>6. CASE state[n][s] # 2
  <2>1. state[n][s] = 1
    BY <1>1, <1>6, StateMoves
  <2>2. /\ ~Idling /\ (\A k \in Node : ~Answering(k))
        /\ (\A r \in Calls, t \in Slot : ~Sending(r, t))
    BY <2>1 DEF Idling, Answering, Sending
  <2>3. \A k, l \in Node, v \in Message : ~PrePreparing(k, l, v) /\ ~Preparing(k, l, v)
    BY <2>1 DEF PrePreparing, Preparing
  <2>4. PICK k \in Node, l \in Node, v \in Message : Committing(k, l, v)
    BY <1>1, <2>2, <2>3 DEF RetryStep
  <2>5. k = n /\ v.id = s /\ hrNaming'[n][v.digest.hr][v.digest.name] # NoMh
    BY SMTT(60), <2>1, <2>4 DEF Committing
  <2>6. /\ accepted[k][l] + 1 \in 1..Len(rumors[l]) /\ v = rumors[l][accepted[k][l] + 1]
        /\ v.type = "Commit"
    BY ZenonT(60), <2>4 DEF Committing, Taking
  <2>7. First(v.id, v.digest)
    BY Zenon, <1>1, <2>6, VoteFirst
  <2>8. logPrePrepareMsg[n][s] = d /\ d # NoReq
    BY <1>3, <2>1 DEF Request, NoReq, Node
  <2>9. d = v.digest
    BY <1>1, <2>5, <2>7, <2>8, VoteIsPrePrepared
  <2> QED BY <2>5, <2>9
<1> QED BY <1>5, <1>6

LEMMA RetryInvInit == Init => RetryInv
<1> SUFFICES ASSUME Init PROVE RetryInv
  OBVIOUS
<1>1. \A m \in Node : Len(rumors[m]) = 0
  BY EmptySeq DEF Init
<1>2. /\ \A s, d : ~First(s, d)
      /\ \A m \in Node : \A t, s, d : ~HasSent(m, t, s, d)
  BY <1>1 DEF First, HasSent
<1>3. \A d \in Request : d # NoReq
  BY DEF Request, NoReq, Node
<1>4. \A n \in Node, s \in Slot : \A d : pending[n] # [id |-> s, digest |-> d]
  BY PbftAssumption DEF Init, NoPrepare, Slot
<1>5. /\ \A n, m \in Node : accepted[n][m] = 0
      /\ \A n \in Node, s \in Slot : state[n][s] = 0 /\ logPrePrepareMsg[n][s] = NoReq
      /\ \A n, m \in Node, s \in Slot : logCommitMsg[n][m][s] = NoReq
      /\ \A r \in Calls : sends[r] = 0
  BY DEF Init
<1>6. OwnerPrePrepared /\ RetriesRepeat /\ PreparesFollow /\ CommitsStored
  BY <1>2, <1>3, <1>5 DEF OwnerPrePrepared, RetriesRepeat, PreparesFollow, CommitsStored
<1>7. OwnVotes /\ VotesLogged
  BY <1>2, <1>4, <1>5 DEF OwnVotes, VotesLogged
<1>8. PreparesFirst /\ OwnerCounts
  BY SMTT(60), <1>1, <1>2, <1>3, <1>5 DEF PreparesFirst, OwnerCounts
<1>9. Settled /\ SecondAnswers
  BY <1>1, <1>5 DEF Settled, SecondAnswers
<1> QED BY <1>6, <1>7, <1>8, <1>9 DEF RetryInv

LEMMA RetryInvNext ==
  ASSUME N > 2, Concurrent = FALSE, Faulty = {}, SlowRetry = TRUE
  PROVE  AllInv /\ RetryInv /\ [Next]_vars => AllInv' /\ RetryInv'
<1> SUFFICES ASSUME AllInv, RetryInv, [Next]_vars PROVE AllInv' /\ RetryInv'
  OBVIOUS
<1>1. AllInv' /\ TwoThirds > 0
  BY Zenon, AllInvHolds, EnoughOthers
<1>2. /\ OwnerPrePrepared /\ RetriesRepeat /\ PreparesFollow /\ OwnVotes /\ VotesLogged
      /\ PreparesFirst /\ OwnerCounts /\ Settled /\ SecondAnswers /\ CommitsStored
  BY DEF RetryInv
<1>3. /\ OwnerPrePrepared' /\ RetriesRepeat' /\ PreparesFollow' /\ OwnVotes'
      /\ VotesLogged' /\ CommitsStored'
  BY Zenon, <1>1, <1>2, OwnerPrePreparedNext, RetriesRepeatNext, PreparesFollowNext,
     OwnVotesNext, VotesLoggedNext, CommitsStoredNext
<1>4. PreparesFirst' /\ OwnerCounts' /\ Settled'
  BY Zenon, <1>1, <1>2, <1>3, PreparesFirstNext, OwnerCountsNext, SettledNext
<1>5. SecondAnswers'
  BY Zenon, <1>1, <1>2, <1>4, SecondAnswersNext
<1> QED BY <1>1, <1>3, <1>4, <1>5 DEF RetryInv

\* Once the answers to a repeated PrePrepare are delivered, everyone has committed.
LEMMA RetryCommits ==
  ASSUME N > 2, Faulty = {}, AllInv, RetryInv, Quiet, NEW r \in Calls, sends[r] >= 2
  PROVE  \E s \in Slot : First(s, r) /\ state[r.hr][s] = 2
<1>1. /\ IInv /\ TagInv /\ TypeOK /\ PrePreparesOwned /\ PrePreparedFirst
      /\ TwoThirds \in Nat /\ TwoThirds > 0 /\ TwoThirds <= N - 1 /\ N \in Nat
  BY AllParts, EnoughOthers, PbftAssumption
<1>2. /\ RetriesRepeat /\ OwnVotes /\ VotesLogged
      /\ OwnerCounts /\ Settled /\ SecondAnswers
  BY DEF RetryInv
<1> PICK h : h = r.hr
  OBVIOUS
<1>3. r \in Request /\ r # NoReq /\ h \in Node
  BY PbftAssumption DEF Request, NoReq, Node
<1>4. PICK j \in 1..Len(rumors[h]) : Repeats(h, j) /\ rumors[h][j].digest = r
  BY <1>2 DEF RetriesRepeat
<1> PICK s : s = rumors[h][j].id
  OBVIOUS
<1>5. s \in Slot
  BY <1>1, <1>3, <1>4, RumorTypes
<1>6. \A n \in Node : state[n][s] >= 1
  <2> SUFFICES ASSUME NEW n \in Node PROVE state[n][s] >= 1
    OBVIOUS
  <2>1. PICK m \in Node : m # n /\ m # h
    BY <1>1, <1>3 DEF Node
  <2>2. accepted[m][h] = Len(rumors[h]) /\ accepted[n][m] = Len(rumors[m])
    BY <1>3, <2>1 DEF Quiet
  <2>3. pending[m] # [id |-> s, digest |-> r]
    BY <1>3, <2>1 DEF Quiet, NoPrepare
  <2>4. \/ pending[m] = [id |-> rumors[h][j].id, digest |-> rumors[h][j].digest]
        \/ \E k \in 1..Len(rumors[m]) :
             /\ rumors[m][k] = [type |-> "Prepare", id |-> rumors[h][j].id,
                                digest |-> rumors[h][j].digest]
             /\ \A l \in Node \ {m} : accepted[l][m] >= k => state[l][rumors[h][j].id] >= 1
    <3>1. h # m /\ j \in 1..accepted[m][h]
      BY <1>4, <2>1, <2>2
    <3> QED BY <1>2, <1>3, <1>4, <2>1, <3>1 DEF SecondAnswers
  <2>5. PICK k \in 1..Len(rumors[m]) :
          \A l \in Node \ {m} : accepted[l][m] >= k => state[l][s] >= 1
    BY <1>4, <2>3, <2>4
  <2>6. accepted[n][m] >= k
    BY <1>1, <2>1, <2>2, <2>5, RumorTypes
  <2> QED BY <2>1, <2>5, <2>6
<1>7. First(s, r)
  <2>1. PICK n \in Node : n # h
    BY <1>1, <1>3 DEF Node
  <2>2. logPrePrepareMsg[n][s] = r
    BY <1>2, <1>3, <1>4, <2>1 DEF Settled
  <2>3. OwnedBy(s, h) /\ s \in Nat
    BY SMTT(60), <1>1, <1>3, <1>4, <1>5, PbftAssumption DEF PrePreparesOwned, Repeats, Slot
  <2>4. ~OwnedBy(s, n)
    BY SMTT(60), <1>3, <2>1, <2>3, OwnerUnique
  <2> QED BY <1>1, <1>3, <1>5, <2>1, <2>2, <2>4 DEF PrePreparedFirst
<1>8. \A m \in Node : logCommitMsg[h][m][s] = r
  <2> SUFFICES ASSUME NEW m \in Node PROVE logCommitMsg[h][m][s] = r
    OBVIOUS
  <2>1. HasSent(m, "Commit", s, r)
    BY <1>2, <1>3, <1>5, <1>6, <1>7 DEF OwnVotes
  <2>2. CASE m = h
    BY ZenonT(60), <1>2, <1>3, <1>5, <2>1, <2>2 DEF OwnVotes
  <2>3. CASE m # h
    <3>1. PICK i \in 1..Len(rumors[m]) :
            rumors[m][i] = [type |-> "Commit", id |-> s, digest |-> r]
      BY <2>1 DEF HasSent
    <3>2. i \in 1..accepted[h][m]
      BY <1>3, <2>3, <3>1 DEF Quiet
    <3>3. rumors[m][i].type = "Commit" /\ rumors[m][i].id = s /\ rumors[m][i].digest = r
      BY <3>1
    <3> QED BY SMTT(60), <1>2, <1>3, <2>3, <3>2, <3>3 DEF VotesLogged
  <2> QED BY <2>2, <2>3
<1>9. Cardinality(Matching(logCommitMsg, h, s, r)) = N
  <2>1. Matching(logCommitMsg, h, s, r) = Node
    BY <1>3, <1>8 DEF Matching
  <2> QED BY SMTT(60), <1>3, <2>1, Others
<1>10. state[h][s] # 1
  <2>1. ~(N <= TwoThirds)
    BY <1>1
  <2> QED BY <1>2, <1>3, <1>5, <1>7, <1>9, <2>1 DEF OwnerCounts
<1>11. state[h][s] \in 0..2
  BY SMTT(60), <1>1, <1>3, <1>5, Tables
<1>12. state[h][s] = 2
  BY <1>3, <1>6, <1>10, <1>11
<1> QED BY <1>5, <1>7, <1>12

\* What the owner has committed of a Tag is the name that the Tag waits for: names of
\* an HR are tagged once.
LEMMA CommitNamesIt ==
  ASSUME AllInv, RetryInv, NEW r \in Calls, NEW s \in Slot, First(s, r), state[r.hr][s] = 2
  PROVE  hrNaming[r.hr][r.hr][r.name] = r.mh
<1>1. /\ IInv /\ TagInv /\ TypeOK /\ ProposedOnce /\ OneTagAtATime /\ OnlySent
      /\ OneDigestPerSlot /\ DurableInv /\ OwnerPrePrepared /\ CommitsStored
  BY AllParts DEF AllInv, RetryInv
<1> PICK h : h = r.hr
  OBVIOUS
<1> PICK x : x = r.name
  OBVIOUS
<1> PICK e : e = hrNaming[h][h][x]
  OBVIOUS
<1>2. r \in Request /\ h \in Node /\ h \in Hr /\ x \in Name
  BY PbftAssumption DEF Request, Hr
<1>3. e # NoMh
  BY <1>1, <1>2 DEF OwnerPrePrepared, CommitsStored
<1> PICK q : q = [hr |-> h, name |-> x, mh |-> e]
  OBVIOUS
<1>4. HasCommitted(h, q)
  BY <1>1, <1>2, <1>3 DEF DurableInv
<1>5. PICK t \in Slot : logPrePrepareMsg[h][t] = q
  BY <1>4 DEF HasCommitted
<1>6. q # NoReq /\ q.hr = h /\ q.name = x /\ q.mh = e
  BY <1>2 DEF NoReq, Node
<1>7. HasSent(h, "PrePrepare", t, q)
  BY <1>1, <1>2, <1>5, <1>6 DEF OneDigestPerSlot
<1>8. q \in Sent
  BY <1>1, <1>2, <1>7 DEF HasSent, OnlySent
<1>9. r \in Sent
  BY <1>1, <1>2 DEF ProposedOnce
<1>10. Passed(q) /\ Passed(r) /\ q \in Calls
  BY <1>1, <1>8, <1>9 DEF OneTagAtATime, Sent
<1>11. q = r
  BY <1>1, <1>6, <1>10 DEF OneTagAtATime
<1> QED BY <1>6, <1>11

\* The first retry of Tag is enough: when a Tag has broadcast its request twice and
\* everything is delivered, the peer's own store has the name with the
\* Tag's metahash, and the loop of Tag returns at its next look. With one
\* broadcast it would not: a peer that has the votes before the PrePrepare does
\* not count them again, and the answers to the second PrePrepare are what
\* makes it count. This holds for three peers or more whose retries wait for what
\* is in flight, as those of the code do when the rumors take less than
\* 10 ms.
THEOREM RetryIsEnough ==
  ASSUME N > 2, Concurrent = FALSE, Faulty = {}, SlowRetry = TRUE
  PROVE  Spec =>
           [](Quiet => \A r \in Calls : sends[r] >= 2 =>
                         hrNaming[r.hr][r.hr][r.name] = r.mh)
<1>1. Init => AllInv /\ RetryInv
  BY AllInvHolds, RetryInvInit
<1>2. AllInv /\ RetryInv /\ [Next]_vars => AllInv' /\ RetryInv'
  BY RetryInvNext
<1>3. AllInv /\ RetryInv =>
        (Quiet => \A r \in Calls : sends[r] >= 2 => hrNaming[r.hr][r.hr][r.name] = r.mh)
  <2> SUFFICES ASSUME AllInv, RetryInv, Quiet, NEW r \in Calls, sends[r] >= 2
               PROVE  hrNaming[r.hr][r.hr][r.name] = r.mh
    OBVIOUS
  <2>1. PICK s \in Slot : First(s, r) /\ state[r.hr][s] = 2
    BY RetryCommits
  <2> QED BY <2>1, CommitNamesIt
<1> QED BY <1>1, <1>2, <1>3, PTL DEF Spec
=============================================================================
