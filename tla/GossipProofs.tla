---------------------------- MODULE GossipProofs ----------------------------
(***************************************************************************)
(* Proofs about Gossip, for any network, any losses and any failures:      *)
(* TypeOK and Backed are invariants, a Graft can always be answered, a     *)
(* queued rumor is given up only when it was accepted, and the rumor       *)
(* tables grow as RumorOrder says.  Where every link was there from the    *)
(* start and IHaves arrive, no neighbour is forgotten, and every rumor is  *)
(* everywhere when nothing is under way any more.                          *)
(***************************************************************************)
EXTENDS Gossip, SequenceTheorems, TLAPS

\* The inductive invariant.  TypeOK alone is not inductive: sendGraftMsg divides by
\* the number of peers that have announced the rumor, and counts its Grafts.
GInv == TypeOK /\ Backed

-----------------------------------------------------------------------------
(* What a step may add, for each part of Backed.                           *)

Grown ==
  \A m \in Node : table[m] <= table'[m] /\ table'[m] <= table'[Origin]

NewSecond == \A m \in Node : second'[m] = second[m] \/ second'[m] <= table'[Origin]

NewReceived ==
  \A m \in Node : \A k \in receivedMsg'[m] \cup snaps'[m] :
    k \in receivedMsg[m] \cup snaps[m] \/ k <= table'[m]

NewEntries ==
  \A m \in Node : \A e \in rumorQueue'[m] : e \in rumorQueue[m] \/ e.seq <= table'[m]

NewLazyQueue ==
  \A m \in Node, k \in Rumor :
    lazyQueue'[m][k] # {} => lazyQueue[m][k] # {} \/ k <= table'[m]

NewLazyPeers ==
  \A m \in Node, k \in Rumor : \A i \in 1..Len(lazyPeers'[m][k]) :
    \/ i \in 1..Len(lazyPeers[m][k]) /\ lazyPeers'[m][k][i] = lazyPeers[m][k][i]
    \/ k <= table'[lazyPeers'[m][k][i]]

GraftsOK ==
  \A m \in Node, k \in Rumor :
    /\ graft[m][k].pc # "none" => lazyPeers[m][k] # <<>>
    /\ graft[m][k].pc = "send" => graft[m][k].sent < MaxGrafts

NewPackets == \A p \in net' : p \in net \/ PacketBacked(p)'

\* Backed survives a step that lets the tables grow and adds only what is backed.
LEMMA BackedKept ==
  ASSUME TypeOK, TypeOK', Backed, Grown,
         \A k \in unsent' : k \in unsent \/ k <= table'[Origin],
         NewSecond, NewReceived, NewEntries, NewLazyQueue, NewLazyPeers, GraftsOK', NewPackets
  PROVE  Backed'
<1> USE GossipAssumption
<1>1. \A m \in Node : table[m] \in Nat /\ table'[m] \in Nat
  BY DEF TypeOK
<1>2. \A k \in Rumor : k \in Nat
  BY DEF Rumor
<1>3. \A k \in unsent' : InTable(Origin, k)'
  BY <1>1, <1>2 DEF Backed, InTable, Grown, TypeOK
<1>4. ASSUME NEW m \in Node PROVE PeerBacked(m)'
  <2>1. PeerBacked(m)
    BY DEF Backed
  <2>2. table'[m] <= table'[Origin]
    BY DEF Grown
  <2>3. InTable(Origin, second[m])'
    <3>1. second[m] <= table[Origin] /\ second[m] \in Nat
      BY <2>1, <1>2 DEF PeerBacked, InTable, TypeOK
    <3> QED BY <3>1, <1>1 DEF NewSecond, InTable, Grown
  <2>4. \A k \in receivedMsg'[m] \cup snaps'[m] : InTable(m, k)'
    <3> SUFFICES ASSUME NEW k \in receivedMsg'[m] \cup snaps'[m]
                 PROVE  k <= table'[m]
      BY DEF InTable
    <3>1. CASE k <= table'[m]
      BY <3>1
    <3>2. CASE k \in receivedMsg[m] \cup snaps[m]
      <4>1. k <= table[m] /\ k \in Nat
        BY <3>2, <2>1, <1>2 DEF PeerBacked, InTable, TypeOK
      <4> QED BY <4>1, <1>1 DEF Grown
    <3> QED BY <3>1, <3>2 DEF NewReceived
  <2>5. \A e \in rumorQueue'[m] : InTable(m, e.seq)'
    <3> SUFFICES ASSUME NEW e \in rumorQueue'[m]
                 PROVE  e.seq <= table'[m]
      BY DEF InTable
    <3>1. CASE e \in rumorQueue[m]
      <4>1. e.seq <= table[m] /\ e.seq \in Nat
        BY <3>1, <2>1, <1>2 DEF PeerBacked, InTable, TypeOK, Entry
      <4> QED BY <4>1, <1>1 DEF Grown
    <3> QED BY <3>1 DEF NewEntries
  <2>6. ASSUME NEW k \in Rumor
        PROVE  /\ lazyQueue'[m][k] # {} => InTable(m, k)'
               /\ \A i \in 1..Len(lazyPeers'[m][k]) : InTable(lazyPeers[m][k][i], k)'
               /\ graft'[m][k].pc # "none" => lazyPeers'[m][k] # <<>>
               /\ graft'[m][k].pc = "send" => graft'[m][k].sent < MaxGrafts
    <3>1. lazyQueue'[m][k] # {} => InTable(m, k)'
      BY SMTT(60), <2>1, <1>1, <1>2 DEF PeerBacked, InTable, NewLazyQueue, Grown
    <3>2. ASSUME NEW i \in 1..Len(lazyPeers'[m][k])
          PROVE  k <= table'[lazyPeers'[m][k][i]]
      <4>1. CASE i \in 1..Len(lazyPeers[m][k]) /\ lazyPeers'[m][k][i] = lazyPeers[m][k][i]
        <5>1. k <= table[lazyPeers[m][k][i]]
          BY <4>1, <2>1 DEF PeerBacked, InTable
        <5>2. lazyPeers[m][k][i] \in Node
          <6>1. lazyPeers[m][k] \in Seq(Node)
            BY DEF TypeOK
          <6> QED BY <6>1, <4>1, ElementOfSeq
        <5> QED BY SMTT(60), <5>1, <5>2, <4>1, <1>1, <1>2 DEF Grown
      <4> QED BY <4>1 DEF NewLazyPeers
    <3> QED BY <3>1, <3>2 DEF GraftsOK, InTable
  <2> QED BY <2>2, <2>3, <2>4, <2>5, <2>6 DEF PeerBacked
<1>5. ASSUME NEW p \in net' PROVE PacketBacked(p)'
  <2> SUFFICES ASSUME p \in net PROVE PacketBacked(p)'
    BY DEF NewPackets
  <2>1. PacketBacked(p) /\ p \in Packet
    BY DEF Backed, TypeOK
  <2>2. p.src \in Node /\ p.dst \in Node
    BY <2>1 DEF Packet
  <2>3. /\ p.type = "rumor" => p.hi \in Nat
        /\ p.type \in {"ihave", "ack", "graft"} => p.seq \in Nat
    BY <2>1, <1>2 DEF Packet
  <2> QED BY <2>1, <2>2, <2>3, <1>1 DEF PacketBacked, InTable, Grown
<1> QED BY <1>3, <1>4, <1>5 DEF Backed

-----------------------------------------------------------------------------
(* Facts about the operators that the actions are made of.                 *)

LEMMA RumorFacts == \A k \in Rumor : k \in Nat /\ 1 <= k /\ k <= MaxSeq
BY GossipAssumption DEF Rumor

\* A packet on its way has the fields of its type, and is backed.
LEMMA PacketFacts ==
  ASSUME TypeOK, Backed, NEW pkt \in net
  PROVE  /\ pkt.src \in Node /\ pkt.dst \in Node
         /\ pkt.type = "rumor" =>
              /\ pkt.lo \in Rumor /\ pkt.hi \in Rumor /\ pkt.id \in 0..NoId
              /\ pkt.hi <= table[pkt.src]
         /\ pkt.type = "ack" =>
              pkt.seq \in Rumor /\ pkt.id \in 0..NoId /\ pkt.seq <= table[pkt.src]
         /\ pkt.type = "graft" =>
              pkt.seq \in Rumor /\ pkt.id \in 0..NoId /\ pkt.seq <= table[pkt.dst]
         /\ pkt.type = "ihave" => pkt.seq \in Rumor /\ pkt.seq <= table[pkt.src]
         /\ pkt.type = "status" => pkt.len \in 0..MaxSeq
<1>1. pkt \in Packet /\ PacketBacked(pkt)
  BY DEF TypeOK, Backed
<1> QED BY <1>1 DEF Packet, PacketBacked, InTable

LEMMA TreeTypes ==
  ASSUME TypeOK, NEW n \in Node
  PROVE  Eagers(n) \subseteq Node /\ Lazys(n) \subseteq Node
BY DEF TypeOK, Eagers, Lazys

LEMMA SetTreeTypes ==
  ASSUME TypeOK, NEW n \in Node, NEW e \in SUBSET Node, NEW l \in SUBSET Node,
         SetTree(n, e, l)
  PROVE  /\ made' \in [Node -> BOOLEAN]
         /\ eagers' \in [Node -> SUBSET Node]
         /\ lazys' \in [Node -> SUBSET Node]
BY DEF TypeOK, SetTree

LEMMA SameTreeTypes ==
  ASSUME TypeOK, NEW n \in Node, SetTree(n, Eagers(n), Lazys(n))
  PROVE  /\ made' \in [Node -> BOOLEAN]
         /\ eagers' \in [Node -> SUBSET Node]
         /\ lazys' \in [Node -> SUBSET Node]
<1>1. Eagers(n) \in SUBSET Node /\ Lazys(n) \in SUBSET Node
  BY TreeTypes
<1> QED BY <1>1, SetTreeTypes

LEMMA MoveTypes ==
  ASSUME TypeOK, NEW n \in Node, NEW m \in Node, MoveToEager(n, m) \/ MoveToLazy(n, m)
  PROVE  /\ made' \in [Node -> BOOLEAN]
         /\ eagers' \in [Node -> SUBSET Node]
         /\ lazys' \in [Node -> SUBSET Node]
<1>1. /\ Eagers(n) \ {m} \in SUBSET Node /\ Eagers(n) \cup {m} \in SUBSET Node
      /\ Lazys(n) \ {m} \in SUBSET Node /\ Lazys(n) \cup {m} \in SUBSET Node
  BY TreeTypes
<1>2. \/ SetTree(n, Eagers(n) \cup {m}, Lazys(n) \ {m})
      \/ SetTree(n, Eagers(n) \ {m}, Lazys(n) \cup {m})
  BY DEF MoveToEager, MoveToLazy
<1> QED BY <1>1, <1>2, SetTreeTypes

LEMMA PushFacts ==
  ASSUME TypeOK, NEW n \in Node, NEW peers \in SUBSET Node, NEW k \in Rumor,
         NEW id \in 0..NoId, Push(n, peers, k, id)
  PROVE  /\ rumorQueue' \in [Node -> SUBSET Entry]
         /\ \A m \in Node : \A e \in rumorQueue'[m] :
              e \in rumorQueue[m] \/ (m = n /\ e.seq = k)
         /\ \A m \in Node : rumorQueue[m] \subseteq rumorQueue'[m]
<1> DEFINE new == {[dest |-> m, seq |-> k, id |-> id] : m \in peers}
<1>1. new \subseteq Entry /\ \A e \in new : e.seq = k
  BY DEF Entry
<1>2. /\ rumorQueue \in [Node -> SUBSET Entry]
      /\ rumorQueue' = [rumorQueue EXCEPT ![n] = rumorQueue[n] \cup new]
  BY DEF TypeOK, Push
<1> HIDE DEF new
<1>3. \A m \in Node :
        rumorQueue'[m] = IF m = n THEN rumorQueue[m] \cup new ELSE rumorQueue[m]
  BY <1>2
<1>4. rumorQueue' \in [Node -> SUBSET Entry]
  BY <1>1, <1>2
<1>5. \A m \in Node : \A e \in rumorQueue'[m] : e \in rumorQueue[m] \/ (m = n /\ e.seq = k)
  BY <1>1, <1>3
<1>6. \A m \in Node : rumorQueue[m] \subseteq rumorQueue'[m]
  BY <1>3
<1> QED BY <1>4, <1>5, <1>6

LEMMA SendFacts ==
  ASSUME TypeOK, NEW pkts \in SUBSET Packet,
         Send(pkts) \/ \E pkt \in net : Reply(pkt, pkts)
  PROVE  net' \subseteq Packet /\ \A p \in net' : p \in net \/ p \in pkts
BY DEF TypeOK, Send, Reply, Delivering

\* Accepting a rumor that the origin has.
LEMMA AcceptFacts ==
  ASSUME TypeOK, Backed, NEW n \in Node, NEW k \in Rumor, k <= table[Origin], Accept(n, k)
  PROVE  /\ table' \in [Node -> 0..MaxSeq]
         /\ Grown
         /\ k <= table[n] + 1 => k <= table'[n]
         /\ table'[Origin] = table[Origin]
         /\ \A m \in Node : table'[m] = table[m] \/ table'[m] = table[m] + 1
<1>1. /\ table \in [Node -> 0..MaxSeq]
      /\ \A m \in Node : table[m] \in Nat /\ table[m] <= table[Origin]
      /\ Origin \in Node
      /\ MaxSeq \in Nat
  BY GossipAssumption DEF TypeOK, Backed, PeerBacked
<1>2. table' = [table EXCEPT ![n] = IF k = table[n] + 1 THEN k ELSE table[n]]
  BY DEF Accept
<1>3. k \in Nat /\ 1 <= k /\ k <= MaxSeq
  BY RumorFacts
<1>4. table' \in [Node -> 0..MaxSeq]
  BY <1>1, <1>2, <1>3
<1>5. \A m \in Node :
        table'[m] = IF m = n /\ k = table[m] + 1 THEN k ELSE table[m]
  BY <1>1, <1>2
<1> QED BY <1>1, <1>3, <1>4, <1>5 DEF Grown

\* What a step of the tree at n adds for rumor k.
TreeFacts(n, k, acks) ==
  /\ made' \in [Node -> BOOLEAN]
  /\ eagers' \in [Node -> SUBSET Node]
  /\ lazys' \in [Node -> SUBSET Node]
  /\ receivedMsg' \in [Node -> SUBSET Rumor]
  /\ snaps' \in [Node -> SUBSET Rumor]
  /\ rumorQueue' \in [Node -> SUBSET Entry]
  /\ net' \subseteq Packet
  /\ \A m \in Node : \A j \in receivedMsg'[m] \cup snaps'[m] :
       j \in receivedMsg[m] \cup snaps[m] \/ (m = n /\ j = k)
  /\ \A m \in Node : \A e \in rumorQueue'[m] : e \in rumorQueue[m] \/ (m = n /\ e.seq = k)
  /\ \A m \in Node : rumorQueue[m] \subseteq rumorQueue'[m]
  /\ \A p \in net' : \/ p \in net \cup acks
                     \/ p.type = "prune"
                     \/ p.type = "rumor" /\ p.src = n /\ p.hi = k

LEMMA TreeStepFacts ==
  ASSUME TypeOK, Backed, NEW n \in Node, NEW pkt \in net, pkt.dst = n,
         NEW k \in Rumor, NEW acks \in SUBSET Packet, TreeStep(n, pkt, k, acks)
  PROVE  TreeFacts(n, k, acks)
<1>1. pkt.src \in Node /\ 0 \in 0..NoId
  BY PacketFacts, GossipAssumption DEF NoId
<1>2. CASE k \notin receivedMsg[n] /\ Forward(n, pkt, k, acks)
  <2> DEFINE peers == (Eagers(n) \cup NewEager(n, pkt.src)) \ {pkt.src}
             pushes == {RumorTo(n, p, k, 0) : p \in peers}
  <2>1. NewEager(n, pkt.src) \subseteq Node /\ peers \subseteq Node
    BY <1>1, TreeTypes DEF NewEager
  <2>2. /\ made' \in [Node -> BOOLEAN]
        /\ eagers' \in [Node -> SUBSET Node]
        /\ lazys' \in [Node -> SUBSET Node]
    <3>1. SetTree(n, Eagers(n) \cup NewEager(n, pkt.src), Lazys(n))
      BY <1>2 DEF Forward
    <3>2. /\ Eagers(n) \cup NewEager(n, pkt.src) \in SUBSET Node
          /\ Lazys(n) \in SUBSET Node
      BY <2>1, TreeTypes
    <3> QED BY <3>1, <3>2, SetTreeTypes
  <2>3. /\ receivedMsg' \in [Node -> SUBSET Rumor]
        /\ snaps' \in [Node -> SUBSET Rumor]
        /\ \A m \in Node : \A j \in receivedMsg'[m] \cup snaps'[m] :
             j \in receivedMsg[m] \cup snaps[m] \/ (m = n /\ j = k)
    <3>1. /\ receivedMsg' = [receivedMsg EXCEPT ![n] = receivedMsg[n] \cup {k}]
          /\ snaps' = [snaps EXCEPT ![n] = snaps[n] \cup {k}]
      BY <1>2 DEF Forward
    <3>2. receivedMsg \in [Node -> SUBSET Rumor] /\ snaps \in [Node -> SUBSET Rumor]
      BY DEF TypeOK
    <3>3. \A m \in Node :
            /\ receivedMsg'[m] = IF m = n THEN receivedMsg[m] \cup {k} ELSE receivedMsg[m]
            /\ snaps'[m] = IF m = n THEN snaps[m] \cup {k} ELSE snaps[m]
      BY <3>1, <3>2
    <3>4. receivedMsg' \in [Node -> SUBSET Rumor] /\ snaps' \in [Node -> SUBSET Rumor]
      BY <3>1, <3>2
    <3>5. \A m \in Node : \A j \in receivedMsg'[m] \cup snaps'[m] :
            j \in receivedMsg[m] \cup snaps[m] \/ (m = n /\ j = k)
      BY ZenonT(120), <3>3
    <3> QED BY <3>4, <3>5
  <2>4. /\ rumorQueue' \in [Node -> SUBSET Entry]
        /\ \A m \in Node : \A e \in rumorQueue'[m] :
             e \in rumorQueue[m] \/ (m = n /\ e.seq = k)
        /\ \A m \in Node : rumorQueue[m] \subseteq rumorQueue'[m]
    <3>1. Push(n, peers, k, 0)
      BY <1>2 DEF Forward
    <3> HIDE DEF peers
    <3> QED BY <1>1, <2>1, <3>1, PushFacts
  <2>5. pushes \subseteq Packet
        /\ \A p \in pushes : p.type = "rumor" /\ p.src = n /\ p.hi = k
    BY <1>1, <2>1 DEF RumorTo, Packet
  <2>6. net' \subseteq Packet /\ \A p \in net' : p \in net \/ p \in pushes \cup acks
    <3>1. Reply(pkt, pushes \cup acks)
      BY <1>2 DEF Forward
    <3> QED BY <2>5, <3>1, SendFacts
  <2> HIDE DEF pushes, peers
  <2> QED BY <2>2, <2>3, <2>4, <2>5, <2>6 DEF TreeFacts
<1>3. CASE k \in receivedMsg[n] /\ SendPrune(n, pkt, acks)
  <2>1. NewLazy(n, pkt.src) \subseteq Node
    BY <1>1 DEF NewLazy
  <2>2. /\ made' \in [Node -> BOOLEAN]
        /\ eagers' \in [Node -> SUBSET Node]
        /\ lazys' \in [Node -> SUBSET Node]
    <3>1. SetTree(n, Eagers(n), Lazys(n) \cup NewLazy(n, pkt.src))
      BY <1>3 DEF SendPrune
    <3>2. /\ Eagers(n) \in SUBSET Node
          /\ Lazys(n) \cup NewLazy(n, pkt.src) \in SUBSET Node
      BY <2>1, TreeTypes
    <3> QED BY <3>1, <3>2, SetTreeTypes
  <2>3. PruneTo(n, pkt.src) \in Packet /\ PruneTo(n, pkt.src).type = "prune"
    BY <1>1 DEF PruneTo, Packet
  <2>4. net' \subseteq Packet /\ \A p \in net' : p \in net \/ p \in {PruneTo(n, pkt.src)} \cup acks
    <3>1. Reply(pkt, {PruneTo(n, pkt.src)} \cup acks)
      BY <1>3 DEF SendPrune
    <3> QED BY <2>3, <3>1, SendFacts
  <2>5. UNCHANGED <<receivedMsg, rumorQueue, snaps>>
    BY <1>3 DEF SendPrune
  <2>6. /\ receivedMsg' \in [Node -> SUBSET Rumor]
        /\ snaps' \in [Node -> SUBSET Rumor]
        /\ rumorQueue' \in [Node -> SUBSET Entry]
    BY <2>5 DEF TypeOK
  <2>7. /\ \A m \in Node : receivedMsg'[m] \cup snaps'[m] = receivedMsg[m] \cup snaps[m]
        /\ \A m \in Node : rumorQueue'[m] = rumorQueue[m]
    BY <2>5
  <2>8. \A p \in net' : p \in net \cup acks \/ p.type = "prune"
    BY <2>3, <2>4
  <2> QED BY <2>2, <2>4, <2>6, <2>7, <2>8 DEF TreeFacts
<1> QED BY <1>2, <1>3 DEF TreeStep

LEMMA NoTreeStepFacts ==
  ASSUME TypeOK, NEW n \in Node, NEW pkt \in net, NEW k, NoTreeStep(pkt)
  PROVE  TreeFacts(n, k, {})
<1>1. net' \subseteq Packet /\ net' \subseteq net
  BY DEF NoTreeStep, Reply, Delivering, TypeOK
<1>2. UNCHANGED <<made, eagers, lazys, receivedMsg, rumorQueue, snaps>>
  BY DEF NoTreeStep, treeVars
<1>3. /\ made' \in [Node -> BOOLEAN]
      /\ eagers' \in [Node -> SUBSET Node]
      /\ lazys' \in [Node -> SUBSET Node]
      /\ receivedMsg' \in [Node -> SUBSET Rumor]
      /\ snaps' \in [Node -> SUBSET Rumor]
      /\ rumorQueue' \in [Node -> SUBSET Entry]
  BY <1>2 DEF TypeOK
<1>4. /\ \A m \in Node : receivedMsg'[m] \cup snaps'[m] = receivedMsg[m] \cup snaps[m]
      /\ \A m \in Node : rumorQueue'[m] = rumorQueue[m]
  BY <1>2
<1>5. \A p \in net' : p \in net \cup {}
  BY <1>1
<1> QED BY <1>1, <1>3, <1>4, <1>5 DEF TreeFacts

\* What is left alone adds nothing.
LEMMA Frame ==
  ASSUME TypeOK, Backed
  PROVE  /\ UNCHANGED table => Grown
         /\ UNCHANGED second => NewSecond
         /\ UNCHANGED unsent => \A k \in unsent' : k \in unsent \/ k <= table'[Origin]
         /\ UNCHANGED <<receivedMsg, snaps>> => NewReceived
         /\ UNCHANGED rumorQueue => NewEntries
         /\ UNCHANGED lazyQueue => NewLazyQueue
         /\ UNCHANGED lazyPeers => NewLazyPeers
         /\ UNCHANGED graftVars => GraftsOK'
         /\ GraftsOK
         /\ net' \subseteq net => NewPackets
<1>1. UNCHANGED table => Grown
  <2>1. \A m \in Node : table[m] \in Nat /\ table[m] <= table[Origin]
    BY DEF TypeOK, Backed, PeerBacked
  <2> QED BY <2>1 DEF Grown
<1>2. UNCHANGED second => NewSecond
  BY DEF NewSecond
<1>3. UNCHANGED <<receivedMsg, snaps>> => NewReceived
  BY DEF NewReceived
<1>4. UNCHANGED rumorQueue => NewEntries
  BY DEF NewEntries
<1>5. UNCHANGED lazyQueue => NewLazyQueue
  BY DEF NewLazyQueue
<1>6. UNCHANGED lazyPeers => NewLazyPeers
  BY DEF NewLazyPeers
<1>7. GraftsOK
  BY DEF Backed, PeerBacked, GraftsOK
<1>8. UNCHANGED graftVars => GraftsOK'
  BY <1>7 DEF GraftsOK, graftVars
<1>9. net' \subseteq net => NewPackets
  BY DEF NewPackets
<1> QED BY <1>1, <1>2, <1>3, <1>4, <1>5, <1>6, <1>7, <1>8, <1>9

\* Sending packets that are backed.
LEMMA SendBacked ==
  ASSUME TypeOK, NEW pkts \in SUBSET Packet,
         Send(pkts) \/ \E pkt \in net : Reply(pkt, pkts),
         \A p \in pkts : PacketBacked(p)'
  PROVE  net' \subseteq Packet /\ NewPackets
BY SendFacts DEF NewPackets

-----------------------------------------------------------------------------
(* Each action keeps the invariant.                                        *)

LEMMA ExecAckKeeps ==
  ASSUME GInv, NEW n \in Node, NEW pkt \in net, ExecAck(n, pkt)
  PROVE  GInv'
<1> USE DEF GInv
<1>1. UNCHANGED <<up, lost, linkVars, procVars, treeVars, graftVars, ihaveVars>>
  BY DEF ExecAck
<1>2. net' \subseteq net
  BY DEF ExecAck, Reply, Delivering
<1>3. /\ rumorQueue' \in [Node -> SUBSET Entry]
      /\ \A m \in Node : rumorQueue'[m] \subseteq rumorQueue[m]
  <2>1. rumorQueue' = [rumorQueue EXCEPT ![n] =
                         @ \ {[dest |-> pkt.src, seq |-> pkt.seq, id |-> pkt.id]}]
    BY DEF ExecAck
  <2> QED BY <2>1 DEF TypeOK
<1>4. TypeOK'
  BY <1>1, <1>2, <1>3 DEF TypeOK, linkVars, procVars, treeVars, graftVars, ihaveVars
<1>5. NewEntries
  BY <1>3 DEF NewEntries
<1> QED BY <1>1, <1>2, <1>4, <1>5, Frame, BackedKept
        DEF linkVars, procVars, treeVars, graftVars, ihaveVars

LEMMA ExecPruneKeeps ==
  ASSUME GInv, NEW n \in Node, NEW pkt \in net, ExecPrune(n, pkt)
  PROVE  GInv'
<1> USE DEF GInv
<1>1. UNCHANGED <<up, lost, linkVars, procVars, receivedMsg, graftVars, ihaveVars, rumorQueue>>
  BY DEF ExecPrune
<1>2. net' \subseteq net
  BY DEF ExecPrune, Reply, Delivering
<1>3. /\ made' \in [Node -> BOOLEAN]
      /\ eagers' \in [Node -> SUBSET Node]
      /\ lazys' \in [Node -> SUBSET Node]
  <2>1. pkt.src \in Node
    BY PacketFacts
  <2> QED BY <2>1, MoveTypes DEF ExecPrune
<1>4. TypeOK'
  BY <1>1, <1>2, <1>3 DEF TypeOK, linkVars, procVars, graftVars, ihaveVars
<1> QED BY <1>1, <1>2, <1>4, Frame, BackedKept DEF procVars, graftVars, ihaveVars

LEMMA ExecIHaveKeeps ==
  ASSUME GInv, NEW n \in Node, NEW pkt \in net, ExecIHave(n, pkt)
  PROVE  GInv'
<1> USE DEF GInv
<1> DEFINE k == pkt.seq
<1>1. UNCHANGED <<up, lost, linkVars, procVars, receivedMsg, ihaveVars, rumorQueue>>
  BY DEF ExecIHave
<1>2. net' \subseteq net
  BY DEF ExecIHave, Reply, Delivering
<1>3. /\ made' \in [Node -> BOOLEAN]
      /\ eagers' \in [Node -> SUBSET Node]
      /\ lazys' \in [Node -> SUBSET Node]
  BY SameTreeTypes DEF ExecIHave
<1>4. pkt.src \in Node /\ k \in Rumor /\ k <= table[pkt.src]
  BY PacketFacts DEF ExecIHave
<1>5. /\ lazyPeers' \in [Node -> [Rumor -> Seq(Node)]]
      /\ graft' \in [Node -> [Rumor -> Graft]]
      /\ NewLazyPeers /\ GraftsOK'
  <2>1. CASE UNCHANGED graftVars
    BY <2>1, Frame DEF graftVars, TypeOK
  <2>2. CASE /\ lazyPeers' = [lazyPeers EXCEPT ![n][k] = Append(@, pkt.src)]
             /\ graft' = [graft EXCEPT ![n][k] =
                            IF lazyPeers[n][k] = <<>> THEN [@ EXCEPT !.pc = "wait"] ELSE @]
    <3> DEFINE old == lazyPeers[n][k]
               new == Append(old, pkt.src)
    <3>1. old \in Seq(Node)
      BY <1>4 DEF TypeOK
    <3>2. /\ new \in Seq(Node) /\ new # <<>>
          /\ Len(new) = Len(old) + 1
          /\ \A i \in 1..Len(old) : new[i] = old[i]
          /\ new[Len(old) + 1] = pkt.src
      BY SMTT(120), <3>1, <1>4, AppendProperties
    <3>3. Len(old) \in Nat
      BY <3>1, LenProperties
    <3> HIDE DEF new
    <3>4. /\ lazyPeers' \in [Node -> [Rumor -> Seq(Node)]]
          /\ \A m \in Node, j \in Rumor :
               lazyPeers'[m][j] = IF m = n /\ j = k THEN new ELSE lazyPeers[m][j]
      BY <2>2, <3>2, <1>4 DEF TypeOK, new
    <3>5. graft[n][k] \in Graft
      BY <1>4 DEF TypeOK
    <3>6. [graft[n][k] EXCEPT !.pc = "wait"] \in Graft
      BY <3>5 DEF Graft
    <3>7. /\ graft' \in [Node -> [Rumor -> Graft]]
          /\ \A m \in Node, j \in Rumor :
               graft'[m][j] = IF m = n /\ j = k /\ lazyPeers[n][k] = <<>>
                                THEN [graft[m][j] EXCEPT !.pc = "wait"]
                                ELSE graft[m][j]
      BY <2>2, <3>5, <3>6, <1>4 DEF TypeOK
    <3>8. NewLazyPeers
      <4> SUFFICES ASSUME NEW m \in Node, NEW j \in Rumor, NEW i \in 1..Len(lazyPeers'[m][j])
                   PROVE  \/ /\ i \in 1..Len(lazyPeers[m][j])
                             /\ lazyPeers'[m][j][i] = lazyPeers[m][j][i]
                          \/ j <= table'[lazyPeers'[m][j][i]]
        BY DEF NewLazyPeers
      <4>1. CASE ~(m = n /\ j = k)
        BY <4>1, <3>4
      <4>2. CASE m = n /\ j = k /\ i \in 1..Len(old)
        BY <4>2, <3>2, <3>4
      <4>3. CASE m = n /\ j = k /\ i = Len(old) + 1
        BY <4>3, <3>2, <3>4, <1>1, <1>4 DEF procVars
      <4>4. m = n /\ j = k => i \in 1..Len(old) \/ i = Len(old) + 1
        BY SMTT(60), <3>2, <3>3, <3>4
      <4> QED BY <4>1, <4>2, <4>3, <4>4
    <3>9. GraftsOK'
      <4> SUFFICES ASSUME NEW m \in Node, NEW j \in Rumor
                   PROVE  /\ graft'[m][j].pc # "none" => lazyPeers'[m][j] # <<>>
                          /\ graft'[m][j].pc = "send" => graft'[m][j].sent < MaxGrafts
        BY DEF GraftsOK
      <4>1. /\ graft[m][j].pc # "none" => lazyPeers[m][j] # <<>>
            /\ graft[m][j].pc = "send" => graft[m][j].sent < MaxGrafts
        BY Frame DEF GraftsOK
      <4>2. graft[m][j] \in Graft
        BY DEF TypeOK
      <4> QED BY ZenonT(120), <4>1, <4>2, <3>2, <3>4, <3>7 DEF Graft
    <3> QED BY <3>4, <3>7, <3>8, <3>9
  <2> QED BY <2>1, <2>2 DEF ExecIHave
<1>6. TypeOK'
  BY <1>1, <1>2, <1>3, <1>5 DEF TypeOK, linkVars, procVars, ihaveVars
<1> QED BY <1>1, <1>2, <1>5, <1>6, Frame, BackedKept DEF procVars, ihaveVars

LEMMA ExecGraftKeeps ==
  ASSUME GInv, NEW n \in Node, NEW pkt \in net, ExecGraft(n, pkt)
  PROVE  GInv'
<1> USE DEF GInv
<1> DEFINE answer == RumorTo(n, pkt.src, pkt.seq, pkt.id)
<1>1. UNCHANGED <<up, lost, linkVars, procVars, receivedMsg, graftVars, ihaveVars>>
  BY DEF ExecGraft
<1>2. /\ pkt.src \in Node /\ pkt.seq \in Rumor /\ pkt.id \in 0..NoId
      /\ pkt.seq <= table[n]
  BY PacketFacts DEF ExecGraft, Takes
<1>3. /\ made' \in [Node -> BOOLEAN]
      /\ eagers' \in [Node -> SUBSET Node]
      /\ lazys' \in [Node -> SUBSET Node]
  BY <1>2, MoveTypes DEF ExecGraft
<1>4. rumorQueue' \in [Node -> SUBSET Entry] /\ NewEntries
  <2>1. Push(n, {pkt.src}, pkt.seq, pkt.id) /\ {pkt.src} \in SUBSET Node
    BY <1>2 DEF ExecGraft
  <2>2. table'[n] = table[n]
    BY <1>1 DEF procVars
  <2> DEFINE peers == {pkt.src}
  <2>3. Push(n, peers, pkt.seq, pkt.id) /\ peers \in SUBSET Node
    BY <2>1
  <2> HIDE DEF peers
  <2>4. /\ rumorQueue' \in [Node -> SUBSET Entry]
        /\ \A m \in Node : \A e \in rumorQueue'[m] :
             e \in rumorQueue[m] \/ (m = n /\ e.seq = pkt.seq)
    BY <1>2, <2>3, PushFacts
  <2> QED BY <1>2, <2>2, <2>4 DEF NewEntries
<1>5. net' \subseteq Packet /\ NewPackets
  <2>1. answer \in Packet
    BY <1>2 DEF RumorTo, Packet
  <2>2. PacketBacked(answer)'
    BY <1>1, <1>2 DEF RumorTo, PacketBacked, InTable, procVars
  <2>3. Reply(pkt, {answer}) /\ {answer} \in SUBSET Packet /\ \A p \in {answer} : PacketBacked(p)'
    BY <2>1, <2>2 DEF ExecGraft
  <2> HIDE DEF answer
  <2> QED BY <2>3, SendBacked
<1>6. TypeOK'
  BY <1>1, <1>3, <1>4, <1>5 DEF TypeOK, linkVars, procVars, graftVars, ihaveVars
<1> QED BY <1>1, <1>4, <1>5, <1>6, Frame, BackedKept DEF procVars, graftVars, ihaveVars

LEMMA ContactTypes ==
  ASSUME TypeOK, NEW n \in Node
  PROVE  Contacts(n) \subseteq Node
BY GossipAssumption DEF TypeOK, Contacts

LEMMA ExecStatusKeeps ==
  ASSUME GInv, NEW n \in Node, NEW pkt \in net, ExecStatus(n, pkt)
  PROVE  GInv'
<1> USE DEF GInv
<1>1. UNCHANGED <<up, lost, linkVars, procVars, treeVars, graftVars, ihaveVars, rumorQueue>>
  BY DEF ExecStatus
<1>2. /\ pkt.src \in Node /\ pkt.len \in 0..MaxSeq
      /\ table[n] \in 0..MaxSeq /\ table'[n] = table[n]
  BY <1>1, PacketFacts DEF ExecStatus, TypeOK, procVars
<1>3. PICK pkts \in SUBSET Packet :
        Reply(pkt, pkts) /\ \A p \in pkts : PacketBacked(p)'
  <2>1. CASE /\ table[n] > pkt.len
             /\ Reply(pkt, {RumorsTo(n, pkt.src, pkt.len + 1, table[n])})
    <3> DEFINE q == RumorsTo(n, pkt.src, pkt.len + 1, table[n])
    <3>1. pkt.len + 1 \in Rumor /\ table[n] \in Rumor /\ NoId \in 0..NoId
      BY <1>2, <2>1, GossipAssumption DEF Rumor, NoId
    <3>2. q \in Packet
      BY <1>2, <3>1 DEF RumorsTo, Packet
    <3>3. PacketBacked(q)'
      BY <1>2 DEF RumorsTo, PacketBacked, InTable
    <3>4. Reply(pkt, {q}) /\ {q} \in SUBSET Packet /\ \A p \in {q} : PacketBacked(p)'
      BY <1>2, <2>1, <3>2, <3>3
    <3> HIDE DEF q
    <3> QED BY <3>4
  <2>2. CASE Reply(pkt, {})
    BY <2>2
  <2>3. CASE \E m \in Contacts(n) \cup {pkt.src} : Reply(pkt, {StatusTo(n, m, table[n])})
    <3>1. PICK m \in Contacts(n) \cup {pkt.src} : Reply(pkt, {StatusTo(n, m, table[n])})
      BY SMTT(60), <2>3
    <3> DEFINE q == StatusTo(n, m, table[n])
    <3>2. q \in Packet
      BY <1>2, ContactTypes DEF StatusTo, Packet
    <3>3. PacketBacked(q)'
      BY DEF StatusTo, PacketBacked
    <3>4. Reply(pkt, {q}) /\ {q} \in SUBSET Packet /\ \A p \in {q} : PacketBacked(p)'
      BY <1>2, <3>1, <3>2, <3>3
    <3> HIDE DEF q
    <3> QED BY <3>4
  <2> QED BY <2>1, <2>2, <2>3 DEF ExecStatus
<1>4. net' \subseteq Packet /\ NewPackets
  BY <1>3, SendBacked
<1>5. TypeOK'
  BY <1>1, <1>4 DEF TypeOK, linkVars, procVars, treeVars, graftVars, ihaveVars
<1> QED BY <1>1, <1>4, <1>5, Frame, BackedKept DEF procVars, treeVars, graftVars, ihaveVars

LEMMA SendIHaveMsgKeeps ==
  ASSUME GInv, NEW n \in Node, NEW k \in Rumor, SendIHaveMsg(n, k)
  PROVE  GInv'
<1> USE DEF GInv
<1>1. UNCHANGED <<netVars, linkVars, procVars, receivedMsg, graftVars, rumorQueue>>
  BY DEF SendIHaveMsg
<1>2. /\ made' \in [Node -> BOOLEAN]
      /\ eagers' \in [Node -> SUBSET Node]
      /\ lazys' \in [Node -> SUBSET Node]
  BY SameTreeTypes DEF SendIHaveMsg
<1>3. snaps' \in [Node -> SUBSET Rumor] /\ \A m \in Node : snaps'[m] \subseteq snaps[m]
  <2>1. snaps' = [snaps EXCEPT ![n] = snaps[n] \ {k}]
    BY DEF SendIHaveMsg
  <2> QED BY <2>1 DEF TypeOK
<1>4. lazyQueue' \in [Node -> [Rumor -> SUBSET Node]] /\ NewLazyQueue
  <2>1. lazyQueue' = [lazyQueue EXCEPT ![n][k] = Lazys(n)]
    BY DEF SendIHaveMsg
  <2>2. lazyQueue' \in [Node -> [Rumor -> SUBSET Node]]
    BY <2>1, TreeTypes DEF TypeOK
  <2>3. k <= table'[n]
    BY <1>1 DEF SendIHaveMsg, Backed, PeerBacked, InTable, procVars
  <2>4. \A m \in Node, j \in Rumor :
          lazyQueue'[m][j] = IF m = n /\ j = k THEN Lazys(n) ELSE lazyQueue[m][j]
    BY <2>1, TreeTypes DEF TypeOK
  <2> QED BY <2>2, <2>3, <2>4 DEF NewLazyQueue
<1>5. TypeOK'
  BY <1>1, <1>2, <1>3, <1>4 DEF TypeOK, netVars, linkVars, procVars, graftVars
<1>6. NewReceived
  BY <1>1, <1>3 DEF NewReceived
<1> QED BY <1>1, <1>4, <1>5, <1>6, Frame, BackedKept DEF netVars, procVars, graftVars

LEMMA LazyQueueSenderKeeps ==
  ASSUME GInv, NEW n \in Node, NEW k \in Rumor, LazyQueueSender(n, k)
  PROVE  GInv'
<1> USE DEF GInv
<1>1. UNCHANGED <<up, lost, linkVars, procVars, treeVars, graftVars, snaps, rumorQueue>>
  BY DEF LazyQueueSender
<1>2. lazyQueue' \in [Node -> [Rumor -> SUBSET Node]] /\ NewLazyQueue
  <2>1. lazyQueue' = [lazyQueue EXCEPT ![n][k] = {}]
    BY DEF LazyQueueSender
  <2>2. lazyQueue' \in [Node -> [Rumor -> SUBSET Node]]
    BY <2>1 DEF TypeOK
  <2>3. \A m \in Node, j \in Rumor :
          lazyQueue'[m][j] = IF m = n /\ j = k THEN {} ELSE lazyQueue[m][j]
    BY <2>1 DEF TypeOK
  <2> QED BY <2>2, <2>3 DEF NewLazyQueue
<1>3. net' \subseteq Packet /\ NewPackets
  <2> DEFINE pkts == {IHaveTo(n, m, k) : m \in lazyQueue[n][k]}
  <2>1. k <= table'[n]
    BY <1>1 DEF LazyQueueSender, Backed, PeerBacked, InTable, procVars
  <2>2. lazyQueue[n][k] \subseteq Node
    BY DEF TypeOK
  <2>3. pkts \in SUBSET Packet
    BY <2>2 DEF IHaveTo, Packet
  <2>4. \A p \in pkts : PacketBacked(p)'
    BY <2>1 DEF IHaveTo, PacketBacked, InTable
  <2>5. Send(pkts)
    BY DEF LazyQueueSender
  <2> HIDE DEF pkts
  <2> QED BY <2>3, <2>4, <2>5, SendBacked
<1>4. TypeOK'
  BY <1>1, <1>2, <1>3 DEF TypeOK, linkVars, procVars, treeVars, graftVars
<1> QED BY <1>1, <1>2, <1>3, <1>4, Frame, BackedKept DEF procVars, treeVars, graftVars

\* A step of sendGraftMsg's loop that sends nothing.
LEMMA GraftWaitKeeps ==
  ASSUME GInv, NEW n \in Node, NEW k \in Rumor, GraftTimeout(n, k) \/ GraftDone(n, k)
  PROVE  GInv'
<1> USE DEF GInv
<1>1. UNCHANGED <<netVars, linkVars, procVars, treeVars, lazyPeers, ihaveVars, rumorQueue>>
  BY DEF GraftTimeout, GraftDone
<1>2. graft[n][k] \in Graft /\ graft[n][k].pc = "wait"
  BY DEF TypeOK, GraftTimeout, GraftDone
<1>3. PICK pc \in {"none", "send"} :
        /\ graft' = [graft EXCEPT ![n][k].pc = pc]
        /\ pc = "send" => graft[n][k].sent < MaxGrafts
  BY DEF GraftTimeout, GraftDone
<1>4. [graft[n][k] EXCEPT !.pc = pc] \in Graft
  BY <1>2 DEF Graft
<1>5. /\ graft' \in [Node -> [Rumor -> Graft]]
      /\ \A m \in Node, j \in Rumor :
           graft'[m][j] = IF m = n /\ j = k THEN [graft[n][k] EXCEPT !.pc = pc] ELSE graft[m][j]
  BY <1>3, <1>4 DEF TypeOK
<1>6. GraftsOK'
  <2> SUFFICES ASSUME NEW m \in Node, NEW j \in Rumor
               PROVE  /\ graft'[m][j].pc # "none" => lazyPeers'[m][j] # <<>>
                      /\ graft'[m][j].pc = "send" => graft'[m][j].sent < MaxGrafts
    BY DEF GraftsOK
  <2>1. /\ graft[m][j].pc # "none" => lazyPeers[m][j] # <<>>
        /\ graft[m][j].pc = "send" => graft[m][j].sent < MaxGrafts
    BY Frame DEF GraftsOK
  <2> QED BY <1>1, <1>2, <1>3, <1>5, <2>1 DEF Graft
<1>7. TypeOK'
  BY SMTT(120), <1>1, <1>5 DEF TypeOK, netVars, linkVars, procVars, treeVars, ihaveVars
<1> QED BY <1>1, <1>6, <1>7, Frame, BackedKept DEF netVars, procVars, treeVars, ihaveVars

LEMMA SendGraftMsgKeeps ==
  ASSUME GInv, NEW n \in Node, NEW k \in Rumor, SendGraftMsg(n, k)
  PROVE  GInv'
<1> USE DEF GInv
<1> DEFINE g == graft[n][k]
           L == lazyPeers[n][k]
           i == g.index % Len(L)
           m == L[i + 1]
           h == [pc |-> "wait", index |-> i + 1, sent |-> g.sent + 1]
<1>1. UNCHANGED <<up, lost, linkVars, procVars, receivedMsg, lazyPeers, ihaveVars, rumorQueue>>
  BY DEF SendGraftMsg
<1>2. /\ g.index \in Nat /\ g.sent \in 0..MaxGrafts /\ g.sent < MaxGrafts
      /\ L # <<>> /\ L \in Seq(Node)
  <2>1. g \in Graft /\ L \in Seq(Node) /\ g.pc = "send"
    BY DEF TypeOK, SendGraftMsg
  <2>2. g.sent < MaxGrafts /\ L # <<>>
    BY <2>1, Frame DEF GraftsOK
  <2> HIDE DEF g
  <2> QED BY SMTT(60), <2>1, <2>2 DEF Graft
<1>3. i + 1 \in 1..Len(L)
  <2>1. Len(L) \in Nat /\ Len(L) > 0
    BY <1>2, LenProperties, EmptySeq
  <2>2. \A x, y \in Nat : y > 0 => x % y \in 0..(y - 1)
    OBVIOUS
  <2> HIDE DEF L, g
  <2>3. i \in 0..(Len(L) - 1)
    BY <1>2, <2>1, <2>2
  <2> HIDE DEF i
  <2> QED BY <2>1, <2>3
<1>4. m \in Node /\ k <= table[m]
  <2>1. m \in Node
    BY <1>2, <1>3, ElementOfSeq
  <2>2. PeerBacked(n)
    BY DEF Backed
  <2>3. \A j \in 1..Len(L) : k <= table[L[j]]
    BY <2>2 DEF PeerBacked, InTable
  <2> HIDE DEF i, L
  <2> QED BY <1>3, <2>1, <2>3
<1>5. h \in Graft
  <2>1. i + 1 \in Nat /\ g.sent + 1 \in 0..MaxGrafts
    BY SMTT(120), <1>2, <1>3, GossipAssumption
  <2> HIDE DEF i, g
  <2> QED BY <2>1 DEF Graft
<1>6. graft' \in [Node -> [Rumor -> Graft]] /\ GraftsOK'
  <2>1. graft' = [graft EXCEPT ![n][k] = h]
    BY DEF SendGraftMsg
  <2>2. h.pc = "wait"
    OBVIOUS
  <2> HIDE DEF h
  <2>3. /\ graft' \in [Node -> [Rumor -> Graft]]
        /\ \A p \in Node, j \in Rumor :
             graft'[p][j] = IF p = n /\ j = k THEN h ELSE graft[p][j]
    BY SMTT(30), <1>5, <2>1 DEF TypeOK
  <2>4. L # <<>> /\ UNCHANGED lazyPeers
    BY <1>1, <1>2
  <2> QED BY <2>2, <2>3, <2>4, Frame DEF GraftsOK
<1>7. /\ made' \in [Node -> BOOLEAN]
      /\ eagers' \in [Node -> SUBSET Node]
      /\ lazys' \in [Node -> SUBSET Node]
  <2>1. MoveToEager(n, m)
    BY DEF SendGraftMsg
  <2> HIDE DEF m
  <2> QED BY SMTT(120), <1>4, <2>1, MoveTypes
<1>8. net' \subseteq Packet /\ NewPackets
  <2>1. PICK q : q = GraftTo(n, m, k, g.sent + 1)
    BY Zenon
  <2>2. Send({q})
    BY Zenon, <2>1 DEF SendGraftMsg
  <2>3. g.sent + 1 \in 0..NoId
    BY SMTT(60), <1>2, GossipAssumption DEF NoId
  <2>4. q \in Packet
    <3> HIDE DEF m, g
    <3> QED BY <1>4, <2>1, <2>3 DEF GraftTo, Packet
  <2>5. q.type = "graft" /\ q.seq = k /\ q.dst = m
    BY <2>1 DEF GraftTo
  <2>6. q.seq <= table'[q.dst]
    <3>1. q.seq <= table[q.dst]
      <4> HIDE DEF m
      <4> QED BY <1>4, <2>5
    <3> QED BY <1>1, <3>1 DEF procVars
  <2>7. PacketBacked(q)'
    <3> HIDE DEF m
    <3> QED BY <2>5, <2>6 DEF PacketBacked, InTable
  <2>8. {q} \in SUBSET Packet /\ \A p \in {q} : PacketBacked(p)'
    BY <2>4, <2>7
  <2> QED BY <2>2, <2>8, SendBacked
<1>9. TypeOK'
  BY <1>1, <1>6, <1>7, <1>8 DEF TypeOK, linkVars, procVars, ihaveVars
<1> QED BY <1>1, <1>6, <1>8, <1>9, Frame, BackedKept DEF procVars, ihaveVars

LEMMA ReSendRumorKeeps ==
  ASSUME GInv, NEW n \in Node, NEW e \in rumorQueue[n], ReSendRumor(n, e)
  PROVE  GInv'
<1> USE DEF GInv
<1>1. UNCHANGED <<up, lost, linkVars, procVars, treeVars, graftVars, ihaveVars, rumorQueue>>
  BY DEF ReSendRumor
<1>2. e \in Entry /\ e.seq <= table'[n]
  BY <1>1 DEF TypeOK, Backed, PeerBacked, InTable, procVars
<1>3. PICK q : q = RumorTo(n, e.dest, e.seq, e.id)
  OBVIOUS
<1>4. q \in Packet
  BY <1>2, <1>3 DEF RumorTo, Packet, Entry
<1>5. PacketBacked(q)'
  BY <1>2, <1>3 DEF RumorTo, PacketBacked, InTable
<1>6. Send({q}) /\ {q} \in SUBSET Packet /\ \A p \in {q} : PacketBacked(p)'
  BY <1>3, <1>4, <1>5 DEF ReSendRumor
<1>7. net' \subseteq Packet /\ NewPackets
  BY <1>6, SendBacked
<1>8. TypeOK'
  BY <1>1, <1>7 DEF TypeOK, linkVars, procVars, treeVars, graftVars, ihaveVars
<1> QED BY <1>1, <1>7, <1>8, Frame, BackedKept DEF procVars, treeVars, graftVars, ihaveVars

LEMMA SendStatusKeeps ==
  ASSUME GInv, NEW n \in Node, NEW m \in Node, SendStatus(n, m)
  PROVE  GInv'
<1> USE DEF GInv
<1>1. UNCHANGED <<up, lost, linkVars, procVars, treeVars, graftVars, ihaveVars, rumorQueue>>
  BY DEF SendStatus
<1>2. PICK q : q = StatusTo(n, m, table[n])
  OBVIOUS
<1>3. q \in Packet /\ PacketBacked(q)'
  BY <1>2 DEF StatusTo, PacketBacked, Packet, TypeOK
<1>4. Send({q}) /\ {q} \in SUBSET Packet /\ \A p \in {q} : PacketBacked(p)'
  BY <1>2, <1>3 DEF SendStatus
<1>5. net' \subseteq Packet /\ NewPackets
  BY <1>4, SendBacked
<1>6. TypeOK'
  BY <1>1, <1>5 DEF TypeOK, linkVars, procVars, treeVars, graftVars, ihaveVars
<1> QED BY <1>1, <1>5, <1>6, Frame, BackedKept DEF procVars, treeVars, graftVars, ihaveVars

LEMMA AddPeerKeeps ==
  ASSUME GInv, NEW n \in Node, NEW m \in Node, AddPeer(n, m)
  PROVE  GInv'
<1> USE DEF GInv
<1>1. UNCHANGED <<netVars, procVars, treeVars, graftVars, ihaveVars, rumorQueue>>
  BY DEF AddPeer
<1>2. /\ neighbors' \in [Node -> SUBSET Node]
      /\ route' \in [Node -> {"none", "direct", "relayed"}]
  BY DEF AddPeer, TypeOK
<1>3. TypeOK'
  BY SMTT(60), <1>1, <1>2 DEF TypeOK, netVars, procVars, treeVars, graftVars, ihaveVars
<1> QED BY <1>1, <1>3, Frame, BackedKept
        DEF netVars, procVars, treeVars, graftVars, ihaveVars

\* A peer stops, or a packet is lost.
LEMMA FailureKeeps ==
  ASSUME GInv, (\E n \in Node : Stop(n)) \/ (\E pkt \in net : Lose(pkt))
  PROVE  GInv'
<1> USE DEF GInv
<1>1. UNCHANGED <<linkVars, procVars, treeVars, graftVars, ihaveVars, rumorQueue>>
  BY DEF Stop, Lose
<1>2. net' \subseteq net
  BY DEF Stop, Lose
<1>3. up' \in [Node -> BOOLEAN] /\ lost' \in 0..MaxLost
  <2>1. up \in [Node -> BOOLEAN] /\ lost \in 0..MaxLost /\ MaxLost \in Nat
    BY GossipAssumption DEF TypeOK
  <2>2. CASE \E n \in Node : Stop(n)
    BY <2>1, <2>2 DEF Stop
  <2>3. CASE \E pkt \in net : Lose(pkt)
    BY <2>1, <2>3 DEF Lose
  <2> QED BY <2>2, <2>3
<1>4. TypeOK'
  BY <1>1, <1>2, <1>3 DEF TypeOK, linkVars, procVars, treeVars, graftVars, ihaveVars
<1> QED BY <1>1, <1>2, <1>4, Frame, BackedKept
        DEF procVars, treeVars, graftVars, ihaveVars

LEMMA BroadcastNewKeeps ==
  ASSUME GInv, BroadcastNew
  PROVE  GInv'
<1> USE DEF GInv
<1>1. UNCHANGED <<netVars, linkVars, second, blocked, treeVars, graftVars, ihaveVars, rumorQueue>>
  BY DEF BroadcastNew
<1>2. /\ table \in [Node -> 0..MaxSeq] /\ Origin \in Node /\ MaxSeq \in Nat
      /\ \A m \in Node : table[m] <= table[Origin]
  BY GossipAssumption DEF TypeOK, Backed, PeerBacked
<1>3. table[Origin] < MaxSeq /\ table' = [table EXCEPT ![Origin] = table[Origin] + 1]
  BY DEF BroadcastNew
<1>4. /\ table' \in [Node -> 0..MaxSeq]
      /\ table'[Origin] = table[Origin] + 1
      /\ \A m \in Node : m # Origin => table'[m] = table[m]
  BY <1>2, <1>3
<1>5. Grown
  BY <1>2, <1>4 DEF Grown
<1>6. unsent' \subseteq Rumor /\ \A k \in unsent' : k \in unsent \/ k <= table'[Origin]
  <2>1. unsent' = unsent \cup {table[Origin] + 1}
    BY DEF BroadcastNew
  <2>2. table[Origin] + 1 \in Rumor
    BY <1>2, <1>3 DEF Rumor
  <2> QED BY <1>2, <1>4, <2>1, <2>2 DEF TypeOK
<1>7. TypeOK'
  BY <1>1, <1>4, <1>6 DEF TypeOK, netVars, linkVars, treeVars, graftVars, ihaveVars
<1> QED BY <1>1, <1>5, <1>6, <1>7, Frame, BackedKept
        DEF netVars, treeVars, graftVars, ihaveVars

LEMMA BroadcastPushKeeps ==
  ASSUME GInv, NEW k \in Rumor, BroadcastPush(k)
  PROVE  GInv'
<1> USE DEF GInv
<1> DEFINE n == Origin
           peers == Eagers(n) \ {n}
           pushes == {RumorTo(n, m, k, 0) : m \in peers}
<1>1. UNCHANGED <<up, lost, linkVars, table, second, blocked, graftVars, lazyQueue>>
  BY DEF BroadcastPush
<1>2. n \in Node /\ 0 \in 0..NoId /\ peers \in SUBSET Node
  BY GossipAssumption, TreeTypes DEF NoId
<1>3. k <= table'[n]
  BY <1>1 DEF BroadcastPush, Backed, InTable
<1>4. /\ made' \in [Node -> BOOLEAN]
      /\ eagers' \in [Node -> SUBSET Node]
      /\ lazys' \in [Node -> SUBSET Node]
  BY <1>2, SameTreeTypes DEF BroadcastPush
<1>5. /\ receivedMsg' \in [Node -> SUBSET Rumor] /\ snaps' \in [Node -> SUBSET Rumor]
      /\ NewReceived
  <2>1. /\ receivedMsg' = [receivedMsg EXCEPT ![n] = receivedMsg[n] \cup {k}]
        /\ snaps' = [snaps EXCEPT ![n] = snaps[n] \cup {k}]
    BY DEF BroadcastPush
  <2>2. receivedMsg \in [Node -> SUBSET Rumor] /\ snaps \in [Node -> SUBSET Rumor]
    BY DEF TypeOK
  <2>3. \A m \in Node :
          /\ receivedMsg'[m] = IF m = n THEN receivedMsg[m] \cup {k} ELSE receivedMsg[m]
          /\ snaps'[m] = IF m = n THEN snaps[m] \cup {k} ELSE snaps[m]
    BY <1>2, <2>1, <2>2
  <2>4. receivedMsg' \in [Node -> SUBSET Rumor] /\ snaps' \in [Node -> SUBSET Rumor]
    BY <2>1, <2>2
  <2>5. \A m \in Node : \A j \in receivedMsg'[m] \cup snaps'[m] :
          j \in receivedMsg[m] \cup snaps[m] \/ (m = n /\ j = k)
    BY <2>3
  <2> QED BY <1>3, <2>4, <2>5 DEF NewReceived
<1>6. rumorQueue' \in [Node -> SUBSET Entry] /\ NewEntries
  <2>1. Push(n, peers, k, 0)
    BY DEF BroadcastPush
  <2> HIDE DEF peers, n
  <2>2. /\ rumorQueue' \in [Node -> SUBSET Entry]
        /\ \A m \in Node : \A e \in rumorQueue'[m] :
             e \in rumorQueue[m] \/ (m = n /\ e.seq = k)
    BY <1>2, <2>1, PushFacts
  <2> QED BY <1>3, <2>2 DEF NewEntries
<1>7. net' \subseteq Packet /\ NewPackets
  <2>1. pushes \in SUBSET Packet
    BY <1>2 DEF RumorTo, Packet
  <2>2. ASSUME NEW p \in pushes PROVE PacketBacked(p)'
    <3>1. p.type = "rumor" /\ p.src = Origin /\ p.hi = k
      BY DEF RumorTo
    <3> QED BY <1>3, <3>1 DEF PacketBacked, InTable
  <2>3. Send(pushes)
    BY DEF BroadcastPush
  <2> HIDE DEF pushes
  <2> QED BY <2>1, <2>2, <2>3, SendBacked
<1>8. unsent' \subseteq unsent
  BY DEF BroadcastPush
<1>9. TypeOK'
  BY <1>1, <1>4, <1>5, <1>6, <1>7, <1>8 DEF TypeOK, linkVars, graftVars
<1> QED BY <1>1, <1>5, <1>6, <1>7, <1>8, <1>9, Frame, BackedKept DEF graftVars

-----------------------------------------------------------------------------
(* Rumors.                                                                 *)

LEMMA RouteTypes ==
  ASSUME TypeOK, NEW n \in Node, NEW m, LearnRoute(n, m)
  PROVE  route' \in [Node -> {"none", "direct", "relayed"}]
BY DEF TypeOK, LearnRoute

LEMMA VerdictFacts ==
  ASSUME NEW len \in Nat, NEW k \in Nat
  PROVE  /\ Verdict(len, k) # "future" => k <= len + 1
         /\ Verdict(len, k) = "process" => k = len + 1
         /\ Verdict(len, k) = "future" => len + 1 < k
BY DEF Verdict

\* What the handler of rumors adds when k, the first rumor of the message, is
\* accepted or refused, and the tree makes its step.
LEMMA RumorBacked ==
  ASSUME GInv, NEW n \in Node, NEW pkt \in net, NEW k \in Rumor, k <= table[Origin],
         Accept(n, k), NEW acks \in SUBSET Packet, TreeFacts(n, k, acks),
         \A p \in acks : p.type = "ack" /\ p.src = n /\ p.seq = k,
         \/ k <= table[n] + 1
         \/ UNCHANGED <<receivedMsg, snaps, rumorQueue>> /\ net' \subseteq net
  PROVE  NewReceived /\ NewEntries /\ NewPackets
<1>1. CASE k <= table[n] + 1
  <2>1. k <= table'[n]
    BY <1>1, AcceptFacts DEF GInv
  <2>2. NewReceived /\ NewEntries
    BY <2>1 DEF TreeFacts, NewReceived, NewEntries
  <2>3. ASSUME NEW p \in net', p \notin net PROVE PacketBacked(p)'
    <3>1. \/ p.type = "ack" /\ p.src = n /\ p.seq = k
          \/ p.type = "prune"
          \/ p.type = "rumor" /\ p.src = n /\ p.hi = k
      BY <2>3 DEF TreeFacts
    <3> QED BY <2>1, <3>1 DEF PacketBacked, InTable
  <2> QED BY <2>2, <2>3 DEF NewPackets
<1>2. CASE UNCHANGED <<receivedMsg, snaps, rumorQueue>> /\ net' \subseteq net
  BY <1>2, Frame DEF GInv
<1> QED BY <1>1, <1>2

LEMMA RumorKeeps ==
  ASSUME GInv, NEW n \in Node, NEW pkt \in net, pkt.dst = n, NEW k \in Rumor,
         k <= table[Origin], Accept(n, k), LearnRoute(n, pkt.src),
         NEW acks \in SUBSET Packet,
         \A p \in acks : p.type = "ack" /\ p.src = n /\ p.seq = k,
         \/ k <= table[n] + 1 /\ TreeStep(n, pkt, k, acks)
         \/ NoTreeStep(pkt),
         second' \in [Node -> Rumor \cup {0}], NewSecond,
         UNCHANGED <<up, lost, neighbors, unsent, blocked, graftVars, lazyQueue>>
  PROVE  GInv'
<1> USE DEF GInv
<1>1. /\ TreeFacts(n, k, acks)
      /\ \/ k <= table[n] + 1
         \/ UNCHANGED <<receivedMsg, snaps, rumorQueue>> /\ net' \subseteq net
  <2>1. CASE k <= table[n] + 1 /\ TreeStep(n, pkt, k, acks)
    BY <2>1, TreeStepFacts
  <2>2. CASE NoTreeStep(pkt)
    <3>1. TreeFacts(n, k, {})
      BY <2>2, NoTreeStepFacts
    <3>2. TreeFacts(n, k, acks)
      BY <3>1 DEF TreeFacts
    <3>3. UNCHANGED <<receivedMsg, snaps, rumorQueue>> /\ net' \subseteq net
      BY <2>2 DEF NoTreeStep, Reply, Delivering, treeVars
    <3> QED BY <3>2, <3>3
  <2> QED BY <2>1, <2>2
<1>2. NewReceived /\ NewEntries /\ NewPackets
  BY <1>1, RumorBacked
<1>3. table' \in [Node -> 0..MaxSeq] /\ Grown
  BY AcceptFacts
<1>4. route' \in [Node -> {"none", "direct", "relayed"}]
  BY RouteTypes
<1>5. TypeOK'
  BY <1>1, <1>3, <1>4 DEF TypeOK, TreeFacts, graftVars
<1> QED BY <1>2, <1>3, <1>5, Frame, BackedKept DEF graftVars

LEMMA ExecRumorKeeps ==
  ASSUME GInv, NEW n \in Node, NEW pkt \in net, ExecRumor(n, pkt)
  PROVE  GInv'
<1> DEFINE k == pkt.lo
           v == Verdict(table[n], k)
           acks == Acks(n, pkt, v)
<1>1. /\ pkt.src \in Node /\ k \in Rumor /\ pkt.id \in 0..NoId
      /\ k <= table[pkt.src] /\ pkt.dst = n
  BY PacketFacts DEF GInv, ExecRumor, Takes
<1>2. table[n] \in Nat /\ k \in Nat /\ k <= table[Origin]
  <2>1. table[pkt.src] <= table[Origin]
    BY <1>1 DEF GInv, Backed, PeerBacked
  <2>2. table[n] \in Nat /\ table[pkt.src] \in Nat /\ table[Origin] \in Nat
    BY <1>1, GossipAssumption DEF GInv, TypeOK
  <2> QED BY <1>1, <2>1, <2>2, RumorFacts
<1>3. acks \in SUBSET Packet /\ \A p \in acks : p.type = "ack" /\ p.src = n /\ p.seq = k
  BY <1>1 DEF Acks, AckTo, Packet
<1>4. \/ k <= table[n] + 1 /\ TreeStep(n, pkt, k, acks)
      \/ NoTreeStep(pkt)
  BY <1>2, VerdictFacts DEF ExecRumor
<1>5. second' \in [Node -> Rumor \cup {0}] /\ NewSecond
  BY DEF GInv, TypeOK, ExecRumor, NewSecond
<1>6. /\ Accept(n, k)
      /\ LearnRoute(n, pkt.src)
      /\ UNCHANGED <<up, lost, neighbors, unsent, blocked, graftVars, lazyQueue>>
  BY DEF ExecRumor
<1> HIDE DEF acks, k
<1> QED BY <1>1, <1>2, <1>3, <1>4, <1>5, <1>6, RumorKeeps

LEMMA ExecRumorsKeeps ==
  ASSUME GInv, NEW n \in Node, NEW pkt \in net, ExecRumors(n, pkt)
  PROVE  GInv'
<1> DEFINE k == pkt.lo
           v == Verdict(table[n], k)
<1>1. /\ pkt.src \in Node /\ k \in Rumor /\ pkt.hi \in Rumor /\ k < pkt.hi
      /\ pkt.hi <= table[pkt.src] /\ pkt.dst = n
  BY PacketFacts DEF GInv, ExecRumors, Takes
<1>2. /\ table[n] \in Nat /\ k \in Nat /\ k + 1 \in Rumor
      /\ k <= table[Origin] /\ k + 1 <= table[Origin]
  <2>1. table[pkt.src] <= table[Origin]
    BY <1>1 DEF GInv, Backed, PeerBacked
  <2>2. table[n] \in Nat /\ table[pkt.src] \in Nat /\ table[Origin] \in Nat
    BY <1>1, GossipAssumption DEF GInv, TypeOK
  <2>3. k + 1 \in Rumor
    BY <1>1, GossipAssumption DEF Rumor
  <2> QED BY <1>1, <2>1, <2>2, <2>3, RumorFacts
<1> DEFINE acks == {}
<1>3. /\ \/ k <= table[n] + 1 /\ TreeStep(n, pkt, k, acks)
         \/ NoTreeStep(pkt)
      /\ acks \in SUBSET Packet
      /\ \A p \in acks : p.type = "ack" /\ p.src = n /\ p.seq = k
  BY <1>2, VerdictFacts DEF ExecRumors
<1>4. /\ Accept(n, k)
      /\ LearnRoute(n, pkt.src)
      /\ UNCHANGED <<up, lost, neighbors, unsent, blocked, graftVars, lazyQueue>>
      /\ second' = second \/ second' = [second EXCEPT ![n] = k + 1]
  BY DEF ExecRumors
<1>5. second' \in [Node -> Rumor \cup {0}] /\ NewSecond
  <2>1. \A m \in Node : second'[m] = second[m] \/ second'[m] = k + 1
    BY <1>4 DEF GInv, TypeOK
  <2>2. second' \in [Node -> Rumor \cup {0}]
    BY ZenonT(120), <1>2, <1>4 DEF GInv, TypeOK
  <2>3. k + 1 <= table'[Origin]
    BY <1>1, <1>2, <1>4, AcceptFacts DEF GInv
  <2> QED BY <2>1, <2>2, <2>3 DEF NewSecond
<1> HIDE DEF acks, k
<1> QED BY SMTT(60), <1>1, <1>2, <1>3, <1>4, <1>5, RumorKeeps

LEMMA SecondRumorKeeps ==
  ASSUME GInv, NEW n \in Node, SecondRumor(n)
  PROVE  GInv'
<1> USE DEF GInv
<1> DEFINE k == second[n]
<1>1. UNCHANGED <<netVars, linkVars, unsent, treeVars, graftVars, ihaveVars, rumorQueue>>
  BY DEF SecondRumor
<1>2. k \in Rumor /\ k <= table[Origin] /\ Accept(n, k)
  BY DEF SecondRumor, TypeOK, Backed, PeerBacked, InTable
<1>3. table' \in [Node -> 0..MaxSeq] /\ Grown
  <2> HIDE DEF k
  <2> QED BY <1>2, AcceptFacts
<1>4. /\ second' \in [Node -> Rumor \cup {0}]
      /\ \A m \in Node : second'[m] = second[m] \/ second'[m] = 0
  <2>1. second' = [second EXCEPT ![n] = 0]
    BY DEF SecondRumor
  <2> QED BY <2>1 DEF TypeOK
<1>5. NewSecond
  <2>1. 0 <= table'[Origin]
    BY <1>3, GossipAssumption
  <2> QED BY <1>4, <2>1 DEF NewSecond
<1>6. blocked' \in [Node -> BOOLEAN]
  BY DEF SecondRumor, TypeOK, Fails
<1>7. TypeOK'
  BY <1>1, <1>3, <1>4, <1>6
     DEF TypeOK, netVars, linkVars, treeVars, graftVars, ihaveVars
<1> QED BY <1>1, <1>3, <1>5, <1>7, Frame, BackedKept
        DEF netVars, treeVars, graftVars, ihaveVars

-----------------------------------------------------------------------------
(* The theorems.                                                           *)

LEMMA GInvInit == Init => GInv
<1> SUFFICES ASSUME Init PROVE GInv
  OBVIOUS
<1> USE GossipAssumption
<1>1. TypeOK
  <2>1. /\ neighbors \in [Node -> SUBSET Node]
        /\ route \in [Node -> {"none", "direct", "relayed"}]
    BY DEF Init
  <2>2. /\ table \in [Node -> 0..MaxSeq] /\ lost \in 0..MaxLost /\ net \subseteq Packet
        /\ up \in [Node -> BOOLEAN] /\ unsent \subseteq Rumor
        /\ second \in [Node -> Rumor \cup {0}] /\ blocked \in [Node -> BOOLEAN]
    BY DEF Init
  <2>3. /\ made \in [Node -> BOOLEAN]
        /\ eagers \in [Node -> SUBSET Node] /\ lazys \in [Node -> SUBSET Node]
        /\ receivedMsg \in [Node -> SUBSET Rumor] /\ snaps \in [Node -> SUBSET Rumor]
        /\ lazyQueue \in [Node -> [Rumor -> SUBSET Node]]
        /\ rumorQueue \in [Node -> SUBSET Entry]
    BY DEF Init
  <2>4. /\ lazyPeers \in [Node -> [Rumor -> Seq(Node)]]
        /\ graft \in [Node -> [Rumor -> Graft]]
    BY EmptySeq DEF Init, NoGraft, Graft
  <2> QED BY <2>1, <2>2, <2>3, <2>4 DEF TypeOK
<1>2. Backed
  <2>1. ASSUME NEW n \in Node PROVE PeerBacked(n)
    <3>1. /\ table[n] = 0 /\ table[Origin] = 0 /\ second[n] = 0
          /\ receivedMsg[n] = {} /\ snaps[n] = {} /\ rumorQueue[n] = {}
      BY DEF Init
    <3>2. ASSUME NEW k \in Rumor
          PROVE  lazyQueue[n][k] = {} /\ lazyPeers[n][k] = <<>> /\ graft[n][k] = NoGraft
      BY DEF Init
    <3>3. Len(<<>>) = 0 /\ NoGraft.pc = "none"
      BY EmptySeq DEF NoGraft
    <3> QED BY <3>1, <3>2, <3>3 DEF PeerBacked, InTable
  <2>2. unsent = {} /\ net = {}
    BY DEF Init
  <2> QED BY <2>1, <2>2 DEF Backed
<1> QED BY <1>1, <1>2 DEF GInv

LEMMA GInvNext == GInv /\ [Next]_vars => GInv'
<1> SUFFICES ASSUME GInv, [Next]_vars PROVE GInv'
  OBVIOUS
<1>1. CASE BroadcastNew
  BY <1>1, BroadcastNewKeeps
<1>2. ASSUME NEW k \in Rumor, BroadcastPush(k) PROVE GInv'
  BY <1>2, BroadcastPushKeeps
<1>3. ASSUME NEW n \in Node, SecondRumor(n) PROVE GInv'
  BY <1>3, SecondRumorKeeps
<1>4. ASSUME NEW n \in Node, NEW pkt \in net,
             \/ ExecRumor(n, pkt) \/ ExecRumors(n, pkt) \/ ExecAck(n, pkt)
             \/ ExecPrune(n, pkt) \/ ExecIHave(n, pkt) \/ ExecGraft(n, pkt)
             \/ ExecStatus(n, pkt)
      PROVE  GInv'
  BY <1>4, ExecRumorKeeps, ExecRumorsKeeps, ExecAckKeeps, ExecPruneKeeps, ExecIHaveKeeps,
     ExecGraftKeeps, ExecStatusKeeps
<1>5. ASSUME NEW n \in Node, NEW e \in rumorQueue[n], ReSendRumor(n, e) PROVE GInv'
  BY <1>5, ReSendRumorKeeps
<1>6. ASSUME NEW n \in Node, NEW k \in Rumor,
             \/ SendIHaveMsg(n, k) \/ LazyQueueSender(n, k) \/ GraftTimeout(n, k)
             \/ GraftDone(n, k) \/ SendGraftMsg(n, k)
      PROVE  GInv'
  BY <1>6, SendIHaveMsgKeeps, LazyQueueSenderKeeps, GraftWaitKeeps, SendGraftMsgKeeps
<1>7. ASSUME NEW n \in Node, NEW m \in Node, SendStatus(n, m) \/ AddPeer(n, m) PROVE GInv'
  BY <1>7, SendStatusKeeps, AddPeerKeeps
<1>8. CASE (\E n \in Node : Stop(n)) \/ (\E pkt \in net : Lose(pkt))
  BY <1>8, FailureKeeps
<1>9. CASE UNCHANGED vars
  <2>1. /\ UNCHANGED <<netVars, linkVars, procVars, treeVars, graftVars, ihaveVars>>
        /\ UNCHANGED rumorQueue
    BY <1>9 DEF vars
  <2>2. TypeOK'
    BY <2>1 DEF GInv, TypeOK, netVars, linkVars, procVars, treeVars, graftVars, ihaveVars
  <2> QED BY <2>1, <2>2, Frame, BackedKept
          DEF GInv, netVars, linkVars, procVars, treeVars, graftVars, ihaveVars
<1> QED BY <1>1, <1>2, <1>3, <1>4, <1>5, <1>6, <1>7, <1>8, <1>9 DEF Next, Process

\* Whatever a peer announces, forwards, resends, acknowledges or is asked for is in its
\* rumor table: the handlers, the goroutines of plumTree.go and the Sender together keep
\* this, whatever is lost, late or stopped.
THEOREM BackedHolds == Spec => []Backed
<1>1. Spec => []GInv
  BY GInvInit, GInvNext, PTL DEF Spec
<1> QED BY <1>1, PTL DEF GInv

\* Every state has its type.
THEOREM TypeCorrect == Spec => []TypeOK
<1>1. Spec => []GInv
  BY GInvInit, GInvNext, PTL DEF Spec
<1> QED BY <1>1, PTL DEF GInv

\* ExecGraftMessage never asks GetInterval for a rumor beyond the end of the table.
THEOREM GraftsAnswerable == Spec => []GraftAnswerable
<1>1. GInv => GraftAnswerable
  BY PacketFacts DEF GInv, GraftAnswerable
<1>2. Spec => []GInv
  BY GInvInit, GInvNext, PTL DEF Spec
<1> QED BY <1>1, <1>2, PTL

-----------------------------------------------------------------------------
(* Acknowledgements.                                                       *)

LEMMA PushGrows ==
  ASSUME TypeOK, NEW n \in Node, NEW peers, NEW k, NEW id, Push(n, peers, k, id)
  PROVE  \A m \in Node : rumorQueue[m] \subseteq rumorQueue'[m]
<1>1. PICK new : rumorQueue' = [rumorQueue EXCEPT ![n] = rumorQueue[n] \cup new]
  BY DEF Push
<1> QED BY <1>1 DEF TypeOK

\* Only the handler of acks takes an entry out of the queue.
LEMMA QueueGrows ==
  ASSUME TypeOK, [Next]_vars, ~ \E n \in Node : \E pkt \in net : ExecAck(n, pkt)
  PROVE  \A m \in Node : rumorQueue[m] \subseteq rumorQueue'[m]
<1>1. CASE UNCHANGED rumorQueue
  BY <1>1
<1>2. ASSUME NEW k \in Rumor, BroadcastPush(k)
      PROVE  \A m \in Node : rumorQueue[m] \subseteq rumorQueue'[m]
  BY <1>2, PushGrows, GossipAssumption DEF BroadcastPush
<1>3. ASSUME NEW n \in Node, NEW pkt \in net, ExecRumor(n, pkt) \/ ExecRumors(n, pkt)
      PROVE  \A m \in Node : rumorQueue[m] \subseteq rumorQueue'[m]
  <2>1. (\E k, acks : TreeStep(n, pkt, k, acks)) \/ NoTreeStep(pkt)
    BY <1>3 DEF ExecRumor, ExecRumors
  <2>2. ASSUME NEW k, NEW acks, Forward(n, pkt, k, acks)
        PROVE  \A m \in Node : rumorQueue[m] \subseteq rumorQueue'[m]
    BY <2>2, PushGrows DEF Forward
  <2> QED BY <2>1, <2>2, <1>1 DEF TreeStep, SendPrune, NoTreeStep
<1>4. ASSUME NEW n \in Node, NEW pkt \in net, ExecGraft(n, pkt)
      PROVE  \A m \in Node : rumorQueue[m] \subseteq rumorQueue'[m]
  BY <1>4, PushGrows DEF ExecGraft
<1>5. \/ UNCHANGED rumorQueue
      \/ \E k \in Rumor : BroadcastPush(k)
      \/ \E n \in Node : \E pkt \in net :
           ExecRumor(n, pkt) \/ ExecRumors(n, pkt) \/ ExecGraft(n, pkt)
  <2>1. CASE Next
    <3>1. ASSUME \/ BroadcastNew
                 \/ \E n \in Node : SecondRumor(n) \/ Stop(n)
                 \/ \E n \in Node : \E e \in rumorQueue[n] : ReSendRumor(n, e)
                 \/ \E n, m \in Node : SendStatus(n, m) \/ AddPeer(n, m)
                 \/ \E pkt \in net : Lose(pkt)
          PROVE  UNCHANGED rumorQueue
      BY <3>1 DEF BroadcastNew, SecondRumor, Stop, ReSendRumor, SendStatus, AddPeer, Lose
    <3>2. ASSUME NEW n \in Node, NEW k \in Rumor,
                 \/ SendIHaveMsg(n, k) \/ LazyQueueSender(n, k) \/ GraftTimeout(n, k)
                 \/ GraftDone(n, k) \/ SendGraftMsg(n, k)
          PROVE  UNCHANGED rumorQueue
      BY <3>2 DEF SendIHaveMsg, LazyQueueSender, GraftTimeout, GraftDone, SendGraftMsg
    <3>3. ASSUME NEW n \in Node, NEW pkt \in net,
                 ExecPrune(n, pkt) \/ ExecIHave(n, pkt) \/ ExecStatus(n, pkt)
          PROVE  UNCHANGED rumorQueue
      BY <3>3 DEF ExecPrune, ExecIHave, ExecStatus
    <3> QED BY <2>1, <3>1, <3>2, <3>3 DEF Next, Process
  <2>2. CASE UNCHANGED vars
    BY <2>2 DEF vars
  <2> QED BY <2>1, <2>2
<1> QED BY <1>1, <1>2, <1>3, <1>4, <1>5

\* A queued rumor is given up only when its destination has accepted it, for any losses,
\* repetitions and overtakings: the packet ID that an ack carries is enough, though
\* ExecAckMessage looks at nothing else.
THEOREM AcksMeanAccepted == Spec => AckMeansAccepted
<1>1. ASSUME GInv, [Next]_vars, NEW n \in Node, NEW e \in rumorQueue[n], e \notin rumorQueue'[n]
      PROVE  e.seq <= table[e.dest]
  <2>1. PICK m \in Node, pkt \in net : ExecAck(m, pkt)
    BY <1>1, QueueGrows DEF GInv
  <2> DEFINE d == [dest |-> pkt.src, seq |-> pkt.seq, id |-> pkt.id]
  <2>2. rumorQueue' = [rumorQueue EXCEPT ![m] = rumorQueue[m] \ {d}]
    BY <2>1 DEF ExecAck
  <2>3. d.seq <= table[d.dest]
    BY <1>1, <2>1, PacketFacts DEF ExecAck, GInv
  <2> HIDE DEF d
  <2>4. e = d
    BY <1>1, <2>2 DEF GInv, TypeOK
  <2> QED BY <2>3, <2>4
<1>2. GInv /\ [Next]_vars =>
        [\A n \in Node : \A e \in rumorQueue[n] :
           e \notin rumorQueue'[n] => e.seq <= table[e.dest]]_vars
  BY <1>1
<1> QED BY <1>2, GInvInit, GInvNext, PTL DEF Spec, AckMeansAccepted

-----------------------------------------------------------------------------
(* Refinement.                                                             *)

\* The rumor that a handler accepts is one that the origin has.
LEMMA TableStep ==
  ASSUME GInv, [Next]_vars
  PROVE  \/ UNCHANGED table
         \/ BroadcastNew
         \/ \E n \in Node, k \in Rumor : k <= table[Origin] /\ Accept(n, k)
<1>1. ASSUME NEW n \in Node, NEW pkt \in net, ExecRumor(n, pkt) \/ ExecRumors(n, pkt)
      PROVE  pkt.lo \in Rumor /\ pkt.lo <= table[Origin] /\ Accept(n, pkt.lo)
  <2>1. /\ pkt.src \in Node /\ pkt.lo \in Rumor /\ pkt.hi \in Rumor
        /\ pkt.hi <= table[pkt.src]
    BY <1>1, PacketFacts DEF GInv, ExecRumor, ExecRumors
  <2>2. pkt.lo <= pkt.hi
    BY <1>1, <2>1, RumorFacts DEF ExecRumor, ExecRumors
  <2>3. table[pkt.src] <= table[Origin]
    BY <2>1 DEF GInv, Backed, PeerBacked
  <2>4. table[pkt.src] \in Nat /\ table[Origin] \in Nat
    BY <2>1, GossipAssumption DEF GInv, TypeOK
  <2> QED BY <1>1, <2>1, <2>2, <2>3, <2>4, RumorFacts DEF ExecRumor, ExecRumors
<1>2. ASSUME NEW n \in Node, SecondRumor(n)
      PROVE  second[n] \in Rumor /\ second[n] <= table[Origin] /\ Accept(n, second[n])
  BY <1>2 DEF SecondRumor, GInv, TypeOK, Backed, PeerBacked, InTable
<1>3. \/ UNCHANGED table
      \/ BroadcastNew
      \/ \E n \in Node : SecondRumor(n)
      \/ \E n \in Node : \E pkt \in net : ExecRumor(n, pkt) \/ ExecRumors(n, pkt)
  <2>1. CASE Next
    <3>1. ASSUME \/ \E k \in Rumor : BroadcastPush(k)
                 \/ \E n \in Node : Stop(n)
                 \/ \E n \in Node : \E e \in rumorQueue[n] : ReSendRumor(n, e)
                 \/ \E n, m \in Node : SendStatus(n, m) \/ AddPeer(n, m)
                 \/ \E pkt \in net : Lose(pkt)
          PROVE  UNCHANGED table
      BY <3>1 DEF BroadcastPush, Stop, ReSendRumor, SendStatus, AddPeer, Lose, procVars
    <3>2. ASSUME NEW n \in Node, NEW k \in Rumor,
                 \/ SendIHaveMsg(n, k) \/ LazyQueueSender(n, k) \/ GraftTimeout(n, k)
                 \/ GraftDone(n, k) \/ SendGraftMsg(n, k)
          PROVE  UNCHANGED table
      BY <3>2 DEF SendIHaveMsg, LazyQueueSender, GraftTimeout, GraftDone, SendGraftMsg, procVars
    <3>3. ASSUME NEW n \in Node, NEW pkt \in net,
                 \/ ExecAck(n, pkt) \/ ExecPrune(n, pkt) \/ ExecIHave(n, pkt)
                 \/ ExecGraft(n, pkt) \/ ExecStatus(n, pkt)
          PROVE  UNCHANGED table
      BY <3>3 DEF ExecAck, ExecPrune, ExecIHave, ExecGraft, ExecStatus, procVars
    <3> QED BY <2>1, <3>1, <3>2, <3>3 DEF Next, Process
  <2>2. CASE UNCHANGED vars
    BY <2>2 DEF vars, procVars
  <2> QED BY <2>1, <2>2
<1> QED BY <1>1, <1>2, <1>3

LEMMA OrderInit == Init => Order!Init
BY GossipAssumption DEF Init, Order!Init

LEMMA OrderNext == GInv /\ [Next]_vars => [Order!Next]_(Order!orderVars)
<1> SUFFICES ASSUME GInv, [Next]_vars PROVE [Order!Next]_(Order!orderVars)
  OBVIOUS
<1> USE GossipAssumption
<1> DEFINE acc == [p \in Node \ {Origin} |-> table[p]]
<1>1. /\ table \in [Node -> 0..MaxSeq]
      /\ \A m \in Node : table[m] \in Nat
  BY DEF GInv, TypeOK
<1>2. CASE UNCHANGED table
  BY <1>2 DEF Order!orderVars
<1>3. CASE BroadcastNew
  <2>1. table' = [table EXCEPT ![Origin] = table[Origin] + 1]
    BY <1>3 DEF BroadcastNew
  <2>2. table'[Origin] = table[Origin] + 1 /\ acc' = acc
    BY <1>1, <2>1
  <2> QED BY <2>2 DEF Order!Next, Order!Broadcast
<1>4. ASSUME NEW n \in Node, NEW k \in Rumor, k <= table[Origin], Accept(n, k), table' # table
      PROVE  Order!Next
  <2>1. table' = [table EXCEPT ![n] = IF k = table[n] + 1 THEN k ELSE table[n]]
    BY <1>4 DEF Accept
  <2>2. k = table[n] + 1
    BY <1>1, <1>4, <2>1
  <2>3. n # Origin
    BY <1>1, <1>4, <2>2
  <2>4. /\ acc[n] = table[n] /\ acc[n] < table[Origin]
        /\ table'[Origin] = table[Origin]
        /\ acc' = [acc EXCEPT ![n] = acc[n] + 1]
    <3>1. acc[n] = table[n] /\ acc[n] < table[Origin] /\ table'[Origin] = table[Origin]
      BY <1>1, <1>4, <2>1, <2>2, <2>3
    <3>2. ASSUME NEW p \in Node \ {Origin}
          PROVE  table'[p] = IF p = n THEN table[n] + 1 ELSE table[p]
      BY <1>1, <2>1, <2>2
    <3>3. acc' = [p \in Node \ {Origin} |-> IF p = n THEN table[n] + 1 ELSE table[p]]
      BY <3>2
    <3>4. [acc EXCEPT ![n] = acc[n] + 1] =
            [p \in Node \ {Origin} |-> IF p = n THEN table[n] + 1 ELSE table[p]]
      BY <2>3
    <3> QED BY <3>1, <3>3, <3>4
  <2>5. Order!Accept(n)
    BY <2>4 DEF Order!Accept
  <2> QED BY <2>3, <2>5 DEF Order!Next
<1> QED BY <1>2, <1>3, <1>4, TableStep

\* The rumor tables implement RumorOrder: TryToAcceptOrigin lets the rumors of an origin
\* through in order, each once, on top of packets that overtake each other and are sent
\* again.  Pbft builds on this.
THEOREM Refinement == Spec => ImplementsRumorOrder
BY GInvInit, GInvNext, OrderInit, OrderNext, PTL
   DEF Spec, ImplementsRumorOrder, Order!Spec

-----------------------------------------------------------------------------
(* Nobody is forgotten.                                                    *)

\* m resends rumor k to p.
Queued(m, p, k) == \E e \in rumorQueue[m] : e.dest = p /\ e.seq = k

\* p is told of rumor k, or asks for it.
Announced(p, k) ==
  \/ \E pkt \in net : pkt.type = "ihave" /\ pkt.dst = p /\ pkt.seq = k
  \/ graft[p][k].pc # "none"

\* Every neighbour is in the tree.
InTree == \A m \in Node : neighbors[m] \subseteq Eagers(m) \cup Lazys(m)

\* Who has been told of a rumor asks for it until it comes.
Asking ==
  \A p \in Node, k \in Rumor :
    lazyPeers[p][k] # <<>> /\ k \notin receivedMsg[p] => graft[p][k].pc # "none"

\* Between a push and the goroutine that reads the lazy list, a neighbour that lacks
\* the rumor was sent it, or is still in that list.
Snapped ==
  \A m \in Node : \A p \in neighbors[m] : \A k \in snaps[m] :
    table[p] < k => Queued(m, p, k) \/ p \in Lazys(m)

\* A neighbour that lacks a rumor which m has passed on will be sent it or told of
\* it by m, or was told.
Kept ==
  \A m \in Node : \A p \in neighbors[m] : \A k \in receivedMsg[m] :
    up[m] /\ up[p] /\ table[p] < k =>
      \/ Queued(m, p, k)
      \/ k \in snaps[m] /\ p \in Lazys(m)
      \/ p \in lazyQueue[m][k]
      \/ Announced(p, k)

KInv == InTree /\ Asking /\ Snapped /\ Kept

\* What a step has to show, for each part of KInv.
LinksKept == neighbors' = neighbors /\ \A m \in Node : up'[m] => up[m]

TreeKept ==
  \A m \in Node :
    /\ Eagers(m) \cup Lazys(m) \subseteq (Eagers(m) \cup Lazys(m))'
    /\ snaps[m] # {} => Lazys(m) \subseteq Lazys(m)'

QueueKept ==
  \A m \in Node : \A e \in rumorQueue[m] : e \in rumorQueue'[m] \/ e.seq <= table[e.dest]

NewlySnapped ==
  \A m \in Node :
    /\ receivedMsg'[m] \subseteq receivedMsg[m] \cup snaps'[m]
    /\ \A k \in snaps'[m] \ snaps[m] : \A p \in neighbors[m] :
         table[p] < k => Queued(m, p, k)' \/ p \in Lazys(m)'

HandedOver ==
  \A m \in Node, k \in Rumor :
    /\ k \in snaps[m] => k \in snaps'[m] \/ Lazys(m) \subseteq lazyQueue'[m][k]
    /\ \A p \in lazyQueue[m][k] :
         p \in lazyQueue'[m][k] \/ k \in snaps[m] \/ (up[p] => Announced(p, k)')

IHavesKept ==
  \A q \in net : q.type = "ihave" /\ up'[q.dst] =>
    q \in net' \/ q.seq <= table[q.dst] \/ graft'[q.dst][q.seq].pc # "none"

GraftsKept ==
  \A p \in Node, k \in Rumor :
    graft[p][k].pc # "none" => graft'[p][k].pc # "none" \/ k <= table[p]

\* The argument, once for all actions.
LEMMA KeptNext ==
  ASSUME TypeOK, TypeOK', KInv, \A m \in Node : table[m] <= table'[m],
         LinksKept, TreeKept, QueueKept, NewlySnapped, HandedOver, IHavesKept, GraftsKept,
         Asking'
  PROVE  KInv'
<1>1. /\ \A m \in Node : table[m] \in Nat /\ table'[m] \in Nat
      /\ \A k \in Rumor : k \in Nat
      /\ \A m \in Node : neighbors[m] \subseteq Node
      /\ \A m \in Node : snaps'[m] \subseteq Rumor /\ receivedMsg'[m] \subseteq Rumor
  BY GossipAssumption DEF TypeOK, Rumor
<1>2. InTree'
  BY DEF KInv, InTree, LinksKept, TreeKept
<1>3. ASSUME NEW m \in Node, NEW p \in Node, NEW k \in Rumor, table[p] < k, Queued(m, p, k)
      PROVE  Queued(m, p, k)'
  <2>1. PICK e \in rumorQueue[m] : e.dest = p /\ e.seq = k
    BY <1>3 DEF Queued
  <2>2. e \in rumorQueue'[m]
    BY <1>1, <1>3, <2>1 DEF QueueKept
  <2> QED BY <2>1, <2>2 DEF Queued
<1>4. ASSUME NEW p \in Node, NEW k \in Rumor, table[p] < k, up'[p], Announced(p, k)
      PROVE  Announced(p, k)'
  <2>1. CASE graft[p][k].pc # "none"
    BY <1>1, <1>3, <1>4, <2>1 DEF GraftsKept, Announced
  <2>2. ASSUME NEW q \in net, q.type = "ihave", q.dst = p, q.seq = k
        PROVE  Announced(p, k)'
    BY <1>1, <1>4, <2>2 DEF IHavesKept, Announced
  <2> QED BY <1>4, <2>1, <2>2 DEF Announced
<1>5. ASSUME NEW m \in Node, NEW p \in neighbors[m], NEW k \in snaps'[m], table'[p] < k
      PROVE  Queued(m, p, k)' \/ p \in Lazys(m)'
  <2>1. p \in Node /\ k \in Rumor /\ table[p] < k
    BY <1>1, <1>5
  <2>2. CASE k \in snaps[m]
    <3>1. Queued(m, p, k) \/ p \in Lazys(m)
      BY <2>1, <2>2 DEF KInv, Snapped
    <3> QED BY <1>3, <2>1, <2>2, <3>1 DEF TreeKept
  <2>3. CASE k \notin snaps[m]
    BY <1>5, <2>1, <2>3 DEF NewlySnapped
  <2> QED BY <2>2, <2>3
<1>6. Snapped'
  BY <1>5 DEF Snapped, LinksKept
<1>7. ASSUME NEW m \in Node, NEW p \in neighbors[m], NEW k \in receivedMsg'[m],
             up'[m], up'[p], table'[p] < k
      PROVE  \/ Queued(m, p, k)'
             \/ k \in snaps'[m] /\ p \in Lazys(m)'
             \/ p \in lazyQueue'[m][k]
             \/ Announced(p, k)'
  <2>1. /\ p \in Node /\ k \in Rumor /\ table[p] < k /\ up[m] /\ up[p]
    BY <1>1, <1>7 DEF LinksKept
  <2>2. CASE k \in snaps'[m]
    BY <1>5, <1>7, <2>2
  <2>3. CASE k \notin snaps'[m] /\ k \in snaps[m]
    <3>1. Queued(m, p, k) \/ p \in Lazys(m)
      BY <2>1, <2>3 DEF KInv, Snapped
    <3> QED BY <1>3, <2>1, <2>3, <3>1 DEF HandedOver
  <2>4. CASE k \notin snaps'[m] /\ k \notin snaps[m]
    <3>1. k \in receivedMsg[m]
      BY <1>7, <2>4 DEF NewlySnapped
    <3>2. Queued(m, p, k) \/ p \in lazyQueue[m][k] \/ Announced(p, k)
      BY <2>1, <2>4, <3>1 DEF KInv, Kept
    <3> QED BY <1>3, <1>4, <1>7, <2>1, <2>4, <3>2 DEF HandedOver
  <2> QED BY <2>2, <2>3, <2>4
<1>8. Kept'
  BY <1>7 DEF Kept, LinksKept
<1> QED BY <1>2, <1>6, <1>8 DEF KInv


\* All that a step has to show.
Tended ==
  /\ LinksKept /\ TreeKept /\ QueueKept /\ NewlySnapped /\ HandedOver
  /\ IHavesKept /\ GraftsKept /\ Asking'

\* What a step leaves alone, it need not show.
LEMMA LeftAlone ==
  ASSUME TypeOK, KInv
  PROVE  /\ UNCHANGED <<up, neighbors>> => LinksKept
         /\ UNCHANGED <<neighbors, made, eagers, lazys>> => TreeKept
         /\ UNCHANGED rumorQueue => QueueKept
         /\ UNCHANGED <<receivedMsg, snaps>> => NewlySnapped
         /\ UNCHANGED ihaveVars => HandedOver
         /\ UNCHANGED graftVars => GraftsKept
         /\ UNCHANGED <<graftVars, receivedMsg>> => Asking'
<1>1. UNCHANGED <<up, neighbors>> => LinksKept
  BY DEF LinksKept
<1>2. UNCHANGED <<neighbors, made, eagers, lazys>> => TreeKept
  BY DEF TreeKept, Eagers, Lazys
<1>3. UNCHANGED rumorQueue => QueueKept
  BY DEF QueueKept
<1>4. UNCHANGED <<receivedMsg, snaps>> => NewlySnapped
  BY DEF NewlySnapped
<1>5. UNCHANGED ihaveVars => HandedOver
  BY DEF HandedOver, ihaveVars
<1>6. UNCHANGED graftVars => GraftsKept
  BY DEF GraftsKept, graftVars
<1>7. UNCHANGED <<graftVars, receivedMsg>> => Asking'
  BY DEF KInv, Asking, graftVars
<1> QED BY <1>1, <1>2, <1>3, <1>4, <1>5, <1>6, <1>7

\* The IHaves on their way stay, unless the step takes one.
LEMMA IHavesStay ==
  ASSUME NEW pkts,
         \/ UNCHANGED net
         \/ Send(pkts)
         \/ \E pkt \in net : pkt.type # "ihave" /\ Reply(pkt, pkts)
  PROVE  IHavesKept
BY DEF IHavesKept, Send, Reply

\* A change of the tree that drops nobody, and takes nobody from the lazy list that a
\* goroutine is about to read.
LEMMA TreeChange ==
  ASSUME TypeOK, NEW n \in Node, NEW e, NEW l, SetTree(n, e, l), neighbors' = neighbors,
         Eagers(n) \cup Lazys(n) \subseteq e \cup l,
         snaps[n] # {} => Lazys(n) \subseteq l
  PROVE  TreeKept /\ Eagers(n)' = e /\ Lazys(n)' = l
<1>1. /\ made' = [made EXCEPT ![n] = TRUE]
      /\ eagers' = [eagers EXCEPT ![n] = e]
      /\ lazys' = [lazys EXCEPT ![n] = l]
      /\ made \in [Node -> BOOLEAN] /\ eagers \in [Node -> SUBSET Node]
      /\ lazys \in [Node -> SUBSET Node]
  BY DEF SetTree, TypeOK
<1>2. made'[n] = TRUE /\ eagers'[n] = e /\ lazys'[n] = l
  BY <1>1
<1>3. Eagers(n)' = e /\ Lazys(n)' = l
  BY <1>2 DEF Eagers, Lazys
<1>4. ASSUME NEW m \in Node, m # n PROVE Eagers(m)' = Eagers(m) /\ Lazys(m)' = Lazys(m)
  BY <1>1, <1>4 DEF Eagers, Lazys
<1> QED BY <1>3, <1>4 DEF TreeKept

\* A Graft and a Prune move a peer between the lists.
LEMMA TreeMove ==
  ASSUME TypeOK, NEW n \in Node, NEW m, MoveToEager(n, m) \/ MoveToLazy(n, m),
         neighbors' = neighbors, snaps[n] = {}
  PROVE  TreeKept
<1>1. CASE MoveToEager(n, m)
  BY <1>1, TreeChange DEF MoveToEager
<1>2. CASE MoveToLazy(n, m)
  BY <1>2, TreeChange DEF MoveToLazy
<1> QED BY <1>1, <1>2

\* Who is pushed a rumor is in the queue.
LEMMA PushQueues ==
  ASSUME TypeOK, NEW n \in Node, NEW peers, NEW k, NEW id, Push(n, peers, k, id)
  PROVE  /\ QueueKept
         /\ \A p \in peers : Queued(n, p, k)'
<1> DEFINE new == {[dest |-> m, seq |-> k, id |-> id] : m \in peers}
<1>1. rumorQueue'[n] = rumorQueue[n] \cup new
  BY DEF Push, TypeOK
<1>2. ASSUME NEW p \in peers PROVE Queued(n, p, k)'
  <2> DEFINE e == [dest |-> p, seq |-> k, id |-> id]
  <2>1. e \in rumorQueue'[n] /\ e.dest = p /\ e.seq = k
    BY <1>1
  <2> QED BY <2>1 DEF Queued
<1>3. QueueKept
  BY PushGrows DEF QueueKept
<1> QED BY <1>2, <1>3

\* Steps that have to do with none of this.
LEMMA IdleTended ==
  ASSUME GInv, KInv,
         \/ BroadcastNew
         \/ \E n \in Node : SecondRumor(n)
         \/ \E n \in Node : \E e \in rumorQueue[n] : ReSendRumor(n, e)
         \/ \E n, m \in Node : SendStatus(n, m)
         \/ \E n \in Node : \E pkt \in net : ExecStatus(n, pkt)
         \/ UNCHANGED vars
  PROVE  Tended
<1>1. /\ UNCHANGED <<up, linkVars, treeVars, graftVars, ihaveVars, rumorQueue>>
      /\ \/ UNCHANGED net
         \/ \E pkts : Send(pkts)
         \/ \E pkts : \E pkt \in net : pkt.type # "ihave" /\ Reply(pkt, pkts)
  <2>1. CASE BroadcastNew \/ (\E n \in Node : SecondRumor(n)) \/ UNCHANGED vars
    BY <2>1 DEF BroadcastNew, SecondRumor, vars, netVars
  <2>2. ASSUME NEW n \in Node,
               \/ \E e \in rumorQueue[n] : ReSendRumor(n, e)
               \/ \E m \in Node : SendStatus(n, m)
        PROVE  UNCHANGED <<up, linkVars, treeVars, graftVars, ihaveVars, rumorQueue>>
               /\ \E pkts : Send(pkts)
    BY <2>2 DEF ReSendRumor, SendStatus
  <2>3. ASSUME NEW n \in Node, NEW pkt \in net, ExecStatus(n, pkt)
        PROVE  UNCHANGED <<up, linkVars, treeVars, graftVars, ihaveVars, rumorQueue>>
               /\ pkt.type # "ihave" /\ \E pkts : Reply(pkt, pkts)
    BY <2>3 DEF ExecStatus
  <2> QED BY <2>1, <2>2, <2>3
<1>2. IHavesKept
  BY <1>1, IHavesStay
<1>3. UNCHANGED <<up, neighbors, made, eagers, lazys, receivedMsg, snaps>>
  BY <1>1 DEF linkVars, treeVars, ihaveVars
<1> QED BY <1>1, <1>2, <1>3, LeftAlone DEF GInv, Tended

\* A stopped peer waits for nothing, and only other packets than IHaves are lost.
LEMMA FailureTended ==
  ASSUME GInv, KInv, "ihave" \notin Lossy,
         (\E n \in Node : Stop(n)) \/ (\E pkt \in net : Lose(pkt))
  PROVE  Tended
<1>1. UNCHANGED <<neighbors, made, eagers, lazys, receivedMsg, snaps, ihaveVars, graftVars,
                  rumorQueue>>
  BY DEF Stop, Lose, linkVars, treeVars, ihaveVars, graftVars
<1>2. LinksKept
  BY DEF Stop, Lose, linkVars, LinksKept, GInv, TypeOK
<1>3. IHavesKept
  <2>1. ASSUME NEW n \in Node, Stop(n) PROVE IHavesKept
    BY <2>1 DEF Stop, IHavesKept, GInv, TypeOK
  <2>2. ASSUME NEW pkt \in net, Lose(pkt) PROVE IHavesKept
    BY <2>2 DEF Lose, IHavesKept
  <2> QED BY <2>1, <2>2
<1> QED BY <1>1, <1>2, <1>3, LeftAlone DEF GInv, Tended

\* An entry is taken from the queue only when its rumor was accepted.
LEMMA AckTended ==
  ASSUME GInv, KInv, NEW n \in Node, NEW pkt \in net, ExecAck(n, pkt)
  PROVE  Tended
<1>1. /\ UNCHANGED <<up, neighbors, made, eagers, lazys, receivedMsg, snaps, ihaveVars,
                     graftVars>>
      /\ pkt.type = "ack" /\ Reply(pkt, {})
  BY DEF ExecAck, linkVars, treeVars, ihaveVars
<1>2. IHavesKept
  BY <1>1, IHavesStay
<1>3. QueueKept
  <2> DEFINE d == [dest |-> pkt.src, seq |-> pkt.seq, id |-> pkt.id]
  <2>1. rumorQueue' = [rumorQueue EXCEPT ![n] = rumorQueue[n] \ {d}]
    BY DEF ExecAck
  <2>2. d.seq <= table[d.dest]
    BY <1>1, PacketFacts DEF GInv
  <2> HIDE DEF d
  <2> QED BY <2>1, <2>2 DEF GInv, TypeOK, QueueKept
<1> QED BY <1>1, <1>2, <1>3, LeftAlone DEF GInv, Tended

\* Who is pruned is told of rumors instead, and of those whose lazy list was read before
\* it was sent them.
LEMMA PruneTended ==
  ASSUME GInv, KInv, PromptSnapshots, NEW n \in Node, NEW pkt \in net, ExecPrune(n, pkt)
  PROVE  Tended
<1>1. /\ UNCHANGED <<up, neighbors, receivedMsg, snaps, ihaveVars, graftVars, rumorQueue>>
      /\ pkt.type = "prune" /\ Reply(pkt, {}) /\ snaps[n] = {} /\ MoveToLazy(n, pkt.src)
  BY DEF ExecPrune, Takes, linkVars, ihaveVars
<1>2. IHavesKept
  BY <1>1, IHavesStay
<1>3. TreeKept
  BY <1>1, TreeMove DEF GInv
<1> QED BY <1>1, <1>2, <1>3, LeftAlone DEF GInv, Tended

\* A Graft turns a lazy peer into an eager one, and the rumor goes into the queue.
LEMMA GraftTended ==
  ASSUME GInv, KInv, PromptSnapshots, NEW n \in Node, NEW pkt \in net, ExecGraft(n, pkt)
  PROVE  Tended
<1>1. /\ UNCHANGED <<up, neighbors, receivedMsg, snaps, ihaveVars, graftVars>>
      /\ pkt.type = "graft" /\ Reply(pkt, {RumorTo(n, pkt.src, pkt.seq, pkt.id)})
      /\ snaps[n] = {} /\ MoveToEager(n, pkt.src) /\ Push(n, {pkt.src}, pkt.seq, pkt.id)
  BY DEF ExecGraft, Takes, linkVars, ihaveVars
<1>2. IHavesKept
  BY <1>1, IHavesStay
<1>3. TreeKept
  BY <1>1, TreeMove DEF GInv
<1>4. QueueKept
  BY <1>1, PushQueues DEF GInv
<1> QED BY <1>1, <1>2, <1>3, <1>4, LeftAlone DEF GInv, Tended


\* The IHave that is taken makes its receiver ask, unless the rumor has come.
LEMMA IHaveTended ==
  ASSUME GInv, KInv, NEW n \in Node, NEW pkt \in net, ExecIHave(n, pkt)
  PROVE  Tended
<1> DEFINE k == pkt.seq
<1>1. /\ UNCHANGED <<up, neighbors, receivedMsg, snaps, ihaveVars, rumorQueue>>
      /\ pkt.type = "ihave" /\ pkt.dst = n /\ Reply(pkt, {})
      /\ SetTree(n, Eagers(n), Lazys(n))
  BY DEF ExecIHave, Takes, linkVars, ihaveVars
<1>2. TypeOK /\ k \in Rumor
  BY <1>1, PacketFacts DEF GInv
<1>3. TreeKept
  BY <1>1, <1>2, TreeChange
<1>4. CASE k \in receivedMsg[n]
  <2>1. UNCHANGED graftVars
    BY <1>4 DEF ExecIHave
  <2>2. k <= table[n]
    BY <1>4 DEF GInv, Backed, PeerBacked, InTable
  <2>3. IHavesKept
    BY <1>1, <2>2 DEF IHavesKept, Reply
  <2> QED BY <1>1, <1>2, <1>3, <2>1, <2>3, LeftAlone DEF Tended
<1>5. CASE k \notin receivedMsg[n]
  <2>1. /\ lazyPeers' = [lazyPeers EXCEPT ![n][k] = Append(lazyPeers[n][k], pkt.src)]
        /\ graft' = [graft EXCEPT ![n][k] =
              IF lazyPeers[n][k] = <<>> THEN [graft[n][k] EXCEPT !.pc = "wait"] ELSE graft[n][k]]
    BY <1>5 DEF ExecIHave
  <2>2. /\ lazyPeers \in [Node -> [Rumor -> Seq(Node)]]
        /\ graft \in [Node -> [Rumor -> Graft]]
    BY <1>2 DEF TypeOK
  <2>3. \A p \in Node, j \in Rumor : p # n \/ j # k =>
           lazyPeers'[p][j] = lazyPeers[p][j] /\ graft'[p][j] = graft[p][j]
    BY <2>1, <2>2
  <2>4. graft'[n][k].pc # "none"
    <3>1. graft'[n][k] = IF lazyPeers[n][k] = <<>> THEN [graft[n][k] EXCEPT !.pc = "wait"]
                         ELSE graft[n][k]
      BY <1>2, <2>1, <2>2
    <3>2. CASE lazyPeers[n][k] = <<>>
      <4>1. graft[n][k] \in Graft
        BY <1>2, <2>2
      <4> QED BY <3>1, <3>2, <4>1 DEF Graft
    <3>3. CASE lazyPeers[n][k] # <<>>
      BY <1>2, <1>5, <3>1, <3>3 DEF KInv, Asking
    <3> QED BY <3>2, <3>3
  <2>5. Asking'
    BY <1>1, <2>3, <2>4 DEF KInv, Asking
  <2>6. GraftsKept
    BY <2>3, <2>4 DEF GraftsKept
  <2>7. IHavesKept
    BY <1>1, <2>4 DEF IHavesKept, Reply
  <2> QED BY <1>1, <1>2, <1>3, <2>5, <2>6, <2>7, LeftAlone DEF Tended
<1> QED BY <1>4, <1>5

\* sendIHaveMsg hands over to the lazy queue.
LEMMA SendIHaveTended ==
  ASSUME GInv, KInv, NEW n \in Node, NEW k \in Rumor, SendIHaveMsg(n, k)
  PROVE  Tended
<1>1. /\ UNCHANGED <<up, net, neighbors, receivedMsg, graftVars, rumorQueue>>
      /\ SetTree(n, Eagers(n), Lazys(n))
      /\ snaps' = [snaps EXCEPT ![n] = snaps[n] \ {k}]
      /\ lazyQueue' = [lazyQueue EXCEPT ![n][k] = Lazys(n)]
      /\ k \in snaps[n]
  BY DEF SendIHaveMsg, netVars, linkVars
<1>2. /\ TypeOK /\ snaps \in [Node -> SUBSET Rumor]
      /\ lazyQueue \in [Node -> [Rumor -> SUBSET Node]]
  BY DEF GInv, TypeOK
<1>3. TreeKept
  BY <1>1, <1>2, TreeChange
<1>4. IHavesKept
  BY <1>1, IHavesStay
<1>5. /\ \A m \in Node : snaps'[m] = IF m = n THEN snaps[m] \ {k} ELSE snaps[m]
      /\ \A m \in Node, j \in Rumor :
           lazyQueue'[m][j] = IF m = n /\ j = k THEN Lazys(n) ELSE lazyQueue[m][j]
  BY <1>1, <1>2
<1>6. NewlySnapped
  BY <1>1, <1>5 DEF NewlySnapped
<1>7. HandedOver
  BY <1>1, <1>5 DEF HandedOver
<1> QED BY <1>1, <1>2, <1>3, <1>4, <1>6, <1>7, LeftAlone DEF Tended

\* LazyQueueSender tells those in the queue.
LEMMA LazyQueueTended ==
  ASSUME GInv, KInv, NEW n \in Node, NEW k \in Rumor, LazyQueueSender(n, k)
  PROVE  Tended
<1> DEFINE told == {IHaveTo(n, m, k) : m \in lazyQueue[n][k]}
<1>1. /\ UNCHANGED <<up, neighbors, made, eagers, lazys, receivedMsg, snaps, graftVars,
                     rumorQueue>>
      /\ lazyQueue' = [lazyQueue EXCEPT ![n][k] = {}]
      /\ Send(told)
  BY DEF LazyQueueSender, linkVars, treeVars
<1>2. IHavesKept
  BY <1>1, IHavesStay
<1>3. \A m \in Node, j \in Rumor :
        lazyQueue'[m][j] = IF m = n /\ j = k THEN {} ELSE lazyQueue[m][j]
  BY <1>1 DEF GInv, TypeOK
<1>4. ASSUME NEW p \in lazyQueue[n][k], up[p] PROVE Announced(p, k)'
  <2>1. IHaveTo(n, p, k) \in told /\ IHaveTo(n, p, k).dst = p
    BY DEF IHaveTo
  <2>2. IHaveTo(n, p, k) \in net'
    BY <1>1, <1>4, <2>1 DEF Send, Delivering
  <2> QED BY <2>2 DEF Announced, IHaveTo
<1>5. HandedOver
  BY <1>1, <1>3, <1>4 DEF HandedOver
<1> QED BY <1>1, <1>2, <1>5, LeftAlone DEF GInv, Tended

\* sendGraftMsg goes on until the rumor has come.
LEMMA GraftWaitTended ==
  ASSUME GInv, KInv, NEW n \in Node, NEW k \in Rumor, GraftTimeout(n, k) \/ GraftDone(n, k)
  PROVE  Tended
<1>1. /\ UNCHANGED <<up, net, neighbors, made, eagers, lazys, receivedMsg, snaps, ihaveVars,
                     lazyPeers, rumorQueue>>
      /\ \/ graft' = [graft EXCEPT ![n][k].pc = "send"]
         \/ k \in receivedMsg[n] /\ graft' = [graft EXCEPT ![n][k].pc = "none"]
  BY DEF GraftTimeout, GraftDone, netVars, linkVars, treeVars, ihaveVars
<1>2. IHavesKept
  BY <1>1, IHavesStay
<1>3. graft \in [Node -> [Rumor -> Graft]] /\ graft[n][k] \in Graft
  BY DEF GInv, TypeOK
<1>4. /\ \A m \in Node, j \in Rumor : m # n \/ j # k => graft'[m][j] = graft[m][j]
      /\ graft'[n][k].pc # "none" \/ k \in receivedMsg[n]
  BY <1>1, <1>3 DEF Graft
<1>5. k \in receivedMsg[n] => k <= table[n]
  BY DEF GInv, Backed, PeerBacked, InTable
<1>6. GraftsKept
  BY <1>4, <1>5 DEF GraftsKept
<1>7. Asking'
  BY <1>1, <1>4 DEF KInv, Asking
<1> QED BY <1>1, <1>2, <1>6, <1>7, LeftAlone DEF GInv, Tended

\* The sender of a Graft keeps asking, and moves the peer it asks into its eager list.
LEMMA SendGraftTended ==
  ASSUME GInv, KInv, PromptSnapshots, NEW n \in Node, NEW k \in Rumor, SendGraftMsg(n, k)
  PROVE  Tended
<1> DEFINE i == graft[n][k].index % Len(lazyPeers[n][k])
           m == lazyPeers[n][k][i + 1]
           g == [pc |-> "wait", index |-> i + 1, sent |-> graft[n][k].sent + 1]
<1>1. /\ UNCHANGED <<up, neighbors, receivedMsg, snaps, ihaveVars, lazyPeers, rumorQueue>>
      /\ graft' = [graft EXCEPT ![n][k] = g]
      /\ MoveToEager(n, m) /\ snaps[n] = {}
      /\ Send({GraftTo(n, m, k, graft[n][k].sent + 1)})
  BY ZenonT(60) DEF SendGraftMsg, linkVars, ihaveVars
<1>2. g.pc = "wait"
  OBVIOUS
<1> HIDE DEF g, m
<1>3. IHavesKept
  BY <1>1, IHavesStay
<1>4. TreeKept
  BY <1>1, TreeMove DEF GInv
<1>5. \A p \in Node, j \in Rumor :
        graft'[p][j] = IF p = n /\ j = k THEN g ELSE graft[p][j]
  BY <1>1 DEF GInv, TypeOK
<1>6. GraftsKept
  BY <1>2, <1>5 DEF GraftsKept
<1>7. Asking'
  BY SMTT(30), <1>1, <1>2, <1>5 DEF KInv, Asking
<1> QED BY <1>1, <1>3, <1>4, <1>6, <1>7, LeftAlone DEF GInv, Tended

\* A rumor is passed on: all eager peers but one that has it are sent it, and the
\* lazy ones wait for sendIHaveMsg.
LEMMA PassOn ==
  ASSUME TypeOK, KInv, NEW n \in Node, NEW k \in Rumor, NEW e, NEW peers, NEW x \in Node,
         SetTree(n, e, Lazys(n)), Eagers(n) \subseteq e,
         Eagers(n) \subseteq peers \cup {x}, k <= table[x], Push(n, peers, k, 0),
         receivedMsg' = [receivedMsg EXCEPT ![n] = @ \cup {k}],
         snaps' = [snaps EXCEPT ![n] = @ \cup {k}],
         UNCHANGED <<neighbors, lazyQueue, graftVars>>
  PROVE  TreeKept /\ QueueKept /\ NewlySnapped /\ HandedOver /\ Asking'
<1>1. TreeKept /\ Lazys(n)' = Lazys(n)
  BY TreeChange
<1>2. QueueKept /\ \A p \in peers : Queued(n, p, k)'
  BY PushQueues
<1>3. \A m \in Node :
        /\ receivedMsg'[m] = IF m = n THEN receivedMsg[m] \cup {k} ELSE receivedMsg[m]
        /\ snaps'[m] = IF m = n THEN snaps[m] \cup {k} ELSE snaps[m]
  BY DEF TypeOK
<1>4. ASSUME NEW p \in neighbors[n], table[p] < k
      PROVE  Queued(n, p, k)' \/ p \in Lazys(n)'
  <2>1. p \in Eagers(n) \/ p \in Lazys(n)
    BY DEF KInv, InTree
  <2>2. p # x
    <3>1. k \in Nat /\ table[x] \in Nat
      BY RumorFacts, GossipAssumption DEF TypeOK
    <3> QED BY <1>4, <3>1
  <2> QED BY <1>1, <1>2, <2>1, <2>2
<1>5. NewlySnapped
  BY <1>3, <1>4 DEF NewlySnapped
<1>6. HandedOver
  BY <1>3 DEF HandedOver
<1>7. Asking'
  BY <1>3 DEF KInv, Asking, graftVars
<1> QED BY <1>1, <1>2, <1>5, <1>6, <1>7

\* The origin passes its own rumor on to all its eager peers but itself.
LEMMA BroadcastTended ==
  ASSUME GInv, KInv, NEW k \in Rumor, BroadcastPush(k)
  PROVE  Tended
<1> DEFINE n == Origin
           peers == Eagers(n) \ {n}
<1>1. /\ UNCHANGED <<up, neighbors, lazyQueue, graftVars>>
      /\ SetTree(n, Eagers(n), Lazys(n)) /\ Push(n, peers, k, 0)
      /\ receivedMsg' = [receivedMsg EXCEPT ![n] = @ \cup {k}]
      /\ snaps' = [snaps EXCEPT ![n] = @ \cup {k}]
      /\ \E pkts : Send(pkts)
      /\ k \in unsent
  BY DEF BroadcastPush, linkVars
<1>2. TypeOK /\ n \in Node /\ k <= table[n] /\ Eagers(n) \subseteq peers \cup {n}
  BY <1>1, GossipAssumption DEF GInv, Backed, InTable
<1>3. IHavesKept
  BY <1>1, IHavesStay
<1> HIDE DEF peers, n
<1>4. TreeKept /\ QueueKept /\ NewlySnapped /\ HandedOver /\ Asking'
  BY <1>1, <1>2, PassOn
<1> QED BY <1>1, <1>2, <1>3, <1>4, LeftAlone DEF Tended

\* The handler of rumors: the sender of a rumor has it, and so has whoever is
\* answered by a Prune.
LEMMA RumorTended ==
  ASSUME GInv, KInv, NEW n \in Node, NEW pkt \in net, ExecRumor(n, pkt) \/ ExecRumors(n, pkt)
  PROVE  Tended
<1> DEFINE k == pkt.lo
           m == pkt.src
<1>1. /\ UNCHANGED <<up, neighbors, lazyQueue, graftVars>>
      /\ pkt.lo = pkt.hi \/ pkt.lo < pkt.hi
      /\ NoTreeStep(pkt) \/ \E acks : TreeStep(n, pkt, k, acks)
  BY DEF ExecRumor, ExecRumors
<1>2. pkt.type = "rumor"
  BY DEF ExecRumor, ExecRumors
<1>3. TypeOK /\ m \in Node /\ k \in Rumor /\ k <= table[m]
  <2>1. /\ m \in Node /\ k \in Rumor /\ pkt.hi \in Rumor /\ pkt.hi <= table[m]
    BY <1>2, PacketFacts DEF GInv
  <2>2. table[m] \in Nat
    BY <2>1, GossipAssumption DEF GInv, TypeOK
  <2> QED BY <1>1, <2>1, <2>2, RumorFacts DEF GInv
<1>4. CASE NoTreeStep(pkt)
  <2>1. /\ UNCHANGED <<made, eagers, lazys, receivedMsg, snaps, ihaveVars, rumorQueue>>
        /\ Reply(pkt, {})
    BY <1>1, <1>4 DEF NoTreeStep, treeVars, ihaveVars
  <2>2. IHavesKept
    BY <1>2, <2>1, IHavesStay
  <2> QED BY <1>1, <1>3, <2>1, <2>2, LeftAlone DEF Tended
<1>5. ASSUME NEW acks, Forward(n, pkt, k, acks)
      PROVE  Tended
  <2> DEFINE e == Eagers(n) \cup NewEager(n, m)
             peers == e \ {m}
  <2>1. /\ SetTree(n, e, Lazys(n)) /\ Push(n, peers, k, 0)
        /\ receivedMsg' = [receivedMsg EXCEPT ![n] = @ \cup {k}]
        /\ snaps' = [snaps EXCEPT ![n] = @ \cup {k}]
        /\ \E pkts : Reply(pkt, pkts)
    BY <1>5 DEF Forward
  <2>2. Eagers(n) \subseteq e /\ Eagers(n) \subseteq peers \cup {m}
    OBVIOUS
  <2>3. IHavesKept
    BY <1>2, <2>1, IHavesStay
  <2> HIDE DEF e, peers, k, m
  <2>4. TreeKept /\ QueueKept /\ NewlySnapped /\ HandedOver /\ Asking'
    BY <1>1, <1>3, <2>1, <2>2, PassOn
  <2> QED BY <1>1, <1>3, <2>3, <2>4, LeftAlone DEF Tended
<1>6. ASSUME NEW acks, SendPrune(n, pkt, acks)
      PROVE  Tended
  <2>1. /\ SetTree(n, Eagers(n), Lazys(n) \cup NewLazy(n, m))
        /\ \E pkts : Reply(pkt, pkts)
        /\ UNCHANGED <<receivedMsg, snaps, ihaveVars, rumorQueue>>
    BY <1>1, <1>6 DEF SendPrune, ihaveVars
  <2>2. IHavesKept
    BY <1>2, <2>1, IHavesStay
  <2>3. TreeKept
    BY <1>1, <1>3, <2>1, TreeChange
  <2> QED BY <1>1, <1>3, <2>1, <2>2, <2>3, LeftAlone DEF Tended
<1> QED BY <1>1, <1>4, <1>5, <1>6 DEF TreeStep

\* The tables only grow.
LEMMA TablesGrow ==
  ASSUME GInv, [Next]_vars
  PROVE  \A m \in Node : table[m] <= table'[m]
<1>1. table \in [Node -> 0..MaxSeq] /\ \A m \in Node : table[m] \in Nat
  BY GossipAssumption DEF GInv, TypeOK
<1>2. CASE UNCHANGED table
  BY <1>1, <1>2
<1>3. CASE BroadcastNew
  BY <1>1, <1>3 DEF BroadcastNew
<1>4. ASSUME NEW n \in Node, NEW k \in Rumor, k <= table[Origin], Accept(n, k)
      PROVE  \A m \in Node : table[m] <= table'[m]
  BY <1>4, AcceptFacts DEF GInv, Grown
<1> QED BY <1>2, <1>3, <1>4, TableStep

\* At the start every neighbour is eager and nothing was passed on.
LEMMA KInvInit == Init => KInv
<1> SUFFICES ASSUME Init PROVE KInv
  OBVIOUS
<1>1. InTree
  BY DEF Init, InTree, Eagers, Lazys
<1>2. Asking /\ Snapped /\ Kept
  BY DEF Init, Asking, Snapped, Kept
<1> QED BY <1>1, <1>2 DEF KInv

\* Every step tends what KInv speaks of, and the tables only grow.
LEMMA KInvNext ==
  ASSUME LateLinks = {}, PromptSnapshots, "ihave" \notin Lossy, GInv, KInv, [Next]_vars
  PROVE  KInv'
<1>1. TypeOK /\ TypeOK'
  BY GInvNext DEF GInv
<1>2. \A m \in Node : table[m] <= table'[m]
  BY TablesGrow
<1>3. Tended
  <2>1. ASSUME NEW n \in Node, Process(n) PROVE Tended
    <3>1. ASSUME NEW pkt \in net,
                 \/ ExecRumor(n, pkt) \/ ExecRumors(n, pkt) \/ ExecAck(n, pkt)
                 \/ ExecPrune(n, pkt) \/ ExecIHave(n, pkt) \/ ExecGraft(n, pkt)
                 \/ ExecStatus(n, pkt)
          PROVE  Tended
      BY <3>1, RumorTended, AckTended, PruneTended, IHaveTended, GraftTended, IdleTended
    <3>2. CASE SecondRumor(n)
      BY <3>2, IdleTended
    <3> QED BY <2>1, <3>1, <3>2 DEF Process
  <2>2. ASSUME NEW n \in Node, NEW k \in Rumor,
               \/ SendIHaveMsg(n, k) \/ LazyQueueSender(n, k) \/ GraftTimeout(n, k)
               \/ GraftDone(n, k) \/ SendGraftMsg(n, k)
        PROVE  Tended
    BY <2>2, SendIHaveTended, LazyQueueTended, GraftWaitTended, SendGraftTended
  <2>3. ASSUME NEW n \in Node, NEW m \in Node, SendStatus(n, m) \/ AddPeer(n, m)
        PROVE  Tended
    <3>1. ~AddPeer(n, m)
      BY DEF AddPeer
    <3> QED BY <2>3, <3>1, IdleTended
  <2>4. CASE (\E n \in Node : Stop(n)) \/ (\E pkt \in net : Lose(pkt))
    BY <2>4, FailureTended
  <2>5. ASSUME NEW k \in Rumor, BroadcastPush(k) PROVE Tended
    BY <2>5, BroadcastTended
  <2>6. CASE \/ BroadcastNew
             \/ \E n \in Node : \E e \in rumorQueue[n] : ReSendRumor(n, e)
             \/ UNCHANGED vars
    BY <2>6, IdleTended
  <2> QED BY <2>1, <2>2, <2>3, <2>4, <2>5, <2>6 DEF Next
<1> QED BY <1>1, <1>2, <1>3, KeptNext DEF Tended

\* PlumTree forgets nobody: for any network whose links were there from the start, and
\* whoever is stopped, fails to handle a rumor or moves between the lists, a neighbour
\* of a peer that has passed a rumor on is sent it again, told of it, or asks for it.
\* It takes that the resending is configured, that IHaves, which nobody repeats,
\* arrive, and that sendIHaveMsg reads the lazy list before it changes.
THEOREM NobodyForgottenAlways ==
  ASSUME LateLinks = {}, PromptSnapshots, AckTimeout, "ihave" \notin Lossy
  PROVE  Spec => []NobodyForgotten
<1>1. ASSUME GInv, KInv PROVE NobodyForgotten
  <2> SUFFICES ASSUME NEW m \in Node, NEW p \in Node, up[m], up[p], p \in neighbors[m],
                      table[p] + 1 \in receivedMsg[m]
               PROVE  OnItsWay(p, table[p] + 1)
    BY DEF NobodyForgotten
  <2> DEFINE k == table[p] + 1
  <2>1. table[p] < k
    BY <1>1, GossipAssumption DEF GInv, TypeOK
  <2> HIDE DEF k
  <2>2. \/ Queued(m, p, k)
        \/ k \in snaps[m] /\ p \in Lazys(m)
        \/ p \in lazyQueue[m][k]
        \/ Announced(p, k)
    BY <1>1, <2>1 DEF KInv, Kept, k
  <2>3. OnItsWay(p, k)
    BY <2>2 DEF OnItsWay, Queued, Announced
  <2> QED BY <2>3 DEF k
<1>2. GInv /\ KInv => NobodyForgotten
  BY <1>1
<1>3. Init => GInv /\ KInv
  BY GInvInit, KInvInit
<1>4. GInv /\ KInv /\ [Next]_vars => GInv' /\ KInv'
  BY GInvNext, KInvNext
<1> QED BY <1>2, <1>3, <1>4, PTL DEF Spec

-----------------------------------------------------------------------------
(* At rest the rumors are everywhere.                                      *)
(*                                                                         *)
(* Delivered is about fair behaviours.  This is the part of it that is     *)
(* about states: what holds once everything that fairness makes happen has *)
(* happened, for any network.                                              *)

\* The Processor runs.
Running(n) == up[n] /\ ~blocked[n]

\* It runs, and no handler of a rumor's content fails there.
Reliable(n) == Running(n) /\ \A k \in Rumor : <<n, k>> \notin Failing

\* Nothing is under way that could bring a rumor to a running peer: no packet, no push,
\* no IHave, no Graft, and no queued rumor that its receiver waits for.  (Other rumors
\* are resent for ever to a peer that was stopped or has blocked.)
AtRest ==
  /\ Running(Origin) => unsent = {}
  /\ \A pkt \in net : ~Running(pkt.dst)
  /\ \A n \in Node : up[n] =>
       /\ \A e \in rumorQueue[n] : Running(e.dest) => e.seq # table[e.dest] + 1
       /\ \A k \in Rumor : lazyQueue[n][k] = {}
  /\ \A n \in Node : Running(n) =>
       snaps[n] = {} /\ \A k \in Rumor : graft[n][k].pc = "none"

\* A Processor that blocks has nothing left to do with the message.
NothingLeft == \A m \in Node : blocked[m] => second[m] = 0

\* A peer has passed on every rumor in its table, but the origin those that it has not
\* pushed yet, a blocked peer the rumor with which it blocked, and a peer whose handler
\* failed the rumor it failed for.
PassedOn ==
  \A m \in Node, k \in Rumor : k <= table[m] =>
    \/ k \in receivedMsg[m]
    \/ m = Origin /\ k \in unsent
    \/ blocked[m]
    \/ <<m, k>> \in Failing

\* The table grows by the rumor that is passed on in the same step.
LEMMA RumorPassedOn ==
  ASSUME GInv, PassedOn, NothingLeft,
         NEW n \in Node, NEW pkt \in net, ExecRumor(n, pkt) \/ ExecRumors(n, pkt)
  PROVE  PassedOn' /\ NothingLeft'
<1> DEFINE k == pkt.lo
<1>1. /\ UNCHANGED <<unsent, blocked>>
      /\ pkt.type = "rumor" /\ Accept(n, k) /\ ~blocked[n]
      /\ \A m \in Node : m # n => second'[m] = second[m]
      /\ \/ NoTreeStep(pkt) /\ (Verdict(table[n], k) = "future" \/ Fails(n, k, Verdict(table[n], k)))
         \/ \E acks : TreeStep(n, pkt, k, acks)
  <2>1. CASE ExecRumor(n, pkt)
    BY <2>1 DEF ExecRumor, Takes, Unlocked
  <2>2. CASE ExecRumors(n, pkt)
    BY <2>2 DEF ExecRumors, Takes, Unlocked, GInv, TypeOK
  <2> QED BY <2>1, <2>2
<1>2. /\ table \in [Node -> 0..MaxSeq] /\ k \in Nat
      /\ \A m \in Node : table[m] \in Nat
      /\ receivedMsg \in [Node -> SUBSET Rumor]
  BY SMTT(60), <1>1, PacketFacts, RumorFacts, GossipAssumption DEF GInv, TypeOK
<1>3. /\ \A m \in Node : receivedMsg[m] \subseteq receivedMsg'[m]
      /\ k = table[n] + 1 => k \in receivedMsg'[n] \/ <<n, k>> \in Failing
  <2>1. CASE NoTreeStep(pkt) /\ (Verdict(table[n], k) = "future"
                                   \/ Fails(n, k, Verdict(table[n], k)))
    <3>1. k = table[n] + 1 => Verdict(table[n], k) # "future"
      BY <1>2, VerdictFacts
    <3> QED BY <2>1, <3>1 DEF NoTreeStep, treeVars, Fails
  <2>2. ASSUME NEW acks, k \notin receivedMsg[n], Forward(n, pkt, k, acks)
        PROVE  k \in receivedMsg'[n] /\ \A m \in Node : receivedMsg[m] \subseteq receivedMsg'[m]
    <3>1. receivedMsg' = [receivedMsg EXCEPT ![n] = receivedMsg[n] \cup {k}]
      BY <2>2 DEF Forward
    <3> QED BY <1>2, <3>1
  <2>3. ASSUME NEW acks, k \in receivedMsg[n], SendPrune(n, pkt, acks)
        PROVE  k \in receivedMsg'[n] /\ \A m \in Node : receivedMsg[m] \subseteq receivedMsg'[m]
    BY <2>3 DEF SendPrune
  <2> QED BY <1>1, <2>1, <2>2, <2>3 DEF TreeStep
<1> HIDE DEF k
<1>4. \A m \in Node : table'[m] = table[m] \/ (m = n /\ k = table[m] + 1 /\ table'[m] = k)
  <2>1. table' = [table EXCEPT ![n] = IF k = table[n] + 1 THEN k ELSE table[n]]
    BY <1>1 DEF Accept
  <2> QED BY <1>2, <2>1
<1>5. ASSUME NEW m \in Node, NEW j \in Rumor, j <= table'[m]
      PROVE  \/ j \in receivedMsg'[m]
             \/ m = Origin /\ j \in unsent'
             \/ blocked'[m]
             \/ <<m, j>> \in Failing
  <2>1. j \in Nat
    BY RumorFacts
  <2>2. CASE j <= table[m]
    BY <1>1, <1>3, <2>2 DEF PassedOn
  <2>3. CASE ~(j <= table[m])
    <3>1. m = n /\ j = k /\ k = table[n] + 1
      BY <1>2, <1>4, <1>5, <2>1, <2>3
    <3> QED BY <1>3, <3>1
  <2> QED BY <2>2, <2>3
<1>6. NothingLeft'
  BY <1>1 DEF NothingLeft
<1> QED BY <1>5, <1>6 DEF PassedOn

\* The Processor blocks with the second rumor, unless its handler fails.
LEMMA SecondPassedOn ==
  ASSUME GInv, PassedOn, NothingLeft, NEW n \in Node, SecondRumor(n)
  PROVE  PassedOn' /\ NothingLeft'
<1> DEFINE k == second[n]
<1>1. /\ UNCHANGED <<unsent, receivedMsg>>
      /\ k # 0 /\ Accept(n, k)
      /\ second' = [second EXCEPT ![n] = 0]
      /\ blocked' = [blocked EXCEPT ![n] = ~Fails(n, k, Verdict(table[n], k))]
  BY DEF SecondRumor, treeVars
<1>2. /\ table \in [Node -> 0..MaxSeq] /\ second \in [Node -> Rumor \cup {0}]
      /\ blocked \in [Node -> BOOLEAN]
      /\ \A m \in Node : table[m] \in Nat
  BY GossipAssumption DEF GInv, TypeOK
<1>3. ~blocked[n]
  BY <1>1 DEF NothingLeft
<1>4. /\ \A m \in Node : m # n => blocked'[m] = blocked[m] /\ second'[m] = second[m]
      /\ second'[n] = 0
      /\ blocked'[n] \/ <<n, k>> \in Failing
  BY <1>1, <1>2 DEF Fails
<1> HIDE DEF k
<1>5. \A m \in Node : table'[m] = table[m] \/ (m = n /\ k = table[m] + 1 /\ table'[m] = k)
  <2>1. table' = [table EXCEPT ![n] = IF k = table[n] + 1 THEN k ELSE table[n]]
    BY <1>1 DEF Accept
  <2> QED BY <1>2, <2>1
<1>6. ASSUME NEW m \in Node, NEW j \in Rumor, j <= table'[m]
      PROVE  \/ j \in receivedMsg'[m]
             \/ m = Origin /\ j \in unsent'
             \/ blocked'[m]
             \/ <<m, j>> \in Failing
  <2>1. j \in Nat
    BY RumorFacts
  <2>2. CASE j <= table[m]
    BY <1>1, <1>3, <1>4, <2>2 DEF PassedOn
  <2>3. CASE ~(j <= table[m])
    <3>1. m = n /\ j = k
      BY <1>2, <1>5, <1>6, <2>1, <2>3
    <3> QED BY <1>4, <3>1
  <2> QED BY <2>2, <2>3
<1>7. NothingLeft'
  BY <1>4 DEF NothingLeft
<1> QED BY <1>6, <1>7 DEF PassedOn

LEMMA PassedOnNext ==
  ASSUME GInv, PassedOn, NothingLeft, [Next]_vars
  PROVE  PassedOn' /\ NothingLeft'
<1>1. ASSUME NEW n \in Node, Process(n) PROVE PassedOn' /\ NothingLeft'
  <2>1. ASSUME NEW pkt \in net,
               \/ ExecAck(n, pkt) \/ ExecPrune(n, pkt) \/ ExecIHave(n, pkt)
               \/ ExecGraft(n, pkt) \/ ExecStatus(n, pkt)
        PROVE  UNCHANGED <<table, unsent, second, blocked, receivedMsg>>
    BY <2>1 DEF ExecAck, ExecPrune, ExecIHave, ExecGraft, ExecStatus, procVars, treeVars
  <2>2. ASSUME UNCHANGED <<table, unsent, second, blocked, receivedMsg>>
        PROVE  PassedOn' /\ NothingLeft'
    BY <2>2 DEF PassedOn, NothingLeft
  <2> QED BY <1>1, <2>1, <2>2, RumorPassedOn, SecondPassedOn DEF Process
<1>2. CASE BroadcastNew
  <2>1. /\ UNCHANGED <<second, blocked, receivedMsg>>
        /\ table' = [table EXCEPT ![Origin] = table[Origin] + 1]
        /\ unsent' = unsent \cup {table[Origin] + 1}
    BY <1>2 DEF BroadcastNew, treeVars
  <2>2. table \in [Node -> 0..MaxSeq] /\ \A m \in Node : table[m] \in Nat
    BY GossipAssumption DEF GInv, TypeOK
  <2>3. ASSUME NEW m \in Node, NEW j \in Rumor, j <= table'[m]
        PROVE  j <= table[m] \/ (m = Origin /\ j \in unsent')
    <3>1. CASE m = Origin
      BY <2>1, <2>2, <2>3, <3>1, RumorFacts
    <3>2. CASE m # Origin
      BY <2>1, <2>2, <2>3, <3>2
    <3> QED BY <3>1, <3>2
  <2>4. PassedOn'
    BY <2>1, <2>3 DEF PassedOn
  <2> QED BY <2>1, <2>4 DEF NothingLeft
<1>3. ASSUME NEW k \in Rumor, BroadcastPush(k) PROVE PassedOn' /\ NothingLeft'
  <2>1. /\ UNCHANGED <<table, second, blocked>>
        /\ receivedMsg' = [receivedMsg EXCEPT ![Origin] = receivedMsg[Origin] \cup {k}]
        /\ unsent' = unsent \ {k}
    BY <1>3 DEF BroadcastPush
  <2>2. /\ \A m \in Node : receivedMsg[m] \subseteq receivedMsg'[m]
        /\ k \in receivedMsg'[Origin]
    BY <2>1, GossipAssumption DEF GInv, TypeOK
  <2>3. PassedOn'
    BY <2>1, <2>2 DEF PassedOn
  <2> QED BY <2>1, <2>3 DEF NothingLeft
<1>4. CASE \/ \E n \in Node : Stop(n)
           \/ \E n \in Node : \E e \in rumorQueue[n] : ReSendRumor(n, e)
           \/ \E n, m \in Node : SendStatus(n, m) \/ AddPeer(n, m)
           \/ \E pkt \in net : Lose(pkt)
           \/ UNCHANGED vars
  <2>1. UNCHANGED <<table, unsent, second, blocked, receivedMsg>>
    BY <1>4 DEF Stop, ReSendRumor, SendStatus, AddPeer, Lose, vars, procVars, treeVars
  <2> QED BY <2>1 DEF PassedOn, NothingLeft
<1>5. ASSUME NEW n \in Node, NEW k \in Rumor,
             \/ SendIHaveMsg(n, k) \/ LazyQueueSender(n, k) \/ GraftTimeout(n, k)
             \/ GraftDone(n, k) \/ SendGraftMsg(n, k)
      PROVE  PassedOn' /\ NothingLeft'
  <2>1. UNCHANGED <<table, unsent, second, blocked, receivedMsg>>
    BY <1>5 DEF SendIHaveMsg, LazyQueueSender, GraftTimeout, GraftDone, SendGraftMsg, procVars,
       treeVars
  <2> QED BY <2>1 DEF PassedOn, NothingLeft
<1> QED BY <1>1, <1>2, <1>3, <1>4, <1>5 DEF Next

\* At rest, a peer lacks nothing that a neighbour has passed on.
LEMMA LinkServed ==
  ASSUME AckTimeout, GInv, KInv, PassedOn, AtRest,
         NEW m \in Node, NEW p \in neighbors[m], Reliable(m), p \in Node, Running(p)
  PROVE  table[m] <= table[p]
<1> DEFINE k == table[p] + 1
<1>1. table[m] \in 0..MaxSeq /\ table[p] \in 0..MaxSeq /\ MaxSeq \in Nat
  BY GossipAssumption DEF GInv, TypeOK
<1> SUFFICES ASSUME table[p] < table[m] PROVE FALSE
  BY <1>1
<1>2. k \in Rumor /\ k <= table[m] /\ table[p] < k
  BY <1>1 DEF Rumor
<1>3. up[m] /\ up[p] /\ ~blocked[m] /\ <<m, k>> \notin Failing
  BY <1>2 DEF Reliable, Running
<1>4. k \in receivedMsg[m]
  <2>1. m = Origin => unsent = {}
    BY DEF AtRest, Reliable
  <2> HIDE DEF k
  <2> QED BY <1>2, <1>3, <2>1 DEF PassedOn
<1>5. ~Queued(m, p, k)
  BY <1>3 DEF AtRest, Queued
<1> HIDE DEF k
<1>6. ~(k \in snaps[m]) /\ ~(p \in lazyQueue[m][k])
  BY <1>2, <1>3 DEF AtRest, Reliable
<1>7. ~Announced(p, k)
  BY <1>2 DEF AtRest, Announced
<1> QED BY <1>2, <1>3, <1>4, <1>5, <1>6, <1>7 DEF KInv, Kept

\* Every peer of S can be reached from the origin inside S: no part of S with the origin
\* is cut off from the rest of it.
Connected(S) ==
  \A T \in SUBSET S :
    Origin \in T /\ T # S => \E m \in T, p \in S \ T : p \in neighbors[m]

\* When nothing is under way any more, every rumor that was broadcast has reached every
\* peer that reliable peers connect with the origin: for any network of links that were
\* there from the start, whatever was lost or resent, however the eager trees were
\* pruned and mended, and whoever else was stopped, blocked or failed.  This is what
\* Delivered needs besides fairness, for more than the triangle of its run.
THEOREM DeliveredAtRest ==
  ASSUME LateLinks = {}, PromptSnapshots, AckTimeout, "ihave" \notin Lossy
  PROVE  Spec => [](AtRest => \A S \in SUBSET Node :
                      /\ Origin \in S
                      /\ \A n \in S : Reliable(n)
                      /\ Connected(S)
                      => \A n \in S : table[n] = table[Origin])
<1> DEFINE Everywhere(S) == \A n \in S : table[n] = table[Origin]
           Claim == AtRest => \A S \in SUBSET Node :
                      /\ Origin \in S
                      /\ \A n \in S : Reliable(n)
                      /\ Connected(S)
                      => Everywhere(S)
           I == GInv /\ KInv /\ PassedOn /\ NothingLeft
<1>1. ASSUME I, AtRest, NEW S \in SUBSET Node, Origin \in S, \A n \in S : Reliable(n),
             Connected(S)
      PROVE  Everywhere(S)
  <2> DEFINE T == {n \in S : table[n] = table[Origin]}
  <2> SUFFICES T = S
    OBVIOUS
  <2>1. ASSUME T # S PROVE FALSE
    <3>1. PICK m \in T, p \in S \ T : p \in neighbors[m]
      BY <1>1, <2>1 DEF Connected
    <3>2. m \in Node /\ p \in Node /\ Reliable(m) /\ Running(p)
      BY <1>1, <3>1 DEF Reliable
    <3>3. table[m] <= table[p]
      BY <1>1, <3>1, <3>2, LinkServed
    <3>4. table[p] <= table[Origin] /\ table[m] = table[Origin] /\ table[p] # table[Origin]
      BY <1>1, <3>1, <3>2 DEF GInv, Backed, PeerBacked
    <3>5. table[p] \in Nat /\ table[Origin] \in Nat
      BY <1>1, <3>2, GossipAssumption DEF GInv, TypeOK
    <3> QED BY <3>3, <3>4, <3>5
  <2> QED BY <2>1
<1>2. I => Claim
  BY <1>1
<1>3. Init => I
  <2>1. Init => PassedOn /\ NothingLeft
    BY DEF Init, PassedOn, NothingLeft, Rumor
  <2> QED BY <2>1, GInvInit, KInvInit
<1>4. I /\ [Next]_vars => I'
  BY GInvNext, KInvNext, PassedOnNext
<1> HIDE DEF I
<1>5. Spec => []Claim
  BY <1>2, <1>3, <1>4, PTL DEF Spec
<1> QED BY <1>5

=============================================================================
