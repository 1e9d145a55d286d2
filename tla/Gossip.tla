------------------------------- MODULE Gossip -------------------------------
(***************************************************************************)
(* How the rumors of one origin reach the other peers: the rumor tables,   *)
(* the queue of unacknowledged rumors, the PlumTree of the origin at every *)
(* peer (eager pushes, lazy IHaves, Grafts, Prunes) and the anti-entropy   *)
(* of peer/impl.  Rumors of different origins do not share any of this     *)
(* state except the Processor of each peer.                                *)
(*                                                                         *)
(* A peer's Processor runs one handler at a time.  Beside it run the       *)
(* goroutines that Broadcast, that send IHaves and Grafts and that resend. *)
(* Packets may overtake each other: several goroutines of one peer send,   *)
(* and the transport of a deployment is UDP.                               *)
(***************************************************************************)
EXTENDS Integers, Sequences, FiniteSets

CONSTANTS
  Node,
  Origin,            \* the peer whose rumors these are
  Links,             \* <<n, m>>: n knows m from the start (AddPeer)
  LateLinks,         \* <<n, m>>: somebody may call AddPeer(m) on n later
  Failing,           \* <<n, k>>: the handler of rumor k's content fails at n
  AckTimeout,        \* TRUE: the configuration's AckTimeout is not 0
  AntiEntropy,       \* TRUE: the configuration's AntiEntropyInterval is not 0
  Stopping,          \* the peers that may be stopped
  Lossy,             \* the types of packets that may be lost
  \* Bounds of the model:
  MaxSeq,            \* rumors of the origin
  MaxGrafts,         \* Grafts that one peer sends for one rumor
  MaxLost,           \* packets that are lost
  SlowTimers,        \* TRUE: timers fire only when nothing else can happen
  PromptSnapshots    \* TRUE: sendIHaveMsg reads the lazy list before the peer's
                     \* Processor takes another packet or a Graft is sent

Rumor == 1..MaxSeq

\* The packet IDs that matter: 0 for an eager push, g for the answer to the
\* g-th Graft of a peer for a rumor, NoId for a packet nobody waits for.
NoId == MaxGrafts + 1

ASSUME GossipAssumption ==
  /\ Origin \in Node
  /\ Links \subseteq Node \X Node
  /\ LateLinks \subseteq Node \X Node
  /\ Failing \subseteq Node \X Rumor
  /\ {AckTimeout, AntiEntropy, SlowTimers, PromptSnapshots} \subseteq BOOLEAN
  /\ Stopping \subseteq Node
  /\ MaxSeq \in Nat
  /\ MaxGrafts \in Nat
  /\ MaxLost \in Nat

Packet ==
       [type : {"rumor"}, src : Node, dst : Node, lo : Rumor, hi : Rumor, id : 0..NoId]
  \cup [type : {"ack", "graft"}, src : Node, dst : Node, seq : Rumor, id : 0..NoId]
  \cup [type : {"ihave"}, src : Node, dst : Node, seq : Rumor]
  \cup [type : {"prune"}, src : Node, dst : Node]
  \cup [type : {"status"}, src : Node, dst : Node, len : 0..MaxSeq]

VARIABLES
  up,           \* the peer has not been stopped
  net,          \* the packets on their way
  lost,         \* how many packets were lost
  neighbors,    \* plumTreeTable.neighbors, without the peer itself
  route,        \* routing entry of the origin: "none", "direct" or "relayed"
  table,        \* length of the rumor table of the origin
  unsent,       \* rumors that Broadcast appended and has not pushed yet
  second,       \* the Processor holds the tree's mutex and goes on with this
                \* rumor of the same message; 0: it is between two packets
  blocked,      \* the Processor waits for ever for a mutex it holds itself
  \* the origin's tree
  made,         \* the tree exists
  eagers, lazys,
  receivedMsg,  \* per peer, the rumors whose status is received
  lazyPeers,    \* per peer and rumor, the peers that sent an IHave for it
  graft,        \* per peer and rumor, the goroutine of sendGraftMsg
  snaps,        \* per peer, the rumors for which sendIHaveMsg has just started
  lazyQueue,    \* per peer and rumor, the peers to send an IHave to
  \* the queue of unacknowledged rumors
  rumorQueue

treeVars  == <<made, eagers, lazys, receivedMsg>>
graftVars == <<lazyPeers, graft>>
ihaveVars == <<snaps, lazyQueue>>
linkVars  == <<neighbors, route>>
procVars  == <<table, unsent, second, blocked>>
netVars   == <<up, net, lost>>
vars == <<netVars, linkVars, procVars, treeVars, graftVars, ihaveVars, rumorQueue>>

NoGraft == [pc |-> "none", index |-> 0, sent |-> 0]
Graft   == [pc : {"none", "wait", "send"}, index : Nat, sent : 0..MaxGrafts]
Entry   == [dest : Node, seq : Rumor, id : 0..NoId]

TypeOK ==
  /\ up \in [Node -> BOOLEAN]
  /\ net \subseteq Packet
  /\ lost \in 0..MaxLost
  /\ neighbors \in [Node -> SUBSET Node]
  /\ route \in [Node -> {"none", "direct", "relayed"}]
  /\ table \in [Node -> 0..MaxSeq]
  /\ unsent \subseteq Rumor
  /\ second \in [Node -> Rumor \cup {0}]
  /\ blocked \in [Node -> BOOLEAN]
  /\ made \in [Node -> BOOLEAN]
  /\ eagers \in [Node -> SUBSET Node]
  /\ lazys \in [Node -> SUBSET Node]
  /\ receivedMsg \in [Node -> SUBSET Rumor]
  /\ lazyPeers \in [Node -> [Rumor -> Seq(Node)]]
  /\ graft \in [Node -> [Rumor -> Graft]]
  /\ snaps \in [Node -> SUBSET Rumor]
  /\ lazyQueue \in [Node -> [Rumor -> SUBSET Node]]
  /\ rumorQueue \in [Node -> SUBSET Entry]

-----------------------------------------------------------------------------
(* Packets and timers.                                                     *)

RumorTo(n, m, k, id) == [type |-> "rumor", src |-> n, dst |-> m, lo |-> k, hi |-> k, id |-> id]
\* Bug: GetInterval starts at the last rumor that the receiver has.
RumorsToBugOneMore(n, m, i, j) ==
  [type |-> "rumor", src |-> n, dst |-> m, lo |-> i - 1, hi |-> j, id |-> NoId]
RumorsTo(n, m, i, j) == [type |-> "rumor", src |-> n, dst |-> m, lo |-> i, hi |-> j, id |-> NoId]
AckTo(n, m, k, id)   == [type |-> "ack", src |-> n, dst |-> m, seq |-> k, id |-> id]
GraftTo(n, m, k, id) == [type |-> "graft", src |-> n, dst |-> m, seq |-> k, id |-> id]
\* Bug: the hash is made from the next sequence number.
IHaveToBugNext(n, m, k) == [type |-> "ihave", src |-> n, dst |-> m, seq |-> k + 1]
IHaveTo(n, m, k)     == [type |-> "ihave", src |-> n, dst |-> m, seq |-> k]
PruneTo(n, m)        == [type |-> "prune", src |-> n, dst |-> m]
StatusTo(n, m, len)  == [type |-> "status", src |-> n, dst |-> m, len |-> len]

\* Sending to a stopped peer has no effect; a copy of a packet that is still on
\* its way changes nothing.
Delivering(pkts) == {p \in pkts : up[p.dst]}
Send(pkts) == net' = net \cup Delivering(pkts)
\* The Processor replaces the packet it has taken by its answers.
Reply(pkt, pkts) == net' = (net \ {pkt}) \cup Delivering(pkts)

\* No handler of n holds the tree's mutex between two steps.
Unlocked(n) == up[n] /\ ~blocked[n] /\ second[n] = 0

\* n's Processor is free to take this packet.
Takes(n, pkt) ==
  /\ pkt \in net
  /\ pkt.dst = n
  /\ Unlocked(n)
  /\ PromptSnapshots => snaps[n] = {}

Quiet ==
  /\ net = {}
  /\ unsent = {}
  /\ \A n \in Node :
       up[n] => snaps[n] = {} /\ \A k \in Rumor : graft[n][k].pc # "send"
Timer(n) == up[n] /\ (SlowTimers => Quiet)

-----------------------------------------------------------------------------
(* The tree.  getPlumTreeInstance makes it on its first use, all peers     *)
(* known by then eager; AddPeer does not touch a tree that exists.         *)

Eagers(n) == IF made[n] THEN eagers[n] ELSE neighbors[n]
Lazys(n)  == IF made[n] THEN lazys[n] ELSE {}

SetTree(n, e, l) ==
  /\ made' = [made EXCEPT ![n] = TRUE]
  /\ eagers' = [eagers EXCEPT ![n] = e]
  /\ lazys' = [lazys EXCEPT ![n] = l]

\* Bug: a pruned peer is not added to the lazy list.
MoveToLazyBugDropped(n, m) == SetTree(n, Eagers(n) \ {m}, Lazys(n))

MoveToEager(n, m) == SetTree(n, Eagers(n) \cup {m}, Lazys(n) \ {m})
MoveToLazy(n, m)  == SetTree(n, Eagers(n) \ {m}, Lazys(n) \cup {m})
NewEager(n, m) == IF m \in Lazys(n) THEN {} ELSE {m}
NewLazy(n, m)  == IF m \in Eagers(n) THEN {} ELSE {m}

\* PushRumorQueueAndSend: queue rumor k for these peers, to be resent until it
\* is acknowledged.  (The packets are sent by the caller.)
\* Bug: the rumor is sent and not queued.
PushBugNotQueued(n, peers, k, id) == rumorQueue' = rumorQueue
Push(n, peers, k, id) ==
  rumorQueue' = [rumorQueue EXCEPT ![n] =
                   @ \cup {[dest |-> m, seq |-> k, id |-> id] : m \in peers}]

-----------------------------------------------------------------------------
(* Broadcast, in two steps: the sequence number is taken under the lock of *)
(* the rumor table, and the pushes are made under the lock of the tree.    *)

BroadcastNew ==
  /\ up[Origin]
  /\ table[Origin] < MaxSeq
  /\ table' = [table EXCEPT ![Origin] = @ + 1]
  /\ unsent' = unsent \cup {table[Origin] + 1}
  /\ UNCHANGED <<netVars, linkVars, second, blocked, treeVars, graftVars, ihaveVars,
                 rumorQueue>>

BroadcastPush(k) ==
  LET n == Origin
      peers == Eagers(n) \ {n}
  IN
  /\ Unlocked(n)
  /\ k \in unsent
  /\ unsent' = unsent \ {k}
  /\ SetTree(n, Eagers(n), Lazys(n))
  /\ receivedMsg' = [receivedMsg EXCEPT ![n] = @ \cup {k}]
  /\ Push(n, peers, k, 0)
  /\ Send({RumorTo(n, m, k, 0) : m \in peers})
  /\ snaps' = [snaps EXCEPT ![n] = @ \cup {k}]
  /\ UNCHANGED <<up, lost, linkVars, table, second, blocked, graftVars, lazyQueue>>

-----------------------------------------------------------------------------
(* ExecRumorMessage.                                                       *)

\* TryToAcceptOrigin.
\* Bug: a rumor that is one ahead of the expected one is taken for an old one.
VerdictBugOneAhead(len, k) ==
  CASE len + 1 = k  -> "process"
    [] len + 2 >= k -> "prune"
    [] OTHER        -> "future"

Verdict(len, k) ==
  CASE len + 1 = k -> "process"
    [] len + 1 > k -> "prune"
    [] OTHER       -> "future"

\* The origin enters the routing table, as a neighbour when it is the sender.
LearnRoute(n, m) ==
  route' = [route EXCEPT ![n] =
              IF @ # "none" THEN @ ELSE IF m = Origin THEN "direct" ELSE "relayed"]

\* An acknowledgement goes back only for a message that brought a new rumor.
Acks(n, pkt, verdict) ==
  IF verdict = "process" THEN {AckTo(n, pkt.src, pkt.lo, pkt.id)} ELSE {}

\* A rumor that the tree has not seen: forward it to the eager peers and
\* start the goroutine that tells the lazy ones.
Forward(n, pkt, k, acks) ==
  LET m == pkt.src
      peers == (Eagers(n) \cup NewEager(n, m)) \ {m}
  IN
  /\ SetTree(n, Eagers(n) \cup NewEager(n, m), Lazys(n))
  /\ receivedMsg' = [receivedMsg EXCEPT ![n] = @ \cup {k}]
  /\ Push(n, peers, k, 0)
  /\ Reply(pkt, {RumorTo(n, p, k, 0) : p \in peers} \cup acks)
  /\ snaps' = [snaps EXCEPT ![n] = @ \cup {k}]

\* A rumor that the tree has seen: its sender should become lazy.
SendPrune(n, pkt, acks) ==
  LET m == pkt.src IN
  /\ SetTree(n, Eagers(n), Lazys(n) \cup NewLazy(n, m))
  /\ Reply(pkt, {PruneTo(n, m)} \cup acks)
  /\ UNCHANGED <<receivedMsg, rumorQueue, snaps>>

TreeStep(n, pkt, k, acks) ==
  \/ k \notin receivedMsg[n] /\ Forward(n, pkt, k, acks)
  \/ k \in receivedMsg[n] /\ SendPrune(n, pkt, acks)

\* Bug: a message is acknowledged when it arrives, accepted or not.
NoTreeStepBugAcked(pkt) ==
  /\ Reply(pkt, {AckTo(pkt.dst, pkt.src, pkt.lo, pkt.id)})
  /\ UNCHANGED <<treeVars, rumorQueue, snaps>>

NoTreeStep(pkt) ==
  /\ Reply(pkt, {})
  /\ UNCHANGED <<treeVars, rumorQueue, snaps>>

\* Bug: every rumor that is ahead of the table is accepted.
AcceptBugGaps(n, k) == table' = [table EXCEPT ![n] = IF k > @ THEN k ELSE @]
Accept(n, k) == table' = [table EXCEPT ![n] = IF k = @ + 1 THEN k ELSE @]

\* The handler of the rumor's content is called, and fails.
Fails(n, k, verdict) == verdict = "process" /\ <<n, k>> \in Failing

\* A message of one rumor.  When the handler of its content fails, the rumor
\* stays in the table and nothing else is done for it.
ExecRumor(n, pkt) ==
  LET k == pkt.lo
      verdict == Verdict(table[n], k)
  IN
  /\ pkt.type = "rumor" /\ pkt.lo = pkt.hi
  /\ Takes(n, pkt)
  /\ LearnRoute(n, pkt.src)
  /\ Accept(n, k)
  /\ IF verdict = "future" \/ Fails(n, k, verdict)
       THEN NoTreeStep(pkt)
       ELSE TreeStep(n, pkt, k, Acks(n, pkt, verdict))
  /\ UNCHANGED <<up, lost, neighbors, unsent, second, blocked, graftVars, lazyQueue>>

\* A message of several rumors, the answer to a status.  The mutex of the tree
\* is released when the handler returns, and taken for every rumor.
ExecRumors(n, pkt) ==
  LET k == pkt.lo
      verdict == Verdict(table[n], k)
  IN
  /\ pkt.type = "rumor" /\ pkt.lo < pkt.hi
  /\ Takes(n, pkt)
  /\ LearnRoute(n, pkt.src)
  /\ Accept(n, k)
  /\ IF verdict = "future" \/ Fails(n, k, verdict)
       THEN NoTreeStep(pkt) /\ UNCHANGED second
       ELSE TreeStep(n, pkt, k, {}) /\ second' = [second EXCEPT ![n] = k + 1]
  /\ UNCHANGED <<up, lost, neighbors, unsent, blocked, graftVars, lazyQueue>>

\* The second rumor is accepted, and then the Processor waits for the mutex that
\* it holds, unless the handler of the content fails and everything is released.
SecondRumor(n) ==
  LET k == second[n] IN
  /\ up[n]
  /\ k # 0
  /\ Accept(n, k)
  /\ second' = [second EXCEPT ![n] = 0]
  /\ blocked' = [blocked EXCEPT ![n] = ~Fails(n, k, Verdict(table[n], k))]
  /\ UNCHANGED <<netVars, linkVars, unsent, treeVars, graftVars, ihaveVars, rumorQueue>>

-----------------------------------------------------------------------------
(* The other handlers.                                                     *)

\* The packet ID names the entry; the ack's status is not used.
ExecAck(n, pkt) ==
  /\ pkt.type = "ack"
  /\ Takes(n, pkt)
  /\ rumorQueue' = [rumorQueue EXCEPT ![n] =
                      @ \ {[dest |-> pkt.src, seq |-> pkt.seq, id |-> pkt.id]}]
  /\ Reply(pkt, {})
  /\ UNCHANGED <<up, lost, linkVars, procVars, treeVars, graftVars, ihaveVars>>

ExecPrune(n, pkt) ==
  /\ pkt.type = "prune"
  /\ Takes(n, pkt)
  /\ MoveToLazy(n, pkt.src)
  /\ Reply(pkt, {})
  /\ UNCHANGED <<up, lost, linkVars, procVars, receivedMsg, graftVars, ihaveVars, rumorQueue>>

\* The first IHave for a rumor that is missing starts the goroutine of its
\* Grafts.  (The AckIHave that is sent back is read by nobody.)
ExecIHave(n, pkt) ==
  LET k == pkt.seq IN
  /\ pkt.type = "ihave"
  /\ Takes(n, pkt)
  /\ SetTree(n, Eagers(n), Lazys(n))
  /\ IF k \in receivedMsg[n]
       THEN UNCHANGED graftVars
       ELSE /\ lazyPeers' = [lazyPeers EXCEPT ![n][k] = Append(@, pkt.src)]
            /\ graft' = [graft EXCEPT ![n][k] =
                           IF lazyPeers[n][k] = <<>> THEN [@ EXCEPT !.pc = "wait"] ELSE @]
  /\ Reply(pkt, {})
  /\ UNCHANGED <<up, lost, linkVars, procVars, receivedMsg, ihaveVars, rumorQueue>>

\* The rumor that is asked for goes back under the packet ID of the Graft.  (It is
\* in the rumor table: GraftAnswerable.)
ExecGraft(n, pkt) ==
  /\ pkt.type = "graft"
  /\ Takes(n, pkt)
  /\ MoveToEager(n, pkt.src)
  /\ Push(n, {pkt.src}, pkt.seq, pkt.id)
  /\ Reply(pkt, {RumorTo(n, pkt.src, pkt.seq, pkt.id)})
  /\ UNCHANGED <<up, lost, linkVars, procVars, receivedMsg, graftVars, ihaveVars>>

\* The neighbours of the routing table.
Contacts(n) ==
  (neighbors[n] \ {Origin})
    \cup (IF n # Origin /\ route[n] = "direct" THEN {Origin} ELSE {})

\* What the sender of the status lacks is sent back in one message, which is
\* not queued; a sender that is ahead gets the own status; otherwise the
\* status may go on to another neighbour (ContinueMongering).
ExecStatus(n, pkt) ==
  /\ pkt.type = "status"
  /\ Takes(n, pkt)
  /\ \/ table[n] > pkt.len /\ Reply(pkt, {RumorsTo(n, pkt.src, pkt.len + 1, table[n])})
     \/ table[n] < pkt.len /\ Reply(pkt, {StatusTo(n, pkt.src, table[n])})
     \/ /\ table[n] = pkt.len
        /\ \/ Reply(pkt, {})
           \/ \E m \in Contacts(n) \ {pkt.src} : Reply(pkt, {StatusTo(n, m, table[n])})
  /\ UNCHANGED <<up, lost, linkVars, procVars, treeVars, graftVars, ihaveVars, rumorQueue>>

-----------------------------------------------------------------------------
(* The goroutines beside the Processor.                                    *)

\* sendIHaveMsg reads the lazy list and queues an IHave for its members.
SendIHaveMsg(n, k) ==
  /\ Unlocked(n)
  /\ k \in snaps[n]
  /\ snaps' = [snaps EXCEPT ![n] = @ \ {k}]
  /\ SetTree(n, Eagers(n), Lazys(n))
  /\ lazyQueue' = [lazyQueue EXCEPT ![n][k] = Lazys(n)]
  /\ UNCHANGED <<netVars, linkVars, procVars, receivedMsg, graftVars, rumorQueue>>

\* LazyQueueSender: the interval of 5 s is over; the IHaves are sent once.
LazyQueueSender(n, k) ==
  /\ Timer(n)
  /\ lazyQueue[n][k] # {}
  /\ lazyQueue' = [lazyQueue EXCEPT ![n][k] = {}]
  /\ Send({IHaveTo(n, m, k) : m \in lazyQueue[n][k]})
  /\ UNCHANGED <<up, lost, linkVars, procVars, treeVars, graftVars, snaps, rumorQueue>>

\* sendGraftMsg waits for 300 ms or for the rumor, whichever comes first ...
GraftTimeout(n, k) ==
  /\ Timer(n)
  /\ graft[n][k].pc = "wait"
  /\ k \notin receivedMsg[n]
  /\ graft[n][k].sent < MaxGrafts
  /\ graft' = [graft EXCEPT ![n][k].pc = "send"]
  /\ UNCHANGED <<netVars, linkVars, procVars, treeVars, lazyPeers, ihaveVars, rumorQueue>>

\* ... ends when the rumor has come ...
GraftDone(n, k) ==
  /\ up[n]
  /\ graft[n][k].pc = "wait"
  /\ k \in receivedMsg[n]
  /\ graft' = [graft EXCEPT ![n][k].pc = "none"]
  /\ UNCHANGED <<netVars, linkVars, procVars, treeVars, lazyPeers, ihaveVars, rumorQueue>>

\* ... and otherwise makes the next peer that has the rumor eager, and asks it.
SendGraftMsg(n, k) ==
  LET g == graft[n][k]
      i == g.index % Len(lazyPeers[n][k])
      m == lazyPeers[n][k][i + 1]
  IN
  /\ Unlocked(n)
  /\ PromptSnapshots => snaps[n] = {}
  /\ g.pc = "send"
  /\ graft' = [graft EXCEPT ![n][k] = [pc |-> "wait", index |-> i + 1, sent |-> g.sent + 1]]
  /\ MoveToEager(n, m)
  /\ Send({GraftTo(n, m, k, g.sent + 1)})
  /\ UNCHANGED <<up, lost, linkVars, procVars, receivedMsg, lazyPeers, ihaveVars, rumorQueue>>

\* The Sender resends what was not acknowledged in time, under its packet ID.
ReSendRumor(n, e) ==
  /\ AckTimeout
  /\ Timer(n)
  /\ e \in rumorQueue[n]
  /\ Send({RumorTo(n, e.dest, e.seq, e.id)})
  /\ UNCHANGED <<up, lost, linkVars, procVars, treeVars, graftVars, ihaveVars, rumorQueue>>

SendStatus(n, m) ==
  /\ AntiEntropy
  /\ Timer(n)
  /\ m \in Contacts(n)
  /\ Send({StatusTo(n, m, table[n])})
  /\ UNCHANGED <<up, lost, linkVars, procVars, treeVars, graftVars, ihaveVars, rumorQueue>>

AddPeer(n, m) ==
  /\ <<n, m>> \in LateLinks
  /\ m \notin neighbors[n]
  /\ neighbors' = [neighbors EXCEPT ![n] = @ \cup {m}]
  /\ route' = [route EXCEPT ![n] = IF m = Origin THEN "direct" ELSE @]
  /\ UNCHANGED <<netVars, procVars, treeVars, graftVars, ihaveVars, rumorQueue>>

-----------------------------------------------------------------------------
(* Failures.                                                               *)

Stop(n) ==
  /\ n \in Stopping
  /\ up[n]
  /\ up' = [up EXCEPT ![n] = FALSE]
  /\ net' = {p \in net : p.dst # n}
  /\ UNCHANGED <<lost, linkVars, procVars, treeVars, graftVars, ihaveVars, rumorQueue>>

Lose(pkt) ==
  /\ pkt \in net
  /\ pkt.type \in Lossy
  /\ lost < MaxLost
  /\ lost' = lost + 1
  /\ net' = net \ {pkt}
  /\ UNCHANGED <<up, linkVars, procVars, treeVars, graftVars, ihaveVars, rumorQueue>>

-----------------------------------------------------------------------------
Init ==
  /\ up = [n \in Node |-> TRUE]
  /\ net = {}
  /\ lost = 0
  /\ neighbors = [n \in Node |-> {m \in Node \ {n} : <<n, m>> \in Links}]
  /\ route = [n \in Node |->
                IF n = Origin \/ <<n, Origin>> \in Links THEN "direct" ELSE "none"]
  /\ table = [n \in Node |-> 0]
  /\ unsent = {}
  /\ second = [n \in Node |-> 0]
  /\ blocked = [n \in Node |-> FALSE]
  /\ made = [n \in Node |-> FALSE]
  /\ eagers = [n \in Node |-> {}]
  /\ lazys = [n \in Node |-> {}]
  /\ receivedMsg = [n \in Node |-> {}]
  /\ lazyPeers = [n \in Node |-> [k \in Rumor |-> <<>>]]
  /\ graft = [n \in Node |-> [k \in Rumor |-> NoGraft]]
  /\ snaps = [n \in Node |-> {}]
  /\ lazyQueue = [n \in Node |-> [k \in Rumor |-> {}]]
  /\ rumorQueue = [n \in Node |-> {}]

Process(n) ==
  \/ SecondRumor(n)
  \/ \E pkt \in net : \/ ExecRumor(n, pkt)
                      \/ ExecRumors(n, pkt)
                      \/ ExecAck(n, pkt)
                      \/ ExecPrune(n, pkt)
                      \/ ExecIHave(n, pkt)
                      \/ ExecGraft(n, pkt)
                      \/ ExecStatus(n, pkt)

Next ==
  \/ BroadcastNew
  \/ \E k \in Rumor : BroadcastPush(k)
  \/ \E n \in Node : Process(n) \/ Stop(n)
  \/ \E n \in Node : \E e \in rumorQueue[n] : ReSendRumor(n, e)
  \/ \E n \in Node, k \in Rumor :
       \/ SendIHaveMsg(n, k)
       \/ LazyQueueSender(n, k)
       \/ GraftTimeout(n, k)
       \/ GraftDone(n, k)
       \/ SendGraftMsg(n, k)
  \/ \E n, m \in Node : SendStatus(n, m) \/ AddPeer(n, m)
  \/ \E pkt \in net : Lose(pkt)

Spec == Init /\ [][Next]_vars

\* n resends the rumor that m waits for.
ReSendNext(n, m) ==
  \E e \in rumorQueue[n] : e.dest = m /\ e.seq = table[m] + 1 /\ ReSendRumor(n, e)

(***************************************************************************)
(* Fairness, weaker than what the scheduler gives.  The goroutines keep    *)
(* running: weak fairness.  The timers fire again and again: strong        *)
(* fairness, because SlowTimers disables them from time to time.  The      *)
(* Sender goes round its queue, so it also comes to the entries that their *)
(* destination waits for.  A random neighbour is every neighbour in the    *)
(* long run.  Nobody has to call Broadcast, AddPeer or Stop.               *)
(***************************************************************************)
Fairness ==
  /\ WF_vars(\E k \in Rumor : BroadcastPush(k))
  /\ WF_vars(\E n \in Node : Process(n))
  /\ WF_vars(\E n \in Node, k \in Rumor : SendIHaveMsg(n, k))
  /\ WF_vars(\E n \in Node, k \in Rumor : SendGraftMsg(n, k))
  /\ SF_vars(\E n \in Node, k \in Rumor : LazyQueueSender(n, k))
  /\ SF_vars(\E n \in Node, k \in Rumor : GraftTimeout(n, k))
  /\ \A m \in Node : SF_vars(\E n \in Node : ReSendNext(n, m))
  /\ AntiEntropy => \A n, m \in Node : SF_vars(SendStatus(n, m))

FairSpec == Spec /\ Fairness

-----------------------------------------------------------------------------
(* Properties.                                                             *)

\* The rumor table of n has rumor k.
InTable(n, k) == k <= table[n]

PacketBacked(pkt) ==
  CASE pkt.type = "rumor" -> InTable(pkt.src, pkt.hi)
    [] pkt.type = "ihave" -> InTable(pkt.src, pkt.seq)
    [] pkt.type = "ack"   -> InTable(pkt.src, pkt.seq)
    [] pkt.type = "graft" -> InTable(pkt.dst, pkt.seq)
    [] OTHER -> TRUE

PeerBacked(n) ==
  /\ table[n] <= table[Origin]
  /\ InTable(Origin, second[n])
  /\ \A k \in receivedMsg[n] \cup snaps[n] : InTable(n, k)
  /\ \A e \in rumorQueue[n] : InTable(n, e.seq)
  /\ \A k \in Rumor :
       /\ lazyQueue[n][k] # {} => InTable(n, k)
       /\ \A i \in 1..Len(lazyPeers[n][k]) : InTable(lazyPeers[n][k][i], k)
       /\ graft[n][k].pc # "none" => lazyPeers[n][k] # <<>>
       /\ graft[n][k].pc = "send" => graft[n][k].sent < MaxGrafts

\* Whatever a peer announces, forwards, resends, acknowledges or is asked for is in
\* its rumor table, however late the message; nobody has a rumor that the origin
\* does not have.  (With TypeOK, an inductive invariant.)
Backed ==
  /\ \A k \in unsent : InTable(Origin, k)
  /\ \A n \in Node : PeerBacked(n)
  /\ \A pkt \in net : PacketBacked(pkt)

\* A Graft asks for a rumor that its receiver has, though it may be sent long
\* after the IHave and to a peer whose table has changed since: GetInterval is
\* never called beyond the end of the rumor table, where it would panic.
GraftAnswerable ==
  \A pkt \in net : pkt.type = "graft" => pkt.seq <= table[pkt.dst]

\* A queued rumor is given up only when the peer it was sent to has accepted it,
\* whatever was lost, resent, overtaken or answered twice.
AckMeansAccepted ==
  [][\A n \in Node : \A e \in rumorQueue[n] :
       e \notin rumorQueue'[n] => e.seq <= table[e.dest]]_vars

\* Rumor k can still reach peer p: it is being broadcast, it is on its way or
\* will be resent, somebody tells p about it, or p asks for it.
OnItsWay(p, k) ==
  \/ k \in unsent /\ up[Origin]
  \/ \E pkt \in net : /\ pkt.dst = p
                      /\ \/ pkt.type = "rumor" /\ k \in pkt.lo..pkt.hi
                         \/ pkt.type = "ihave" /\ k = pkt.seq
  \/ \E n \in Node :
       /\ up[n]
       /\ \/ AckTimeout /\ \E e \in rumorQueue[n] : e.dest = p /\ e.seq = k
          \/ k \in snaps[n] /\ p \in Lazys(n)
          \/ p \in lazyQueue[n][k]
  \/ graft[p][k].pc # "none"

\* The tree never forgets a peer: when a peer has passed a rumor on, the rumor
\* that a neighbour of it waits for is on its way to this neighbour, through all
\* Prunes, Grafts, losses and stopped peers.
NobodyForgotten ==
  \A m, p \in Node :
    up[m] /\ up[p] /\ p \in neighbors[m] /\ table[p] + 1 \in receivedMsg[m]
      => OnItsWay(p, table[p] + 1)

\* "we expect every node to receive chat messages from every other nodes"
\* (peer/tests/unit/PlumTree_test.go:198), "It will eventually be distributed over all
\* nodes" (types/messaging_def.go:16): every rumor that is broadcast reaches
\* every peer that keeps running.
Delivered ==
  \A k \in Rumor :
    (k <= table[Origin])
      ~> (\A n \in Node : k <= table[n] \/ ~up[n] \/ ~up[Origin])

\* "When B is up, then all nodes should have the rumors from A and C"
\* (peer/tests/unit/HW1_test.go:605): a peer that becomes a neighbour of the
\* origin later receives by anti-entropy what it has missed.
CatchUp ==
  \A n \in Node, k \in Rumor :
    (k <= table[Origin] /\ n \in neighbors[Origin]) ~> (k <= table[n])

(***************************************************************************)
(* Refinement: the rumor tables grow in the order of the origin's.         *)
(***************************************************************************)
Order == INSTANCE RumorOrder WITH
           Peer <- Node \ {Origin},
           sent <- table[Origin],
           accepted <- [n \in Node \ {Origin} |-> table[n]]

\* Every peer processes the rumors of the origin in order and each once, while
\* the packets that bring them overtake each other and are repeated.
ImplementsRumorOrder == Order!Spec
=============================================================================
