-------------------------------- MODULE Pbft --------------------------------
(***************************************************************************)
(* The PBFT tagging protocol of peer/impl/safe_pbft.go and of Tag in       *)
(* peer/impl/mod.go.                                                       *)
(*                                                                         *)
(* Every peer runs one Processor goroutine, which executes the handlers    *)
(* one at a time, and any number of goroutines that call Tag.  They share  *)
(* SafePbft under its mutex.  PBFT messages travel as rumors: a peer       *)
(* accepts the rumors of one origin in sequence order (rumor tables), and  *)
(* rumors of different origins in any order.  The gossip layer that gets   *)
(* them there is abstracted to "the next rumor of an origin may be         *)
(* accepted at any time"; `accepted' is the length of the rumor table.     *)
(*                                                                         *)
(* A peer is its PaxosID, a number from 1 to N = TotalPeers.  A digest is  *)
(* the request it is the hash of.  Signatures always verify: the code has  *)
(* no message that is not signed by its sender.  The view is always 0.     *)
(***************************************************************************)
EXTENDS Integers, Sequences, FiniteSets

CONSTANTS
  N,                  \* TotalPeers
  Name, Mh,           \* file names and metahashes
  NoName, NoMh,       \* the zero values of both
  Calls,              \* the requests for which some client calls Tag
  Concurrent,         \* TRUE: a client calls Tag before an earlier Tag returned
  Faulty,             \* the peers on which TurnBad may be called
  CheckpointInterval,
  \* Bounds of the model:
  MaxSlot,            \* the largest PBFT ID
  MaxSends,           \* how often one Tag sends its PrePrepare
  SlowRetry           \* TRUE: the 10 ms retry fires when no rumor is in flight

Node    == 1..N
Slot    == (N + 1)..MaxSlot          \* AssignPbftID adds N to the PaxosID first
Request == [hr : Node, name : Name, mh : Mh]
NoReq   == [hr |-> 0, name |-> NoName, mh |-> NoMh]
Digest  == Request \cup {NoReq}       \* NoReq: the digest "" of an absent entry
Hr      == Node \cup {0}              \* 0: the empty IDhr of a zero request

ASSUME PbftAssumption ==
  /\ N \in Nat \ {0, 1}
  /\ MaxSlot \in Nat
  /\ MaxSends \in Nat
  /\ CheckpointInterval \in Nat \ {0}
  /\ NoName \notin Name
  /\ NoMh \notin Mh
  /\ Calls \subseteq Request
  /\ Faulty \subseteq Node
  /\ Concurrent \in BOOLEAN
  /\ SlowRetry \in BOOLEAN

Message ==
       [type : {"PrePrepare", "Prepare", "Commit", "Checkpoint"},
        id : Slot, digest : Request]
Index   == {s \div N : s \in Slot}
Block   == [index : Index, req : Digest]

VARIABLES
  \* SafePbft of each peer
  pbftID,             \* the last PBFT ID the peer assigned
  state,              \* 0 (or absent), 1 prepared, 2 committed
  logRequest,         \* the requests known by their digest
  logPrePrepareMsg,   \* per slot, the digest pre-prepared in it
  logPrepareMsg,      \* per source and slot, the digest prepared
  logCommitMsg,       \* per source and slot, the digest committed
  logCheckpointMsg,   \* per slot, the sources of checkpoints
  lastCheckpoint,
  role,               \* 0 good, 1 malicious
  leaked,             \* a handler returned with the mutex held
  \* HrStorage of each peer
  hrChain, hrNaming,
  \* the Processor: the Prepare that is still to be broadcast, or NoPrepare
  pending,
  \* the rumors each peer originated, and how many of them each other peer took
  rumors, accepted,
  \* the goroutines that run Tag: program counter, number of PrePrepares sent
  tag, sends

pbftVars  == <<pbftID, state, logRequest, logPrePrepareMsg, logPrepareMsg,
               logCommitMsg, logCheckpointMsg, lastCheckpoint, role, leaked>>
storeVars == <<hrChain, hrNaming>>
tagVars   == <<tag, sends>>
vars      == <<pbftVars, storeVars, pending, rumors, accepted, tagVars>>

NoPrepare == [id |-> 0, digest |-> NoReq]

TypeOK ==
  /\ pbftID \in [Node -> Nat]
  /\ state \in [Node -> [Slot -> 0..2]]
  /\ logRequest \in [Node -> SUBSET Request]
  /\ logPrePrepareMsg \in [Node -> [Slot -> Digest]]
  /\ logPrepareMsg \in [Node -> [Node -> [Slot -> Digest]]]
  /\ logCommitMsg \in [Node -> [Node -> [Slot -> Digest]]]
  /\ logCheckpointMsg \in [Node -> [Slot -> SUBSET Node]]
  /\ lastCheckpoint \in [Node -> Slot \cup {0}]
  /\ role \in [Node -> {0, 1}]
  /\ leaked \in [Node -> BOOLEAN]
  /\ hrChain \in [Node -> [Hr -> Seq(Block)]]
  /\ hrNaming \in [Node -> [Hr -> [Name \cup {NoName} -> Mh \cup {NoMh}]]]
  /\ pending \in [Node -> [id : Slot, digest : Request] \cup {NoPrepare}]
  /\ rumors \in [Node -> Seq(Message)]
  /\ accepted \in [Node -> [Node -> Nat]]
  /\ tag \in [Calls -> {"idle", "check", "send", "done", "rejected"}]
  /\ sends \in [Calls -> 0..MaxSends]

-----------------------------------------------------------------------------
(* Thresholds and blocks.                                                  *)

\* The integer divisions of the code: TotalPeers/3*2.
TwoThirds == (N \div 3) * 2

(***************************************************************************)
(* Some definitions below are preceded by a variant with a plausible bug,  *)
(* named after it with a suffix Bug...; no module uses them.  Replacing    *)
(* the definition by its variant must break a property (PROJECT.json).     *)
(***************************************************************************)

RequestOfBugAnyKnown(n, digest) ==
  IF logRequest[n] = {} THEN NoReq ELSE CHOOSE q \in logRequest[n] : TRUE

\* logRequest[digest]: the zero request when the digest is unknown.
RequestOf(n, digest) == IF digest \in logRequest[n] THEN digest ELSE NoReq

GetPbftBlockBugIndex(request, index) == [index |-> index + 1, req |-> request]

\* The block that GetPbftBlock builds on the last block of the request's HR.
\* PrevHash is the chain up to this block.
GetPbftBlock(request, index) == [index |-> index, req |-> request]

\* The sources whose logged digest for a slot is the one pre-prepared there.
Matching(log, n, id, prePrepared) ==
  {m \in Node : prePrepared # NoReq /\ log[n][m][id] = prePrepared}

\* The PBFT ID of a new Tag: the IDs of different peers never meet.
InitialID(n) == n
NextIDBugNotStored(n) == InitialID(n) + N
NextID(n) == pbftID[n] + N

\* The slot is pre-prepared for another digest.
Conflict(n, id, digest) == logPrePrepareMsg[n][id] \notin {NoReq, digest}

\* "2f of prepare message received", and the slot is new.
PreparedBugRepeated(n, id, count) == count >= TwoThirds
Prepared(n, id, count) == count >= TwoThirds /\ state[n][id] = 0

\* "2f+1 of commit message received", and the slot is prepared.
CommittedBugRepeated(n, id, count) == count > TwoThirds /\ state[n][id] >= 1
CommittedBugQuorum(n, id, count) == count >= TwoThirds /\ state[n][id] = 1
Committed(n, id, count) == count > TwoThirds /\ state[n][id] = 1

Originate(n, msgs) == rumors' = [rumors EXCEPT ![n] = @ \o msgs]

\* No rumor is on its way and no handler is half done.
Quiet ==
  /\ \A n, m \in Node : n # m => accepted[n][m] = Len(rumors[m])
  /\ \A n \in Node : pending[n] = NoPrepare

-----------------------------------------------------------------------------
(* Tag.                                                                    *)

Active(r) == tag[r] \in {"check", "send"}

NameTakenBugUnchecked(r) == FALSE
NameTaken(r) == hrNaming[r.hr][r.hr][r.name] # NoMh

\* A client calls Tag: an existing name of this HR is an error.
TagCall(r) ==
  /\ tag[r] = "idle"
  /\ Concurrent \/ \A q \in Calls : q.hr = r.hr => ~Active(q)
  /\ tag' = [tag EXCEPT ![r] =
               IF NameTaken(r) THEN "rejected" ELSE "check"]
  /\ UNCHANGED <<pbftVars, storeVars, pending, rumors, accepted, sends>>

\* The top of the loop: Tag returns once its own store maps the name to mh.
TagCheck(r) ==
  /\ tag[r] = "check"
  /\ tag' = [tag EXCEPT ![r] =
               IF hrNaming[r.hr][r.hr][r.name] = r.mh THEN "done" ELSE "send"]
  /\ UNCHANGED <<pbftVars, storeVars, pending, rumors, accepted, sends>>

\* The 10 ms wait of the loop is over.  SlowRetry and MaxSends are bounds.
SendDueBugOnce(r) == sends[r] = 0
SendDue(r) ==
  /\ sends[r] < MaxSends
  /\ sends[r] = 0 \/ ~SlowRetry \/ Quiet

\* The rest of the loop, under the mutex.  The first pass assigns a PBFT ID;
\* every pass pre-prepares the request in the slot that is current NOW.
TagSend(r) ==
  LET n     == r.hr
      first == sends[r] = 0
      id    == IF first THEN NextID(n) ELSE pbftID[n]
      cp    == first /\ id % CheckpointInterval = 0
  IN
  /\ tag[r] = "send"
  /\ ~leaked[n]
  /\ SendDue(r)
  /\ id + (IF Faulty = {} THEN 0 ELSE 2) <= MaxSlot   \* bound
  /\ pbftID' = [pbftID EXCEPT ![n] = id]
  /\ state' = [state EXCEPT ![n][id] = IF first THEN 0 ELSE @]
  /\ logPrePrepareMsg' = [logPrePrepareMsg EXCEPT ![n][id] = r]
  /\ logRequest' = [logRequest EXCEPT ![n] = @ \cup {r}]
  /\ Originate(n, <<[type |-> "PrePrepare", id |-> id, digest |-> r]>>
                  \o (IF cp THEN <<[type |-> "Checkpoint", id |-> id, digest |-> r]>>
                            ELSE <<>>))
  /\ logCheckpointMsg' =
       IF cp THEN [logCheckpointMsg EXCEPT ![n][id] = @ \cup {n}] ELSE logCheckpointMsg
  /\ tag' = [tag EXCEPT ![r] = "check"]
  /\ sends' = [sends EXCEPT ![r] = @ + 1]
  /\ UNCHANGED <<logPrepareMsg, logCommitMsg, lastCheckpoint, role, leaked,
                 storeVars, pending, accepted>>

-----------------------------------------------------------------------------
(* The handlers.                                                           *)

NextRumor(n, m) == rumors[m][accepted[n][m] + 1]

\* The Processor of n takes the next rumor of m, a message of this type.  It
\* blocks for ever once the mutex is leaked.  A peer ignores its own rumors.
Take(n, m, type) ==
  /\ n # m
  /\ pending[n] = NoPrepare
  /\ ~leaked[n]
  /\ accepted[n][m] < Len(rumors[m])
  /\ NextRumor(n, m).type = type
  /\ accepted' = [accepted EXCEPT ![n][m] = @ + 1]

\* A malicious peer's messages are about the slot after the one they belong to.
Shift(n, id) == id + role[n]

\* A slot that already holds another digest: the handler returns without
\* unlocking.  Otherwise the peer logs the pre-prepare and its own prepare, and
\* unlocks; the Prepare is broadcast later.
ExecPrePrepareMessage(n, m) ==
  LET pp == NextRumor(n, m) IN
  /\ Take(n, m, "PrePrepare")
  /\ IF Conflict(n, pp.id, pp.digest)
       THEN /\ leaked' = [leaked EXCEPT ![n] = TRUE]
            /\ UNCHANGED <<logPrePrepareMsg, logRequest, logPrepareMsg, pending>>
       ELSE /\ logPrePrepareMsg' = [logPrePrepareMsg EXCEPT ![n][pp.id] = pp.digest]
            /\ logRequest' = [logRequest EXCEPT ![n] = @ \cup {pp.digest}]
            /\ logPrepareMsg' = [logPrepareMsg EXCEPT ![n][n][pp.id] = pp.digest]
            /\ pending' = [pending EXCEPT ![n] = [id |-> pp.id, digest |-> pp.digest]]
            /\ UNCHANGED leaked
  /\ UNCHANGED <<pbftID, state, logCommitMsg, logCheckpointMsg, lastCheckpoint,
                 role, storeVars, rumors, tagVars>>

\* The end of ExecPrePrepareMessage, outside the mutex.
BroadcastPrepare(n) ==
  /\ pending[n] # NoPrepare
  /\ Originate(n, <<[type |-> "Prepare", id |-> Shift(n, pending[n].id),
                     digest |-> pending[n].digest]>>)
  /\ pending' = [pending EXCEPT ![n] = NoPrepare]
  /\ UNCHANGED <<pbftVars, storeVars, accepted, tagVars>>

\* Enough sources prepared what is pre-prepared in the slot, and the slot is
\* not prepared yet: log and broadcast a commit for the digest of THIS message.
ExecPrepareMessage(n, m) ==
  LET pre == NextRumor(n, m)
      log == [logPrepareMsg EXCEPT ![n][m][pre.id] = pre.digest]
      count == Cardinality(Matching(log, n, pre.id, logPrePrepareMsg[n][pre.id]))
  IN
  /\ Take(n, m, "Prepare")
  /\ logPrepareMsg' = log
  /\ IF Prepared(n, pre.id, count)
       THEN /\ state' = [state EXCEPT ![n][pre.id] = 1]
            /\ logCommitMsg' = [logCommitMsg EXCEPT ![n][n][pre.id] = pre.digest]
            /\ Originate(n, <<[type |-> "Commit", id |-> Shift(n, pre.id),
                               digest |-> pre.digest]>>)
       ELSE UNCHANGED <<state, logCommitMsg, rumors>>
  /\ UNCHANGED <<pbftID, logRequest, logPrePrepareMsg, logCheckpointMsg,
                 lastCheckpoint, role, leaked, storeVars, pending, tagVars>>

\* Enough sources committed what is pre-prepared in the slot, and the slot is
\* prepared: append the request of THIS message to the chain of its HR.
ExecCommitMessage(n, m) ==
  LET c == NextRumor(n, m)
      log == [logCommitMsg EXCEPT ![n][m][c.id] = c.digest]
      count == Cardinality(Matching(log, n, c.id, logPrePrepareMsg[n][c.id]))
      request == RequestOf(n, c.digest)
  IN
  /\ Take(n, m, "Commit")
  /\ logCommitMsg' = log
  /\ IF Committed(n, c.id, count)
       THEN /\ state' = [state EXCEPT ![n][c.id] = 2]
            /\ hrChain' = [hrChain EXCEPT ![n][request.hr] =
                             Append(@, GetPbftBlock(request, c.id \div N))]
            /\ hrNaming' = [hrNaming EXCEPT ![n][request.hr][request.name] = request.mh]
       ELSE UNCHANGED <<state, storeVars>>
  /\ UNCHANGED <<pbftID, logRequest, logPrePrepareMsg, logPrepareMsg, logCheckpointMsg,
                 lastCheckpoint, role, leaked, pending, rumors, tagVars>>

\* The digest of a checkpoint is stored but only the sources are counted.
ExecCheckpointMessage(n, m) ==
  LET cp == NextRumor(n, m)
      sources == logCheckpointMsg[n][cp.id] \cup {m}
  IN
  /\ Take(n, m, "Checkpoint")
  /\ logCheckpointMsg' = [logCheckpointMsg EXCEPT ![n][cp.id] = sources]
  /\ lastCheckpoint' = [lastCheckpoint EXCEPT ![n] =
                          IF Cardinality(sources) >= TwoThirds + 1 THEN cp.id ELSE @]
  /\ UNCHANGED <<pbftID, state, logRequest, logPrePrepareMsg, logPrepareMsg,
                 logCommitMsg, role, leaked, storeVars, pending, rumors, tagVars>>

TurnBad(n) ==
  /\ n \in Faulty
  /\ ~leaked[n]
  /\ role[n] = 0
  /\ role' = [role EXCEPT ![n] = 1]
  /\ UNCHANGED <<pbftID, state, logRequest, logPrePrepareMsg, logPrepareMsg,
                 logCommitMsg, logCheckpointMsg, lastCheckpoint, leaked,
                 storeVars, pending, rumors, accepted, tagVars>>

-----------------------------------------------------------------------------
Init ==
  /\ pbftID = [n \in Node |-> InitialID(n)]
  /\ state = [n \in Node |-> [s \in Slot |-> 0]]
  /\ logRequest = [n \in Node |-> {}]
  /\ logPrePrepareMsg = [n \in Node |-> [s \in Slot |-> NoReq]]
  /\ logPrepareMsg = [n \in Node |-> [m \in Node |-> [s \in Slot |-> NoReq]]]
  /\ logCommitMsg = [n \in Node |-> [m \in Node |-> [s \in Slot |-> NoReq]]]
  /\ logCheckpointMsg = [n \in Node |-> [s \in Slot |-> {}]]
  /\ lastCheckpoint = [n \in Node |-> 0]
  /\ role = [n \in Node |-> 0]
  /\ leaked = [n \in Node |-> FALSE]
  /\ hrChain = [n \in Node |-> [h \in Hr |-> <<>>]]
  /\ hrNaming = [n \in Node |-> [h \in Hr |-> [x \in Name \cup {NoName} |-> NoMh]]]
  /\ pending = [n \in Node |-> NoPrepare]
  /\ rumors = [n \in Node |-> <<>>]
  /\ accepted = [n \in Node |-> [m \in Node |-> 0]]
  /\ tag = [r \in Calls |-> "idle"]
  /\ sends = [r \in Calls |-> 0]

Process(n) ==
  \/ BroadcastPrepare(n)
  \/ \E m \in Node : \/ ExecPrePrepareMessage(n, m)
                     \/ ExecPrepareMessage(n, m)
                     \/ ExecCommitMessage(n, m)
                     \/ ExecCheckpointMessage(n, m)

Next ==
  \/ \E r \in Calls : TagCall(r) \/ TagCheck(r) \/ TagSend(r)
  \/ \E n \in Node : Process(n)
  \/ \E n \in Node : TurnBad(n)

Spec == Init /\ [][Next]_vars

(***************************************************************************)
(* Fairness.  The Processor keeps running handlers, and the loop of Tag    *)
(* goes on; nobody has to call Tag or TurnBad.                             *)
(***************************************************************************)
Fairness ==
  /\ \A n \in Node : WF_vars(Process(n))
  /\ \A r \in Calls : WF_vars(TagCheck(r)) /\ WF_vars(TagSend(r))

FairSpec == Spec /\ Fairness

-----------------------------------------------------------------------------
(* Properties.                                                             *)

Blocks(n, h) == {hrChain[n][h][i] : i \in 1..Len(hrChain[n][h])}

\* Peers that committed the same slot (the blocks of one HR with one index)
\* committed the same request, however the handlers of different peers
\* interleave.
Agreement ==
  \A n, m \in Node, h \in Hr :
    \A b \in Blocks(n, h), c \in Blocks(m, h) : b.index = c.index => b.req = c.req

\* A peer appends a request to a chain at most once, though Tag repeats its
\* PrePrepare and every peer answers each copy.
NoDuplicateBlock ==
  \A n \in Node, h \in Hr :
    \A i, j \in 1..Len(hrChain[n][h]) :
      hrChain[n][h][i].req = hrChain[n][h][j].req => i = j

HasSent(m, type, id, digest) ==
  \E i \in 1..Len(rumors[m]) :
    rumors[m][i] = [type |-> type, id |-> id, digest |-> digest]

\* A slot is committed at a good peer only after more than TwoThirds peers broadcast
\* a Commit for what is pre-prepared in it, and at least one of them after
\* TwoThirds peers accepted the PrePrepare.
CommitBackedByQuorum ==
  \A n \in Node, s \in Slot :
    state[n][s] = 2 /\ role[n] = 0 =>
      LET d == logPrePrepareMsg[n][s] IN
      /\ Cardinality({m \in Node : HasSent(m, "Commit", s, d)}) > TwoThirds
      /\ Cardinality({m \in Node : HasSent(m, "Prepare", s, d)}) >= TwoThirds

\* What a good peer commits in a slot is what is pre-prepared there: the block that
\* it appends when the quorum is complete holds this request and no other.
CommittedIsApplied ==
  \A n \in Node, s \in Slot :
    state[n][s] = 2 /\ role[n] = 0 =>
      LET d == logPrePrepareMsg[n][s] IN
      [index |-> s \div N, req |-> d] \in Blocks(n, d.hr)

\* When Tag returns, more than TwoThirds peers are prepared for the request in
\* one slot, so that no other request can be committed in this slot.
TagIsDurable ==
  \A r \in Calls :
    tag[r] = "done" =>
      \E s \in Slot :
        Cardinality({m \in Node : state[m][s] >= 1 /\ logPrePrepareMsg[m][s] = r}) > TwoThirds

\* No handler returns with the mutex of SafePbft held, which would stop this
\* peer's Processor, and every Tag on it, for ever.
MutexNeverLeaked == \A n \in Node : ~leaked[n]

\* "ensure uniqueness with blockchain/TLC/Paxos" (peer/datasharing.go:31): the
\* chain of an HR gives a name at most one metahash.
NameIsUnique ==
  \A n \in Node, h \in Hr :
    \A b, c \in Blocks(n, h) : b.req.name = c.req.name => b.req.mh = c.req.mh

\* "Achieve consensus on the decision orders" (README.md:7): of the chains that
\* two peers have of one HR, one extends the other.
SameOrder ==
  \A n, m \in Node, h \in Hr :
    \A i \in 1..Len(hrChain[n][h]) :
      i <= Len(hrChain[m][h]) => hrChain[n][h][i] = hrChain[m][h][i]

\* The chain of an HR is in the order of the slots its requests were given.
SlotOrder ==
  \A n \in Node, h \in Hr :
    \A i, j \in 1..Len(hrChain[n][h]) :
      i < j => hrChain[n][h][i].index < hrChain[n][h][j].index

\* A slot goes from empty to prepared to committed and never back: a repeated or
\* a late message never makes a peer commit a slot again.
StateOnlyAdvances ==
  [][\A n \in Node, s \in Slot : state'[n][s] \in {state[n][s], state[n][s] + 1}]_vars

\* A Tag that has been called returns: whatever its PrePrepares overtook, the
\* retries bring a quorum of commits back to it.
TagReturns == \A r \in Calls : (tag[r] = "check") ~> (tag[r] = "done")

(***************************************************************************)
(* Refinement.  A slot's proposal is the first PrePrepare its owner sent   *)
(* for it; the log of an HR at a peer is the chain of blocks.              *)
(***************************************************************************)
IsFirstPrePrepare(h, i) ==
  /\ rumors[h][i].type = "PrePrepare"
  /\ \A j \in 1..(i - 1) :
       rumors[h][j].type = "PrePrepare" => rumors[h][j].id # rumors[h][i].id

Proposals(h) ==
  {GetPbftBlock(rumors[h][i].digest, rumors[h][i].id \div N) :
     i \in {i \in 1..Len(rumors[h]) : IsFirstPrePrepare(h, i)}}

Log == INSTANCE DecisionLog WITH
         Peer <- Node, HR <- Node, Request <- Request, Index <- Index,
         proposed <- [h \in Node |-> Proposals(h)],
         log <- [n \in Node |-> [h \in Node |-> hrChain[n][h]]]

\* Without malicious peers the protocol implements the abstract decision log:
\* what any peer appends was proposed by its HR, alone under its index, and is
\* appended once.
ImplementsDecisionLog == Log!Spec
=============================================================================
