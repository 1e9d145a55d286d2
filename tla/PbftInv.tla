------------------------------ MODULE PbftInv ------------------------------
(***************************************************************************)
(* The inductive invariants of Pbft.                                       *)
(*   TypeInv     bounds the PBFT IDs, for TypeOK.                          *)
(*   IInv        for no malicious peers: everything known about a slot     *)
(*               comes from the first PrePrepare that the slot's owner     *)
(*               broadcast for it.                                         *)
(*   OnceInv     moreover, a request is first in one slot only.            *)
(*   TagInv      for Tags that do not overlap, malicious peers or not: the *)
(*               PrePrepares for a slot agree, and quorums were sent.      *)
(*   DurableInv  for both: what a Tag or a name rests on was committed.    *)
(*   OrderInv    for three peers, too: chains follow the slots.            *)
(*   RetryInv    for three peers or more: the first retry is enough.       *)
(***************************************************************************)
EXTENDS Pbft

\* Peer n is the one that assigns PBFT ID s.
OwnedBy(s, n) == \E k \in 0..s : s = n + N * k

\* The digest of slot s is d in the first PrePrepare broadcast for s.
First(s, d) ==
  \E h \in Node : \E i \in 1..Len(rumors[h]) :
    IsFirstPrePrepare(h, i) /\ rumors[h][i].id = s /\ rumors[h][i].digest = d

-----------------------------------------------------------------------------
\* A Tag that has sent something was assigned an ID.
IdsOK ==
  /\ \A n \in Node : pbftID[n] >= n
  /\ \A r \in Calls : sends[r] > 0 => pbftID[r.hr] \in Slot

\* Malicious peers shift an ID at most twice on the way to a Commit.
ShiftRoom ==
  /\ \A n \in Node : role[n] = 1 => n \in Faulty
  /\ Faulty # {} =>
       /\ \A m \in Node : \A i \in 1..Len(rumors[m]) :
            /\ rumors[m][i].type = "PrePrepare" => rumors[m][i].id + 2 <= MaxSlot
            /\ rumors[m][i].type = "Prepare" => rumors[m][i].id + 1 <= MaxSlot
       /\ \A n \in Node : pending[n] # NoPrepare => pending[n].id + 2 <= MaxSlot

TypeInv == TypeOK /\ IdsOK /\ ShiftRoom

-----------------------------------------------------------------------------
\* PrePrepares are for slots and requests of the peer that broadcast them.
PrePreparesOwned ==
  /\ \A n \in Node : OwnedBy(pbftID[n], n)
  /\ \A m \in Node : \A i \in 1..Len(rumors[m]) :
       rumors[m][i].type = "PrePrepare" =>
         /\ rumors[m][i].digest.hr = m
         /\ OwnedBy(rumors[m][i].id, m)
         /\ rumors[m][i].id <= pbftID[m]

\* What a peer other than the owner pre-prepared came first, and it pre-prepared
\* something in each slot it got a PrePrepare for.
PrePreparedFirst ==
  \A n \in Node :
    /\ \A s \in Slot :
         logPrePrepareMsg[n][s] # NoReq =>
           /\ logPrePrepareMsg[n][s] \in logRequest[n]
           /\ ~OwnedBy(s, n) => First(s, logPrePrepareMsg[n][s])
    /\ \A m \in Node : n # m =>
         /\ accepted[n][m] <= Len(rumors[m])
         /\ \A i \in 1..accepted[n][m] :
              rumors[m][i].type = "PrePrepare" =>
                logPrePrepareMsg[n][rumors[m][i].id] # NoReq

\* Prepares and Commits repeat the first PrePrepare, on the way and in the logs.
VotesFirst ==
  /\ \A m \in Node : \A i \in 1..Len(rumors[m]) :
       rumors[m][i].type \in {"Prepare", "Commit"} =>
         First(rumors[m][i].id, rumors[m][i].digest)
  /\ \A n \in Node : pending[n] # NoPrepare => First(pending[n].id, pending[n].digest)
  /\ \A n, m \in Node, s \in Slot :
       /\ logPrepareMsg[n][m][s] # NoReq => First(s, logPrepareMsg[n][m][s])
       /\ logCommitMsg[n][m][s] # NoReq => First(s, logCommitMsg[n][m][s])

\* A block of an HR is the first PrePrepare of a slot that the peer committed.
BlocksFirst ==
  \A n \in Node, h \in Hr : \A i \in 1..Len(hrChain[n][h]) :
    \E s \in Slot :
      /\ First(s, hrChain[n][h][i].req)
      /\ hrChain[n][h][i].index = s \div N
      /\ hrChain[n][h][i].req.hr = h
      /\ state[n][s] = 2

\* The inductive invariant when Faulty is empty.
IInv ==
  /\ TypeInv
  /\ PrePreparesOwned
  /\ PrePreparedFirst
  /\ VotesFirst
  /\ BlocksFirst

-----------------------------------------------------------------------------
\* A slot has a state only if something was proposed for it.
StateFirst == \A n \in Node, s \in Slot : state[n][s] # 0 => \E d \in Request : First(s, d)

\* The requests that were broadcast.
Sent == {r \in Calls : sends[r] > 0}

\* The first PrePrepare of a slot is the first one of its request: a repeated
\* PrePrepare is for a slot that has one.
ProposedOnce ==
  /\ \A s \in Slot, d \in Request : First(s, d) => d \in Sent
  /\ \A r \in Sent : \E d \in Request : First(pbftID[r.hr], d)
  /\ \A s, t \in Slot, d \in Request : First(s, d) /\ First(t, d) => s = t

\* The blocks of a chain are for different slots.
BlocksDistinct ==
  \A n \in Node, h \in Hr : \A i, j \in 1..Len(hrChain[n][h]) :
    hrChain[n][h][i].index = hrChain[n][h][j].index => i = j

\* With IInv, inductive when Faulty is empty.
OnceInv == StateFirst /\ ProposedOnce /\ BlocksDistinct

-----------------------------------------------------------------------------
\* The Tag got past the check of the name.
Passed(r) == tag[r] \notin {"idle", "rejected"}

\* A peer tags one request at a time, and a name only once: a Tag that returned
\* leaves its name taken.
OneTagAtATime ==
  /\ \A q, r \in Calls : Active(q) /\ Active(r) /\ q.hr = r.hr => q = r
  /\ \A q, r \in Calls :
       Passed(q) /\ Passed(r) /\ q.hr = r.hr /\ q.name = r.name => q = r
  /\ \A r \in Calls : tag[r] = "done" => NameTaken(r)
  /\ \A r \in Sent : Passed(r)

\* What the peers know about are requests that were broadcast; a chain holds the
\* requests of its HR.
OnlySent ==
  /\ \A m \in Node : \A i \in 1..Len(rumors[m]) : rumors[m][i].digest \in Sent
  /\ \A n \in Node : logRequest[n] \subseteq Sent
  /\ \A n \in Node : pending[n] # NoPrepare => pending[n].digest \in Sent
  /\ \A n \in Node, h \in Hr : \A i \in 1..Len(hrChain[n][h]) :
       hrChain[n][h][i].req \in Sent \cup {NoReq} /\ hrChain[n][h][i].req.hr = h

\* The PrePrepares for a slot agree, also with the one a Tag may still repeat,
\* and with what the peers have pre-prepared; so nobody refuses one.
OneDigestPerSlot ==
  /\ \A m \in Node : \A i, j \in 1..Len(rumors[m]) :
       /\ rumors[m][i].type = "PrePrepare" /\ rumors[m][j].type = "PrePrepare"
       /\ rumors[m][i].id = rumors[m][j].id
       => rumors[m][i].digest = rumors[m][j].digest
  /\ \A r \in Calls : Active(r) /\ sends[r] > 0 =>
       \A i \in 1..Len(rumors[r.hr]) :
         rumors[r.hr][i].type = "PrePrepare" /\ rumors[r.hr][i].id = pbftID[r.hr]
         => rumors[r.hr][i].digest = r
  /\ \A n \in Node, s \in Slot :
       LET d == logPrePrepareMsg[n][s] IN
       d # NoReq => HasSent(d.hr, "PrePrepare", s, d)
  /\ \A n \in Node : ~leaked[n]

\* The votes a good peer counts were broadcast, except that its own Prepare is
\* logged before it is.
VotesSent ==
  \A n, m \in Node, s \in Slot, d \in Request : m # n \/ role[n] = 0 =>
    /\ logPrepareMsg[n][m][s] = d =>
         \/ HasSent(m, "Prepare", s, d)
         \/ m = n /\ pending[n] = [id |-> s, digest |-> d]
    /\ logCommitMsg[n][m][s] = d => HasSent(m, "Commit", s, d)

Senders(type, s, d) == {m \in Node : HasSent(m, type, s, d)}

\* The quorums that a good peer saw.
QuorumsSent ==
  \A n \in Node, s \in Slot : role[n] = 0 =>
    LET d == logPrePrepareMsg[n][s] IN
    /\ state[n][s] >= 1 =>
         /\ Cardinality(Senders("Prepare", s, d)) >= TwoThirds
         /\ d = NoReq => TwoThirds = 0
    /\ state[n][s] = 2 =>
         /\ Cardinality(Senders("Commit", s, d)) > TwoThirds
         /\ d # NoReq

\* The inductive invariant when Concurrent is FALSE, with or without malicious
\* peers.
TagInv ==
  /\ TypeInv
  /\ PrePreparesOwned
  /\ OneTagAtATime
  /\ OnlySent
  /\ OneDigestPerSlot
  /\ VotesSent
  /\ QuorumsSent

\* Peer n committed request r.
HasCommitted(n, r) == \E s \in Slot : state[n][s] = 2 /\ logPrePrepareMsg[n][s] = r

\* With IInv and TagInv, inductive when moreover Faulty is empty: a Commit is sent by
\* a peer that is prepared, names are bound and Tags return by commits.
DurableInv ==
  /\ TwoThirds > 0 =>
       \A m \in Node, s \in Slot, d \in Request : HasSent(m, "Commit", s, d) =>
         state[m][s] >= 1 /\ logPrePrepareMsg[m][s] = d
  /\ \A n, h \in Node, x \in Name : hrNaming[n][h][x] # NoMh =>
       HasCommitted(n, [hr |-> h, name |-> x, mh |-> hrNaming[n][h][x]])
  /\ \A r \in Calls : tag[r] = "done" => HasCommitted(r.hr, r)
-----------------------------------------------------------------------------
\* A peer broadcasts its Commits for the slots of one owner in the order of the
\* slots.
CommitsInOrder ==
  \A m \in Node : \A i, j \in 1..Len(rumors[m]) :
    /\ rumors[m][i].type = "Commit" /\ rumors[m][j].type = "Commit"
    /\ rumors[m][i].digest.hr = rumors[m][j].digest.hr
    /\ i < j
    => rumors[m][i].id < rumors[m][j].id

\* A peer goes on to its next slot when it has committed the last one.
SlotsCompleted ==
  \A s \in Slot, d \in Request :
    First(s, d) /\ s # pbftID[d.hr] => state[d.hr][s] = 2

\* A peer commits when it has taken the Commits of all others.
CommitsAccepted ==
  \A n, m \in Node, s \in Slot : n # m =>
    /\ logCommitMsg[n][m][s] # NoReq =>
         \E i \in 1..accepted[n][m] : rumors[m][i].type = "Commit" /\ rumors[m][i].id = s
    /\ state[n][s] = 2 => logCommitMsg[n][m][s] # NoReq

\* With IInv, TagInv, DurableInv and OnceInv, inductive when moreover N = 3: then a
\* quorum of commits is every peer.
OrderInv == CommitsInOrder /\ SlotsCompleted /\ CommitsAccepted /\ SlotOrder
-----------------------------------------------------------------------------
\* The owner of a slot keeps its own request pre-prepared there.
OwnerPrePrepared ==
  \A s \in Slot, d \in Request : First(s, d) => logPrePrepareMsg[d.hr][s] = d

\* The PrePrepare is not the first one of its slot.
Repeats(h, j) == rumors[h][j].type = "PrePrepare" /\ ~IsFirstPrePrepare(h, j)

RetriesRepeat ==
  \A r \in Calls : sends[r] >= 2 =>
    \E j \in 1..Len(rumors[r.hr]) : Repeats(r.hr, j) /\ rumors[r.hr][j].digest = r

\* A peer that pre-prepared another one's request has answered it, or is about to.
PreparesFollow ==
  \A n \in Node, s \in Slot, d \in Request :
    logPrePrepareMsg[n][s] = d /\ n # d.hr =>
      pending[n] = [id |-> s, digest |-> d] \/ HasSent(n, "Prepare", s, d)

\* A peer logs its own votes, and broadcasts a Commit once it is prepared.
OwnVotes ==
  \A n \in Node, s \in Slot, d \in Request :
    /\ pending[n] = [id |-> s, digest |-> d] \/ HasSent(n, "Prepare", s, d) =>
         logPrepareMsg[n][n][s] = d
    /\ HasSent(n, "Commit", s, d) => logCommitMsg[n][n][s] = d
    /\ state[n][s] >= 1 /\ First(s, d) => HasSent(n, "Commit", s, d)

\* A vote that was taken is logged.
VotesLogged ==
  \A n, m \in Node : n # m => \A i \in 1..accepted[n][m] :
    /\ rumors[m][i].type = "Prepare" =>
         logPrepareMsg[n][m][rumors[m][i].id] = rumors[m][i].digest
    /\ rumors[m][i].type = "Commit" =>
         logCommitMsg[n][m][rumors[m][i].id] = rumors[m][i].digest

\* Only the owner of a slot broadcasts a Commit for it without a Prepare before; so a
\* peer that has logged the Commit has logged the Prepare.
PreparesFirst ==
  /\ \A m \in Node : \A i \in 1..Len(rumors[m]) :
       rumors[m][i].type = "Commit" /\ m # rumors[m][i].digest.hr =>
         \E j \in 1..(i - 1) :
           rumors[m][j] = [type |-> "Prepare", id |-> rumors[m][i].id,
                           digest |-> rumors[m][i].digest]
  /\ \A n, m \in Node, s \in Slot, d \in Request :
       n # m /\ m # d.hr /\ logCommitMsg[n][m][s] = d => logPrepareMsg[n][m][s] = d

\* The owner of a slot is prepared, and has committed, as soon as its log has enough
\* votes: it has pre-prepared the slot before anyone votes.
OwnerCounts ==
  \A s \in Slot, d \in Request : First(s, d) =>
    /\ state[d.hr][s] = 0 => Cardinality(Matching(logPrepareMsg, d.hr, s, d)) < TwoThirds
    /\ state[d.hr][s] = 1 => Cardinality(Matching(logCommitMsg, d.hr, s, d)) <= TwoThirds

\* A PrePrepare is repeated when everybody has the votes that the first one led to,
Settled ==
  \A h \in Node : \A j \in 1..Len(rumors[h]) : Repeats(h, j) =>
    \A n \in Node :
      /\ logPrePrepareMsg[n][rumors[h][j].id] = rumors[h][j].digest
      /\ \A m \in Node \ {h} :
           logPrepareMsg[n][m][rumors[h][j].id] = rumors[h][j].digest

\* so that the peers which take an answer to the repeated one are prepared.
SecondAnswers ==
  \A h, m \in Node : h # m => \A j \in 1..accepted[m][h] : Repeats(h, j) =>
    LET s == rumors[h][j].id
        d == rumors[h][j].digest
    IN  \/ pending[m] = [id |-> s, digest |-> d]
        \/ \E k \in 1..Len(rumors[m]) :
             /\ rumors[m][k] = [type |-> "Prepare", id |-> s, digest |-> d]
             /\ \A n \in Node \ {m} : accepted[n][m] >= k => state[n][s] >= 1

\* A peer has the name of what it has committed in its store.
CommitsStored ==
  \A n \in Node, s \in Slot, d \in Request :
    state[n][s] = 2 /\ logPrePrepareMsg[n][s] = d => hrNaming[n][d.hr][d.name] # NoMh

\* With the others, inductive when moreover N > 2 and retries are slow: the first
\* retry of a Tag is enough.
RetryInv ==
  /\ OwnerPrePrepared /\ RetriesRepeat /\ PreparesFollow /\ OwnVotes /\ VotesLogged
  /\ PreparesFirst /\ OwnerCounts /\ Settled /\ SecondAnswers /\ CommitsStored
=============================================================================
