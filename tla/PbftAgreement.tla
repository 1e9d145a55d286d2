--------------------------- MODULE PbftAgreement ---------------------------
(***************************************************************************)
(* Without malicious peers, the peers of Pbft agree.  The invariant IInv   *)
(* says that everything known about a slot repeats the first PrePrepare    *)
(* that the slot's owner broadcast; it is inductive because                *)
(*   - only one peer assigns a given slot (OwnerUnique),                   *)
(*   - a peer takes the rumors of one origin in order and refuses a        *)
(*     PrePrepare that contradicts the one it has, and                     *)
(*   - a quorum of votes is never empty, so that the digest of the vote    *)
(*     that completes it is the one pre-prepared.                          *)
(***************************************************************************)
EXTENDS PbftProofs, FiniteSetTheorems

-----------------------------------------------------------------------------
(* Updates of one entry of a table of tables.                              *)

LEMMA Except2 ==
  ASSUME NEW A, NEW B, NEW R, NEW f \in [A -> [B -> R]], NEW a \in A, NEW b \in B, NEW e
  PROVE  \A x \in A, y \in B :
           [f EXCEPT ![a][b] = e][x][y] = IF x = a /\ y = b THEN e ELSE f[x][y]
OBVIOUS

LEMMA Except3 ==
  ASSUME NEW A, NEW B, NEW C, NEW R, NEW f \in [A -> [B -> [C -> R]]],
         NEW a \in A, NEW b \in B, NEW c \in C, NEW e
  PROVE  \A x \in A, y \in B, z \in C :
           [f EXCEPT ![a][b][c] = e][x][y][z] =
             IF x = a /\ y = b /\ z = c THEN e ELSE f[x][y][z]
OBVIOUS

\* The entries of a table with one entry per peer and slot after one is set.
LEMMA SlotTable ==
  ASSUME NEW R, NEW f \in [Node -> [Slot -> R]], NEW g,
         NEW a \in Node, NEW c \in Slot, NEW e,
         g = [f EXCEPT ![a][c] = e]
  PROVE  \A x \in Node, z \in Slot :
           g[x][z] = IF x = a /\ z = c THEN e ELSE f[x][z]
BY Except2

\* The entries of a table of Prepares or Commits after one of them is set.
LEMMA VoteTable ==
  ASSUME NEW f \in [Node -> [Node -> [Slot -> Digest]]], NEW g,
         NEW a \in Node, NEW b \in Node, NEW c \in Slot, NEW e,
         g = [f EXCEPT ![a][b][c] = e]
  PROVE  \A x \in Node, y \in Node, z \in Slot :
           g[x][y][z] = IF x = a /\ y = b /\ z = c THEN e ELSE f[x][y][z]
BY Except3

\* The blocks of the chains after one block is appended.
LEMMA ChainAppend ==
  ASSUME TypeOK, NEW g, NEW a \in Node, NEW h \in Hr, NEW b,
         g = [hrChain EXCEPT ![a][h] = Append(@, b)],
         NEW x \in Node, NEW y \in Hr
  PROVE  /\ Len(hrChain[x][y]) \in Nat
         /\ \A i \in 1..Len(hrChain[x][y]) :
              i \in 1..Len(g[x][y]) /\ g[x][y][i] = hrChain[x][y][i]
         /\ \A i \in 1..Len(g[x][y]) :
              \/ i \in 1..Len(hrChain[x][y])
              \/ x = a /\ y = h /\ i = Len(hrChain[x][y]) + 1 /\ g[x][y][i] = b
<1>1. hrChain \in [Node -> [Hr -> Seq(Block)]]
  BY DEF TypeOK
<1>2. g[x][y] = IF x = a /\ y = h THEN Append(hrChain[a][h], b) ELSE hrChain[x][y]
  BY <1>1, Except2
<1>3. hrChain[x][y] \in Seq(Block) /\ Len(hrChain[x][y]) \in Nat
  BY <1>1, LenProperties
<1>4. CASE x = a /\ y = h
  <2>1. g[x][y] = Append(hrChain[x][y], b)
    BY <1>2, <1>4
  <2>2. /\ Len(g[x][y]) = Len(hrChain[x][y]) + 1
        /\ \A i \in 1..Len(hrChain[x][y]) : g[x][y][i] = hrChain[x][y][i]
        /\ g[x][y][Len(hrChain[x][y]) + 1] = b
    BY <1>3, <2>1
  <2> QED BY <1>3, <1>4, <2>2
<1>5. CASE ~(x = a /\ y = h)
  BY <1>2, <1>3, <1>5
<1> QED BY <1>4, <1>5

-----------------------------------------------------------------------------
(* Slots and their owners.                                                 *)

LEMMA Multiples ==
  ASSUME NEW a \in Nat, NEW j \in Nat, NEW k \in Nat, j > k
  PROVE  a * j >= a * k + a
<1>1. PICK e \in Nat : j = k + 1 + e
  <2>1. j - k - 1 \in Nat /\ j = k + 1 + (j - k - 1)
    OBVIOUS
  <2> QED BY <2>1
<1>2. a * (k + 1 + e) = a * k + a + a * e
  OBVIOUS
<1>3. a * e \in Nat /\ a * k \in Nat
  OBVIOUS
<1> QED BY <1>1, <1>2, <1>3

\* Two peers never assign the same slot.
LEMMA OwnerUnique ==
  ASSUME NEW s \in Nat, NEW n \in Node, NEW m \in Node, OwnedBy(s, n), OwnedBy(s, m)
  PROVE  n = m
<1> USE PbftAssumption
<1>1. PICK j \in 0..s : s = n + N * j
  BY DEF OwnedBy
<1>2. PICK k \in 0..s : s = m + N * k
  BY DEF OwnedBy
<1>3. /\ n \in Nat /\ m \in Nat /\ j \in Nat /\ k \in Nat /\ N \in Nat
      /\ n >= 1 /\ n <= N /\ m >= 1 /\ m <= N
  BY DEF Node
<1>4. N * j \in Nat /\ N * k \in Nat
  BY <1>3
<1>5. CASE j = k
  BY <1>1, <1>2, <1>3, <1>4, <1>5
<1>6. CASE j > k
  <2>1. N * j >= N * k + N
    BY <1>3, <1>6, Multiples
  <2> QED BY <2>1, <1>1, <1>2, <1>3, <1>4
<1>7. CASE k > j
  <2>1. N * k >= N * j + N
    BY <1>3, <1>7, Multiples
  <2> QED BY <2>1, <1>1, <1>2, <1>3, <1>4
<1> QED BY <1>3, <1>5, <1>6, <1>7

\* The slots of one peer have different block indexes.
LEMMA IndexUnique ==
  ASSUME NEW s \in Nat, NEW t \in Nat, NEW n \in Node,
         OwnedBy(s, n), OwnedBy(t, n), s \div N = t \div N
  PROVE  s = t
<1> USE PbftAssumption
<1>1. PICK j \in 0..s : s = n + N * j
  BY DEF OwnedBy
<1>2. PICK k \in 0..t : t = n + N * k
  BY DEF OwnedBy
<1>3. /\ n \in Nat /\ j \in Nat /\ k \in Nat /\ N \in Nat /\ N > 0
      /\ n >= 1 /\ n <= N
  BY DEF Node
<1>4. N * j \in Nat /\ N * k \in Nat
  BY <1>3
<1> DEFINE q == s \div N
<1>5. q \in Nat /\ N * q <= s /\ s < N * q + N /\ N * q <= t /\ t < N * q + N
  <2>1. ASSUME NEW x \in Nat PROVE x \div N \in Nat /\ N * (x \div N) <= x /\ x < N * (x \div N) + N
    BY <1>3
  <2> QED BY <2>1
<1>6. N * q \in Nat
  BY <1>3, <1>5
<1> HIDE DEF q
<1>7. CASE j = k
  BY <1>1, <1>2, <1>7
<1>8. CASE j > k
  <2>1. N * j >= N * k + N
    BY <1>3, <1>8, Multiples
  <2> QED BY <2>1, <1>1, <1>2, <1>3, <1>4, <1>5, <1>6
<1>9. CASE k > j
  <2>1. N * k >= N * j + N
    BY <1>3, <1>9, Multiples
  <2> QED BY <2>1, <1>1, <1>2, <1>3, <1>4, <1>5, <1>6
<1> QED BY <1>3, <1>7, <1>8, <1>9

-----------------------------------------------------------------------------
(* The first PrePrepare of a slot.                                         *)

LEMMA RumorTypes ==
  ASSUME TypeOK, NEW m \in Node
  PROVE  /\ Len(rumors[m]) \in Nat
         /\ \A i \in 1..Len(rumors[m]) :
              /\ rumors[m][i] \in Message
              /\ rumors[m][i].id \in Slot
              /\ rumors[m][i].id \in Nat
              /\ rumors[m][i].digest \in Request
<1>1. rumors[m] \in Seq(Message)
  BY DEF TypeOK
<1>2. Len(rumors[m]) \in Nat /\ \A i \in 1..Len(rumors[m]) : rumors[m][i] \in Message
  BY <1>1, LenProperties, ElementOfSeq
<1> QED BY <1>2, PbftAssumption DEF Message, Slot

\* What is first in a slot was broadcast by the slot's owner, for the owner.
LEMMA FirstOwner ==
  ASSUME TypeOK, PrePreparesOwned, NEW s, NEW d, First(s, d)
  PROVE  /\ s \in Slot /\ s \in Nat
         /\ d \in Request
         /\ d.hr \in Node
         /\ OwnedBy(s, d.hr)
         /\ s <= pbftID[d.hr]
         /\ \E i \in 1..Len(rumors[d.hr]) :
              /\ IsFirstPrePrepare(d.hr, i)
              /\ rumors[d.hr][i].id = s
              /\ rumors[d.hr][i].digest = d
<1>1. PICK h \in Node : \E i \in 1..Len(rumors[h]) :
        IsFirstPrePrepare(h, i) /\ rumors[h][i].id = s /\ rumors[h][i].digest = d
  BY DEF First
<1>2. PICK i \in 1..Len(rumors[h]) :
        IsFirstPrePrepare(h, i) /\ rumors[h][i].id = s /\ rumors[h][i].digest = d
  BY <1>1
<1>3. d.hr = h /\ OwnedBy(s, h) /\ s <= pbftID[h]
  BY <1>2 DEF PrePreparesOwned, IsFirstPrePrepare
<1>4. s \in Slot /\ s \in Nat /\ d \in Request
  BY <1>2, RumorTypes
<1> QED BY <1>2, <1>3, <1>4

LEMMA FirstUnique ==
  ASSUME TypeOK, PrePreparesOwned, NEW s, NEW d, NEW e, First(s, d), First(s, e)
  PROVE  d = e
<1>1. s \in Nat /\ d.hr = e.hr /\ d.hr \in Node
  BY FirstOwner, OwnerUnique
<1> DEFINE h == d.hr
<1>2. PICK i \in 1..Len(rumors[h]) :
        IsFirstPrePrepare(h, i) /\ rumors[h][i].id = s /\ rumors[h][i].digest = d
  BY FirstOwner
<1>3. PICK j \in 1..Len(rumors[h]) :
        IsFirstPrePrepare(h, j) /\ rumors[h][j].id = s /\ rumors[h][j].digest = e
  BY <1>1, FirstOwner
<1>4. i \in Nat /\ j \in Nat
  BY <1>1, RumorTypes
<1>5. ~(i < j)
  BY <1>2, <1>3, <1>4 DEF IsFirstPrePrepare
<1>6. ~(j < i)
  BY <1>2, <1>3, <1>4 DEF IsFirstPrePrepare
<1> QED BY <1>2, <1>3, <1>4, <1>5, <1>6

\* The rumors of every peer only get longer.
RumorsGrow ==
  \A m \in Node :
    /\ Len(rumors[m]) \in Nat
    /\ Len(rumors'[m]) \in Nat
    /\ Len(rumors[m]) <= Len(rumors'[m])
    /\ \A i \in 1..Len(rumors[m]) : rumors'[m][i] = rumors[m][i]

LEMMA FirstStable ==
  ASSUME RumorsGrow, NEW s, NEW d, First(s, d)
  PROVE  First(s, d)'
<1>1. PICK h \in Node : \E i \in 1..Len(rumors[h]) :
        IsFirstPrePrepare(h, i) /\ rumors[h][i].id = s /\ rumors[h][i].digest = d
  BY DEF First
<1>2. PICK i \in 1..Len(rumors[h]) :
        IsFirstPrePrepare(h, i) /\ rumors[h][i].id = s /\ rumors[h][i].digest = d
  BY <1>1
<1>3. i \in 1..Len(rumors'[h]) /\ \A j \in 1..i : rumors'[h][j] = rumors[h][j]
  BY DEF RumorsGrow
<1>4. IsFirstPrePrepare(h, i)'
  <2>1. i \in Nat /\ i \in 1..i
    BY DEF RumorsGrow
  <2>2. \A j \in 1..(i - 1) : j \in 1..i
    BY <2>1
  <2> QED BY <2>1, <2>2, <1>2, <1>3 DEF IsFirstPrePrepare
<1> QED BY <1>2, <1>3, <1>4 DEF First

\* A vote that was broadcast is for what is first in its slot.
LEMMA VoteFirst ==
  ASSUME VotesFirst, NEW m \in Node, NEW i \in 1..Len(rumors[m]),
         NEW v, v = rumors[m][i], v.type \in {"Prepare", "Commit"}
  PROVE  First(v.id, v.digest)
BY DEF VotesFirst

LEMMA SameRumors ==
  ASSUME TypeOK, rumors' = rumors
  PROVE  RumorsGrow
BY RumorTypes DEF RumorsGrow

-----------------------------------------------------------------------------
(* The invariant.                                                          *)

LEMMA IInvInit == Init => IInv
<1> SUFFICES ASSUME Init PROVE IInv
  OBVIOUS
<1> USE PbftAssumption
<1>1. TypeInv
  BY TypeInvInit
<1>2. \A m \in Node : Len(rumors[m]) = 0
  BY EmptySeq DEF Init
<1>3. PrePreparesOwned
  <2>1. ASSUME NEW n \in Node PROVE OwnedBy(pbftID[n], n)
    <3>1. pbftID[n] = n /\ n \in Nat /\ 0 \in 0..n /\ n = n + N * 0
      BY DEF Init, InitialID, Node
    <3> QED BY <3>1 DEF OwnedBy
  <2> QED BY <1>2, <2>1 DEF PrePreparesOwned
<1>4. PrePreparedFirst
  BY <1>2 DEF Init, PrePreparedFirst
<1>5. VotesFirst
  BY <1>2 DEF Init, VotesFirst
<1>6. BlocksFirst
  <2>1. \A n \in Node, h \in Hr : Len(hrChain[n][h]) = 0
    BY EmptySeq DEF Init
  <2> QED BY <2>1 DEF BlocksFirst
<1> QED BY <1>1, <1>3, <1>4, <1>5, <1>6 DEF IInv

\* Steps that broadcast no PrePrepare.
LEMMA OwnedFrame ==
  ASSUME PrePreparesOwned, RumorsGrow, pbftID' = pbftID,
         \A m \in Node : \A i \in 1..Len(rumors'[m]) :
           i \in 1..Len(rumors[m]) \/ rumors'[m][i].type # "PrePrepare"
  PROVE  PrePreparesOwned'
BY DEF PrePreparesOwned, RumorsGrow

\* Steps that change neither chains nor states.
LEMMA BlocksFrame ==
  ASSUME BlocksFirst, RumorsGrow, hrChain' = hrChain, state' = state
  PROVE  BlocksFirst'
<1> SUFFICES ASSUME NEW n \in Node, NEW h \in Hr, NEW i \in 1..Len(hrChain[n][h])
             PROVE  \E s \in Slot :
                      /\ First(s, hrChain[n][h][i].req)'
                      /\ hrChain[n][h][i].index = s \div N
                      /\ hrChain[n][h][i].req.hr = h
                      /\ state[n][s] = 2
  BY DEF BlocksFirst
<1>1. PICK s \in Slot :
        /\ First(s, hrChain[n][h][i].req)
        /\ hrChain[n][h][i].index = s \div N
        /\ hrChain[n][h][i].req.hr = h
        /\ state[n][s] = 2
  BY SMTT(60) DEF BlocksFirst
<1>2. ASSUME NEW d, First(s, d) PROVE First(s, d)'
  BY <1>2, FirstStable
<1> QED BY <1>1, <1>2

\* Steps that touch none of the variables of the invariant.
LEMMA IInvFrame ==
  ASSUME IInv, TypeInv',
         UNCHANGED <<pbftID, state, logRequest, logPrePrepareMsg, logPrepareMsg,
                     logCommitMsg, hrChain, pending, rumors, accepted>>
  PROVE  IInv'
<1>1. PrePreparesOwned'
  BY DEF IInv, PrePreparesOwned
<1>2. \A s, d : First(s, d)' <=> First(s, d)
  BY DEF First, IsFirstPrePrepare
<1>3. PrePreparedFirst'
  BY <1>2 DEF IInv, PrePreparedFirst
<1>4. VotesFirst'
  BY <1>2 DEF IInv, VotesFirst
<1>5. BlocksFirst'
  BY SMTT(60), <1>2 DEF IInv, BlocksFirst
<1> QED BY <1>1, <1>3, <1>4, <1>5 DEF IInv

-----------------------------------------------------------------------------
(* The steps of Tag.                                                       *)

\* The PBFT ID of the PrePrepare that a Tag sends.
TagID(r) == IF sends[r] = 0 THEN NextID(r.hr) ELSE pbftID[r.hr]

\* A new PrePrepare is for the sender's slot; a new PBFT ID is above all those
\* that the sender used.
LEMMA TagSendFacts ==
  ASSUME TypeInv, PrePreparesOwned, NEW r \in Calls, TagSend(r)
  PROVE  /\ r.hr \in Node /\ r \in Request /\ r # NoReq
         /\ TagID(r) \in Slot /\ TagID(r) \in Nat /\ OwnedBy(TagID(r), r.hr)
         /\ pbftID[r.hr] \in Nat
         /\ IF sends[r] = 0 THEN TagID(r) > pbftID[r.hr] ELSE TagID(r) = pbftID[r.hr]
         /\ \A m \in Node : pbftID'[m] = IF m = r.hr THEN TagID(r) ELSE pbftID[m]
         /\ state' = [state EXCEPT ![r.hr][TagID(r)] = IF sends[r] = 0 THEN 0 ELSE @]
         /\ logPrePrepareMsg' = [logPrePrepareMsg EXCEPT ![r.hr][TagID(r)] = r]
         /\ logRequest' = [logRequest EXCEPT ![r.hr] = @ \cup {r}]
         /\ UNCHANGED <<logPrepareMsg, logCommitMsg, role, leaked, storeVars, pending,
                        accepted>>
         /\ RumorsGrow
         /\ PrePreparesOwned'
         /\ LET i == Len(rumors[r.hr]) + 1 IN
            /\ i \in 1..Len(rumors'[r.hr])
            /\ rumors'[r.hr][i] = [type |-> "PrePrepare", id |-> TagID(r), digest |-> r]
         /\ \A m \in Node : \A i \in 1..Len(rumors'[m]) :
              \/ i \in 1..Len(rumors[m])
              \/ /\ m = r.hr
                 /\ rumors'[m][i].id = TagID(r) /\ rumors'[m][i].digest = r
                 /\ \/ rumors'[m][i].type = "Checkpoint"
                    \/ rumors'[m][i].type = "PrePrepare" /\ i = Len(rumors[m]) + 1
<1> USE PbftAssumption
<1> DEFINE n     == r.hr
           first == sends[r] = 0
           id    == TagID(r)
           cp    == first /\ id % CheckpointInterval = 0
           pp    == [type |-> "PrePrepare", id |-> id, digest |-> r]
           ck    == [type |-> "Checkpoint", id |-> id, digest |-> r]
           msgs  == <<pp>> \o (IF cp THEN <<ck>> ELSE <<>>)
<1>1. TypeInv /\ TypeOK /\ PrePreparesOwned
  BY DEF TypeInv
<1>2. n \in Node /\ n \in Nat /\ r \in Request /\ N \in Nat /\ N > 0 /\ r # NoReq
  BY DEF Request, Node, NoReq
<1>3. /\ pbftID' = [pbftID EXCEPT ![n] = id]
      /\ state' = [state EXCEPT ![n][id] = IF first THEN 0 ELSE @]
      /\ logPrePrepareMsg' = [logPrePrepareMsg EXCEPT ![n][id] = r]
      /\ logRequest' = [logRequest EXCEPT ![n] = @ \cup {r}]
      /\ Originate(n, msgs)
      /\ UNCHANGED <<logPrepareMsg, logCommitMsg, role, leaked, storeVars, pending,
                     accepted>>
  BY Zenon DEF TagSend, TagID
<1>4. /\ pbftID[n] \in Nat /\ id \in Nat
      /\ IF first THEN id > pbftID[n] ELSE id = pbftID[n]
  <2>1. pbftID[n] \in Nat
    BY <1>1, <1>2 DEF TypeOK
  <2> QED BY <2>1, <1>2 DEF TagID, NextID
<1>5. OwnedBy(id, n)
  <2>1. PICK k \in 0..pbftID[n] : pbftID[n] = n + N * k
    BY <1>1, <1>2 DEF PrePreparesOwned, OwnedBy
  <2>2. CASE first
    <3>1. id = n + N * (k + 1) /\ k + 1 \in 0..id
      BY <1>2, <1>4, <2>1, <2>2 DEF TagID, NextID
    <3> QED BY <3>1 DEF OwnedBy
  <2>3. CASE ~first
    BY <2>1, <2>3 DEF OwnedBy, TagID
  <2> QED BY <2>2, <2>3
<1>6. id \in Slot
  <2>1. sends[r] \in Nat /\ (~first => id \in Slot)
    BY <1>1, <1>2 DEF TypeInv, TypeOK, IdsOK, TagID
  <2>2. first => id >= N + 1
    <3>1. pbftID[n] >= n /\ n >= 1
      BY <1>1, <1>2 DEF TypeInv, IdsOK, Node
    <3> QED BY <3>1, <1>2, <1>4 DEF NextID, TagID
  <2>3. first => id <= MaxSlot
    <3>1. first => NextID(n) + (IF Faulty = {} THEN 0 ELSE 2) <= MaxSlot
      BY DEF TagSend
    <3> QED BY <3>1, <1>2, <1>4 DEF TagID
  <2> QED BY <2>1, <2>2, <2>3, <1>2, <1>4 DEF Slot
<1> HIDE DEF id
<1>7. /\ msgs \in Seq(Message) /\ Len(msgs) \in {1, 2}
      /\ msgs[1] = pp /\ (Len(msgs) = 2 => msgs[2] = ck)
      /\ \A j \in 1..Len(msgs) : j = 1 \/ (j = 2 /\ Len(msgs) = 2)
  <2>1. pp \in Message /\ ck \in Message
    BY <1>2, <1>6 DEF Message
  <2> HIDE DEF pp, ck, cp
  <2>2. CASE cp
    BY <2>1, <2>2
  <2>3. CASE ~cp
    BY <2>1, <2>3
  <2> QED BY <2>2, <2>3
<1>8. /\ pp.type = "PrePrepare" /\ pp.id = id /\ pp.digest = r
      /\ ck.type = "Checkpoint" /\ ck.id = id /\ ck.digest = r
  OBVIOUS
<1> HIDE DEF msgs, pp, ck
<1>9. rumors \in [Node -> Seq(Message)] /\ Originate(n, msgs)
  BY <1>1, <1>3 DEF TypeOK
<1>10. \A m \in Node :
         /\ Len(rumors[m]) \in Nat
         /\ Len(rumors'[m]) \in Nat
         /\ Len(rumors[m]) <= Len(rumors'[m])
         /\ m # n => rumors'[m] = rumors[m]
         /\ \A i \in 1..Len(rumors[m]) : rumors'[m][i] = rumors[m][i]
  BY SMTT(30), <1>2, <1>7, <1>9, OriginateFacts
<1>11. /\ \A j \in 1..Len(msgs) :
            /\ Len(rumors[n]) + j \in 1..Len(rumors'[n])
            /\ rumors'[n][Len(rumors[n]) + j] = msgs[j]
       /\ \A i \in 1..Len(rumors'[n]) :
            \/ i \in 1..Len(rumors[n])
            \/ \E j \in 1..Len(msgs) : i = Len(rumors[n]) + j
  BY ZenonT(60), <1>2, <1>7, <1>9, OriginateAt
<1>12. RumorsGrow
  BY <1>10 DEF RumorsGrow
<1>13. /\ Len(rumors[n]) + 1 \in 1..Len(rumors'[n])
       /\ rumors'[n][Len(rumors[n]) + 1] = pp
  BY <1>7, <1>11
<1>14. \A m \in Node : \A i \in 1..Len(rumors'[m]) :
         \/ i \in 1..Len(rumors[m])
         \/ m = n /\ rumors'[m][i] = pp /\ i = Len(rumors[m]) + 1
         \/ m = n /\ rumors'[m][i] = ck
  <2> SUFFICES ASSUME NEW m \in Node, NEW i \in 1..Len(rumors'[m]),
                      i \notin 1..Len(rumors[m])
               PROVE  \/ m = n /\ rumors'[m][i] = pp /\ i = Len(rumors[m]) + 1
                      \/ m = n /\ rumors'[m][i] = ck
    OBVIOUS
  <2>1. m = n
    BY <1>10
  <2>2. PICK j \in 1..Len(msgs) : i = Len(rumors[n]) + j
    BY <2>1, <1>11
  <2>3. rumors'[n][i] = msgs[j]
    BY <2>2, <1>11
  <2> QED BY <2>1, <2>2, <2>3, <1>7
<1>15. \A m \in Node : /\ pbftID[m] \in Nat
                      /\ pbftID'[m] = IF m = n THEN id ELSE pbftID[m]
  BY <1>1, <1>3 DEF TypeOK
<1>16. PrePreparesOwned'
  <2>1. ASSUME NEW m \in Node PROVE OwnedBy(pbftID'[m], m)
    BY <1>15, <1>1, <1>5 DEF PrePreparesOwned
  <2>2. ASSUME NEW m \in Node, NEW i \in 1..Len(rumors'[m]),
               rumors'[m][i].type = "PrePrepare"
        PROVE  /\ rumors'[m][i].digest.hr = m
               /\ OwnedBy(rumors'[m][i].id, m)
               /\ rumors'[m][i].id <= pbftID'[m]
    <3>1. CASE i \in 1..Len(rumors[m])
      <4>1. rumors'[m][i] = rumors[m][i]
        BY <3>1, <1>10
      <4>2. /\ rumors[m][i].digest.hr = m
            /\ OwnedBy(rumors[m][i].id, m)
            /\ rumors[m][i].id <= pbftID[m]
        BY <4>1, <3>1, <2>2, <1>1 DEF PrePreparesOwned
      <4>3. rumors[m][i].id \in Nat
        BY <3>1, <1>1, RumorTypes
      <4>4. /\ pbftID[m] \in Nat /\ pbftID'[m] \in Nat
            /\ pbftID[m] <= pbftID'[m]
        BY <1>15, <1>4
      <4> QED BY <4>1, <4>2, <4>3, <4>4
    <3>2. CASE m = n /\ rumors'[m][i] = pp
      <4>1. pbftID'[m] = id
        BY <3>2, <1>15
      <4> QED BY <4>1, <3>2, <1>4, <1>5, <1>8
    <3> QED BY <3>1, <3>2, <1>14, <1>8, <2>2
  <2> QED BY <2>1, <2>2 DEF PrePreparesOwned
<1>17. \A m \in Node : \A i \in 1..Len(rumors'[m]) :
         \/ i \in 1..Len(rumors[m])
         \/ /\ m = n
            /\ rumors'[m][i].id = id /\ rumors'[m][i].digest = r
            /\ \/ rumors'[m][i].type = "Checkpoint"
               \/ rumors'[m][i].type = "PrePrepare" /\ i = Len(rumors[m]) + 1
  BY Zenon, <1>8, <1>14
<1>18. pp = [type |-> "PrePrepare", id |-> TagID(r), digest |-> r]
  BY DEF pp, id
<1> QED BY Zenon, <1>2, <1>3, <1>4, <1>5, <1>6, <1>12, <1>13, <1>15, <1>16, <1>17, <1>18 DEF id

LEMMA IInvTagSend ==
  ASSUME IInv, NEW r \in Calls, TagSend(r)
  PROVE  IInv'
<1> USE PbftAssumption
<1> DEFINE n     == r.hr
           first == sends[r] = 0
           id    == TagID(r)
<1>1. /\ TypeInv /\ TypeOK /\ TypeInv' /\ TypeOK'
      /\ PrePreparesOwned /\ PrePreparedFirst /\ VotesFirst /\ BlocksFirst
  BY TypeInvTagSend DEF IInv, TypeInv
<1>2. n \in Node /\ n \in Nat /\ r \in Request /\ N \in Nat /\ N > 0
  BY DEF Request, Node
<1>3. /\ state' = [state EXCEPT ![n][id] = IF first THEN 0 ELSE @]
      /\ logPrePrepareMsg' = [logPrePrepareMsg EXCEPT ![n][id] = r]
      /\ logRequest' = [logRequest EXCEPT ![n] = @ \cup {r}]
      /\ UNCHANGED <<logPrepareMsg, logCommitMsg, hrChain, pending, accepted>>
  BY <1>1, TagSendFacts DEF storeVars
<1>4. id \in Nat /\ pbftID[n] \in Nat /\ (first => id > pbftID[n]) /\ OwnedBy(id, n)
  BY <1>1, TagSendFacts
<1>5. OwnedBy(id, n)
  BY <1>4
<1>6. id \in Slot
  BY <1>1, TagSendFacts
<1>8. RumorsGrow
  BY <1>1, TagSendFacts
<1>9. \A m \in Node : \A i \in 1..Len(rumors'[m]) :
        \/ i \in 1..Len(rumors[m])
        \/ rumors'[m][i].type = "Checkpoint"
        \/ rumors'[m][i].type = "PrePrepare"
  <2>1. \A m \in Node : \A i \in 1..Len(rumors'[m]) :
          \/ i \in 1..Len(rumors[m])
          \/ /\ m = n
             /\ rumors'[m][i].id = id /\ rumors'[m][i].digest = r
             /\ \/ rumors'[m][i].type = "Checkpoint"
                \/ rumors'[m][i].type = "PrePrepare" /\ i = Len(rumors[m]) + 1
    BY Zenon, <1>1, TagSendFacts
  <2> QED BY Zenon, <2>1
<1>11. PrePreparesOwned'
  BY <1>1, TagSendFacts
<1> HIDE DEF id
<1>10. ASSUME NEW s, NEW d, First(s, d) PROVE First(s, d)'
  BY <1>8, <1>10, FirstStable
<1>12. PrePreparedFirst'
  <2>1. ASSUME NEW k \in Node, NEW s \in Slot, logPrePrepareMsg'[k][s] # NoReq
        PROVE  /\ logPrePrepareMsg'[k][s] \in logRequest'[k]
               /\ ~OwnedBy(s, k) => First(s, logPrePrepareMsg[k][s])'
    <3>1. CASE k = n /\ s = id
      <4>1. logPrePrepareMsg'[k][s] = r /\ r \in logRequest'[k]
        BY <3>1, <1>1, <1>2, <1>3, <1>6 DEF TypeOK
      <4> QED BY <4>1, <3>1, <1>5
    <3>2. CASE ~(k = n /\ s = id)
      <4>1. /\ logPrePrepareMsg'[k][s] = logPrePrepareMsg[k][s]
            /\ logRequest[k] \subseteq logRequest'[k]
        <5>1. logPrePrepareMsg \in [Node -> [Slot -> Digest]]
          BY <1>1, Tables
        <5>2. logPrePrepareMsg'[k][s] = logPrePrepareMsg[k][s]
          BY <5>1, <3>2, <1>2, <1>3, <1>6, SlotTable
        <5>3. logRequest[k] \subseteq logRequest'[k]
          BY ZenonT(60), <1>1, <1>3 DEF TypeOK
        <5> QED BY <5>2, <5>3
      <4>2. /\ logPrePrepareMsg[k][s] \in logRequest[k]
            /\ ~OwnedBy(s, k) => First(s, logPrePrepareMsg[k][s])
        BY <4>1, <2>1, <1>1 DEF PrePreparedFirst
      <4> QED BY <4>1, <4>2, <1>10
    <3> QED BY <3>1, <3>2
  <2>2. ASSUME NEW k \in Node, NEW m \in Node, k # m
        PROVE  /\ accepted'[k][m] <= Len(rumors'[m])
               /\ \A i \in 1..accepted'[k][m] :
                    rumors'[m][i].type = "PrePrepare" =>
                      logPrePrepareMsg'[k][rumors'[m][i].id] # NoReq
    <3>1. /\ accepted'[k][m] = accepted[k][m] /\ accepted[k][m] \in Nat
          /\ accepted[k][m] <= Len(rumors[m])
      BY <2>2, <1>1, <1>3 DEF PrePreparedFirst, TypeOK
    <3>2. ASSUME NEW i \in 1..accepted[k][m], rumors'[m][i].type = "PrePrepare"
          PROVE  logPrePrepareMsg'[k][rumors'[m][i].id] # NoReq
      <4>1. i \in 1..Len(rumors[m])
        BY <3>1, <1>8 DEF RumorsGrow
      <4>2. rumors'[m][i] = rumors[m][i] /\ rumors[m][i].id \in Slot
        BY <4>1, <1>8, <1>1, RumorTypes DEF RumorsGrow
      <4>3. logPrePrepareMsg[k][rumors[m][i].id] # NoReq
        BY <4>2, <3>2, <2>2, <1>1 DEF PrePreparedFirst
      <4>4. r # NoReq
        BY <1>2 DEF NoReq, Request, Node
      <4>5. CASE k = n /\ rumors[m][i].id = id
        <5>1. logPrePrepareMsg \in [Node -> [Slot -> Digest]]
          BY <1>1, Tables
        <5>2. logPrePrepareMsg'[n][id] = r
          BY <5>1, <1>2, <1>3, <1>6, SlotTable
        <5> QED BY <5>2, <4>2, <4>4, <4>5
      <4>6. CASE ~(k = n /\ rumors[m][i].id = id)
        <5>1. \A s \in Slot : ~(k = n /\ s = id) =>
                logPrePrepareMsg'[k][s] = logPrePrepareMsg[k][s]
          BY <1>1, <1>2, <1>3, <1>6, Tables, Except2
        <5> QED BY <5>1, <4>2, <4>3, <4>6
      <4> QED BY <4>5, <4>6
    <3>3. Len(rumors[m]) \in Nat /\ Len(rumors'[m]) \in Nat
          /\ Len(rumors[m]) <= Len(rumors'[m])
      BY <1>8 DEF RumorsGrow
    <3> QED BY <3>1, <3>2, <3>3
  <2> QED BY <2>1, <2>2 DEF PrePreparedFirst
<1>13. VotesFirst'
  <2>1. ASSUME NEW m \in Node, NEW i \in 1..Len(rumors'[m]),
               rumors'[m][i].type \in {"Prepare", "Commit"}
        PROVE  First(rumors[m][i].id, rumors[m][i].digest)'
    <3>1. i \in 1..Len(rumors[m]) /\ rumors'[m][i] = rumors[m][i]
      BY <2>1, <1>8, <1>9 DEF RumorsGrow
    <3> QED BY <3>1, <2>1, <1>1, <1>10 DEF VotesFirst
  <2> QED BY <2>1, <1>1, <1>3, <1>10 DEF VotesFirst
<1>14. BlocksFirst'
  <2>0. hrChain' = hrChain
    BY <1>3
  <2> SUFFICES ASSUME NEW k \in Node, NEW h \in Hr, NEW i \in 1..Len(hrChain[k][h])
               PROVE  \E s \in Slot :
                        /\ First(s, hrChain[k][h][i].req)'
                        /\ hrChain[k][h][i].index = s \div N
                        /\ hrChain[k][h][i].req.hr = h
                        /\ state'[k][s] = 2
    BY <2>0 DEF BlocksFirst
  <2>1. PICK s \in Slot :
          /\ First(s, hrChain[k][h][i].req)
          /\ hrChain[k][h][i].index = s \div N
          /\ hrChain[k][h][i].req.hr = h
          /\ state[k][s] = 2
    BY <1>1 DEF BlocksFirst
  <2>2. First(s, hrChain[k][h][i].req)'
    BY <2>1, <1>3, <1>10
  <2>3. ASSUME k = n, s = id, first PROVE FALSE
    <3> DEFINE d == hrChain[k][h][i].req
    <3>1. d.hr \in Node /\ OwnedBy(s, d.hr) /\ s <= pbftID[d.hr]
      BY SMTT(60), <2>1, <1>1, FirstOwner
    <3>2. d.hr = n
      BY SMTT(60), <3>1, <2>3, <1>2, <1>4, <1>5, OwnerUnique
    <3> QED BY <3>1, <3>2, <2>3, <1>4
  <2>4. state'[k][s] = 2
    <3>1. CASE k = n /\ s = id
      BY SMTT(60), <2>1, <2>3, <3>1, <1>1, <1>2, <1>3, <1>6 DEF TypeOK
    <3>2. CASE ~(k = n /\ s = id)
      <4>1. state \in [Node -> [Slot -> 0..2]]
        BY <1>1, Tables
      <4>2. state' = [state EXCEPT ![n][id] = IF first THEN 0 ELSE state[n][id]]
        BY <1>3
      <4>3. state'[k][s] = state[k][s]
        BY <4>1, <4>2, <3>2, <1>2, <1>6, Except2
      <4> QED BY <4>3, <2>1
    <3> QED BY <3>1, <3>2
  <2> QED BY <2>1, <2>2, <2>4
<1> QED BY <1>1, <1>11, <1>12, <1>13, <1>14 DEF IInv

\* A PrePrepare that is new to the peer is the first of its slot; one that is
\* not new repeats what the peer has, or is refused.
LEMMA IInvPrePrepare ==
  ASSUME IInv, NEW n \in Node, NEW m \in Node, ExecPrePrepareMessage(n, m)
  PROVE  IInv'
<1> USE PbftAssumption
<1> DEFINE pp  == NextRumor(n, m)
           nth == accepted[n][m] + 1
<1>1. /\ TypeInv /\ TypeOK /\ TypeInv' /\ TypeOK'
      /\ PrePreparesOwned /\ PrePreparedFirst /\ VotesFirst /\ BlocksFirst
  BY TypeInvPrePrepare DEF IInv, TypeInv
<1>2. Take(n, m, "PrePrepare")
  BY DEF ExecPrePrepareMessage
<1>3. /\ nth \in 1..Len(rumors[m])
      /\ pp = rumors[m][nth]
      /\ pp.type = "PrePrepare" /\ pp.id \in Slot /\ pp.digest \in Request
  BY <1>1, <1>2, TakeFacts
<1>4. /\ n # m
      /\ accepted' = [accepted EXCEPT ![n][m] = nth]
      /\ UNCHANGED <<pbftID, state, logCommitMsg, hrChain, rumors>>
  BY <1>2 DEF ExecPrePrepareMessage, Take, storeVars
<1>5. RumorsGrow
  BY <1>1, <1>4, SameRumors
<1>6. \A s, d : First(s, d)' <=> First(s, d)
  BY <1>4 DEF First, IsFirstPrePrepare
<1>7. PrePreparesOwned'
  BY <1>1, <1>4 DEF PrePreparesOwned
<1>8. BlocksFirst'
  BY <1>1, <1>4, <1>5, BlocksFrame
<1>9. pp.digest # NoReq
  BY SMTT(60), <1>3 DEF NoReq, Request, Node
<1>10. OwnedBy(pp.id, m) /\ ~OwnedBy(pp.id, n) /\ pp.digest.hr = m
  <2>1. OwnedBy(pp.id, m) /\ pp.id \in Nat /\ pp.digest.hr = m
    BY SMTT(60), <1>1, <1>3, RumorTypes DEF PrePreparesOwned
  <2> QED BY <2>1, <1>4, OwnerUnique
<1> HIDE DEF pp
<1>11. nth \in Nat /\ accepted[n][m] \in Nat /\ Len(rumors[m]) \in Nat
  BY <1>1, RumorTypes, Tables
\* The accepted prefixes, once something is logged for every PrePrepare in them.
<1>12. ASSUME \A k \in Node, s \in Slot :
                logPrePrepareMsg[k][s] # NoReq => logPrePrepareMsg'[k][s] # NoReq,
              logPrePrepareMsg'[n][pp.id] # NoReq
       PROVE  \A k, l \in Node : k # l =>
                /\ accepted'[k][l] <= Len(rumors'[l])
                /\ \A i \in 1..accepted'[k][l] :
                     rumors'[l][i].type = "PrePrepare" =>
                       logPrePrepareMsg'[k][rumors'[l][i].id] # NoReq
  <2> SUFFICES ASSUME NEW k \in Node, NEW l \in Node, k # l
               PROVE  /\ accepted'[k][l] <= Len(rumors[l])
                      /\ \A i \in 1..accepted'[k][l] :
                           rumors[l][i].type = "PrePrepare" =>
                             logPrePrepareMsg'[k][rumors[l][i].id] # NoReq
    BY <1>4
  <2>1. /\ accepted[k][l] \in Nat
        /\ accepted[k][l] <= Len(rumors[l])
        /\ \A i \in 1..accepted[k][l] :
             rumors[l][i].type = "PrePrepare" =>
               logPrePrepareMsg[k][rumors[l][i].id] # NoReq
        /\ \A i \in 1..Len(rumors[l]) : rumors[l][i].id \in Slot
        /\ Len(rumors[l]) \in Nat
    BY <1>1, RumorTypes, Tables DEF PrePreparedFirst
  <2>2. CASE k = n /\ l = m
    <3>1. accepted'[k][l] = nth
      BY <2>2, <1>1, <1>4 DEF TypeOK
    <3>2. nth <= Len(rumors[l])
      BY <2>1, <2>2, <1>3
    <3>3. ASSUME NEW i \in 1..nth, rumors[l][i].type = "PrePrepare"
          PROVE  logPrePrepareMsg'[k][rumors[l][i].id] # NoReq
      <4>1. i \in 1..accepted[k][l] \/ i = nth
        BY <2>1, <2>2
      <4>2. CASE i \in 1..accepted[k][l]
        <5>1. i \in 1..Len(rumors[l])
          BY SMTT(60), <4>2, <2>1
        <5> QED BY <5>1, <4>2, <3>3, <2>1, <1>12
      <4>3. CASE i = nth
        BY <4>3, <2>2, <1>3, <1>12
      <4> QED BY <4>1, <4>2, <4>3
    <3> QED BY <3>1, <3>2, <3>3
  <2>3. CASE ~(k = n /\ l = m)
    <3>1. accepted'[k][l] = accepted[k][l]
      BY <2>3, <1>1, <1>4 DEF TypeOK
    <3> QED BY <3>1, <2>1, <1>12
  <2> QED BY <2>2, <2>3
<1>13. CASE Conflict(n, pp.id, pp.digest)
  <2>1. UNCHANGED <<logPrePrepareMsg, logRequest, logPrepareMsg, pending>>
    BY <1>13 DEF ExecPrePrepareMessage, pp
  <2>2. logPrePrepareMsg'[n][pp.id] # NoReq
    BY <2>1, <1>13 DEF Conflict
  <2>3. PrePreparedFirst'
    BY <2>1, <2>2, <1>1, <1>6, <1>12 DEF PrePreparedFirst
  <2>4. VotesFirst'
    BY SMTT(60), <2>1, <1>1, <1>4, <1>6 DEF VotesFirst
  <2> QED BY <2>3, <2>4, <1>1, <1>7, <1>8 DEF IInv
<1>14. CASE ~Conflict(n, pp.id, pp.digest)
  <2>1. /\ logPrePrepareMsg' = [logPrePrepareMsg EXCEPT ![n][pp.id] = pp.digest]
        /\ logRequest' = [logRequest EXCEPT ![n] = @ \cup {pp.digest}]
        /\ logPrepareMsg' = [logPrepareMsg EXCEPT ![n][n][pp.id] = pp.digest]
        /\ pending' = [pending EXCEPT ![n] = [id |-> pp.id, digest |-> pp.digest]]
    BY <1>14 DEF ExecPrePrepareMessage, pp
  <2>2. First(pp.id, pp.digest)
    <3>1. CASE logPrePrepareMsg[n][pp.id] = NoReq
      <4>1. \A i \in 1..accepted[n][m] :
              rumors[m][i].type = "PrePrepare" => rumors[m][i].id # pp.id
        BY SMTT(60), <3>1, <1>1, <1>4 DEF PrePreparedFirst
      <4>2. \A j \in 1..(nth - 1) : j \in 1..accepted[n][m]
        BY <1>11
      <4>3. IsFirstPrePrepare(m, nth)
        BY <4>1, <4>2, <1>3 DEF IsFirstPrePrepare
      <4> QED BY <4>3, <1>3 DEF First
    <3>2. CASE logPrePrepareMsg[n][pp.id] # NoReq
      <4>1. logPrePrepareMsg[n][pp.id] = pp.digest
        BY ZenonT(60), <3>2, <1>14 DEF Conflict
      <4>2. First(pp.id, logPrePrepareMsg[n][pp.id])
        <5>1. PrePreparedFirst /\ pp.id \in Slot
          BY <1>1, <1>3
        <5>2. ~OwnedBy(pp.id, n)
          BY SMTT(60), <1>10
        <5> HIDE DEF pp
        <5> QED BY <5>1, <5>2, <3>2 DEF PrePreparedFirst
      <4> QED BY <4>1, <4>2
    <3> QED BY <3>1, <3>2
  <2>3. \A k \in Node, s \in Slot :
          logPrePrepareMsg'[k][s] =
            IF k = n /\ s = pp.id THEN pp.digest ELSE logPrePrepareMsg[k][s]
    <3>1. logPrePrepareMsg \in [Node -> [Slot -> Digest]]
      BY SMTT(60), <1>1, Tables
    <3> QED BY SMTT(60), <3>1, <2>1, <1>3, SlotTable
  <2>4. PrePreparedFirst'
    <3>1. ASSUME NEW k \in Node, NEW s \in Slot, logPrePrepareMsg'[k][s] # NoReq
          PROVE  /\ logPrePrepareMsg'[k][s] \in logRequest'[k]
                 /\ ~OwnedBy(s, k) => First(s, logPrePrepareMsg[k][s])'
      <4>1. CASE k = n /\ s = pp.id
        BY <4>1, <2>1, <2>2, <2>3, <1>1, <1>6 DEF TypeOK
      <4>2. CASE ~(k = n /\ s = pp.id)
        <5>1. logPrePrepareMsg'[k][s] = logPrePrepareMsg[k][s]
          BY <4>2, <2>3
        <5>2. logRequest[k] \subseteq logRequest'[k]
          BY <2>1, <1>1 DEF TypeOK
        <5> QED BY <5>1, <5>2, <3>1, <1>1, <1>6 DEF PrePreparedFirst
      <4> QED BY <4>1, <4>2
    <3> QED BY SMTT(60), <3>1, <2>3, <1>3, <1>9, <1>12 DEF PrePreparedFirst
  <2>5. VotesFirst'
    <3>1. ASSUME NEW k \in Node, pending'[k] # NoPrepare
          PROVE  First(pending[k].id, pending[k].digest)'
      BY ZenonT(60), <3>1, <2>1, <2>2, <1>1, <1>6 DEF VotesFirst, TypeOK
    <3>2. ASSUME NEW k \in Node, NEW l \in Node, NEW s \in Slot,
                 logPrepareMsg'[k][l][s] # NoReq
          PROVE  First(s, logPrepareMsg[k][l][s])'
      <4>0. logPrepareMsg'[k][l][s] =
              IF k = n /\ l = n /\ s = pp.id THEN pp.digest ELSE logPrepareMsg[k][l][s]
        <5>1. logPrepareMsg \in [Node -> [Node -> [Slot -> Digest]]]
          BY SMTT(60), <1>1, Tables
        <5> QED BY <5>1, <2>1, <1>3, VoteTable
      <4>1. CASE k = n /\ l = n /\ s = pp.id
        BY <4>0, <4>1, <2>2, <1>6
      <4>2. CASE ~(k = n /\ l = n /\ s = pp.id)
        BY <4>0, <4>2, <3>2, <1>1, <1>6 DEF VotesFirst
      <4> QED BY <4>1, <4>2
    <3> QED BY SMTT(60), <3>1, <3>2, <1>1, <1>4, <1>6 DEF VotesFirst
  <2> QED BY <2>4, <2>5, <1>1, <1>7, <1>8 DEF IInv
<1> QED BY <1>13, <1>14

\* A message that repeats the first PrePrepare of its slot keeps the facts about
\* rumors.
LEMMA VoteBroadcast ==
  ASSUME TypeOK, PrePreparesOwned, PrePreparedFirst, VotesFirst, NEW n \in Node,
         NEW v \in Message, v.type \in {"Prepare", "Commit"}, First(v.id, v.digest),
         Originate(n, <<v>>), pbftID' = pbftID
  PROVE  /\ RumorsGrow
         /\ PrePreparesOwned'
         /\ \A m \in Node : \A i \in 1..Len(rumors'[m]) :
              rumors'[m][i].type \in {"Prepare", "Commit"} =>
                First(rumors[m][i].id, rumors[m][i].digest)'
         /\ accepted' = accepted /\ logPrePrepareMsg' = logPrePrepareMsg
              /\ logRequest' = logRequest => PrePreparedFirst'
<1>1. /\ RumorsGrow
      /\ \A m \in Node : \A i \in 1..Len(rumors'[m]) :
           i \in 1..Len(rumors[m]) \/ rumors'[m][i] = v
  <2>1. rumors \in [Node -> Seq(Message)]
    BY DEF TypeOK
  <2> QED BY <2>1, OriginateOne DEF RumorsGrow
<1>2. v.type # "PrePrepare"
  OBVIOUS
<1>3. PrePreparesOwned'
  BY <1>1, <1>2, OwnedFrame
<1>4. ASSUME NEW s, NEW d, First(s, d) PROVE First(s, d)'
  BY <1>1, <1>4, FirstStable
<1>5. ASSUME NEW m \in Node, NEW i \in 1..Len(rumors'[m]),
             rumors'[m][i].type \in {"Prepare", "Commit"}
      PROVE  First(rumors[m][i].id, rumors[m][i].digest)'
  <2>1. CASE i \in 1..Len(rumors[m])
    <3>1. rumors'[m][i] = rumors[m][i]
      BY <1>1, <2>1 DEF RumorsGrow
    <3>2. First(rumors[m][i].id, rumors[m][i].digest)
      BY <3>1, <2>1, <1>5 DEF VotesFirst
    <3> QED BY <3>1, <3>2, <1>4
  <2>2. CASE rumors'[m][i] = v
    BY <2>2, <1>4
  <2> QED BY <1>1, <2>1, <2>2
<1>6. ASSUME accepted' = accepted, logPrePrepareMsg' = logPrePrepareMsg,
             logRequest' = logRequest
      PROVE  PrePreparedFirst'
  <2>1. ASSUME NEW k \in Node, NEW s \in Slot, logPrePrepareMsg'[k][s] # NoReq
        PROVE  /\ logPrePrepareMsg'[k][s] \in logRequest'[k]
               /\ ~OwnedBy(s, k) => First(s, logPrePrepareMsg[k][s])'
    BY <2>1, <1>4, <1>6 DEF PrePreparedFirst
  <2>2. ASSUME NEW k \in Node, NEW l \in Node, k # l
        PROVE  /\ accepted'[k][l] <= Len(rumors'[l])
               /\ \A i \in 1..accepted'[k][l] :
                    rumors'[l][i].type = "PrePrepare" =>
                      logPrePrepareMsg'[k][rumors'[l][i].id] # NoReq
    <3>1. /\ accepted[k][l] \in Nat
          /\ accepted[k][l] <= Len(rumors[l])
          /\ \A i \in 1..accepted[k][l] :
               rumors[l][i].type = "PrePrepare" =>
                 logPrePrepareMsg[k][rumors[l][i].id] # NoReq
      BY <2>2, Tables DEF PrePreparedFirst
    <3>2. /\ Len(rumors[l]) \in Nat /\ Len(rumors'[l]) \in Nat
          /\ Len(rumors[l]) <= Len(rumors'[l])
          /\ \A i \in 1..Len(rumors[l]) : rumors'[l][i] = rumors[l][i]
      BY <1>1 DEF RumorsGrow
    <3> QED BY SMTT(60), <3>1, <3>2, <1>6
  <2> QED BY <2>1, <2>2 DEF PrePreparedFirst
<1> QED BY <1>1, <1>3, <1>5, <1>6

\* Without malicious peers no ID is shifted.
LEMMA NoShift ==
  ASSUME TypeInv, Faulty = {}, NEW n \in Node, NEW id \in Slot
  PROVE  Shift(n, id) = id
<1>1. role[n] = 0
  BY DEF TypeInv, TypeOK, ShiftRoom
<1>2. id \in Nat
  BY PbftAssumption DEF Slot
<1> QED BY <1>1, <1>2 DEF Shift

\* What is broadcast is what was pre-prepared, first in its slot.
LEMMA IInvBroadcastPrepare ==
  ASSUME IInv, Faulty = {}, NEW n \in Node, BroadcastPrepare(n)
  PROVE  IInv'
<1> DEFINE p == [type |-> "Prepare", id |-> pending[n].id, digest |-> pending[n].digest]
<1>1. /\ TypeInv /\ TypeOK /\ TypeInv' /\ TypeOK'
      /\ PrePreparesOwned /\ PrePreparedFirst /\ VotesFirst /\ BlocksFirst
  BY TypeInvBroadcastPrepare DEF IInv, TypeInv
<1>2. pending[n] # NoPrepare
  BY DEF BroadcastPrepare
<1>3. pending[n].id \in Slot /\ pending[n].digest \in Request
  BY <1>1, <1>2 DEF TypeOK
<1>4. Originate(n, <<p>>)
  BY <1>1, <1>3, NoShift DEF BroadcastPrepare
<1>5. /\ pending' = [pending EXCEPT ![n] = NoPrepare]
      /\ UNCHANGED <<pbftID, state, logRequest, logPrePrepareMsg, logPrepareMsg,
                     logCommitMsg, hrChain, accepted>>
  BY DEF BroadcastPrepare, pbftVars, storeVars
<1>6. p \in Message /\ p.type = "Prepare" /\ First(p.id, p.digest)
  BY <1>1, <1>2, <1>3 DEF Message, VotesFirst
<1> HIDE DEF p
<1>7. /\ RumorsGrow /\ PrePreparesOwned' /\ PrePreparedFirst'
      /\ \A m \in Node : \A i \in 1..Len(rumors'[m]) :
           rumors'[m][i].type \in {"Prepare", "Commit"} =>
             First(rumors[m][i].id, rumors[m][i].digest)'
  BY <1>1, <1>4, <1>5, <1>6, VoteBroadcast
<1>8. ASSUME NEW s, NEW d, First(s, d) PROVE First(s, d)'
  BY <1>7, <1>8, FirstStable
<1>9. VotesFirst'
  <2>1. ASSUME NEW k \in Node, pending'[k] # NoPrepare
        PROVE  First(pending[k].id, pending[k].digest)'
    <3>1. pending'[k] = pending[k]
      BY <2>1, <1>1, <1>5 DEF TypeOK
    <3> QED BY <3>1, <2>1, <1>1, <1>8 DEF VotesFirst
  <2>2. ASSUME NEW k \in Node, NEW l \in Node, NEW s \in Slot
        PROVE  /\ logPrepareMsg'[k][l][s] # NoReq => First(s, logPrepareMsg[k][l][s])'
               /\ logCommitMsg'[k][l][s] # NoReq => First(s, logCommitMsg[k][l][s])'
    BY <1>1, <1>5, <1>8 DEF VotesFirst
  <2> QED BY <2>1, <2>2, <1>7 DEF VotesFirst
<1>10. BlocksFirst'
  BY <1>1, <1>5, <1>7, BlocksFrame
<1> QED BY <1>1, <1>7, <1>9, <1>10 DEF IInv

\* A message that is not a PrePrepare lengthens an accepted prefix harmlessly.
LEMMA TakeVote ==
  ASSUME TypeOK, PrePreparedFirst, NEW n \in Node, NEW m \in Node, NEW t,
         t # "PrePrepare", Take(n, m, t)
  PROVE  \A k, l \in Node : k # l =>
           /\ accepted'[k][l] \in Nat
           /\ accepted'[k][l] <= Len(rumors[l])
           /\ \A i \in 1..accepted'[k][l] :
                rumors[l][i].type = "PrePrepare" =>
                  logPrePrepareMsg[k][rumors[l][i].id] # NoReq
<1> DEFINE nth == accepted[n][m] + 1
<1>1. /\ nth \in 1..Len(rumors[m]) /\ rumors[m][nth].type = t
      /\ accepted' = [accepted EXCEPT ![n][m] = nth]
  BY TakeFacts DEF Take
<1> SUFFICES ASSUME NEW k \in Node, NEW l \in Node, k # l
             PROVE  /\ accepted'[k][l] \in Nat
                    /\ accepted'[k][l] <= Len(rumors[l])
                    /\ \A i \in 1..accepted'[k][l] :
                         rumors[l][i].type = "PrePrepare" =>
                           logPrePrepareMsg[k][rumors[l][i].id] # NoReq
  OBVIOUS
<1>2. /\ accepted[k][l] \in Nat
      /\ accepted[k][l] <= Len(rumors[l])
      /\ \A i \in 1..accepted[k][l] :
           rumors[l][i].type = "PrePrepare" =>
             logPrePrepareMsg[k][rumors[l][i].id] # NoReq
      /\ Len(rumors[l]) \in Nat
  <2>1. accepted[k][l] \in Nat
    BY Tables
  <2>2. Len(rumors[l]) \in Nat
    BY RumorTypes
  <2> QED BY <2>1, <2>2 DEF PrePreparedFirst
<1>3. accepted'[k][l] = IF k = n /\ l = m THEN nth ELSE accepted[k][l]
  <2>1. accepted \in [Node -> [Node -> Nat]]
    BY Tables
  <2>2. accepted' = [accepted EXCEPT ![n][m] = nth]
    BY <1>1
  <2> HIDE DEF nth
  <2> QED BY <2>1, <2>2, Except2
<1>4. CASE k = n /\ l = m
  BY <1>1, <1>2, <1>3, <1>4
<1>5. CASE ~(k = n /\ l = m)
  BY <1>2, <1>3, <1>5
<1> QED BY <1>4, <1>5

\* A Prepare repeats the first PrePrepare, and so does the Commit made of it.
LEMMA IInvPrepare ==
  ASSUME IInv, Faulty = {}, NEW n \in Node, NEW m \in Node, ExecPrepareMessage(n, m)
  PROVE  IInv'
<1> DEFINE pre   == NextRumor(n, m)
           nth   == accepted[n][m] + 1
           log   == [logPrepareMsg EXCEPT ![n][m][pre.id] = pre.digest]
           count == Cardinality(Matching(log, n, pre.id, logPrePrepareMsg[n][pre.id]))
           c     == [type |-> "Commit", id |-> pre.id, digest |-> pre.digest]
<1>1. /\ TypeInv /\ TypeOK /\ TypeInv' /\ TypeOK'
      /\ PrePreparesOwned /\ PrePreparedFirst /\ VotesFirst /\ BlocksFirst
  BY TypeInvPrepare DEF IInv, TypeInv
<1>2. Take(n, m, "Prepare")
  BY DEF ExecPrepareMessage
<1>3. /\ nth \in 1..Len(rumors[m]) /\ pre = rumors[m][nth]
      /\ pre.type = "Prepare" /\ pre.id \in Slot /\ pre.digest \in Request
  BY <1>1, <1>2, TakeFacts
<1>4. First(pre.id, pre.digest)
  <2> HIDE DEF pre
  <2> QED BY Zenon, <1>1, <1>3, VoteFirst
<1>5. /\ logPrepareMsg' = log
      /\ UNCHANGED <<pbftID, logRequest, logPrePrepareMsg, hrChain, pending>>
      /\ \/ UNCHANGED <<state, logCommitMsg, rumors>>
         \/ /\ state[n][pre.id] = 0
            /\ state' = [state EXCEPT ![n][pre.id] = 1]
            /\ logCommitMsg' = [logCommitMsg EXCEPT ![n][n][pre.id] = pre.digest]
            /\ Originate(n, <<c>>)
  BY ZenonT(60), <1>1, <1>3, NoShift DEF ExecPrepareMessage, Prepared, storeVars
<1>6. c \in Message /\ c.type = "Commit" /\ First(c.id, c.digest)
  BY <1>3, <1>4 DEF Message
<1> HIDE DEF pre, c
<1>7. /\ RumorsGrow /\ PrePreparesOwned'
      /\ \A k \in Node : \A i \in 1..Len(rumors'[k]) :
           rumors'[k][i].type \in {"Prepare", "Commit"} =>
             First(rumors[k][i].id, rumors[k][i].digest)'
      /\ \A k \in Node : \A i \in 1..Len(rumors'[k]) :
           i \in 1..Len(rumors[k]) \/ rumors'[k][i].type # "PrePrepare"
  <2>1. CASE Originate(n, <<c>>)
    <3>1. rumors \in [Node -> Seq(Message)]
      BY <1>1 DEF TypeOK
    <3>2. \A k \in Node : \A i \in 1..Len(rumors'[k]) :
            i \in 1..Len(rumors[k]) \/ rumors'[k][i] = c
      BY <2>1, <3>1, <1>6, OriginateOne
    <3> QED BY <3>2, <2>1, <1>1, <1>5, <1>6, VoteBroadcast
  <2>2. CASE UNCHANGED rumors
    <3>1. \A s, d : First(s, d)' <=> First(s, d)
      BY <2>2 DEF First, IsFirstPrePrepare
    <3>2. PrePreparesOwned'
      BY <2>2, <1>1, <1>5 DEF PrePreparesOwned
    <3>3. RumorsGrow
      BY <2>2, <1>1, SameRumors
    <3> QED BY <2>2, <3>1, <3>2, <3>3, <1>1 DEF VotesFirst
  <2> QED BY SMTT(60), <2>1, <2>2, <1>5
<1>8. ASSUME NEW s, NEW d, First(s, d) PROVE First(s, d)'
  BY <1>7, <1>8, FirstStable
<1>9. PrePreparedFirst'
  <2>1. ASSUME NEW k \in Node, NEW s \in Slot, logPrePrepareMsg'[k][s] # NoReq
        PROVE  /\ logPrePrepareMsg'[k][s] \in logRequest'[k]
               /\ ~OwnedBy(s, k) => First(s, logPrePrepareMsg[k][s])'
    BY SMTT(60), <2>1, <1>1, <1>5, <1>8 DEF PrePreparedFirst
  <2>2. ASSUME NEW k \in Node, NEW l \in Node, k # l
        PROVE  /\ accepted'[k][l] <= Len(rumors'[l])
               /\ \A i \in 1..accepted'[k][l] :
                    rumors'[l][i].type = "PrePrepare" =>
                      logPrePrepareMsg'[k][rumors'[l][i].id] # NoReq
    <3>1. /\ accepted'[k][l] \in Nat
          /\ accepted'[k][l] <= Len(rumors[l])
          /\ \A i \in 1..accepted'[k][l] :
               rumors[l][i].type = "PrePrepare" =>
                 logPrePrepareMsg[k][rumors[l][i].id] # NoReq
      BY <2>2, <1>1, <1>2, TakeVote
    <3>2. /\ Len(rumors[l]) \in Nat /\ Len(rumors'[l]) \in Nat
          /\ Len(rumors[l]) <= Len(rumors'[l])
          /\ \A i \in 1..Len(rumors[l]) : rumors'[l][i] = rumors[l][i]
      BY <1>7 DEF RumorsGrow
    <3> QED BY SMTT(60), <3>1, <3>2, <1>5
  <2> QED BY <2>1, <2>2 DEF PrePreparedFirst
<1>10. VotesFirst'
  <2>1. ASSUME NEW k \in Node, NEW l \in Node, NEW s \in Slot,
               logPrepareMsg'[k][l][s] # NoReq
        PROVE  First(s, logPrepareMsg[k][l][s])'
    <3>1. logPrepareMsg'[k][l][s] =
            IF k = n /\ l = m /\ s = pre.id THEN pre.digest ELSE logPrepareMsg[k][l][s]
      <4>1. logPrepareMsg' = [logPrepareMsg EXCEPT ![n][m][pre.id] = pre.digest]
        BY <1>5
      <4>2. logPrepareMsg \in [Node -> [Node -> [Slot -> Digest]]]
        BY SMTT(60), <1>1, Tables
      <4> HIDE DEF log
      <4> QED BY <4>1, <4>2, <1>3, VoteTable
    <3>2. CASE k = n /\ l = m /\ s = pre.id
      BY <3>1, <3>2, <1>4, <1>8
    <3>3. CASE ~(k = n /\ l = m /\ s = pre.id)
      BY <3>1, <3>3, <2>1, <1>1, <1>8 DEF VotesFirst
    <3> QED BY SMTT(60), <3>2, <3>3
  <2>2. ASSUME NEW k \in Node, NEW l \in Node, NEW s \in Slot,
               logCommitMsg'[k][l][s] # NoReq
        PROVE  First(s, logCommitMsg[k][l][s])'
    <3>1. CASE logCommitMsg'[k][l][s] = logCommitMsg[k][l][s]
      BY <3>1, <2>2, <1>1, <1>8 DEF VotesFirst
    <3>2. CASE logCommitMsg' = [logCommitMsg EXCEPT ![n][n][pre.id] = pre.digest]
      <4>1. logCommitMsg'[k][l][s] =
              IF k = n /\ l = n /\ s = pre.id THEN pre.digest ELSE logCommitMsg[k][l][s]
        <5>1. logCommitMsg \in [Node -> [Node -> [Slot -> Digest]]]
          BY SMTT(60), <1>1, Tables
        <5> QED BY <5>1, <3>2, <1>3, VoteTable
      <4>2. CASE k = n /\ l = n /\ s = pre.id
        BY <4>1, <4>2, <1>4, <1>8
      <4>3. CASE ~(k = n /\ l = n /\ s = pre.id)
        BY <4>1, <4>3, <3>1
      <4> QED BY SMTT(60), <4>2, <4>3
    <3> QED BY <3>1, <3>2, <1>5
  <2>3. ASSUME NEW k \in Node, pending'[k] # NoPrepare
        PROVE  First(pending[k].id, pending[k].digest)'
    BY <2>3, <1>1, <1>5, <1>8 DEF VotesFirst
  <2> QED BY <2>1, <2>2, <2>3, <1>7 DEF VotesFirst
<1>11. BlocksFirst'
  <2>1. CASE UNCHANGED state
    BY SMTT(60), <2>1, <1>1, <1>5, <1>7, BlocksFrame
  <2>2. CASE state[n][pre.id] = 0 /\ state' = [state EXCEPT ![n][pre.id] = 1]
    <3>1. \A k \in Node, s \in Slot : state[k][s] = 2 => state'[k][s] = 2
      BY SMTT(60), <2>2, <1>1, <1>3, Tables, Except2
    <3> QED BY SMTT(60), <3>1, <1>1, <1>5, <1>8 DEF BlocksFirst
  <2> QED BY <2>1, <2>2, <1>5
<1> QED BY <1>1, <1>7, <1>9, <1>10, <1>11 DEF IInv

\* A quorum of commits in which the digest pre-prepared is not the one of the
\* commit that completes it would need two first PrePrepares.
LEMMA CommitFacts ==
  ASSUME IInv, NEW n \in Node, NEW m \in Node, ExecCommitMessage(n, m)
  PROVE  LET c == NextRumor(n, m) IN
         /\ c.id \in Slot /\ c.digest \in Request
         /\ First(c.id, c.digest)
         /\ logCommitMsg' = [logCommitMsg EXCEPT ![n][m][c.id] = c.digest]
         /\ \/ UNCHANGED <<state, storeVars>>
            \/ /\ state[n][c.id] = 1
               /\ state' = [state EXCEPT ![n][c.id] = 2]
               /\ hrChain' = [hrChain EXCEPT ![n][c.digest.hr] =
                                Append(@, [index |-> c.id \div N, req |-> c.digest])]
<1> DEFINE c       == NextRumor(n, m)
           log     == [logCommitMsg EXCEPT ![n][m][c.id] = c.digest]
           d       == logPrePrepareMsg[n][c.id]
           quorum  == Matching(log, n, c.id, d)
           request == RequestOf(n, c.digest)
<1>1. /\ TypeOK /\ PrePreparesOwned /\ PrePreparedFirst /\ VotesFirst
      /\ Take(n, m, "Commit")
  BY DEF IInv, TypeInv, ExecCommitMessage
<1>2. /\ accepted[n][m] + 1 \in 1..Len(rumors[m])
      /\ c = rumors[m][accepted[n][m] + 1]
      /\ c.type = "Commit" /\ c.id \in Slot /\ c.digest \in Request
  BY <1>1, TakeFacts
<1>3. First(c.id, c.digest)
  <2> HIDE DEF c
  <2> QED BY Zenon, <1>1, <1>2, VoteFirst
<1>4. logCommitMsg' = log
  BY Zenon DEF ExecCommitMessage
<1>5. CASE Committed(n, c.id, Cardinality(quorum))
  <2>1. /\ state[n][c.id] = 1
        /\ state' = [state EXCEPT ![n][c.id] = 2]
        /\ hrChain' = [hrChain EXCEPT ![n][request.hr] =
                         Append(@, [index |-> c.id \div N, req |-> request])]
    BY <1>5 DEF ExecCommitMessage, Committed, GetPbftBlock
  <2>2. Cardinality(quorum) > TwoThirds
    BY <1>5 DEF Committed
  <2>3. TwoThirds \in Nat
    BY PbftAssumption DEF TwoThirds
  <2>4. quorum # {}
    <3> HIDE DEF quorum
    <3> SUFFICES ASSUME quorum = {} PROVE FALSE
      OBVIOUS
    <3>1. Cardinality(quorum) = 0
      BY FS_EmptySet
    <3> QED BY <3>1, <2>2, <2>3
  <2>5. PICK k \in Node : d # NoReq /\ log[n][k][c.id] = d
    BY <2>4 DEF Matching
  <2>6. First(c.id, d)
    <3> HIDE DEF c
    <3>1. log[n][k][c.id] = IF k = m THEN c.digest ELSE logCommitMsg[n][k][c.id]
      <4>1. logCommitMsg \in [Node -> [Node -> [Slot -> Digest]]] /\ c.id \in Slot
        BY <1>1, <1>2, Tables
      <4>2. \A x \in Node, y \in Node, z \in Slot :
              log[x][y][z] = IF x = n /\ y = m /\ z = c.id THEN c.digest
                                                       ELSE logCommitMsg[x][y][z]
        BY <4>1, VoteTable
      <4> HIDE DEF log
      <4> QED BY <4>1, <4>2
    <3> HIDE DEF log, d
    <3>2. CASE k = m
      BY <3>1, <3>2, <2>5, <1>3
    <3>3. CASE k # m
      <4>1. d = logCommitMsg[n][k][c.id] /\ d # NoReq
        BY <3>1, <3>3, <2>5
      <4>2. logCommitMsg[n][k][c.id] # NoReq => First(c.id, logCommitMsg[n][k][c.id])
        BY Zenon, <1>1, <1>2 DEF VotesFirst
      <4> QED BY <4>1, <4>2
    <3> QED BY <3>2, <3>3
  <2>7. d = c.digest
    BY <2>6, <1>1, <1>3, FirstUnique
  <2>8. c.digest \in logRequest[n]
    <3> HIDE DEF c
    <3> QED BY Zenon, <2>5, <2>7, <1>1, <1>2 DEF PrePreparedFirst
  <2>9. request = c.digest
    BY ZenonT(60), <2>8 DEF RequestOf
  <2> QED BY ZenonT(60), <2>1, <2>9, <1>2, <1>3, <1>4
<1>6. CASE ~Committed(n, c.id, Cardinality(quorum))
  <2>1. UNCHANGED <<state, storeVars>>
    BY <1>6 DEF ExecCommitMessage
  <2> QED BY <2>1, <1>2, <1>3, <1>4
<1> QED BY SMTT(60), <1>5, <1>6

LEMMA IInvCommit ==
  ASSUME IInv, NEW n \in Node, NEW m \in Node, ExecCommitMessage(n, m)
  PROVE  IInv'
<1> DEFINE c     == NextRumor(n, m)
           h     == c.digest.hr
           block == [index |-> c.id \div N, req |-> c.digest]
<1>1. /\ TypeInv /\ TypeOK /\ TypeInv' /\ TypeOK'
      /\ PrePreparesOwned /\ PrePreparedFirst /\ VotesFirst /\ BlocksFirst
  BY SMTT(60), TypeInvCommit DEF IInv, TypeInv
<1>2. /\ Take(n, m, "Commit")
      /\ UNCHANGED <<pbftID, logRequest, logPrePrepareMsg, logPrepareMsg, pending, rumors>>
  BY SMTT(60) DEF ExecCommitMessage
<1>3. /\ c.id \in Slot /\ c.digest \in Request /\ First(c.id, c.digest)
      /\ logCommitMsg' = [logCommitMsg EXCEPT ![n][m][c.id] = c.digest]
      /\ \/ UNCHANGED <<state, hrChain>>
         \/ /\ state' = [state EXCEPT ![n][c.id] = 2]
            /\ hrChain' = [hrChain EXCEPT ![n][h] = Append(@, block)]
  BY CommitFacts DEF storeVars
<1>4. \A s, d : First(s, d)' <=> First(s, d)
  BY <1>2 DEF First, IsFirstPrePrepare
<1>5. PrePreparesOwned'
  BY <1>1, <1>2 DEF PrePreparesOwned
<1>6. PrePreparedFirst'
  <2>1. \A k, l \in Node : k # l =>
          /\ accepted'[k][l] \in Nat
          /\ accepted'[k][l] <= Len(rumors[l])
          /\ \A i \in 1..accepted'[k][l] :
               rumors[l][i].type = "PrePrepare" =>
                 logPrePrepareMsg[k][rumors[l][i].id] # NoReq
    BY <1>1, <1>2, TakeVote
  <2> QED BY SMTT(60), <2>1, <1>1, <1>2, <1>4 DEF PrePreparedFirst
<1> HIDE DEF c
<1>7. VotesFirst'
  <2>1. ASSUME NEW k \in Node, NEW l \in Node, NEW s \in Slot,
               logCommitMsg'[k][l][s] # NoReq
        PROVE  First(s, logCommitMsg[k][l][s])'
    <3>1. logCommitMsg'[k][l][s] =
            IF k = n /\ l = m /\ s = c.id THEN c.digest ELSE logCommitMsg[k][l][s]
      <4>1. logCommitMsg' = [logCommitMsg EXCEPT ![n][m][c.id] = c.digest]
        BY <1>3
      <4>2. logCommitMsg \in [Node -> [Node -> [Slot -> Digest]]]
        BY SMTT(60), <1>1, Tables
      <4> QED BY SMTT(60), <4>1, <4>2, <1>2, <1>3, VoteTable
    <3> QED BY SMTT(60), <3>1, <2>1, <1>1, <1>3, <1>4 DEF VotesFirst
  <2> QED BY SMTT(60), <2>1, <1>1, <1>2, <1>4 DEF VotesFirst
<1>8. BlocksFirst'
  <2>1. CASE UNCHANGED <<state, hrChain>>
    BY <2>1, <1>1, <1>4 DEF BlocksFirst
  <2>2. CASE /\ state' = [state EXCEPT ![n][c.id] = 2]
             /\ hrChain' = [hrChain EXCEPT ![n][h] = Append(@, block)]
    <3>1. \A k \in Node, s \in Slot : state[k][s] = 2 => state'[k][s] = 2
      BY <2>2, <1>1, <1>3, Tables, Except2
    <3>2. state'[n][c.id] = 2
      BY SMTT(60), <2>2, <1>1, <1>3, Tables, Except2
    <3>3. h \in Hr /\ hrChain \in [Node -> [Hr -> Seq(Block)]]
      BY <1>1, <1>3 DEF TypeOK, Request, Hr
    <3>4. ASSUME NEW k \in Node, NEW g \in Hr, NEW i \in 1..Len(hrChain'[k][g])
          PROVE  \E s \in Slot :
                   /\ First(s, hrChain[k][g][i].req)'
                   /\ hrChain'[k][g][i].index = s \div N
                   /\ hrChain'[k][g][i].req.hr = g
                   /\ state'[k][s] = 2
      <4>1. \/ i \in 1..Len(hrChain[k][g]) /\ hrChain'[k][g][i] = hrChain[k][g][i]
            \/ k = n /\ g = h /\ hrChain'[k][g][i] = block
        <5> HIDE DEF block, h
        <5> QED BY SMTT(60), <2>2, <3>3, <1>1, ChainAppend
      <4>2. CASE i \in 1..Len(hrChain[k][g]) /\ hrChain'[k][g][i] = hrChain[k][g][i]
        <5>1. PICK s \in Slot :
                /\ First(s, hrChain[k][g][i].req)
                /\ hrChain[k][g][i].index = s \div N
                /\ hrChain[k][g][i].req.hr = g
                /\ state[k][s] = 2
          BY SMTT(60), <4>2, <1>1 DEF BlocksFirst
        <5> QED BY <4>2, <5>1, <3>1, <1>4
      <4>3. CASE k = n /\ g = h /\ hrChain'[k][g][i] = block
        BY <4>3, <3>2, <1>3, <1>4
      <4> QED BY <4>1, <4>2, <4>3
    <3> QED BY <3>4 DEF BlocksFirst
  <2> QED BY <2>1, <2>2, <1>3
<1> QED BY <1>1, <1>5, <1>6, <1>7, <1>8 DEF IInv

LEMMA IInvCheckpoint ==
  ASSUME IInv, NEW n \in Node, NEW m \in Node, ExecCheckpointMessage(n, m)
  PROVE  IInv'
<1>1. /\ TypeOK /\ TypeInv' /\ PrePreparedFirst /\ Take(n, m, "Checkpoint")
      /\ UNCHANGED <<pbftID, state, logRequest, logPrePrepareMsg, logPrepareMsg,
                     logCommitMsg, hrChain, pending, rumors>>
  BY TypeInvCheckpoint DEF IInv, TypeInv, ExecCheckpointMessage, storeVars
<1>2. \A s, d : First(s, d)' <=> First(s, d)
  BY <1>1 DEF First, IsFirstPrePrepare
<1>3. PrePreparedFirst'
  <2>1. \A k, l \in Node : k # l =>
          /\ accepted'[k][l] \in Nat
          /\ accepted'[k][l] <= Len(rumors[l])
          /\ \A i \in 1..accepted'[k][l] :
               rumors[l][i].type = "PrePrepare" =>
                 logPrePrepareMsg[k][rumors[l][i].id] # NoReq
    BY SMTT(60), <1>1, TakeVote
  <2> QED BY <2>1, <1>1, <1>2 DEF PrePreparedFirst
<1>4. PrePreparesOwned' /\ VotesFirst' /\ BlocksFirst'
  BY <1>1, <1>2 DEF IInv, PrePreparesOwned, VotesFirst, BlocksFirst
<1> QED BY <1>1, <1>3, <1>4 DEF IInv

LEMMA IInvNext ==
  ASSUME Faulty = {}
  PROVE  IInv /\ [Next]_vars => IInv'
<1> SUFFICES ASSUME IInv, [Next]_vars PROVE IInv'
  OBVIOUS
<1>1. TypeInv'
  BY TypeInvNext DEF IInv
<1>2. ASSUME NEW r \in Calls, TagCall(r) \/ TagCheck(r) PROVE IInv'
  BY <1>1, <1>2, IInvFrame DEF TagCall, TagCheck, pbftVars, storeVars
<1>3. ASSUME NEW n \in Node, TurnBad(n) PROVE IInv'
  BY <1>3 DEF TurnBad
<1>4. CASE UNCHANGED vars
  BY <1>1, <1>4, IInvFrame DEF vars, pbftVars, storeVars
<1> QED BY <1>2, <1>3, <1>4, IInvTagSend, IInvPrePrepare, IInvBroadcastPrepare,
           IInvPrepare, IInvCommit, IInvCheckpoint DEF Next, Process

-----------------------------------------------------------------------------
(* Theorems.                                                               *)

LEMMA IInvImpliesAgreement == IInv => Agreement
<1> SUFFICES ASSUME IInv,
                    NEW n \in Node, NEW m \in Node, NEW h \in Hr,
                    NEW b \in Blocks(n, h), NEW c \in Blocks(m, h),
                    b.index = c.index
             PROVE  b.req = c.req
  BY DEF Agreement
<1>1. TypeOK /\ PrePreparesOwned /\ BlocksFirst
  BY DEF IInv, TypeInv
<1>2. PICK s \in Slot : First(s, b.req) /\ b.index = s \div N /\ b.req.hr = h
  BY SMTT(60), <1>1 DEF BlocksFirst, Blocks
<1>3. PICK t \in Slot : First(t, c.req) /\ c.index = t \div N /\ c.req.hr = h
  BY <1>1 DEF BlocksFirst, Blocks
<1>4. /\ s \in Nat /\ t \in Nat /\ h \in Node /\ OwnedBy(s, h) /\ OwnedBy(t, h)
  <2>1. s \in Nat /\ h \in Node /\ OwnedBy(s, h)
    BY <1>1, <1>2, FirstOwner
  <2>2. t \in Nat /\ OwnedBy(t, h)
    BY <1>1, <1>3, FirstOwner
  <2> QED BY <2>1, <2>2
<1>5. s = t
  <2>1. s \div N = t \div N
    BY <1>2, <1>3
  <2> QED BY Zenon, <2>1, <1>4, IndexUnique
<1> QED BY <1>1, <1>2, <1>3, <1>5, FirstUnique

\* Everything the peers know about a slot repeats the first PrePrepare that the
\* slot's owner broadcast for it, however the Tags of the owner overlap, if no
\* peer is malicious.
THEOREM IInvHolds ==
  ASSUME Faulty = {}
  PROVE  Spec => []IInv
<1>1. IInv /\ [Next]_vars => IInv'
  BY IInvNext
<1> QED BY <1>1, IInvInit, PTL DEF Spec

\* Peers that commit the same slot commit the same request: for any number of
\* peers and of overlapping Tags, if no peer is malicious.
THEOREM AgreementHolds ==
  ASSUME Faulty = {}
  PROVE  Spec => []Agreement
BY IInvHolds, IInvImpliesAgreement, PTL
=============================================================================
