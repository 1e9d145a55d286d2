---------------------------- MODULE FileExchange ----------------------------
(***************************************************************************)
(* The exchange of an encrypted file, peer/impl/applicant.go, hr.go,       *)
(* safe_share_table.go and the file handlers of cothority_utils.go.        *)
(*                                                                         *)
(* An applicant encrypts a file under a fresh key, hides that key with the *)
(* public key of the cothority and broadcasts the result (C, U).  An HR    *)
(* asks every cothority node for a share of the decryption; one of them,   *)
(* picked at random, first records the request in the chain.               *)
(*                                                                         *)
(* Every message is handled by a goroutine of its own, so any order is     *)
(* possible.  The messages travel as rumors, which lose nothing here       *)
(* (Gossip is about that).  The distributed key generation is external:    *)
(* Certify is its outcome at a node.  A file stands for its ID, its key,   *)
(* and the C and U made from them.                                         *)
(***************************************************************************)
EXTENDS Integers, Sequences, FiniteSets

CONSTANTS
  N,                  \* the cothority nodes, addresses of NewCothorityNode
  File,               \* the IDs that are uploaded or asked for
  None,               \* no ID, and what cannot be decrypted
  MaxDownloads        \* bound of the model: how often the HR downloads

Node == 0..(N - 1)
Call == 1..MaxDownloads

ASSUME FileExchangeAssumption ==
  /\ N \in Nat \ {0}
  /\ MaxDownloads \in Nat
  /\ None \notin File

VARIABLES
  \* the cothority nodes
  certified,          \* priShare, pubKey and dkgDone are set
  dataTable,          \* the files a node has the C and U of
  reading,            \* the requests that hold dataTableMux and find no data
  writing,            \* the files that wait for dataTableMux
  crashed,            \* the process died in a nil dereference
  recorded,           \* the requests in the chain
  \* the applicant
  hasPubKey,
  uploads,            \* per file, how far its Upload is
  \* the HR
  asked,              \* its calls of Download, in order
  results,            \* what each of them returned
  metaFileKey, C,
  shareTable,         \* the shares, each with the file it decrypts
  checked,            \* goroutines of recvResponseFileMessage
  \* messages on the way, and goroutines that have not got anywhere
  pkRequests, pkResponse, encryptedFiles, requests, responses,
  early               \* history: a download did not find every node ready

nodeVars    == <<certified, dataTable, reading, writing, crashed, recorded>>
applicant   == <<hasPubKey, uploads>>
hrVars      == <<asked, results, metaFileKey, C, shareTable, checked, early>>
network     == <<pkRequests, pkResponse, encryptedFiles, requests, responses>>
vars        == <<nodeVars, applicant, hrVars, network>>

TypeOK ==
  /\ certified \subseteq Node
  /\ dataTable \in [Node -> SUBSET File]
  /\ reading \in [Node -> SUBSET Call]
  /\ writing \in [Node -> SUBSET File]
  /\ crashed \subseteq Node
  /\ recorded \subseteq Call
  /\ hasPubKey \in BOOLEAN
  /\ uploads \in [File -> {"none", "waiting", "sent"}]
  /\ asked \in Seq([file : File, service : Node])
  /\ results \in Seq(File \cup {None})
  /\ metaFileKey \in File \cup {None}
  /\ C \in File \cup {None}
  /\ shareTable \subseteq Node \X File
  /\ checked \subseteq Node \X Call
  /\ pkRequests \subseteq Node
  /\ pkResponse \in BOOLEAN
  /\ encryptedFiles \subseteq Node \X File
  /\ requests \subseteq Node \X Call
  /\ responses \subseteq Node \X Call
  /\ early \in BOOLEAN

Init ==
  /\ certified = {} /\ crashed = {} /\ recorded = {}
  /\ dataTable = [n \in Node |-> {}]
  /\ reading = [n \in Node |-> {}]
  /\ writing = [n \in Node |-> {}]
  /\ hasPubKey = FALSE
  /\ uploads = [f \in File |-> "none"]
  /\ asked = <<>> /\ results = <<>>
  /\ metaFileKey = None /\ C = None
  /\ shareTable = {} /\ checked = {}
  /\ pkRequests = {} /\ pkResponse = FALSE
  /\ encryptedFiles = {} /\ requests = {} /\ responses = {}
  /\ early = FALSE

-----------------------------------------------------------------------------
(* Thresholds                                                              *)

Half == (N + 1) \div 2

\* What NewSafeShareTable waits for, and what the key generation splits for.
ThresholdBugHalf == Half
ThresholdBugMore == Half + 2
Threshold == Half + 1
DkgThreshold == Half + 1

-----------------------------------------------------------------------------
(* The key generation and the public key                                   *)

\* CheckCertified finds the threshold reached.
Certify(n) ==
  /\ n \notin certified \cup crashed
  /\ certified' = certified \cup {n}
  /\ UNCHANGED <<dataTable, reading, writing, crashed, recorded,
                 applicant, hrVars, network>>

RecvPKRequestBugGivesUp(n) ==
  /\ n \in pkRequests \ crashed
  /\ pkRequests' = pkRequests \ {n}
  /\ pkResponse' = (pkResponse \/ n \in certified)
  /\ UNCHANGED <<nodeVars, applicant, hrVars, encryptedFiles, requests, responses>>

\* The goroutine polls until the key generation is done.
RecvPKRequest(n) ==
  /\ n \in pkRequests \ crashed
  /\ n \in certified
  /\ pkRequests' = pkRequests \ {n}
  /\ pkResponse' = TRUE
  /\ UNCHANGED <<nodeVars, applicant, hrVars, encryptedFiles, requests, responses>>

RecvPK ==
  /\ pkResponse
  /\ pkResponse' = FALSE
  /\ hasPubKey' = TRUE
  /\ UNCHANGED <<nodeVars, uploads, hrVars,
                 pkRequests, encryptedFiles, requests, responses>>

-----------------------------------------------------------------------------
(* The upload                                                              *)

\* Until BroadcastEncryptedFileMessage polls for the key.
Upload(f) ==
  /\ uploads[f] = "none"
  /\ uploads' = [uploads EXCEPT ![f] = "waiting"]
  /\ pkRequests' = IF hasPubKey THEN pkRequests ELSE pkRequests \cup Node
  /\ UNCHANGED <<nodeVars, hasPubKey, hrVars,
                 pkResponse, encryptedFiles, requests, responses>>

\* The polling ends, the message is broadcast and Upload returns.
BroadcastEncryptedFileMessage(f) ==
  /\ uploads[f] = "waiting"
  /\ hasPubKey
  /\ uploads' = [uploads EXCEPT ![f] = "sent"]
  /\ encryptedFiles' = encryptedFiles \cup (Node \X {f})
  /\ UNCHANGED <<nodeVars, hasPubKey, hrVars,
                 pkRequests, pkResponse, requests, responses>>

StoreBugReplaces(n, f) == [dataTable EXCEPT ![n] = {f}]
Store(n, f) == [dataTable EXCEPT ![n] = @ \cup {f}]

\* The lock is free, or the goroutine waits for it.  It waits for ever: a request
\* that holds the lock when it needs data lets go of it only when data is stored.
RecvEncryptedFile(n, f) ==
  /\ <<n, f>> \in encryptedFiles
  /\ n \notin crashed
  /\ encryptedFiles' = encryptedFiles \ {<<n, f>>}
  /\ \/ /\ reading[n] = {}
        /\ dataTable' = Store(n, f)
        /\ UNCHANGED writing
     \/ /\ reading[n] # {}
        /\ writing' = [writing EXCEPT ![n] = @ \cup {f}]
        /\ UNCHANGED dataTable
  /\ UNCHANGED <<certified, reading, crashed, recorded, applicant, hrVars,
                 pkRequests, pkResponse, requests, responses>>

-----------------------------------------------------------------------------
(* The download                                                            *)

Ready(f) == \A n \in Node : n \in certified /\ f \in dataTable[n]

\* rand.Intn(num)
ServiceIndexBugFromOne == 1..N
ServiceIndex == 0..(N - 1)

\* Download up to its polling of the share table.  The ID is the user's.
Download(f) ==
  /\ metaFileKey = None
  /\ Len(asked) = Len(results)
  /\ Len(asked) < MaxDownloads
  /\ metaFileKey' = f
  /\ \E s \in ServiceIndex : asked' = Append(asked, [file |-> f, service |-> s])
  /\ requests' = requests \cup (Node \X {Len(asked')})
  /\ early' = (early \/ ~Ready(f))
  /\ UNCHANGED <<nodeVars, applicant, results, C, shareTable, checked,
                 pkRequests, pkResponse, encryptedFiles, responses>>

FileOf(r) == asked[r].file

\* The Tag of the service node, which comes before its share.
Record(n, r) ==
  /\ <<n, r>> \in requests
  /\ n \notin crashed
  /\ n = asked[r].service
  /\ r \notin recorded
  /\ recorded' = recorded \cup {r}
  /\ UNCHANGED <<certified, dataTable, reading, writing, crashed,
                 applicant, hrVars, network>>

MayLockBugUnrecorded(n, r) == writing[n] = {}

\* A waiting writer keeps new readers out.
MayLock(n, r) ==
  /\ n = asked[r].service => r \in recorded
  /\ writing[n] = {}

\* The share is computed and sent, with a nil priShare the process dies, or the
\* goroutine goes round in its loop with the lock held.
RecvRequestFile(n, r) ==
  /\ <<n, r>> \in requests
  /\ n \notin crashed
  /\ MayLock(n, r)
  /\ requests' = requests \ {<<n, r>>}
  /\ \/ /\ FileOf(r) \in dataTable[n]
        /\ n \in certified
        /\ responses' = responses \cup {<<n, r>>}
        /\ UNCHANGED <<reading, crashed>>
     \/ /\ FileOf(r) \in dataTable[n]
        /\ n \notin certified
        /\ crashed' = crashed \cup {n}
        /\ UNCHANGED <<reading, responses>>
     \/ /\ FileOf(r) \notin dataTable[n]
        /\ reading' = [reading EXCEPT ![n] = @ \cup {r}]
        /\ UNCHANGED <<crashed, responses>>
  /\ UNCHANGED <<certified, dataTable, writing, recorded, applicant, hrVars,
                 pkRequests, pkResponse, encryptedFiles>>

\* ExecResponseFileMessage compares the ID and starts the goroutine.
ExecResponseFile(n, r) ==
  /\ <<n, r>> \in responses
  /\ responses' = responses \ {<<n, r>>}
  /\ checked' = IF FileOf(r) = metaFileKey THEN checked \cup {<<n, r>>} ELSE checked
  /\ UNCHANGED <<nodeVars, applicant, asked, results, metaFileKey, C, shareTable,
                 early, pkRequests, pkResponse, encryptedFiles, requests>>

\* SafeShareTable.Set
SetShare(n, f) ==
  IF Cardinality(shareTable) >= Threshold \/ \E s \in shareTable : s[1] = n
  THEN shareTable
  ELSE shareTable \cup {<<n, f>>}

\* The goroutine stores A and C of the first response there ever was.
RecvResponseFile(n, r) ==
  /\ <<n, r>> \in checked
  /\ checked' = checked \ {<<n, r>>}
  /\ C' = IF C = None THEN FileOf(r) ELSE C
  /\ shareTable' = SetShare(n, FileOf(r))
  /\ UNCHANGED <<nodeVars, applicant, asked, results, metaFileKey, early, network>>

\* GetDecKey: the shares give the key of C if they are enough and all for its U.
DecKey ==
  IF Cardinality(shareTable) >= DkgThreshold /\ \A s \in shareTable : s[2] = C
  THEN C ELSE None

\* The table is full: Download decrypts with what it has, cleans up and returns.
Finish ==
  /\ metaFileKey # None
  /\ Cardinality(shareTable) >= Threshold
  /\ results' = Append(results, IF DecKey = metaFileKey THEN metaFileKey ELSE None)
  /\ metaFileKey' = None
  /\ shareTable' = {}
  /\ UNCHANGED <<nodeVars, applicant, asked, C, checked, early, network>>

-----------------------------------------------------------------------------
Step ==
  \/ \E n \in Node : Certify(n) \/ RecvPKRequest(n)
  \/ \E n \in Node, f \in File : RecvEncryptedFile(n, f)
  \/ \E n \in Node, r \in DOMAIN asked :
       \/ Record(n, r)
       \/ RecvRequestFile(n, r)
       \/ ExecResponseFile(n, r)
       \/ RecvResponseFile(n, r)
  \/ \E f \in File : BroadcastEncryptedFileMessage(f)
  \/ RecvPK
  \/ Finish

Next == Step \/ \E f \in File : Upload(f) \/ Download(f)

\* Goroutines run, messages arrive, and the key generation ends.  The users need
\* not do anything.  A step is never repeated, so that one condition is enough.
Fairness == WF_vars(Step)

Spec == Init /\ [][Next]_vars /\ Fairness

-----------------------------------------------------------------------------
(* Properties                                                              *)

\* A download that finds every node certified and in possession of the file does
\* no harm to a node: no request of it keeps the data lock, nobody waits for that
\* lock, and no process dies.  This is about recvRequestFileMessage, which waits
\* for data under the lock and does not look whether priShare is set.
HarmlessWhenReady ==
  ~early => /\ crashed = {}
            /\ \A n \in Node : reading[n] = {} /\ writing[n] = {}

\* As long as the HR asks for one file only, a download returns it: the shares
\* it waits for are enough for the key that the nodes share, whichever nodes
\* answer first, and whatever is left over from its earlier downloads.
SameFileDecrypted ==
  (\A r, q \in DOMAIN asked : asked[r].file = asked[q].file) =>
    \A r \in DOMAIN results : results[r] = asked[r].file

\* Every download returns the file it asked for (peer/datasharing.go:20).
DownloadCorrect == \A r \in DOMAIN results : results[r] = asked[r].file

\* With three nodes at most, no download returns before the request is in the
\* chain: it needs the share of every node, and the one that serves it records
\* the request before it sends its share.
RecordedFirst == N <= 3 => DOMAIN results \subseteq recorded

\* Every Upload returns, although it waits for a public key that the nodes have
\* only when the key generation is done, and whatever becomes of them later.
UploadReturns ==
  \A f \in File : uploads[f] = "waiting" ~> uploads[f] = "sent"

\* A Download that finds every node ready returns, if all earlier ones did so too.
DownloadReturns == metaFileKey # None /\ ~early ~> metaFileKey = None

\* Every request is recorded, unless the node that should do it dies.
RequestRecorded ==
  \A r \in Call :
    r \in DOMAIN asked ~>
      r \in recorded \/ (r \in DOMAIN asked /\ asked[r].service \in crashed)
=============================================================================
