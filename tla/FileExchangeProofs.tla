------------------------- MODULE FileExchangeProofs -------------------------
(* What FileExchange does for any number of nodes, files and downloads:    *)
(* its type invariant, HarmlessWhenReady, SameFileDecrypted, RecordedFirst *)
(* and, about its progress, that its steps come to an end and what holds   *)
(* then.                                                                   *)
EXTENDS FileExchange, FiniteSetTheorems, SequenceTheorems, TLAPS

-----------------------------------------------------------------------------
(* Types                                                                   *)

\* The variables are typed in every initial state.
LEMMA TypeInit == Init => TypeOK
<1> SUFFICES ASSUME Init PROVE TypeOK
  OBVIOUS
<1>1. asked \in Seq([file : File, service : Node]) /\ results \in Seq(File \cup {None})
  BY DEF Init
<1>2. early \in BOOLEAN /\ hasPubKey \in BOOLEAN /\ pkResponse \in BOOLEAN
  BY DEF Init
<1>3. /\ dataTable \in [Node -> SUBSET File]
      /\ reading \in [Node -> SUBSET Call]
      /\ writing \in [Node -> SUBSET File]
      /\ uploads \in [File -> {"none", "waiting", "sent"}]
  BY DEF Init
<1>4. QED
  BY <1>1, <1>2, <1>3 DEF Init, TypeOK

\* What was asked for is a file, and the node that serves it exists.
LEMMA AskedType ==
  ASSUME TypeOK, NEW r \in DOMAIN asked
  PROVE  asked[r] \in [file : File, service : Node]
<1>1. asked \in Seq([file : File, service : Node])
  BY DEF TypeOK
<1>2. DOMAIN asked = 1..Len(asked)
  BY <1>1
<1>3. QED
  BY <1>1, <1>2, ElementOfSeq

\* The steps about the public key and the upload keep the types.
LEMMA TypeUpload ==
  ASSUME TypeOK,
         \/ \E n \in Node : Certify(n) \/ RecvPKRequest(n)
         \/ RecvPK
         \/ \E f \in File : Upload(f) \/ BroadcastEncryptedFileMessage(f)
         \/ \E n \in Node, f \in File : RecvEncryptedFile(n, f)
  PROVE  TypeOK'
<1>1. ASSUME NEW n \in Node, Certify(n) PROVE TypeOK'
  BY <1>1 DEF TypeOK, Certify, applicant, hrVars, network
<1>2. ASSUME NEW n \in Node, RecvPKRequest(n) PROVE TypeOK'
  BY <1>2 DEF TypeOK, RecvPKRequest, nodeVars, applicant, hrVars
<1>3. CASE RecvPK
  BY <1>3 DEF TypeOK, RecvPK, nodeVars, hrVars
<1>4. ASSUME NEW f \in File, Upload(f) PROVE TypeOK'
  BY <1>4 DEF TypeOK, Upload, nodeVars, hrVars
<1>5. ASSUME NEW f \in File, BroadcastEncryptedFileMessage(f) PROVE TypeOK'
  BY <1>5 DEF TypeOK, BroadcastEncryptedFileMessage, nodeVars, hrVars
<1>6. ASSUME NEW n \in Node, NEW f \in File, RecvEncryptedFile(n, f) PROVE TypeOK'
  BY SMTT(60), <1>6 DEF TypeOK, RecvEncryptedFile, Store, applicant, hrVars
<1>7. QED
  BY <1>1, <1>2, <1>3, <1>4, <1>5, <1>6

\* The steps of a download at the HR keep the types.
LEMMA TypeHR ==
  ASSUME TypeOK,
         \/ \E f \in File : Download(f)
         \/ \E n \in Node, r \in DOMAIN asked :
              ExecResponseFile(n, r) \/ RecvResponseFile(n, r)
         \/ Finish
  PROVE  TypeOK'
<1>1. ASSUME NEW f \in File, Download(f) PROVE TypeOK'
  <2>1. PICK s \in ServiceIndex : asked' = Append(asked, [file |-> f, service |-> s])
    BY <1>1 DEF Download
  <2>2. [file |-> f, service |-> s] \in [file : File, service : Node]
    BY <2>1 DEF ServiceIndex, Node
  <2>3. /\ asked \in Seq([file : File, service : Node])
        /\ results \in Seq(File \cup {None})
    BY DEF TypeOK
  <2>4. asked' \in Seq([file : File, service : Node])
    BY <2>1, <2>2, <2>3
  <2>5. Len(asked') \in Call
    <3>1. Len(asked') = Len(asked) + 1 /\ Len(asked) \in Nat
      BY <2>1, <2>2, <2>3
    <3>2. Len(asked) < MaxDownloads
      BY <1>1 DEF Download
    <3>3. QED
      BY <3>1, <3>2, FileExchangeAssumption DEF Call
  <2>6. requests' \subseteq Node \X Call
    BY <1>1, <2>5 DEF TypeOK, Download
  <2>7. early' \in BOOLEAN
    <3>1. Ready(f) \in BOOLEAN
      BY DEF Ready
    <3>2. early \in BOOLEAN /\ early' = (early \/ ~Ready(f))
      BY <1>1 DEF Download, TypeOK
    <3>3. QED
      BY <3>1, <3>2, Zenon
  <2>8. QED
    BY <1>1, <2>4, <2>6, <2>7 DEF TypeOK, Download, nodeVars, applicant
<1>2. ASSUME NEW n \in Node, NEW r \in DOMAIN asked, ExecResponseFile(n, r)
      PROVE TypeOK'
  BY <1>2 DEF TypeOK, ExecResponseFile, nodeVars, applicant
<1>3. ASSUME NEW n \in Node, NEW r \in DOMAIN asked, RecvResponseFile(n, r)
      PROVE TypeOK'
  <2>1. FileOf(r) \in File
    BY AskedType DEF FileOf
  <2>2. shareTable' \subseteq Node \X File /\ C' \in File \cup {None}
    BY <1>3, <2>1 DEF TypeOK, RecvResponseFile, SetShare
  <2>3. QED
    BY <1>3, <2>2 DEF TypeOK, RecvResponseFile, nodeVars, applicant, network
<1>4. CASE Finish
  <2>1. results' \in Seq(File \cup {None})
    BY <1>4 DEF TypeOK, Finish
  <2>2. QED
    BY <1>4, <2>1 DEF TypeOK, Finish, nodeVars, applicant, network
<1>5. QED
  BY <1>1, <1>2, <1>3, <1>4

\* The steps of a request at a node keep the types.
LEMMA TypeNode ==
  ASSUME TypeOK, NEW n \in Node, NEW r \in DOMAIN asked,
         Record(n, r) \/ RecvRequestFile(n, r)
  PROVE  TypeOK'
<1>1. CASE Record(n, r)
  BY <1>1 DEF TypeOK, Record, applicant, hrVars, network
<1>2. CASE RecvRequestFile(n, r)
  BY SMTT(60), <1>2 DEF TypeOK, RecvRequestFile, applicant, hrVars
<1>3. QED
  BY <1>1, <1>2

\* Every state is typed, whatever the nodes, files and number of downloads.
THEOREM TypeCorrect == Spec => []TypeOK
<1>1. ASSUME TypeOK, [Next]_vars PROVE TypeOK'
  <2>1. CASE Next
    BY <1>1, <2>1, TypeUpload, TypeHR, TypeNode DEF Next, Step
  <2>2. CASE UNCHANGED vars
    BY <1>1, <2>2 DEF TypeOK, vars, nodeVars, applicant, hrVars, network
  <2>3. QED
    BY <1>1, <2>1, <2>2
<1>2. QED
  BY <1>1, TypeInit, PTL DEF Spec

-----------------------------------------------------------------------------
(* No node is harmed                                                       *)

\* Why HarmlessWhenReady is inductive: a request that waits for the lock finds
\* the node certified and the file there.
ReadyWhenServed ==
  ~early => \A q \in requests : /\ q[2] \in DOMAIN asked
                                /\ q[1] \in certified
                                /\ asked[q[2]].file \in dataTable[q[1]]

HInv == TypeOK /\ HarmlessWhenReady /\ ReadyWhenServed

\* A request of a node finds it ready as long as nothing that was stored or
\* certified is lost and no request comes up.
LEMMA StaysReady ==
  ASSUME HInv, requests' \subseteq requests, certified \subseteq certified',
         \A n \in Node : dataTable[n] \subseteq dataTable'[n],
         asked' = asked, early' = early
  PROVE  ReadyWhenServed'
  BY DEF HInv, TypeOK, ReadyWhenServed

\* A download makes requests that find the node ready, or early becomes true.
LEMMA DownloadReady ==
  ASSUME HInv, NEW f \in File, Download(f)
  PROVE  ReadyWhenServed'
<1> SUFFICES ASSUME ~early', NEW q \in requests'
             PROVE  /\ q[2] \in DOMAIN asked'
                    /\ q[1] \in certified
                    /\ asked'[q[2]].file \in dataTable[q[1]]
  BY DEF ReadyWhenServed, Download, nodeVars
<1>1. ~early /\ Ready(f)
  BY DEF Download
<1>2. PICK s \in ServiceIndex : asked' = Append(asked, [file |-> f, service |-> s])
  BY DEF Download
<1>3. asked \in Seq([file : File, service : Node])
  BY DEF HInv, TypeOK
<1>4. [file |-> f, service |-> s] \in [file : File, service : Node]
  BY DEF ServiceIndex, Node
<1>5. /\ Len(asked') = Len(asked) + 1
      /\ Len(asked) \in Nat
      /\ DOMAIN asked = 1..Len(asked) /\ DOMAIN asked' = 1..(Len(asked) + 1)
      /\ asked'[Len(asked) + 1] = [file |-> f, service |-> s]
      /\ \A i \in 1..Len(asked) : asked'[i] = asked[i]
  BY <1>2, <1>3, <1>4
<1>6. CASE q \in requests
  <2>1. /\ q[2] \in DOMAIN asked
        /\ q[1] \in certified
        /\ asked[q[2]].file \in dataTable[q[1]]
    BY <1>1, <1>6 DEF HInv, ReadyWhenServed
  <2>2. QED
    BY <2>1, <1>5
<1>7. CASE q \in Node \X {Len(asked')}
  BY <1>1, <1>5, <1>7 DEF Ready
<1>8. QED
  BY <1>6, <1>7 DEF Download

\* A request that finds the node ready takes and returns the lock, and is served.
LEMMA ServedInPeace ==
  ASSUME HInv, NEW n \in Node, NEW r \in DOMAIN asked, RecvRequestFile(n, r)
  PROVE  HInv'
<1>1. TypeOK'
  BY TypeNode DEF HInv
<1>2. ~early => n \in certified /\ FileOf(r) \in dataTable[n]
  BY DEF HInv, ReadyWhenServed, RecvRequestFile, FileOf
<1>3. ~early => crashed' = crashed /\ reading' = reading
  BY <1>2 DEF RecvRequestFile
<1>4. HarmlessWhenReady'
  BY <1>3 DEF HInv, HarmlessWhenReady, RecvRequestFile, hrVars
<1>5. ReadyWhenServed'
  BY StaysReady DEF RecvRequestFile, hrVars
<1>6. QED
  BY <1>1, <1>4, <1>5 DEF HInv

\* Data is stored at once as long as no request holds the lock.
LEMMA StoredInPeace ==
  ASSUME HInv, NEW n \in Node, NEW f \in File, RecvEncryptedFile(n, f)
  PROVE  HInv'
<1>1. TypeOK'
  BY TypeUpload DEF HInv
<1>2. ~early => writing' = writing
  BY DEF HInv, HarmlessWhenReady, RecvEncryptedFile
<1>3. HarmlessWhenReady'
  BY <1>2 DEF HInv, HarmlessWhenReady, RecvEncryptedFile, hrVars
<1>4. \A m \in Node : dataTable[m] \subseteq dataTable'[m]
  BY DEF HInv, TypeOK, RecvEncryptedFile, Store
<1>5. ReadyWhenServed'
  BY <1>4, StaysReady DEF RecvEncryptedFile, hrVars
<1>6. QED
  BY <1>1, <1>3, <1>5 DEF HInv

\* The other steps leave locks and processes alone.
LEMMA OthersInPeace ==
  ASSUME HInv,
         \/ \E n \in Node : Certify(n) \/ RecvPKRequest(n)
         \/ RecvPK \/ Finish
         \/ \E f \in File :
              Upload(f) \/ BroadcastEncryptedFileMessage(f) \/ Download(f)
         \/ \E n \in Node, r \in DOMAIN asked :
              Record(n, r) \/ ExecResponseFile(n, r) \/ RecvResponseFile(n, r)
  PROVE  HInv'
<1>1. TypeOK'
  BY TypeUpload, TypeHR, TypeNode DEF HInv
<1>2. /\ crashed' = crashed /\ reading' = reading /\ writing' = writing
      /\ early => early'
  <2>1. CASE \E f \in File : Download(f)
    BY <2>1, Zenon DEF Download, nodeVars
  <2>2. CASE \E f \in File : Upload(f) \/ BroadcastEncryptedFileMessage(f)
    BY <2>2 DEF Upload, BroadcastEncryptedFileMessage, nodeVars, hrVars
  <2>3. CASE \E n \in Node : Certify(n) \/ RecvPKRequest(n)
    BY <2>3 DEF Certify, RecvPKRequest, nodeVars, hrVars
  <2>4. CASE RecvPK \/ Finish
    BY <2>4 DEF RecvPK, Finish, nodeVars, hrVars
  <2>5. CASE \E n \in Node, r \in DOMAIN asked :
               Record(n, r) \/ ExecResponseFile(n, r) \/ RecvResponseFile(n, r)
    BY <2>5 DEF Record, ExecResponseFile, RecvResponseFile, nodeVars, hrVars
  <2>6. QED
    BY <2>1, <2>2, <2>3, <2>4, <2>5
<1>3. HarmlessWhenReady'
  BY <1>2 DEF HInv, HarmlessWhenReady
<1>4. ReadyWhenServed'
  <2>1. CASE \E f \in File : Download(f)
    BY <2>1, DownloadReady
  <2>2. CASE ~\E f \in File : Download(f)
    <3>1. /\ requests' = requests /\ asked' = asked /\ early' = early
          /\ certified \subseteq certified' /\ dataTable' = dataTable
      BY ZenonT(60), <2>2 DEF Certify, RecvPKRequest, RecvPK, Finish, Upload, Record,
         BroadcastEncryptedFileMessage, ExecResponseFile, RecvResponseFile,
         nodeVars, hrVars, network
    <3>2. QED
      BY <3>1, StaysReady
  <2>3. QED
    BY <2>1, <2>2
<1>5. QED
  BY <1>1, <1>3, <1>4 DEF HInv

LEMMA HInvAlways == Spec => []HInv
<1>1. Init => HInv
  BY TypeInit DEF Init, HInv, HarmlessWhenReady, ReadyWhenServed
<1>2. ASSUME HInv, [Next]_vars PROVE HInv'
  <2>1. CASE Next
    BY <1>2, <2>1, ServedInPeace, StoredInPeace, OthersInPeace DEF Next, Step
  <2>2. CASE UNCHANGED vars
    <3>1. TypeOK'
      BY <1>2, <2>2 DEF HInv, TypeOK, vars, nodeVars, applicant, hrVars, network
    <3>2. HarmlessWhenReady' /\ ReadyWhenServed'
      BY <1>2, <2>2 DEF HInv, HarmlessWhenReady, ReadyWhenServed,
                        vars, nodeVars, hrVars, network
    <3>3. QED
      BY <3>1, <3>2 DEF HInv
  <2>3. QED
    BY <1>2, <2>1, <2>2
<1>3. QED
  BY <1>1, <1>2, PTL DEF Spec

\* HarmlessWhenReady for any number of nodes, files and downloads.
THEOREM HarmlessAlways == Spec => []HarmlessWhenReady
<1>1. HInv => HarmlessWhenReady
  BY DEF HInv
<1>2. QED
  BY <1>1, HInvAlways, PTL

-----------------------------------------------------------------------------
(* One file is decrypted                                                   *)

OneFile == \A r, q \in DOMAIN asked : asked[r].file = asked[q].file

\* The HR waits for the file it asked for last, and only then has it a call to
\* return from.
Pending ==
  /\ Len(results) = Len(asked) - (IF metaFileKey = None THEN 0 ELSE 1)
  /\ metaFileKey # None => /\ Len(asked) \in DOMAIN asked
                           /\ metaFileKey = asked[Len(asked)].file

\* Why SameFileDecrypted is inductive: what the HR keeps of the answers is about
\* files it asked for, and C is there when there is a share.
AboutAsked ==
  /\ C # None => \E r \in DOMAIN asked : C = asked[r].file
  /\ \A s \in shareTable : \E r \in DOMAIN asked : s[2] = asked[r].file
  /\ shareTable # {} => C # None

DInv == TypeOK /\ Pending /\ AboutAsked /\ SameFileDecrypted

\* The length and the elements of what was asked.
LEMMA AskedDomain == TypeOK => Len(asked) \in Nat /\ DOMAIN asked = 1..Len(asked)
<1> SUFFICES ASSUME TypeOK PROVE Len(asked) \in Nat /\ DOMAIN asked = 1..Len(asked)
  OBVIOUS
<1>1. asked \in Seq([file : File, service : Node])
  BY DEF TypeOK
<1>2. QED
  BY <1>1

\* A new call changes nothing of the earlier ones, and awaits what it asked for.
LEMMA DownloadKeeps ==
  ASSUME DInv, NEW f \in File, Download(f)
  PROVE  DInv'
<1>1. TypeOK'
  BY TypeHR DEF DInv
<1>2. PICK s \in ServiceIndex : asked' = Append(asked, [file |-> f, service |-> s])
  BY DEF Download
<1>3. asked \in Seq([file : File, service : Node])
  BY DEF DInv, TypeOK
<1>4. [file |-> f, service |-> s] \in [file : File, service : Node]
  BY DEF ServiceIndex, Node
<1>5. /\ Len(asked') = Len(asked) + 1
      /\ Len(asked) \in Nat
      /\ DOMAIN asked = 1..Len(asked) /\ DOMAIN asked' = 1..(Len(asked) + 1)
      /\ asked'[Len(asked) + 1] = [file |-> f, service |-> s]
      /\ \A i \in 1..Len(asked) : asked'[i] = asked[i]
  BY <1>2, <1>3, <1>4
<1>6. /\ results' = results /\ C' = C /\ shareTable' = shareTable
      /\ metaFileKey' = f /\ metaFileKey = None
      /\ Len(results) = Len(asked)
  BY DEF Download
<1>7. Pending'
  BY <1>5, <1>6, FileExchangeAssumption DEF Pending
<1>8. AboutAsked'
  BY <1>5, <1>6 DEF DInv, AboutAsked
<1>9. SameFileDecrypted'
  <2>1. DOMAIN results = 1..Len(asked)
    <3>1. results \in Seq(File \cup {None})
      BY DEF DInv, TypeOK
    <3>2. QED
      BY <3>1, <1>6
  <2>2. QED
    BY <2>1, <1>5, <1>6 DEF DInv, SameFileDecrypted
<1>10. QED
  BY <1>1, <1>7, <1>8, <1>9 DEF DInv

\* A response is stored with its own file, which is one that was asked for.
LEMMA ResponseKeeps ==
  ASSUME DInv, NEW n \in Node, NEW r \in DOMAIN asked, RecvResponseFile(n, r)
  PROVE  DInv'
<1>1. TypeOK'
  BY TypeHR DEF DInv
<1>2. asked' = asked /\ results' = results /\ metaFileKey' = metaFileKey
  BY DEF RecvResponseFile
<1>3. FileOf(r) \in File
  BY AskedType DEF DInv, FileOf
<1>4. C' = (IF C = None THEN FileOf(r) ELSE C) /\ C' # None
  BY <1>3, FileExchangeAssumption DEF RecvResponseFile
<1>5. \A s \in shareTable' : s \in shareTable \/ s = <<n, FileOf(r)>>
  BY DEF RecvResponseFile, SetShare
<1>6. AboutAsked'
  BY <1>2, <1>4, <1>5 DEF DInv, AboutAsked, FileOf
<1>7. Pending' /\ SameFileDecrypted'
  BY <1>2 DEF DInv, Pending, SameFileDecrypted
<1>8. QED
  BY <1>1, <1>6, <1>7 DEF DInv

\* With one file asked for, the shares are for its C and enough of them.
LEMMA FinishKeeps ==
  ASSUME DInv, Finish
  PROVE  DInv'
<1>1. TypeOK'
  BY TypeHR DEF DInv
<1>2. /\ asked' = asked /\ C' = C /\ shareTable' = {} /\ metaFileKey' = None
      /\ metaFileKey # None
  BY DEF Finish
<1>3. /\ results \in Seq(File \cup {None})
      /\ results' = Append(results, IF DecKey = metaFileKey THEN metaFileKey ELSE None)
      /\ metaFileKey \in File
  BY DEF DInv, TypeOK, Finish
<1>4. /\ Len(results') = Len(results) + 1 /\ Len(results) \in Nat
      /\ DOMAIN results = 1..Len(results)
      /\ DOMAIN results' = 1..(Len(results) + 1)
      /\ results'[Len(results) + 1] = (IF DecKey = metaFileKey THEN metaFileKey ELSE None)
      /\ \A i \in 1..Len(results) : results'[i] = results[i]
  BY <1>3
<1>5. /\ Len(asked) \in Nat /\ DOMAIN asked = 1..Len(asked)
      /\ Len(results) = Len(asked) - 1
      /\ Len(asked) \in DOMAIN asked
      /\ metaFileKey = asked[Len(asked)].file
  BY <1>2, AskedDomain DEF DInv, Pending
<1>6. Pending'
  BY <1>2, <1>4, <1>5 DEF Pending
<1>7. AboutAsked'
  BY <1>2 DEF DInv, AboutAsked
<1>8. ASSUME OneFile PROVE DecKey = metaFileKey
  <2>1. shareTable # {}
    <3>1. Cardinality(shareTable) >= Half + 1
      BY DEF Finish, Threshold
    <3>2. Half \in Nat
      BY FileExchangeAssumption DEF Half
    <3>3. QED
      BY <3>1, <3>2, FS_EmptySet
  <2>2. C = metaFileKey
    BY <2>1, <1>5, <1>8 DEF DInv, AboutAsked, OneFile
  <2>3. \A s \in shareTable : s[2] = C
    BY <2>2, <1>5, <1>8 DEF DInv, AboutAsked, OneFile
  <2>4. Cardinality(shareTable) >= DkgThreshold
    BY DEF Finish, Threshold, DkgThreshold
  <2>5. QED
    BY <2>2, <2>3, <2>4 DEF DecKey
<1>9. SameFileDecrypted'
  BY <1>2, <1>4, <1>5, <1>8 DEF DInv, SameFileDecrypted, OneFile
<1>10. QED
  BY <1>1, <1>6, <1>7, <1>9 DEF DInv

LEMMA DInvAlways == Spec => []DInv
<1>1. Init => DInv
  BY TypeInit DEF Init, DInv, Pending, AboutAsked, SameFileDecrypted
<1>2. ASSUME DInv, [Next]_vars PROVE DInv'
  <2>1. ASSUME \/ \E f \in File : Download(f)
               \/ \E n \in Node, r \in DOMAIN asked : RecvResponseFile(n, r)
               \/ Finish
        PROVE  DInv'
    BY <1>2, <2>1, DownloadKeeps, ResponseKeeps, FinishKeeps
  <2>2. ASSUME \/ \E n \in Node : Certify(n) \/ RecvPKRequest(n)
               \/ RecvPK
               \/ \E f \in File : Upload(f) \/ BroadcastEncryptedFileMessage(f)
               \/ \E n \in Node, f \in File : RecvEncryptedFile(n, f)
               \/ \E n \in Node, r \in DOMAIN asked :
                    Record(n, r) \/ RecvRequestFile(n, r) \/ ExecResponseFile(n, r)
               \/ UNCHANGED vars
        PROVE  DInv'
    <3>1. /\ asked' = asked /\ results' = results /\ C' = C
          /\ shareTable' = shareTable /\ metaFileKey' = metaFileKey
      BY ZenonT(60), <2>2 DEF Certify, RecvPKRequest, RecvPK, Upload, Record, RecvRequestFile,
         BroadcastEncryptedFileMessage, RecvEncryptedFile, ExecResponseFile,
         vars, hrVars
    <3>2. TypeOK'
      <4>1. CASE UNCHANGED vars
        BY <1>2, <4>1
           DEF DInv, TypeOK, vars, nodeVars, applicant, hrVars, network
      <4>2. CASE ~UNCHANGED vars
        BY <1>2, <2>2, <4>2, TypeUpload, TypeHR, TypeNode DEF DInv
      <4>3. QED
        BY <4>1, <4>2
    <3>3. QED
      BY <1>2, <3>1, <3>2 DEF DInv, Pending, AboutAsked, SameFileDecrypted
  <2>3. QED
    BY <1>2, <2>1, <2>2 DEF Next, Step
<1>3. QED
  BY <1>1, <1>2, PTL DEF Spec

\* SameFileDecrypted for any number of nodes, files and downloads.
THEOREM SameFileAlways == Spec => []SameFileDecrypted
<1>1. DInv => SameFileDecrypted
  BY DEF DInv
<1>2. QED
  BY <1>1, DInvAlways, PTL

-----------------------------------------------------------------------------
(* No download returns before it is recorded                               *)

Current == Len(asked)

\* What is on the way, or held by a goroutine of the HR.
Outstanding == requests \cup responses \cup checked

\* With three nodes at most the HR needs all of them, so that nothing is left of a
\* download when it returns, and what is on the way is about the one it waits for.
OnlyCurrent ==
  /\ \A q \in Outstanding : metaFileKey # None /\ q[2] = Current
  /\ shareTable # {} => metaFileKey # None

\* Of what a node is asked there is one request, response or share.
OneAnswer ==
  /\ requests \cap responses = {}
  /\ requests \cap checked = {}
  /\ responses \cap checked = {}
  /\ \A s \in shareTable : <<s[1], Current>> \notin Outstanding
  /\ \A s, t \in shareTable : s[1] = t[1] => s = t

\* The node that serves the request has answered only if the request is recorded.
ServedRecorded ==
  metaFileKey # None =>
    \/ Current \in recorded
    \/ LET n == asked[Current].service IN
       /\ <<n, Current>> \notin responses \cup checked
       /\ \A s \in shareTable : s[1] # n

\* Why RecordedFirst is inductive.
RInv == OnlyCurrent /\ OneAnswer /\ ServedRecorded /\ DOMAIN results \subseteq recorded

LEMMA DownloadRecords ==
  ASSUME DInv, RInv, NEW f \in File, Download(f)
  PROVE  RInv'
<1>1. /\ metaFileKey = None /\ metaFileKey' # None
      /\ requests' = requests \cup (Node \X {Current'})
      /\ UNCHANGED <<recorded, results, shareTable, responses, checked>>
  BY FileExchangeAssumption DEF Download, Current, nodeVars
<1>2. requests = {} /\ responses = {} /\ checked = {} /\ shareTable = {}
  BY <1>1 DEF RInv, OnlyCurrent, Outstanding
<1>3. requests' = Node \X {Current'}
  BY <1>1, <1>2
<1>4. OnlyCurrent' /\ OneAnswer'
  BY <1>1, <1>2, <1>3 DEF OnlyCurrent, OneAnswer, Outstanding
<1>5. ServedRecorded'
  BY <1>1, <1>2 DEF ServedRecorded
<1>6. QED
  BY <1>1, <1>4, <1>5 DEF RInv

LEMMA RequestRecords ==
  ASSUME RInv, NEW n \in Node, NEW r \in DOMAIN asked, RecvRequestFile(n, r)
  PROVE  RInv'
<1>1. /\ <<n, r>> \in requests /\ requests' = requests \ {<<n, r>>}
      /\ responses' \in {responses, responses \cup {<<n, r>>}}
      /\ n = asked[r].service => r \in recorded
      /\ UNCHANGED <<recorded, results, asked, metaFileKey, shareTable, checked>>
  BY DEF RecvRequestFile, MayLock, hrVars
<1>2. r = Current /\ metaFileKey # None
  BY <1>1 DEF RInv, OnlyCurrent, Outstanding
<1>3. OnlyCurrent' /\ OneAnswer'
  BY <1>1, <1>2 DEF RInv, OnlyCurrent, OneAnswer, Outstanding, Current
<1>4. ServedRecorded'
  BY <1>1, <1>2 DEF RInv, ServedRecorded, Current
<1>5. QED
  BY <1>1, <1>3, <1>4 DEF RInv

LEMMA ResponseRecords ==
  ASSUME RInv, NEW n \in Node, NEW r \in DOMAIN asked,
         ExecResponseFile(n, r) \/ RecvResponseFile(n, r)
  PROVE  RInv'
<1>1. UNCHANGED <<recorded, results, asked, metaFileKey, requests>>
  BY DEF ExecResponseFile, RecvResponseFile, nodeVars, network
<1>2. CASE ExecResponseFile(n, r)
  <2>1. /\ <<n, r>> \in responses /\ responses' = responses \ {<<n, r>>}
        /\ checked' \in {checked, checked \cup {<<n, r>>}}
        /\ shareTable' = shareTable
    BY <1>2 DEF ExecResponseFile
  <2>2. r = Current /\ metaFileKey # None
    BY <2>1 DEF RInv, OnlyCurrent, Outstanding
  <2>3. OnlyCurrent' /\ OneAnswer'
    BY <1>1, <2>1, <2>2 DEF RInv, OnlyCurrent, OneAnswer, Outstanding, Current
  <2>4. ServedRecorded'
    BY <1>1, <2>1, <2>2 DEF RInv, ServedRecorded, Current
  <2>5. QED
    BY <1>1, <2>3, <2>4 DEF RInv
<1>3. CASE RecvResponseFile(n, r)
  <2>1. /\ <<n, r>> \in checked /\ checked' = checked \ {<<n, r>>}
        /\ responses' = responses
        /\ \/ shareTable' = shareTable
           \/ /\ shareTable' = shareTable \cup {<<n, FileOf(r)>>}
              /\ \A s \in shareTable : s[1] # n
    BY <1>3 DEF RecvResponseFile, SetShare, network
  <2>2. r = Current /\ metaFileKey # None
    BY <2>1 DEF RInv, OnlyCurrent, Outstanding
  <2>3. OnlyCurrent' /\ OneAnswer'
    BY <1>1, <2>1, <2>2 DEF RInv, OnlyCurrent, OneAnswer, Outstanding, Current
  <2>4. ServedRecorded'
    BY <1>1, <2>1, <2>2 DEF RInv, ServedRecorded, Current
  <2>5. QED
    BY <1>1, <2>3, <2>4 DEF RInv
<1>4. QED
  BY <1>2, <1>3

LEMMA NodesFinite == IsFiniteSet(Node) /\ Cardinality(Node) = N
  BY FS_Interval, FileExchangeAssumption DEF Node

\* There are no more shares than nodes they come from.
LEMMA SharesBounded ==
  ASSUME TypeOK, OneAnswer, NEW M \in SUBSET Node, \A s \in shareTable : s[1] \in M
  PROVE  /\ Cardinality(shareTable) \in Nat
         /\ Cardinality(M) \in Nat
         /\ Cardinality(shareTable) <= Cardinality(M)
<1> DEFINE f == [s \in shareTable |-> s[1]]
<1>1. f \in [shareTable -> M]
  OBVIOUS
<1>2. \A s, t \in shareTable : f[s] = f[t] => s = t
  BY DEF OneAnswer
<1>3. IsFiniteSet(M)
  BY NodesFinite, FS_Subset
<1> HIDE DEF f
<1>4. f \in Injection(shareTable, M)
  BY <1>1, <1>2 DEF Injection, IsInjective
<1>5. QED
  BY <1>3, <1>4, FS_Injection, FS_CardinalityType

\* As many shares as there are nodes, at most one of a node: one of every node.
LEMMA EveryShare ==
  ASSUME TypeOK, OneAnswer, Cardinality(shareTable) >= N, NEW n \in Node
  PROVE  \E s \in shareTable : s[1] = n
<1> SUFFICES ASSUME \A s \in shareTable : s[1] # n PROVE FALSE
  OBVIOUS
<1>1. PICK M \in SUBSET Node : M = Node \ {n}
  OBVIOUS
<1>2. Cardinality(M) = N - 1
  BY <1>1, NodesFinite, FS_RemoveElement
<1>3. \A s \in shareTable : s[1] \in M
  BY <1>1 DEF TypeOK
<1>4. /\ Cardinality(shareTable) \in Nat
      /\ Cardinality(shareTable) <= Cardinality(M)
  BY <1>3, SharesBounded
<1>5. QED
  BY <1>2, <1>4, FileExchangeAssumption

LEMMA FinishRecords ==
  ASSUME N <= 3, DInv, RInv, Finish
  PROVE  RInv'
<1>1. /\ metaFileKey # None /\ metaFileKey' = None /\ shareTable' = {}
      /\ UNCHANGED <<recorded, asked, requests, responses, checked>>
  BY DEF Finish, nodeVars, network
<1>2. Cardinality(shareTable) >= N
  <2>1. N \in {1, 2, 3}
    BY FileExchangeAssumption
  <2>2. Threshold >= N
    BY <2>1 DEF Threshold, Half
  <2>3. Threshold \in Nat /\ Cardinality(shareTable) >= Threshold
    BY <2>1 DEF Finish, Threshold, Half
  <2>4. Cardinality(shareTable) \in Nat
    <3>1. TypeOK /\ OneAnswer /\ \A s \in shareTable : s[1] \in Node
      BY DEF DInv, TypeOK, RInv
    <3>2. QED
      BY <3>1, SharesBounded
  <2>5. QED
    BY <2>1, <2>2, <2>3, <2>4
<1>3. \A n \in Node : \E s \in shareTable : s[1] = n
  BY <1>2, EveryShare DEF DInv, RInv
<1>4. Outstanding = {}
  <2>1. ASSUME NEW q \in Outstanding PROVE FALSE
    <3>1. q[1] \in Node /\ q = <<q[1], q[2]>> /\ q[2] = Current
      BY DEF DInv, TypeOK, RInv, OnlyCurrent, Outstanding
    <3>2. PICK s \in shareTable : s[1] = q[1]
      BY <1>3, <3>1
    <3>3. QED
      BY <3>1, <3>2 DEF RInv, OneAnswer
  <2>2. QED
    BY <2>1
<1>5. Current \in recorded
  <2>1. asked[Current].service \in Node
    BY <1>1, AskedType DEF DInv, Pending, Current
  <2>2. QED
    BY <1>1, <1>3, <2>1 DEF RInv, ServedRecorded
<1>6. DOMAIN results' \subseteq recorded
  <2>1. DOMAIN results' = DOMAIN results \cup {Current}
    <3>1. results \in Seq(File \cup {None}) /\ Current \in Nat /\ Len(results) = Current - 1
      BY <1>1, AskedDomain DEF DInv, TypeOK, Pending, Current
    <3>2. /\ DOMAIN results = 1..Len(results) /\ Len(results) \in Nat
          /\ DOMAIN results' = 1..(Len(results) + 1)
      BY <3>1 DEF Finish
    <3>3. QED
      BY <3>1, <3>2
  <2>2. QED
    BY <1>5, <2>1 DEF RInv
<1>7. QED
  BY <1>1, <1>4, <1>6 DEF RInv, OnlyCurrent, OneAnswer, ServedRecorded, Outstanding

\* With three nodes at most no download returns before its request is in the chain.
THEOREM RecordedAlways == Spec => []RecordedFirst
<1>1. ASSUME N <= 3, DInv, RInv, [Next]_vars PROVE RInv'
  <2>1. ASSUME \/ \E n \in Node : Certify(n) \/ RecvPKRequest(n)
               \/ RecvPK
               \/ \E f \in File : Upload(f) \/ BroadcastEncryptedFileMessage(f)
               \/ \E n \in Node, f \in File : RecvEncryptedFile(n, f)
               \/ UNCHANGED vars
        PROVE  RInv'
    <3>1. UNCHANGED <<recorded, results, asked, metaFileKey, shareTable, checked,
                      requests, responses>>
      BY <2>1 DEF Certify, RecvPKRequest, RecvPK, Upload, RecvEncryptedFile,
         BroadcastEncryptedFileMessage, vars, nodeVars, hrVars, network
    <3>2. QED
      BY <1>1, <3>1 DEF RInv, OnlyCurrent, OneAnswer, ServedRecorded, Outstanding, Current
  <2>2. ASSUME NEW n \in Node, NEW r \in DOMAIN asked, Record(n, r) PROVE RInv'
    <3>1. /\ recorded \subseteq recorded'
          /\ UNCHANGED <<results, asked, metaFileKey, shareTable, checked,
                         requests, responses>>
      BY <2>2 DEF Record, hrVars, network
    <3>2. QED
      BY <1>1, <3>1 DEF RInv, OnlyCurrent, OneAnswer, ServedRecorded, Outstanding, Current
  <2>3. QED
    BY <1>1, <2>1, <2>2, DownloadRecords, RequestRecords, ResponseRecords, FinishRecords
       DEF Next, Step
<1>2. Init => RInv
  BY DEF Init, RInv, OnlyCurrent, OneAnswer, ServedRecorded, Outstanding
<1>3. N <= 3 /\ DInv /\ RInv /\ [Next]_vars => RInv'
  BY <1>1
<1>4. (N <= 3 => RInv) => RecordedFirst
  BY DEF RInv, RecordedFirst
<1>5. CASE N <= 3
  BY <1>2, <1>3, <1>4, <1>5, DInvAlways, PTL DEF Spec
<1>6. CASE ~(N <= 3)
  <2>1. RecordedFirst
    BY <1>6 DEF RecordedFirst
  <2>2. QED
    BY <2>1, PTL
<1>7. QED
  BY <1>5, <1>6

-----------------------------------------------------------------------------
(* At rest everything is done.                                             *)
(*                                                                         *)
(* UploadReturns, DownloadReturns and RequestRecorded are about fair       *)
(* behaviours.  Two facts about single states and steps are behind them:   *)
(* a state in which no step of Step can be taken owes nobody anything, and *)
(* every such step makes Work smaller, so that there is always an end of   *)
(* them until a user calls something else.                                 *)

\* No step of Step is possible: its guards, action by action, are false.
AtRest ==
  /\ Node \subseteq certified \cup crashed
  /\ pkRequests \subseteq crashed
  /\ ~pkResponse
  /\ hasPubKey => \A f \in File : uploads[f] # "waiting"
  /\ \A q \in encryptedFiles : q[1] \in crashed
  /\ \A q \in requests :
       \/ q[1] \in crashed
       \/ /\ q[1] = asked[q[2]].service => q[2] \in recorded
          /\ writing[q[1]] # {}
  /\ responses = {} /\ checked = {}
  /\ metaFileKey # None => Cardinality(shareTable) < Threshold

\* Before the applicant has the key nothing was sent with it, and a waiting Upload
\* has asked for it.
KeyComes ==
  ~hasPubKey =>
    /\ crashed = {} /\ encryptedFiles = {}
    /\ \A n \in Node : dataTable[n] = {}
    /\ (\E f \in File : uploads[f] = "waiting") => pkRequests # {} \/ pkResponse

\* A request that is not recorded is still with the node that is to record it.
RecordComes ==
  \A r \in DOMAIN asked :
    \/ r \in recorded
    \/ asked[r].service \in crashed
    \/ <<asked[r].service, r>> \in requests

\* A node gives one share.
OneShare == \A s, t \in shareTable : s[1] = t[1] => s = t

\* A share is missing only from a node whose answer is on its way, or the table is
\* full.
SharesCome ==
  ~early /\ metaFileKey # None =>
    \A n \in Node :
      \/ <<n, Current>> \in Outstanding
      \/ \E s \in shareTable : s[1] = n
      \/ Cardinality(shareTable) >= Threshold

\* An Upload that waits has asked for the key, and its nodes answer.
LEMMA KeyComesNext ==
  ASSUME TypeOK, KeyComes, [Next]_vars
  PROVE  KeyComes'
<1> SUFFICES ASSUME ~hasPubKey'
             PROVE  /\ crashed' = {} /\ encryptedFiles' = {}
                    /\ \A n \in Node : dataTable'[n] = {}
                    /\ (\E f \in File : uploads'[f] = "waiting") =>
                         pkRequests' # {} \/ pkResponse'
  BY DEF KeyComes
<1>1. CASE \E f \in File : Upload(f)
  <2>1. PICK f \in File : Upload(f)
    BY <1>1
  <2>2. /\ UNCHANGED <<hasPubKey, crashed, encryptedFiles, dataTable>>
        /\ ~hasPubKey => pkRequests' = pkRequests \cup Node
    BY <2>1 DEF Upload, nodeVars
  <2>3. 0 \in Node
    BY FileExchangeAssumption DEF Node
  <2>4. QED
    BY <2>2, <2>3 DEF KeyComes
<1>2. CASE \E n \in Node : RecvPKRequest(n)
  <2>1. /\ UNCHANGED <<hasPubKey, crashed, encryptedFiles, dataTable, uploads>>
        /\ pkResponse'
    BY <1>2 DEF RecvPKRequest, nodeVars, applicant
  <2>2. QED
    BY <2>1 DEF KeyComes
<1>3. CASE RecvPK
  BY <1>3 DEF RecvPK
<1>4. CASE \E f \in File : BroadcastEncryptedFileMessage(f)
  BY <1>4 DEF BroadcastEncryptedFileMessage
<1>5. CASE \E n \in Node, f \in File : RecvEncryptedFile(n, f)
  BY <1>5 DEF RecvEncryptedFile, KeyComes, applicant
<1>6. CASE \E n \in Node, r \in DOMAIN asked : RecvRequestFile(n, r)
  BY <1>6 DEF RecvRequestFile, KeyComes, applicant
<1>7. CASE \/ \E n \in Node : Certify(n)
           \/ \E n \in Node, r \in DOMAIN asked :
                Record(n, r) \/ ExecResponseFile(n, r) \/ RecvResponseFile(n, r)
           \/ \E f \in File : Download(f)
           \/ Finish
           \/ UNCHANGED vars
  <2>1. UNCHANGED <<hasPubKey, crashed, encryptedFiles, dataTable, uploads,
                    pkRequests, pkResponse>>
    BY ZenonT(60), <1>7 DEF Certify, Record, ExecResponseFile, RecvResponseFile, Download, Finish,
       vars, nodeVars, applicant, network
  <2>2. QED
    BY <2>1 DEF KeyComes
<1>8. QED
  BY <1>1, <1>2, <1>3, <1>4, <1>5, <1>6, <1>7 DEF Next, Step

\* What a Download adds to the calls.
LEMMA DownloadFacts ==
  ASSUME TypeOK, NEW f \in File, Download(f)
  PROVE  /\ Current' = Current + 1 /\ Current \in Nat
         /\ DOMAIN asked' = DOMAIN asked \cup {Current'}
         /\ \A r \in DOMAIN asked : asked'[r] = asked[r]
         /\ asked'[Current'].service \in Node
<1>1. PICK s \in ServiceIndex : asked' = Append(asked, [file |-> f, service |-> s])
  BY DEF Download
<1>2. asked \in Seq([file : File, service : Node])
  BY DEF TypeOK
<1>3. [file |-> f, service |-> s] \in [file : File, service : Node]
  BY DEF ServiceIndex, Node
<1>4. s \in Node
  BY DEF ServiceIndex, Node
<1>5. QED
  BY <1>1, <1>2, <1>3, <1>4 DEF Current

\* Requests are recorded before they are served.
LEMMA RecordComesNext ==
  ASSUME TypeOK, RecordComes, [Next]_vars
  PROVE  RecordComes'
<1>1. CASE \E f \in File : Download(f)
  <2>1. PICK f \in File : Download(f)
    BY <1>1
  <2>2. /\ requests' = requests \cup (Node \X {Current'})
        /\ UNCHANGED <<recorded, crashed>>
    BY <2>1 DEF Download, Current, nodeVars
  <2>3. QED
    BY <2>1, <2>2, DownloadFacts DEF RecordComes
<1>2. CASE \E n \in Node, r \in DOMAIN asked : RecvRequestFile(n, r)
  <2>1. PICK n \in Node, r \in DOMAIN asked : RecvRequestFile(n, r)
    BY <1>2
  <2>2. /\ n = asked[r].service => r \in recorded
        /\ requests' = requests \ {<<n, r>>}
        /\ crashed \subseteq crashed'
        /\ UNCHANGED <<recorded, asked>>
    BY <2>1 DEF RecvRequestFile, MayLock, hrVars
  <2>3. QED
    BY <2>2 DEF RecordComes
<1>3. CASE ~\E f \in File : Download(f)
  <2>1. CASE ~\E n \in Node, r \in DOMAIN asked : RecvRequestFile(n, r)
    <3>1. /\ recorded \subseteq recorded'
          /\ UNCHANGED <<crashed, asked, requests>>
      BY ZenonT(60), <1>3, <2>1
      DEF Next, Step, Certify, RecvPKRequest, RecvPK, Upload, RecvEncryptedFile,
         BroadcastEncryptedFileMessage, Record, ExecResponseFile, RecvResponseFile, Finish,
         vars, nodeVars, hrVars, network
    <3>2. QED
      BY <3>1 DEF RecordComes
  <2>2. QED
    BY <1>2, <2>1
<1>4. QED
  BY <1>1, <1>3

LEMMA OneShareNext ==
  ASSUME OneShare, [Next]_vars
  PROVE  OneShare'
<1>1. CASE \E n \in Node, r \in DOMAIN asked : RecvResponseFile(n, r)
  BY <1>1 DEF RecvResponseFile, SetShare, OneShare
<1>2. CASE ~\E n \in Node, r \in DOMAIN asked : RecvResponseFile(n, r)
  <2>1. shareTable' \subseteq shareTable
    BY ZenonT(60), <1>2
    DEF Next, Step, Certify, RecvPKRequest, RecvPK, Upload, RecvEncryptedFile, Download,
       BroadcastEncryptedFileMessage, Record, RecvRequestFile, ExecResponseFile, Finish,
       vars, nodeVars, hrVars, network
  <2>2. QED
    BY <2>1 DEF OneShare
<1>3. QED
  BY <1>1, <1>2

\* Every node that was found ready answers, and its answer is counted.
LEMMA SharesComeNext ==
  ASSUME HInv, HInv', Pending, SharesCome, [Next]_vars
  PROVE  SharesCome'
<1>1. TypeOK
  BY DEF HInv
<1>2. CASE \E f \in File : Download(f)
  <2>1. requests' = requests \cup (Node \X {Current'})
    BY <1>2 DEF Download, Current
  <2>2. QED
    BY <2>1 DEF SharesCome, Outstanding
<1>3. CASE \E n \in Node, r \in DOMAIN asked : RecvRequestFile(n, r)
  <2>1. PICK n \in Node, r \in DOMAIN asked : RecvRequestFile(n, r)
    BY <1>3
  <2>2. /\ requests' = requests \ {<<n, r>>}
        /\ UNCHANGED <<asked, metaFileKey, shareTable, checked, early>>
        /\ responses \subseteq responses'
        /\ FileOf(r) \in dataTable[n] /\ n \in certified => <<n, r>> \in responses'
    BY <2>1 DEF RecvRequestFile, hrVars
  <2>3. ~early => FileOf(r) \in dataTable[n] /\ n \in certified
    BY <2>1 DEF HInv, ReadyWhenServed, RecvRequestFile, FileOf
  <2>4. ~early => Outstanding \subseteq Outstanding'
    BY <2>2, <2>3 DEF Outstanding
  <2>5. QED
    BY <2>2, <2>4 DEF SharesCome, Current
<1>4. CASE \E n \in Node, r \in DOMAIN asked : ExecResponseFile(n, r)
  <2>1. PICK n \in Node, r \in DOMAIN asked : ExecResponseFile(n, r)
    BY <1>4
  <2>2. /\ responses' = responses \ {<<n, r>>}
        /\ UNCHANGED <<asked, metaFileKey, shareTable, requests, early>>
        /\ checked \subseteq checked'
        /\ FileOf(r) = metaFileKey => <<n, r>> \in checked'
    BY <2>1 DEF ExecResponseFile
  <2>3. metaFileKey # None => FileOf(Current) = metaFileKey
    BY DEF Pending, Current, FileOf
  <2>4. \A m \in Node : metaFileKey # None /\ <<m, Current>> \in Outstanding =>
          <<m, Current>> \in Outstanding'
    BY <2>2, <2>3 DEF Outstanding
  <2>5. QED
    BY <2>2, <2>4 DEF SharesCome, Current
<1>5. CASE \E n \in Node, r \in DOMAIN asked : RecvResponseFile(n, r)
  <2>1. PICK n \in Node, r \in DOMAIN asked : RecvResponseFile(n, r)
    BY <1>5
  <2>2. /\ checked' = checked \ {<<n, r>>}
        /\ shareTable' = SetShare(n, FileOf(r))
        /\ UNCHANGED <<asked, metaFileKey, requests, responses, early>>
    BY <2>1 DEF RecvResponseFile, network
  <2>3. CASE Cardinality(shareTable) >= Threshold
    BY <2>2, <2>3 DEF SharesCome, SetShare, Current
  <2>4. CASE ~(Cardinality(shareTable) >= Threshold)
    <3> DEFINE t == <<n, FileOf(r)>>
    <3>1. t[1] = n
      OBVIOUS
    <3> HIDE DEF t
    <3>2. \/ shareTable' = shareTable /\ \E s \in shareTable : s[1] = n
          \/ shareTable' = shareTable \cup {t}
      BY <2>2, <2>4 DEF SetShare, t
    <3>3. shareTable \subseteq shareTable' /\ \E s \in shareTable' : s[1] = n
      BY <3>1, <3>2
    <3>4. QED
      BY <2>2, <2>4, <3>3 DEF SharesCome, Outstanding, Current
  <2>5. QED
    BY <2>3, <2>4
<1>6. CASE Finish
  BY <1>6 DEF Finish, SharesCome
<1>7. CASE \/ \E n \in Node : Certify(n) \/ RecvPKRequest(n)
           \/ RecvPK
           \/ \E f \in File : Upload(f) \/ BroadcastEncryptedFileMessage(f)
           \/ \E n \in Node, f \in File : RecvEncryptedFile(n, f)
           \/ \E n \in Node, r \in DOMAIN asked : Record(n, r)
           \/ UNCHANGED vars
  <2>1. UNCHANGED <<asked, metaFileKey, shareTable, checked, requests, responses, early>>
    BY <1>7 DEF Certify, RecvPKRequest, RecvPK, Upload, BroadcastEncryptedFileMessage,
       RecvEncryptedFile, Record, vars, nodeVars, hrVars, network
  <2>2. QED
    BY <2>1 DEF SharesCome, Outstanding, Current
<1>8. QED
  BY <1>2, <1>3, <1>4, <1>5, <1>6, <1>7 DEF Next, Step

LEMMA SharesFinite ==
  ASSUME TypeOK, OneShare
  PROVE  IsFiniteSet(shareTable) /\ Cardinality(shareTable) \in Nat
<1> DEFINE f == [s \in shareTable |-> s[1]]
<1>1. f \in [shareTable -> Node] /\ \A s, t \in shareTable : f[s] = f[t] => s = t
  BY DEF TypeOK, OneShare
<1> HIDE DEF f
<1>2. f \in Injection(shareTable, Node)
  BY <1>1 DEF Injection, IsInjective
<1>3. QED
  BY <1>2, NodesFinite, FS_Injection, FS_CardinalityType

\* One share of every node fills the table, unless there is one node only.
LEMMA SharesSuffice ==
  ASSUME TypeOK, N > 1, OneShare, \A n \in Node : \E s \in shareTable : s[1] = n
  PROVE  Cardinality(shareTable) >= Threshold
<1> DEFINE g == [n \in Node |-> CHOOSE s \in shareTable : s[1] = n]
<1>1. \A n \in Node : g[n] \in shareTable /\ g[n][1] = n
  OBVIOUS
<1>2. g \in [Node -> shareTable] /\ \A n, m \in Node : g[n] = g[m] => n = m
  BY <1>1
<1> HIDE DEF g
<1>3. g \in Injection(Node, shareTable)
  BY <1>2 DEF Injection, IsInjective
<1>4. IsFiniteSet(shareTable) /\ Cardinality(shareTable) \in Nat
  BY SharesFinite
<1>5. N <= Cardinality(shareTable)
  BY <1>3, <1>4, NodesFinite, FS_Injection
<1>6. Threshold <= N /\ Threshold \in Int
  BY FileExchangeAssumption DEF Threshold, Half
<1>7. QED
  BY <1>4, <1>5, <1>6, FileExchangeAssumption

\* When nothing more happens, no Upload waits: whatever became of the nodes, the key was
\* given by one that was certified, since nobody can kill a node before the first Upload.
THEOREM UploadsDoneAtRest ==
  Spec => [](AtRest => \A f \in File : uploads[f] # "waiting")
<1>1. Init => KeyComes
  BY DEF Init, KeyComes
<1>2. KeyComes => (AtRest => \A f \in File : uploads[f] # "waiting")
  BY DEF KeyComes, AtRest
<1>3. TypeOK /\ KeyComes /\ [Next]_vars => KeyComes'
  BY KeyComesNext
<1>4. QED
  BY <1>1, <1>2, <1>3, TypeCorrect, PTL DEF Spec

\* When nothing more happens, every request is in the chain, unless the node that was to
\* put it there died: a node that waits for its data lock has recorded the request.
THEOREM RequestsRecordedAtRest ==
  Spec => [](AtRest => \A r \in DOMAIN asked :
                         r \in recorded \/ asked[r].service \in crashed)
<1>1. Init => RecordComes
  BY DEF Init, RecordComes
<1>2. RecordComes => (AtRest => \A r \in DOMAIN asked :
                                  r \in recorded \/ asked[r].service \in crashed)
  <2>1. ASSUME RecordComes, AtRest, NEW r \in DOMAIN asked, r \notin recorded
        PROVE  asked[r].service \in crashed
    BY <2>1 DEF RecordComes, AtRest
  <2>2. QED
    BY <2>1
<1>3. TypeOK /\ RecordComes /\ [Next]_vars => RecordComes'
  BY RecordComesNext
<1>4. QED
  BY <1>1, <1>2, <1>3, TypeCorrect, PTL DEF Spec

\* When nothing more happens, a Download that found every node ready has returned: all
\* nodes have given their share, and these are enough.  With one node, two shares are
\* waited for and one is given, so that no Download returns.
THEOREM DownloadsDoneAtRest ==
  ASSUME N > 1
  PROVE  Spec => [](AtRest /\ ~early => metaFileKey = None)
<1> DEFINE I == HInv /\ Pending /\ OneShare /\ SharesCome
<1>1. ASSUME I, AtRest, ~early, metaFileKey # None PROVE FALSE
  <2>1. TypeOK /\ crashed = {} /\ \A n \in Node : writing[n] = {}
    BY <1>1 DEF HInv, HarmlessWhenReady
  <2>2. \A q \in requests : q[1] \in Node
    BY <2>1 DEF TypeOK
  <2>3. Outstanding = {}
    BY <1>1, <2>1, <2>2 DEF AtRest, Outstanding
  <2>4. \/ \A n \in Node : \E s \in shareTable : s[1] = n
        \/ Cardinality(shareTable) >= Threshold
    BY <1>1, <2>3 DEF SharesCome
  <2>5. Cardinality(shareTable) >= Threshold
    BY <1>1, <2>1, <2>4, SharesSuffice
  <2>6. Cardinality(shareTable) < Threshold
    BY <1>1 DEF AtRest
  <2>7. Cardinality(shareTable) \in Int /\ Threshold \in Int
    <3>1. N \in Nat /\ Threshold \in Int
      BY FileExchangeAssumption DEF Threshold, Half
    <3>2. QED
      BY <3>1, <1>1, <2>1, SharesFinite
  <2>8. QED
    BY <2>5, <2>6, <2>7
<1>2. I => (AtRest /\ ~early => metaFileKey = None)
  BY <1>1
<1>3. Init => OneShare /\ SharesCome
  BY DEF Init, OneShare, SharesCome
<1>4. HInv /\ HInv' /\ DInv /\ OneShare /\ SharesCome /\ [Next]_vars =>
        OneShare' /\ SharesCome'
  BY OneShareNext, SharesComeNext DEF DInv
<1>5. HInv /\ DInv /\ OneShare /\ SharesCome => I
  BY DEF DInv
<1> HIDE DEF I
<1>6. QED
  BY <1>2, <1>3, <1>4, <1>5, HInvAlways, DInvAlways, PTL DEF Spec

-----------------------------------------------------------------------------
(* The steps come to an end.                                               *)

Uncertified == Node \ certified
Unrecorded == Call \ recorded
Waiting == {f \in File : uploads[f] = "waiting"}

\* What is left to do: a message counts for itself and for all that its handling may
\* lead to, an Upload for the messages that it sends.
Work ==
  Cardinality(Uncertified) + Cardinality(Unrecorded)
  + 2 * Cardinality(pkRequests) + (IF pkResponse THEN 1 ELSE 0)
  + (N + 1) * Cardinality(Waiting) + Cardinality(encryptedFiles)
  + (3 * Cardinality(requests) + 2 * Cardinality(responses) + Cardinality(checked))
  + (IF metaFileKey # None THEN 1 ELSE 0)

\* There may be any number of files, but only so many were uploaded.
UploadsFinite == IsFiniteSet(Waiting) /\ IsFiniteSet(encryptedFiles)

\* One member less, and one more.
LEMMA OneLess ==
  ASSUME NEW S, IsFiniteSet(S), NEW x \in S
  PROVE  /\ IsFiniteSet(S \ {x})
         /\ Cardinality(S) \in Nat /\ Cardinality(S \ {x}) \in Nat
         /\ Cardinality(S \ {x}) = Cardinality(S) - 1
BY FS_RemoveElement, FS_CardinalityType

LEMMA OneMore ==
  ASSUME NEW S, IsFiniteSet(S), NEW x
  PROVE  /\ IsFiniteSet(S \cup {x})
         /\ Cardinality(S) \in Nat /\ Cardinality(S \cup {x}) \in Nat
         /\ Cardinality(S \cup {x}) <= Cardinality(S) + 1
<1>1. Cardinality(S) \in Nat
  BY FS_CardinalityType
<1>2. QED
  BY <1>1, FS_AddElement, FS_CardinalityType

\* A message to every node.
LEMMA ToAll ==
  ASSUME NEW S, IsFiniteSet(S), NEW x
  PROVE  /\ IsFiniteSet(S \cup (Node \X {x}))
         /\ Cardinality(S) \in Nat /\ Cardinality(S \cup (Node \X {x})) \in Nat
         /\ Cardinality(S \cup (Node \X {x})) <= Cardinality(S) + N
<1> DEFINE T == Node \X {x}
           g == [n \in Node |-> <<n, x>>]
<1>1. g \in [Node -> T] /\ \A t \in T : \E n \in Node : g[n] = t
  OBVIOUS
<1>2. g \in Surjection(Node, T)
  BY <1>1 DEF Surjection
<1>3. IsFiniteSet(T) /\ Cardinality(T) <= N
  BY <1>2, NodesFinite, FS_Surjection
<1> HIDE DEF T, g
<1>4. /\ IsFiniteSet(S \cup T)
      /\ Cardinality(S \cup T) = Cardinality(S) + Cardinality(T) - Cardinality(S \cap T)
      /\ IsFiniteSet(S \cap T)
  BY <1>3, FS_Union, FS_Intersection
<1>5. /\ Cardinality(S) \in Nat /\ Cardinality(T) \in Nat
      /\ Cardinality(S \cap T) \in Nat /\ Cardinality(S \cup T) \in Nat
  BY <1>3, <1>4, FS_CardinalityType
<1>6. N \in Nat
  BY FileExchangeAssumption
<1>7. Cardinality(S \cup T) <= Cardinality(S) + N
  BY <1>3, <1>4, <1>5, <1>6
<1>8. QED
  BY <1>4, <1>5, <1>7 DEF T

\* What Work counts is finite.
LEMMA Sizes ==
  ASSUME TypeOK, UploadsFinite
  PROVE  /\ \A S \in {Uncertified, Unrecorded, pkRequests, Waiting, encryptedFiles,
                      requests, responses, checked} :
              IsFiniteSet(S) /\ Cardinality(S) \in Nat
         /\ (IF pkResponse THEN 1 ELSE 0) \in Nat
         /\ (IF metaFileKey # None THEN 1 ELSE 0) \in Nat
<1>1. IsFiniteSet(Node) /\ IsFiniteSet(Call)
  <2>1. MaxDownloads \in Nat
    BY FileExchangeAssumption
  <2>2. QED
    BY <2>1, NodesFinite, FS_Interval DEF Call
<1>2. IsFiniteSet(Node \X Call)
  BY <1>1, FS_Product
<1>3. /\ Uncertified \subseteq Node /\ pkRequests \subseteq Node
      /\ Unrecorded \subseteq Call
      /\ requests \subseteq Node \X Call
      /\ responses \subseteq Node \X Call
      /\ checked \subseteq Node \X Call
  BY DEF TypeOK, Uncertified, Unrecorded
<1>4. \A S \in {Uncertified, Unrecorded, pkRequests, Waiting, encryptedFiles,
                requests, responses, checked} : IsFiniteSet(S)
  <2>1. IsFiniteSet(Uncertified) /\ IsFiniteSet(pkRequests)
    BY <1>1, <1>3, FS_Subset
  <2>2. IsFiniteSet(Unrecorded)
    BY <1>1, <1>3, FS_Subset
  <2>3. IsFiniteSet(requests) /\ IsFiniteSet(responses) /\ IsFiniteSet(checked)
    BY <1>2, <1>3, FS_Subset
  <2>4. QED
    BY <2>1, <2>2, <2>3 DEF UploadsFinite
<1>5. QED
  BY <1>4, FS_CardinalityType

\* Only an Upload makes another one wait, and a broadcast is one message to each node.
LEMMA UploadsFiniteNext ==
  ASSUME TypeOK, UploadsFinite, [Next]_vars
  PROVE  UploadsFinite'
<1>1. ASSUME NEW f \in File, Upload(f) PROVE UploadsFinite'
  <2>1. Waiting' = Waiting \cup {f} /\ encryptedFiles' = encryptedFiles
    BY <1>1 DEF Upload, Waiting, TypeOK
  <2>2. QED
    BY <2>1, OneMore DEF UploadsFinite
<1>2. ASSUME NEW f \in File, BroadcastEncryptedFileMessage(f) PROVE UploadsFinite'
  <2>1. /\ Waiting' = Waiting \ {f}
        /\ encryptedFiles' = encryptedFiles \cup (Node \X {f})
    BY <1>2 DEF BroadcastEncryptedFileMessage, Waiting, TypeOK
  <2>2. QED
    BY <2>1, ToAll, FS_Difference DEF UploadsFinite
<1>3. ASSUME NEW n \in Node, NEW f \in File, RecvEncryptedFile(n, f) PROVE UploadsFinite'
  <2>1. Waiting' = Waiting /\ encryptedFiles' = encryptedFiles \ {<<n, f>>}
    BY <1>3 DEF RecvEncryptedFile, Waiting, applicant
  <2>2. QED
    BY <2>1, FS_Difference DEF UploadsFinite
<1>4. CASE \/ \E n \in Node : Certify(n) \/ RecvPKRequest(n)
           \/ \E n \in Node, r \in DOMAIN asked :
                \/ Record(n, r) \/ RecvRequestFile(n, r)
                \/ ExecResponseFile(n, r) \/ RecvResponseFile(n, r)
           \/ \E f \in File : Download(f)
           \/ RecvPK
           \/ Finish
           \/ UNCHANGED vars
  <2>1. UNCHANGED <<uploads, encryptedFiles>>
    BY ZenonT(60), <1>4 DEF Certify, RecvPKRequest, Record, RecvRequestFile, ExecResponseFile,
       RecvResponseFile, Download, RecvPK, Finish, vars, applicant, network
  <2>2. QED
    BY <2>1 DEF UploadsFinite, Waiting
<1>5. QED
  BY <1>1, <1>2, <1>3, <1>4 DEF Next, Step

LEMMA WorkNat ==
  ASSUME TypeOK, UploadsFinite
  PROVE  /\ Work \in Nat
         /\ (N + 1) * Cardinality(Waiting) \in Nat
<1>1. N + 1 \in Nat
  BY FileExchangeAssumption
<1>2. \A a, b \in Nat : a * b \in Nat
  OBVIOUS
<1>3. (N + 1) * Cardinality(Waiting) \in Nat
  BY <1>1, <1>2, Sizes
<1> DEFINE w == (N + 1) * Cardinality(Waiting)
<1> HIDE DEF w
<1>4. /\ Cardinality(Uncertified) \in Nat /\ Cardinality(Unrecorded) \in Nat
      /\ Cardinality(pkRequests) \in Nat /\ Cardinality(encryptedFiles) \in Nat
      /\ Cardinality(requests) \in Nat /\ Cardinality(responses) \in Nat
      /\ Cardinality(checked) \in Nat
      /\ (IF pkResponse THEN 1 ELSE 0) \in Nat
      /\ (IF metaFileKey # None THEN 1 ELSE 0) \in Nat
  BY Sizes
<1>5. QED
  BY <1>3, <1>4 DEF Work, w

\* The steps about the key and the upload.
LEMMA LessToUpload ==
  ASSUME TypeOK, UploadsFinite, Work \in Nat,
         \/ \E n \in Node : Certify(n) \/ RecvPKRequest(n)
         \/ RecvPK
         \/ \E f \in File : BroadcastEncryptedFileMessage(f)
         \/ \E n \in Node, f \in File : RecvEncryptedFile(n, f)
  PROVE  Work' < Work
<1> DEFINE w == (N + 1) * Cardinality(Waiting)
           u == Cardinality(Uncertified)
           v == Cardinality(Unrecorded)
           k == Cardinality(pkRequests)
           p == IF pkResponse THEN 1 ELSE 0
           e == Cardinality(encryptedFiles)
           q == 3 * Cardinality(requests) + 2 * Cardinality(responses)
                + Cardinality(checked)
           m == IF metaFileKey # None THEN 1 ELSE 0
<1>0. /\ w \in Nat /\ u \in Nat /\ v \in Nat /\ k \in Nat /\ p \in Nat /\ e \in Nat
      /\ q \in Nat /\ m \in Nat
      /\ Work = u + v + 2 * k + p + w + e + q + m
      /\ Work' = u' + v' + 2 * k' + p' + w' + e' + q' + m'
  <2>1. /\ Cardinality(requests) \in Nat /\ Cardinality(responses) \in Nat
        /\ Cardinality(checked) \in Nat
    BY Sizes
  <2>2. u \in Nat /\ v \in Nat /\ k \in Nat /\ e \in Nat /\ p \in Nat /\ m \in Nat
    BY Sizes
  <2>3. w \in Nat
    BY WorkNat
  <2>4. q \in Nat
    BY <2>1
  <2>5. /\ Work = u + v + 2 * k + p + w + e + q + m
        /\ Work' = u' + v' + 2 * k' + p' + w' + e' + q' + m'
    BY DEF Work
  <2>6. QED
    BY <2>2, <2>3, <2>4, <2>5
<1>1. ASSUME NEW n \in Node, Certify(n) PROVE Work' < Work
  <2>1. UNCHANGED <<uploads, recorded, pkRequests, pkResponse, encryptedFiles, requests,
                    responses, checked, metaFileKey>>
    BY <1>1 DEF Certify, applicant, hrVars, network
  <2>2. Uncertified' = Uncertified \ {n} /\ n \in Uncertified
    BY <1>1 DEF Certify, Uncertified
  <2>3. u' = u - 1
    BY <2>2, Sizes, OneLess
  <2>4. UNCHANGED <<w, v, k, p, e, q, m>>
    BY <2>1 DEF Waiting, Unrecorded
  <2> HIDE DEF w, u, v, k, p, e, q, m
  <2>5. QED
    BY <1>0, <2>3, <2>4
<1>2. ASSUME NEW n \in Node, RecvPKRequest(n) PROVE Work' < Work
  <2>1. UNCHANGED <<uploads, recorded, certified, encryptedFiles, requests,
                    responses, checked, metaFileKey>>
    BY <1>2 DEF RecvPKRequest, nodeVars, applicant, hrVars
  <2>2. pkRequests' = pkRequests \ {n} /\ n \in pkRequests /\ p' <= 1
    BY <1>2 DEF RecvPKRequest
  <2>3. k' = k - 1
    BY <2>2, Sizes, OneLess
  <2>4. UNCHANGED <<w, u, v, e, q, m>>
    BY <2>1 DEF Waiting, Unrecorded, Uncertified
  <2>5. p' \in Nat
    OBVIOUS
  <2> HIDE DEF w, u, v, k, p, e, q, m
  <2>6. Work' = u + v + 2 * (k - 1) + p' + w + e + q + m
    BY <1>0, <2>3, <2>4
  <2>7. p' <= 1
    BY <2>2
  <2>8. \A i \in Nat : i <= 1 =>
          u + v + 2 * (k - 1) + i + w + e + q + m < u + v + 2 * k + p + w + e + q + m
    BY <1>0
  <2>9. QED
    BY <1>0, <2>5, <2>6, <2>7, <2>8
<1>3. CASE RecvPK
  <2>1. UNCHANGED <<uploads, recorded, certified, pkRequests, encryptedFiles, requests,
                    responses, checked, metaFileKey>>
    BY <1>3 DEF RecvPK, nodeVars, hrVars
  <2>2. p = 1 /\ p' = 0
    BY <1>3 DEF RecvPK
  <2>3. UNCHANGED <<w, u, v, k, e, q, m>>
    BY <2>1 DEF Waiting, Unrecorded, Uncertified
  <2> HIDE DEF w, u, v, k, p, e, q, m
  <2>4. QED
    BY <1>0, <2>2, <2>3
<1>4. ASSUME NEW f \in File, BroadcastEncryptedFileMessage(f) PROVE Work' < Work
  <2>1. UNCHANGED <<recorded, certified, pkRequests, pkResponse, requests,
                    responses, checked, metaFileKey>>
    BY <1>4 DEF BroadcastEncryptedFileMessage, nodeVars, hrVars
  <2>2. /\ Waiting' = Waiting \ {f} /\ f \in Waiting
        /\ encryptedFiles' = encryptedFiles \cup (Node \X {f})
    BY <1>4 DEF BroadcastEncryptedFileMessage, Waiting, TypeOK
  <2>3. e' <= e + N /\ e' \in Nat
    BY <2>2, ToAll DEF UploadsFinite
  <2>4. w' = w - (N + 1) /\ N + 1 \in Nat
    <3>1. /\ Cardinality(Waiting') = Cardinality(Waiting) - 1
          /\ Cardinality(Waiting) \in Nat
      BY <2>2, OneLess DEF UploadsFinite
    <3>2. N + 1 \in Nat
      BY FileExchangeAssumption
    <3>3. \A a, b \in Nat : a * (b - 1) = a * b - a
      OBVIOUS
    <3>4. QED
      BY <3>1, <3>2, <3>3
  <2>5. UNCHANGED <<u, v, k, p, q, m>>
    BY <2>1 DEF Unrecorded, Uncertified
  <2> HIDE DEF w, u, v, k, p, e, q, m
  <2>6. Work' = u + v + 2 * k + p + w' + e' + q + m
    BY <1>0, <2>5
  <2>7. N \in Nat
    BY FileExchangeAssumption
  <2>8. \A i \in Nat : i <= e + N =>
          u + v + 2 * k + p + (w - (N + 1)) + i + q + m < u + v + 2 * k + p + w + e + q + m
    BY <1>0, <2>7
  <2>9. QED
    BY <1>0, <2>3, <2>4, <2>6, <2>8
<1>5. ASSUME NEW n \in Node, NEW f \in File, RecvEncryptedFile(n, f) PROVE Work' < Work
  <2>1. UNCHANGED <<uploads, recorded, certified, pkRequests, pkResponse, requests,
                    responses, checked, metaFileKey>>
    BY <1>5 DEF RecvEncryptedFile, applicant, hrVars
  <2>2. encryptedFiles' = encryptedFiles \ {<<n, f>>} /\ <<n, f>> \in encryptedFiles
    BY <1>5 DEF RecvEncryptedFile
  <2>3. e' = e - 1
    BY <2>2, OneLess DEF UploadsFinite
  <2>4. UNCHANGED <<w, u, v, k, p, q, m>>
    BY <2>1 DEF Waiting, Unrecorded, Uncertified
  <2> HIDE DEF w, u, v, k, p, e, q, m
  <2>5. QED
    BY <1>0, <2>3, <2>4
<1>6. QED
  BY <1>1, <1>2, <1>3, <1>4, <1>5

\* The steps about a download.
LEMMA LessToDownload ==
  ASSUME TypeOK, UploadsFinite, Work \in Nat,
         \/ \E n \in Node, r \in DOMAIN asked :
              \/ Record(n, r) \/ RecvRequestFile(n, r)
              \/ ExecResponseFile(n, r) \/ RecvResponseFile(n, r)
         \/ Finish
  PROVE  Work' < Work
<1> DEFINE w == (N + 1) * Cardinality(Waiting)
           u == Cardinality(Uncertified)
           v == Cardinality(Unrecorded)
           k == 2 * Cardinality(pkRequests)
           p == IF pkResponse THEN 1 ELSE 0
           e == Cardinality(encryptedFiles)
           a == Cardinality(requests)
           b == Cardinality(responses)
           c == Cardinality(checked)
           m == IF metaFileKey # None THEN 1 ELSE 0
<1>0. /\ w \in Nat /\ u \in Nat /\ v \in Nat /\ k \in Nat /\ p \in Nat /\ e \in Nat
      /\ a \in Nat /\ b \in Nat /\ c \in Nat /\ m \in Nat
      /\ Work = u + v + k + p + w + e + (3 * a + 2 * b + c) + m
      /\ Work' = u' + v' + k' + p' + w' + e' + (3 * a' + 2 * b' + c') + m'
  <2>1. /\ u \in Nat /\ v \in Nat /\ k \in Nat /\ p \in Nat /\ e \in Nat
        /\ a \in Nat /\ b \in Nat /\ c \in Nat /\ m \in Nat
    BY Sizes
  <2>2. w \in Nat
    BY WorkNat
  <2>3. /\ Work = u + v + k + p + w + e + (3 * a + 2 * b + c) + m
        /\ Work' = u' + v' + k' + p' + w' + e' + (3 * a' + 2 * b' + c') + m'
    BY DEF Work
  <2>4. QED
    BY <2>1, <2>2, <2>3
<1>1. ASSUME NEW n \in Node, NEW r \in DOMAIN asked, Record(n, r) PROVE Work' < Work
  <2>1. UNCHANGED <<uploads, certified, pkRequests, pkResponse, encryptedFiles, requests,
                    responses, checked, metaFileKey>>
    BY <1>1 DEF Record, applicant, hrVars, network
  <2>2. Unrecorded' = Unrecorded \ {r} /\ r \in Unrecorded
    BY <1>1 DEF Record, Unrecorded, TypeOK
  <2>3. v' = v - 1
    BY <2>2, Sizes, OneLess
  <2>4. UNCHANGED <<w, u, k, p, e, a, b, c, m>>
    BY <2>1 DEF Waiting, Uncertified
  <2> HIDE DEF w, u, v, k, p, e, a, b, c, m
  <2>5. QED
    BY <1>0, <2>3, <2>4
<1>2. ASSUME NEW n \in Node, NEW r \in DOMAIN asked, RecvRequestFile(n, r)
      PROVE  Work' < Work
  <2>1. UNCHANGED <<uploads, recorded, certified, pkRequests, pkResponse, encryptedFiles,
                    checked, metaFileKey>>
    BY <1>2 DEF RecvRequestFile, applicant, hrVars
  <2>2. requests' = requests \ {<<n, r>>} /\ <<n, r>> \in requests
    BY <1>2 DEF RecvRequestFile
  <2>3. a' = a - 1
    BY <2>2, Sizes, OneLess
  <2>4. b' \in Nat /\ b' <= b + 1
    <3>1. responses' = responses \/ responses' = responses \cup {<<n, r>>}
      BY <1>2 DEF RecvRequestFile
    <3>2. IsFiniteSet(responses) /\ b \in Nat
      BY Sizes
    <3>3. CASE responses' = responses
      BY <3>2, <3>3
    <3>4. CASE responses' = responses \cup {<<n, r>>}
      BY <3>2, <3>4, OneMore
    <3>5. QED
      BY <3>1, <3>3, <3>4
  <2>5. UNCHANGED <<w, u, v, k, p, e, c, m>>
    BY <2>1 DEF Waiting, Uncertified, Unrecorded
  <2> HIDE DEF w, u, v, k, p, e, a, b, c, m
  <2>6. Work' = u + v + k + p + w + e + (3 * (a - 1) + 2 * b' + c) + m
    BY <1>0, <2>3, <2>5
  <2>7. \A i \in Nat : i <= b + 1 =>
          u + v + k + p + w + e + (3 * (a - 1) + 2 * i + c) + m
            < u + v + k + p + w + e + (3 * a + 2 * b + c) + m
    BY <1>0
  <2>8. QED
    BY <1>0, <2>4, <2>6, <2>7
<1>3. ASSUME NEW n \in Node, NEW r \in DOMAIN asked, ExecResponseFile(n, r)
      PROVE  Work' < Work
  <2>1. UNCHANGED <<uploads, recorded, certified, pkRequests, pkResponse, encryptedFiles,
                    requests, metaFileKey>>
    BY <1>3 DEF ExecResponseFile, nodeVars, applicant
  <2>2. responses' = responses \ {<<n, r>>} /\ <<n, r>> \in responses
    BY <1>3 DEF ExecResponseFile
  <2>3. b' = b - 1
    BY <2>2, Sizes, OneLess
  <2>4. c' \in Nat /\ c' <= c + 1
    <3>1. checked' = checked \/ checked' = checked \cup {<<n, r>>}
      BY <1>3 DEF ExecResponseFile
    <3>2. IsFiniteSet(checked) /\ c \in Nat
      BY Sizes
    <3>3. CASE checked' = checked
      BY <3>2, <3>3
    <3>4. CASE checked' = checked \cup {<<n, r>>}
      BY <3>2, <3>4, OneMore
    <3>5. QED
      BY <3>1, <3>3, <3>4
  <2>5. UNCHANGED <<w, u, v, k, p, e, a, m>>
    BY <2>1 DEF Waiting, Uncertified, Unrecorded
  <2> HIDE DEF w, u, v, k, p, e, a, b, c, m
  <2>6. Work' = u + v + k + p + w + e + (3 * a + 2 * (b - 1) + c') + m
    BY <1>0, <2>3, <2>5
  <2>7. \A i \in Nat : i <= c + 1 =>
          u + v + k + p + w + e + (3 * a + 2 * (b - 1) + i) + m
            < u + v + k + p + w + e + (3 * a + 2 * b + c) + m
    BY <1>0
  <2>8. QED
    BY <1>0, <2>4, <2>6, <2>7
<1>4. ASSUME NEW n \in Node, NEW r \in DOMAIN asked, RecvResponseFile(n, r)
      PROVE  Work' < Work
  <2>1. UNCHANGED <<uploads, recorded, certified, pkRequests, pkResponse, encryptedFiles,
                    requests, responses, metaFileKey>>
    BY <1>4 DEF RecvResponseFile, nodeVars, applicant, network
  <2>2. checked' = checked \ {<<n, r>>} /\ <<n, r>> \in checked
    BY <1>4 DEF RecvResponseFile
  <2>3. c' = c - 1
    BY <2>2, Sizes, OneLess
  <2>4. UNCHANGED <<w, u, v, k, p, e, a, b, m>>
    BY <2>1 DEF Waiting, Uncertified, Unrecorded
  <2> HIDE DEF w, u, v, k, p, e, a, b, c, m
  <2>5. QED
    BY <1>0, <2>3, <2>4
<1>5. CASE Finish
  <2>1. UNCHANGED <<uploads, recorded, certified, pkRequests, pkResponse, encryptedFiles,
                    requests, responses, checked>>
    BY <1>5 DEF Finish, nodeVars, applicant, network
  <2>2. m = 1 /\ m' = 0
    BY <1>5 DEF Finish
  <2>3. UNCHANGED <<w, u, v, k, p, e, a, b, c>>
    BY <2>1 DEF Waiting, Uncertified, Unrecorded
  <2> HIDE DEF w, u, v, k, p, e, a, b, c, m
  <2>4. QED
    BY <1>0, <2>2, <2>3
<1>6. QED
  BY <1>1, <1>2, <1>3, <1>4, <1>5

\* Every step that is not a call of a user leaves less to do.  Work is a number, so that
\* after the last call there are so many steps at most, and then the state is AtRest.
THEOREM StepsEnd == Spec => [](Work \in Nat) /\ [][Step => Work' < Work]_vars
<1>1. Init => UploadsFinite
  <2>1. ASSUME Init PROVE Waiting = {}
    BY <2>1 DEF Init, Waiting
  <2>2. QED
    BY <2>1, FS_EmptySet DEF Init, UploadsFinite
<1>2. TypeOK /\ UploadsFinite /\ [Next]_vars => UploadsFinite'
  BY UploadsFiniteNext
<1>3. TypeOK /\ UploadsFinite => Work \in Nat
  BY WorkNat
<1>4. TypeOK /\ UploadsFinite => [Step => Work' < Work]_vars
  <2>1. ASSUME TypeOK, UploadsFinite, Step PROVE Work' < Work
    BY <2>1, <1>3, LessToUpload, LessToDownload DEF Step
  <2>2. QED
    BY <2>1
<1>5. QED
  BY <1>1, <1>2, <1>3, <1>4, TypeCorrect, PTL DEF Spec

=============================================================================
